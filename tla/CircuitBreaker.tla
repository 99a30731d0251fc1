---------------------------- MODULE CircuitBreaker ----------------------------
(***************************************************************************)
(* The circuit breaker of one gateway and the calls that overlap in it.    *)
(*                                                                         *)
(* Asking for permission and recording the outcome each take the mutex,    *)
(* but the call in between does not, so an outcome may be recorded in      *)
(* another state than the one its call was allowed in: after the breaker   *)
(* has opened, while others probe, or after it has closed again.  A call   *)
(* whose future is dropped, by a timeout around it for example, records    *)
(* nothing.                                                                *)
(*                                                                         *)
(* Time is abstracted to whether the cooldown has passed.                  *)
(*                                                                         *)
(* Source: crates/nexus-client/src/circuit_breaker.rs.                     *)
(***************************************************************************)
EXTENDS Integers, Sequences, FiniteSets

CONSTANTS
    Calls,              \* places for calls under way; a place is used again
    window_size,
    min_samples,
    FailureShare,       \* failure_threshold = FailureShare / OfShares
    OfShares

VARIABLES
    state,              \* Inner::state
    outcomes,           \* Inner::outcomes, the oldest first
    cooled,             \* opened_at.elapsed() >= cooldown
    call,               \* the call at each place, by how it was allowed
    up                  \* whether the capability answers everything

vars == <<state, outcomes, cooled, call, up>>

ASSUME BreakerAssumption ==
    /\ window_size \in Nat \ {0}
    /\ min_samples \in Nat \ {0}
    /\ FailureShare \in Nat
    /\ OfShares \in Nat \ {0}

States == {"Closed", "Open", "HalfOpen"}

TypeOK ==
    /\ state \in States
    /\ outcomes \in Seq(BOOLEAN)
    /\ Len(outcomes) <= window_size
    /\ cooled \in BOOLEAN
    /\ call \in [Calls -> {"none", "routine", "probe"}]
    /\ up \in BOOLEAN

Init ==
    /\ state = "Closed"
    /\ outcomes = <<>>
    /\ cooled = FALSE
    /\ call = [c \in Calls |-> "none"]
    /\ up = TRUE

-----------------------------------------------------------------------------
\* The failures of a window, and whether they are too many.
Failures(w) == Cardinality({n \in DOMAIN w : ~w[n]})

Tripped(w) ==
    /\ Len(w) >= min_samples
    /\ Failures(w) * OfShares >= FailureShare * Len(w)

\* A window holds window_size outcomes at most.
KeepEverything(w, ok) == Append(w, ok)
Slide(w, ok) == IF Len(w) < window_size THEN Append(w, ok) ELSE Append(Tail(w), ok)

RecordClosed(ok) ==
    /\ state = "Closed"
    /\ outcomes' = Slide(outcomes, ok)
    /\ IF Tripped(outcomes')
       THEN state' = "Open" /\ cooled' = FALSE
       ELSE UNCHANGED <<state, cooled>>

\* Any outcome recorded now is taken for the probe's.
CloseKeepingWindow(ok) ==
    /\ state = "HalfOpen"
    /\ state' = IF ok THEN "Closed" ELSE "Open"
    /\ cooled' = FALSE
    /\ UNCHANGED outcomes

RecordHalfOpen(ok) ==
    /\ state = "HalfOpen"
    /\ state' = IF ok THEN "Closed" ELSE "Open"
    /\ outcomes' = <<>>
    /\ cooled' = FALSE

\* A call that started before the breaker opened: nothing to update.
LateSuccessCloses(ok) ==
    /\ state = "Open"
    /\ state' = IF ok THEN "Closed" ELSE "Open"
    /\ outcomes' = IF ok THEN <<>> ELSE outcomes
    /\ UNCHANGED cooled

RecordOpen(ok) ==
    /\ state = "Open"
    /\ UNCHANGED <<state, outcomes, cooled>>

Record(ok) == RecordClosed(ok) \/ RecordHalfOpen(ok) \/ RecordOpen(ok)

-----------------------------------------------------------------------------
\* allow_call answers true.  Where it answers false, the caller is told
\* CircuitOpen and nothing changes.
NeverProbes(c) ==
    /\ call[c] = "none"
    /\ state = "Closed"
    /\ call' = [call EXCEPT ![c] = "routine"]
    /\ UNCHANGED <<state, outcomes, cooled, up>>

Allow(c) ==
    /\ call[c] = "none"
    /\ state = "Open" => cooled
    /\ state' = IF state = "Open" THEN "HalfOpen" ELSE state
    /\ call' = [call EXCEPT ![c] = IF state = "Closed" THEN "routine" ELSE "probe"]
    /\ UNCHANGED <<outcomes, cooled, up>>

\* The response is not a server error.
Succeed(c) ==
    /\ call[c] # "none"
    /\ Record(TRUE)
    /\ call' = [call EXCEPT ![c] = "none"]
    /\ UNCHANGED up

\* A server error, or no response.
Fail(c) ==
    /\ call[c] # "none"
    /\ ~up
    /\ Record(FALSE)
    /\ call' = [call EXCEPT ![c] = "none"]
    /\ UNCHANGED up

\* The future of the call is dropped while it waits.
Abandon(c) ==
    /\ call[c] # "none"
    /\ call' = [call EXCEPT ![c] = "none"]
    /\ UNCHANGED <<state, outcomes, cooled, up>>

CooldownPasses ==
    /\ state = "Open"
    /\ ~cooled
    /\ cooled' = TRUE
    /\ UNCHANGED <<state, outcomes, call, up>>

\* The capability starts failing calls, or stops.
HealthChanges ==
    /\ up' = ~up
    /\ UNCHANGED <<state, outcomes, cooled, call>>

Next ==
    \/ \E c \in Calls : Allow(c) \/ Succeed(c) \/ Fail(c) \/ Abandon(c)
    \/ CooldownPasses
    \/ HealthChanges

Spec == Init /\ [][Next]_vars

\* Consultants keep calling, and do not give up every call before its answer.
Fairness ==
    /\ WF_vars(CooldownPasses)
    /\ \A c \in Calls : WF_vars(Allow(c)) /\ SF_vars(Succeed(c))

FairSpec == Spec /\ Fairness

-----------------------------------------------------------------------------
(* Properties.                                                             *)

\* A closed breaker never sits on a window it should have opened for: what it
\* saw before it opened is forgotten when it closes, whichever of the calls
\* that overlap closes it.
ClosedMeansHealthy == state = "Closed" => ~Tripped(outcomes)

\* Results of calls allowed before the breaker opened, arriving while it is
\* open, neither close it nor start the cooldown over.
OpenOutlastsLateResults ==
    [][state = "Open" =>
        /\ state' # "Closed"
        /\ cooled => cooled' \/ state' = "HalfOpen"]_vars

\* Once the capability answers for good, the breaker ends up closed for good:
\* neither late failures nor abandoned probes wedge it.
Recovers == <>[]up => <>[](state = "Closed")

\* The fairness of FairSpec with the guards of its actions written out.
Asked(c) == call[c] = "none" /\ (state = "Open" => cooled)

Polled ==
    /\ []<>~(state = "Open" /\ ~cooled) \/ []<><<CooldownPasses>>_vars
    /\ \A c \in Calls :
           /\ []<>~Asked(c) \/ []<><<Allow(c)>>_vars
           /\ <>[](call[c] = "none") \/ []<><<Succeed(c)>>_vars

\* "allows a single half-open probe".
SingleProbe == Cardinality({c \in Calls : call[c] = "probe"}) <= 1

=============================================================================
