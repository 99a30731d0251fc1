--------------------------- MODULE CapabilityCalls ---------------------------
(***************************************************************************)
(* A request to a capability route, from its session cookie to its answer: *)
(* the session lookup, the permission, and the attempts of the transport   *)
(* stack to get an answer out of Nexus.                                    *)
(*                                                                         *)
(* An attempt that times out is given up here, not there: Nexus may run it *)
(* later, while the next attempt is under way, or after the consultant has *)
(* been told that the service is unavailable.                              *)
(*                                                                         *)
(* The permission itself is decided by PermissionCache; here a consultant  *)
(* has it or not. Time is abstracted to the possibility of each timeout.   *)
(***************************************************************************)
EXTENDS LoginSessions, CapabilityRoutes

CONSTANTS
    Served,    \* names of the routes that are requested
    Granted    \* the <<consultant, capability>> pairs Armor grants

VARIABLE call  \* the handler of each request, and what Nexus has of it

callVars == <<call>>
portalVars == <<loginVars, call>>

NoCall == [at |-> "idle"]

\* `left`: retries left; `late`: copies given up that Nexus may still run;
\* `runs`: how often Nexus has run it; `status`: the answer, 0 before it.
Handler(route, at, left, late, runs, status) ==
    [at |-> at, route |-> route, left |-> left, late |-> late, runs |-> runs, status |-> status]

CallInit == LoginInit /\ call = [r \in Requests |-> NoCall]

-----------------------------------------------------------------------------
\* The middleware lets the request through to its handler.
BeginCall(r, s, route) ==
    /\ call[r] = NoCall
    /\ RequireSession(r, s)
    /\ call' = [call EXCEPT ![r] = Handler(route, "gate", route.retries, 0, 0, 0)]

\* is_permitted
Permitted(r) == <<request[r].consultant, call[r].route.gate>> \in Granted

Answer(r, status) ==
    call' = [call EXCEPT ![r] = [@ EXCEPT !.at = "answered", !.left = 0, !.status = status]]

\* 403; 400 for a query that names neither a proposal nor a topic.
Refuse(r, status) ==
    /\ call[r].at = "gate"
    /\ \/ ~Permitted(r) /\ status = 403
       \/ Permitted(r) /\ call[r].route.context /\ status = 400
    /\ Answer(r, status)
    /\ UNCHANGED loginVars

\* A defect: the call is made first, and what comes back is withheld.
StartUnasked(r) ==
    /\ call[r].at = "gate"
    /\ call' = [call EXCEPT ![r].at = "token"]
    /\ UNCHANGED loginVars

StartCall(r) ==
    /\ call[r].at = "gate"
    /\ Permitted(r)
    /\ call' = [call EXCEPT ![r].at = "token"]
    /\ UNCHANGED loginVars

\* fetch_identity_token has a token or gives up, and the request goes out.
SendAttempt(r) ==
    /\ call[r].at = "token"
    /\ call' = [call EXCEPT ![r].at = "sent"]
    /\ UNCHANGED loginVars

\* Nexus has the capability run the attempt that is waited for ...
NexusRuns(r) ==
    /\ call[r].at = "sent"
    /\ call' = [call EXCEPT ![r] = [@ EXCEPT !.at = "run", !.runs = call[r].runs + 1]]
    /\ UNCHANGED loginVars

\* ... or one that was given up, or such an attempt is lost.
LateCopy(r) ==
    /\ call[r].at # "idle"
    /\ call[r].late > 0
    /\ \E n \in {0, 1} :
           call' = [call EXCEPT ![r] = [@ EXCEPT !.late = call[r].late - 1, !.runs = call[r].runs + n]]
    /\ UNCHANGED loginVars

\* A defect: nothing bounds the wait for an answer.
UntimedResults(at) ==
    CASE at = "sent" -> {"request", "5xx", "bad"}
      [] at = "run" -> {"request", "5xx", "bad", "ok"}
      [] OTHER -> {}

\* What an attempt can come to, by how far it got. The timeout covers the
\* token as well. An answer "bad" is a 4xx, a body that is not JSON, or an
\* envelope with success = false.
Results(at) ==
    CASE at = "token" -> {"timeout"}
      [] at = "sent" -> {"timeout", "request", "5xx", "bad"}
      [] at = "run" -> {"timeout", "request", "5xx", "bad", "ok"}
      [] OTHER -> {}

IsRetriable(result) == result \in {"timeout", "request", "5xx"}

\* What CapabilityCaller and the gateway take for an answer; a defect is not to
\* look at the status.
AnyResponse(result) == result \in {"ok", "5xx", "bad"}
Succeeded(result) == result = "ok"

\* The copies Nexus may still have once the attempt is given up.
Abandoned(r, result) ==
    IF call[r].at = "sent" /\ result \in {"timeout", "request"}
    THEN call[r].late + 1 ELSE call[r].late

\* RetryingTransport goes around again, after its backoff ...
RetryAttempt(r, result) ==
    /\ call[r].at \in {"token", "sent", "run"}
    /\ result \in Results(call[r].at)
    /\ IsRetriable(result) /\ call[r].left > 0
    /\ call' = [call EXCEPT ![r] = [@ EXCEPT !.at = "token", !.left = call[r].left - 1,
                                             !.late = Abandoned(r, result)]]
    /\ UNCHANGED loginVars

\* ... or returns: 200 relays the answer, if the gateway could parse it, and
\* everything else is 502.
FinishCall(r, result, status) ==
    /\ call[r].at \in {"token", "sent", "run"}
    /\ result \in Results(call[r].at)
    /\ ~(IsRetriable(result) /\ call[r].left > 0)
    /\ \/ Succeeded(result) /\ status = 200
       \/ (~Succeeded(result) \/ call[r].route.shaped) /\ status = 502
    /\ call' = [call EXCEPT ![r] = [@ EXCEPT !.at = "answered", !.left = 0, !.status = status,
                                             !.late = Abandoned(r, result)]]
    /\ UNCHANGED loginVars

\* The consultant goes away and the handler's future is dropped.
DropCall(r) ==
    /\ call[r].at \in {"gate", "token", "sent", "run"}
    /\ call' = [call EXCEPT ![r] = [@ EXCEPT !.at = "answered", !.left = 0, !.status = 499,
                                             !.late = Abandoned(r, "timeout")]]
    /\ UNCHANGED loginVars

\* The slot is used again once Nexus has nothing left of the request.
EndCall(r) ==
    /\ call[r].at = "answered" /\ call[r].late = 0
    /\ EndRequest(r)
    /\ call' = [call EXCEPT ![r] = NoCall]

-----------------------------------------------------------------------------
CallStep(r) ==
    \/ \E s \in Sessions, route \in Routes :
           route.name \in Served /\ BeginCall(r, s, route)
    \/ \E status \in {400, 403} : Refuse(r, status)
    \/ StartCall(r) \/ SendAttempt(r) \/ NexusRuns(r) \/ LateCopy(r)
    \/ \E result \in {"timeout", "request", "5xx", "bad", "ok"} :
           RetryAttempt(r, result) \/ \E status \in {200, 502} : FinishCall(r, result, status)
    \/ DropCall(r) \/ EndCall(r)

CallNext ==
    \/ /\ \/ World
          \/ \E a \in Attempts : LoginStep(a)
          \/ \E s \in Sessions : Logout(s)
       /\ UNCHANGED call
    \/ \E r \in Requests : CallStep(r)

CallSpec == CallInit /\ [][CallNext]_portalVars

\* The runtime polls a handler that can go on, and its timers fire: the
\* permission is decided, the token's fetch ends, and an attempt times out.
\* Nothing is assumed of Nexus.
Decide(r) == StartCall(r) \/ \E status \in {400, 403} : Refuse(r, status)
TimeOut(r) == RetryAttempt(r, "timeout") \/ FinishCall(r, "timeout", 502)

FairCallSpec ==
    /\ CallSpec
    /\ \A r \in Requests :
           WF_portalVars(Decide(r)) /\ WF_portalVars(SendAttempt(r)) /\ WF_portalVars(TimeOut(r))

-----------------------------------------------------------------------------
(* Properties.                                                              *)

\* How often Nexus has run a request, or may yet.
Copies(r) == call[r].runs + call[r].late + IF call[r].at = "sent" THEN 1 ELSE 0

\* A command reaches Nexus once at most, however its attempts end and whatever
\* the consultant is told ("a retry against an unknown-outcome prior attempt
\* risks a duplicate side effect in the owning capability").
CommandsRunOnce ==
    \A r \in Requests :
        call[r].at # "idle" /\ call[r].route.effect = "command" => Copies(r) <= 1

\* An answer says what happened: 200 only for a request Nexus has run, and 400
\* or 403 only for one it has not and never will ("never coerced into a
\* synthetic success").
AnswersHonest ==
    \A r \in Requests : call[r].at = "answered" =>
        /\ call[r].status = 200 => call[r].runs > 0
        /\ call[r].status \in {400, 403} => Copies(r) = 0

\* Whatever Nexus does, a request let in is answered in the end, or dropped by
\* the consultant: each attempt is given up after its timeout, and there are
\* only so many.
EveryCallAnswered ==
    \A r \in Requests : call[r].at = "gate" ~> call[r].at = "answered"

\* A request cannot go on for ever on its own account: it is let in with four
\* steps for each attempt it may make, and whatever happens to it afterwards --
\* an attempt sent, run, retried, given up, or run late -- takes one away, so
\* that no order of timeouts and late answers keeps a handler going around.
Phase == [gate |-> 4, token |-> 3, sent |-> 2, run |-> 1, answered |-> 0]
Work(r) == 4 * call[r].left + call[r].late + Phase[call[r].at]

WindsDown ==
    [][\A r \in Requests :
         /\ call[r] = NoCall /\ call'[r] # NoCall =>
                Work(r)' <= 4 * (call'[r].route.retries + 1)
         /\ call[r] # NoCall /\ call'[r] \notin {call[r], NoCall} =>
                Work(r)' < Work(r)]_portalVars

\* The fairness of FairCallSpec with the guards written out: Decide can be taken
\* wherever a handler is at its gate, and TimeOut wherever it has an attempt.
Attempting(r) == call[r].at \in {"token", "sent", "run"}

Polled(r) ==
    /\ []<>(call[r].at # "gate") \/ []<><<Decide(r)>>_portalVars
    /\ []<>(~Attempting(r)) \/ []<><<TimeOut(r)>>_portalVars

\* Every attempt comes to an end, and uses up a retry if it is not the last.
AttemptsEnd ==
    \A r \in Requests, n \in Nat :
        Attempting(r) /\ call[r].left = n
            ~> call[r].at = "answered" \/ (Attempting(r) /\ call[r].left < n)

\* A command that is let in is answered, or dropped by the consultant.
IsCommand(r) == call[r].at # "idle" /\ call[r].route.effect = "command"

CommandsAnswered == \A r \in Requests : IsCommand(r) ~> call[r].at = "answered"

\* Nothing is asked of a capability for a consultant who is not granted that
\* capability, under the identity the session was issued to.
AskedWithPermission ==
    \A r \in Requests : call[r].at # "idle" /\ Copies(r) > 0 =>
        /\ request[r].at = "inside"
        /\ session[request[r].session] # NoRow
        /\ <<session[request[r].session].consultant, call[r].route.target>> \in Granted

-----------------------------------------------------------------------------
(* The inductive invariant.                                                 *)

CallTypeOK ==
    call \in [Requests -> {NoCall} \union
        [at : {"gate", "token", "sent", "run", "answered"}, route : Routes,
         left : Nat, late : Nat, runs : Nat, status : {0, 200, 400, 403, 499, 502}]]

\* A handler runs inside the middleware; what it has sent it was permitted to.
CallSound(r) ==
    /\ request[r].at = "inside"
    /\ call[r].at = "gate" =>
           Copies(r) = 0 /\ call[r].left = call[r].route.retries
    /\ call[r].at = "token" \/ Copies(r) > 0 => Permitted(r)
    /\ call[r].at = "run" => call[r].runs > 0
    \* every attempt but the current one is one retry less
    /\ Copies(r) + call[r].left
           <= call[r].route.retries + IF call[r].at \in {"gate", "token"} THEN 0 ELSE 1

CallsSound == \A r \in Requests : call[r].at # "idle" => CallSound(r)

CallIInv == LoginIInv /\ CallTypeOK /\ CallsSound /\ AnswersHonest

=============================================================================
