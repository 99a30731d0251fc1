------------------------ MODULE CircuitBreaker_proofs ------------------------
(***************************************************************************)
(* What the circuit breaker guarantees for every number of calls and every *)
(* window, threshold and number of samples.                                *)
(***************************************************************************)
EXTENDS CircuitBreaker, FiniteSetTheorems, TLAPS

\* Sliding a window gives a window.
LEMMA SlideType ==
    ASSUME NEW w \in Seq(BOOLEAN), Len(w) <= window_size, NEW ok \in BOOLEAN
    PROVE  Slide(w, ok) \in Seq(BOOLEAN) /\ Len(Slide(w, ok)) <= window_size
<1>1. CASE Len(w) < window_size
  BY <1>1, BreakerAssumption DEF Slide, BreakerAssumption
<1>2. CASE ~(Len(w) < window_size)
  <2>1. Len(w) = window_size /\ w # <<>>
    BY <1>2, BreakerAssumption DEF BreakerAssumption
  <2>2. Tail(w) \in Seq(BOOLEAN) /\ Len(Tail(w)) = Len(w) - 1
    BY <2>1
  <2>3. QED
    BY <1>2, <2>1, <2>2, BreakerAssumption DEF Slide, BreakerAssumption
<1>3. QED
  BY <1>1, <1>2

\* The empty window is one.
LEMMA EmptyWindow == <<>> \in Seq(BOOLEAN) /\ Len(<<>>) = 0
  OBVIOUS

\* Recording an outcome keeps the breaker's part of the type invariant.
LEMMA RecordType ==
    ASSUME TypeOK, NEW ok \in BOOLEAN, Record(ok)
    PROVE  /\ state' \in States
           /\ outcomes' \in Seq(BOOLEAN)
           /\ Len(outcomes') <= window_size
           /\ cooled' \in BOOLEAN
<1>1. CASE RecordClosed(ok)
  BY <1>1, SlideType DEF RecordClosed, TypeOK, States
<1>2. CASE RecordHalfOpen(ok)
  <2>1. outcomes' = <<>> /\ cooled' = FALSE /\ state' \in States
    BY <1>2 DEF RecordHalfOpen, States
  <2>2. Len(outcomes') <= window_size
    BY <2>1, EmptyWindow, BreakerAssumption DEF BreakerAssumption
  <2>3. QED
    BY <2>1, <2>2, EmptyWindow
<1>3. CASE RecordOpen(ok)
  BY <1>3 DEF RecordOpen, TypeOK
<1>4. QED
  BY <1>1, <1>2, <1>3 DEF Record

\* The breaker's state is always one of three and its window never longer than
\* window_size, whatever calls overlap in it.
THEOREM TypeCorrect == Spec => []TypeOK
<1>1. Init => TypeOK
  <2>1. SUFFICES ASSUME Init PROVE TypeOK
    OBVIOUS
  <2>2. outcomes = <<>> /\ 0 <= window_size
    BY <2>1, BreakerAssumption DEF Init, BreakerAssumption
  <2>3. outcomes \in Seq(BOOLEAN) /\ Len(outcomes) <= window_size
    BY <2>2, EmptyWindow
  <2>4. QED
    BY <2>1, <2>3 DEF Init, TypeOK, States
<1>2. TypeOK /\ [Next]_vars => TypeOK'
  <2>1. SUFFICES ASSUME TypeOK, [Next]_vars PROVE TypeOK'
    OBVIOUS
  <2>2. ASSUME NEW c \in Calls, Allow(c) PROVE TypeOK'
    BY <2>1, <2>2 DEF Allow, TypeOK, States
  <2>3. ASSUME NEW c \in Calls, Succeed(c) PROVE TypeOK'
    <3>1. Record(TRUE) /\ call' = [call EXCEPT ![c] = "none"] /\ up' = up
      BY <2>3 DEF Succeed
    <3>2. QED
      BY <2>1, <3>1, RecordType DEF TypeOK
  <2>4. ASSUME NEW c \in Calls, Fail(c) PROVE TypeOK'
    <3>1. Record(FALSE) /\ call' = [call EXCEPT ![c] = "none"] /\ up' = up
      BY <2>4 DEF Fail
    <3>2. QED
      BY <2>1, <3>1, RecordType DEF TypeOK
  <2>5. ASSUME NEW c \in Calls, Abandon(c) PROVE TypeOK'
    BY <2>1, <2>5 DEF Abandon, TypeOK
  <2>6. CASE CooldownPasses
    BY <2>1, <2>6 DEF CooldownPasses, TypeOK
  <2>7. CASE HealthChanges
    BY <2>1, <2>7 DEF HealthChanges, TypeOK
  <2>8. CASE UNCHANGED vars
    BY <2>1, <2>8 DEF vars, TypeOK
  <2>9. QED
    BY <2>1, <2>2, <2>3, <2>4, <2>5, <2>6, <2>7, <2>8 DEF Next
<1>3. QED
  BY <1>1, <1>2, PTL DEF Spec

\* An empty window is no reason to open.
LEMMA EmptyWindowIsHealthy == ~Tripped(<<>>)
  BY BreakerAssumption DEF Tripped, BreakerAssumption

\* Whatever an outcome does to the breaker, it leaves no closed breaker with a
\* window to open for.
LEMMA RecordKeepsHealthy ==
    ASSUME NEW ok \in BOOLEAN, Record(ok)
    PROVE  ClosedMeansHealthy'
<1>1. CASE RecordClosed(ok)
  <2>1. CASE Tripped(outcomes')
    BY <1>1, <2>1 DEF RecordClosed, ClosedMeansHealthy
  <2>2. CASE ~Tripped(outcomes')
    BY <2>2 DEF ClosedMeansHealthy, Tripped, Failures
  <2>3. QED
    BY <2>1, <2>2
<1>2. CASE RecordHalfOpen(ok)
  <2>1. outcomes' = <<>>
    BY <1>2 DEF RecordHalfOpen
  <2>2. ~Tripped(outcomes')
    BY <2>1, EmptyWindowIsHealthy
  <2>3. QED
    BY <2>2 DEF ClosedMeansHealthy, Tripped, Failures
<1>3. CASE RecordOpen(ok)
  BY <1>3 DEF RecordOpen, ClosedMeansHealthy
<1>4. QED
  BY <1>1, <1>2, <1>3 DEF Record

\* A closed breaker never sits on a window it should have opened for: record
\* tests the window on every outcome while closed and clears it on closing.
THEOREM Healthy == Spec => []ClosedMeansHealthy
<1>1. Init => ClosedMeansHealthy
  BY EmptyWindowIsHealthy DEF Init, ClosedMeansHealthy
<1>2. ClosedMeansHealthy /\ [Next]_vars => ClosedMeansHealthy'
  <2>1. SUFFICES ASSUME ClosedMeansHealthy, [Next]_vars PROVE ClosedMeansHealthy'
    OBVIOUS
  <2>2. ASSUME NEW c \in Calls, Succeed(c) PROVE ClosedMeansHealthy'
    BY <2>2, RecordKeepsHealthy DEF Succeed
  <2>3. ASSUME NEW c \in Calls, Fail(c) PROVE ClosedMeansHealthy'
    BY <2>3, RecordKeepsHealthy DEF Fail
  <2>4. ASSUME NEW c \in Calls, Allow(c) PROVE ClosedMeansHealthy'
    BY <2>1, <2>4 DEF Allow, ClosedMeansHealthy, Tripped, Failures
  <2>5. ASSUME NEW c \in Calls, Abandon(c) PROVE ClosedMeansHealthy'
    BY <2>1, <2>5 DEF Abandon, ClosedMeansHealthy, Tripped, Failures
  <2>6. CASE CooldownPasses
    BY <2>6 DEF CooldownPasses, ClosedMeansHealthy
  <2>7. CASE HealthChanges \/ UNCHANGED vars
    BY <2>1, <2>7 DEF HealthChanges, vars, ClosedMeansHealthy, Tripped, Failures
  <2>8. QED
    BY <2>1, <2>2, <2>3, <2>4, <2>5, <2>6, <2>7 DEF Next
<1>3. QED
  BY <1>1, <1>2, PTL DEF Spec

\* While the breaker is open, the outcomes of calls allowed earlier change
\* nothing: only a call after the cooldown takes it to half open.
THEOREM LateResultsAreIgnored == Spec => OpenOutlastsLateResults
<1> DEFINE Outlasts ==
      state = "Open" => /\ state' # "Closed"
                        /\ cooled => cooled' \/ state' = "HalfOpen"
<1>1. ASSUME [Next]_vars PROVE Outlasts
  <2>1. ASSUME NEW ok \in BOOLEAN, Record(ok) PROVE Outlasts
    BY <2>1 DEF Record, RecordClosed, RecordHalfOpen, RecordOpen
  <2>2. ASSUME NEW c \in Calls, Succeed(c) PROVE Outlasts
    BY <2>1, <2>2 DEF Succeed
  <2>3. ASSUME NEW c \in Calls, Fail(c) PROVE Outlasts
    BY <2>1, <2>3 DEF Fail
  <2>4. ASSUME NEW c \in Calls, Allow(c) \/ Abandon(c) PROVE Outlasts
    BY <2>4 DEF Allow, Abandon
  <2>5. CASE CooldownPasses \/ HealthChanges \/ UNCHANGED vars
    BY <2>5 DEF CooldownPasses, HealthChanges, vars
  <2>6. QED
    BY <1>1, <2>2, <2>3, <2>4, <2>5 DEF Next
<1>2. QED
  BY <1>1, PTL DEF Spec, OpenOutlastsLateResults

-----------------------------------------------------------------------------
(* Recovery.                                                               *)

\* A window without a failure is no reason to open, unless none is needed.
AllGood(w) == \A n \in DOMAIN w : w[n] = TRUE

LEMMA GoodWindowStaysClosed ==
    ASSUME FailureShare > 0, NEW w \in Seq(BOOLEAN), AllGood(w)
    PROVE  ~Tripped(w)
<1>1. Failures(w) = 0
  <2>1. {n \in DOMAIN w : ~w[n]} = {}
    BY DEF AllGood
  <2>2. QED
    BY <2>1, FS_EmptySet DEF Failures
<1>2. SUFFICES ASSUME Len(w) >= min_samples PROVE ~(0 * OfShares >= FailureShare * Len(w))
  BY <1>1 DEF Tripped
<1>3. Len(w) \in Nat /\ Len(w) > 0
  BY <1>2, BreakerAssumption DEF BreakerAssumption
<1>4. FailureShare * Len(w) > 0
  BY <1>3, BreakerAssumption, SMT DEF BreakerAssumption
<1>5. QED
  BY <1>4, BreakerAssumption DEF BreakerAssumption

LEMMA SlideKeepsGood ==
    ASSUME NEW w \in Seq(BOOLEAN), AllGood(w)
    PROVE  AllGood(Slide(w, TRUE))
<1>0. ASSUME NEW v \in Seq(BOOLEAN), AllGood(v) PROVE AllGood(Append(v, TRUE))
  BY <1>0 DEF AllGood
<1>1. CASE Len(w) < window_size
  BY <1>0, <1>1 DEF Slide
<1>2. CASE ~(Len(w) < window_size)
  <2>1. w # <<>>
    BY <1>2, BreakerAssumption DEF BreakerAssumption
  <2>2. Tail(w) \in Seq(BOOLEAN) /\ AllGood(Tail(w))
    BY <2>1 DEF AllGood
  <2>3. Slide(w, TRUE) = Append(Tail(w), TRUE)
    BY <1>2 DEF Slide
  <2>4. QED
    BY <1>0, <2>2, <2>3
<1>3. QED
  BY <1>1, <1>2

\* Once the capability answers, what a step does to the breaker: closed with
\* nothing against it, it stays so; otherwise it goes round to that state, or
\* stays where it is.
Sound   == state = "Closed" /\ AllGood(outcomes)
Cooling == state = "Open" /\ ~cooled
Probing == state = "Open" /\ cooled

LEMMA UpMoves ==
    ASSUME FailureShare > 0, TypeOK, [Next]_vars, up
    PROVE  /\ Sound => Sound'
           /\ Cooling => Cooling' \/ Probing'
           /\ Probing => Probing' \/ (state' = "HalfOpen")
           /\ state = "HalfOpen" => state' = "HalfOpen" \/ Sound'
           /\ CooldownPasses => Probing'
           /\ \A c \in Calls :
                 /\ Allow(c) => state' # "Open"
                 /\ Succeed(c) => call'[c] = "none" /\ (state = "HalfOpen" => Sound')
                 /\ Probing /\ call[c] = "none" => call'[c] = "none" \/ (state' = "HalfOpen")
<1> USE DEF Sound, Cooling, Probing
<1>1. ASSUME NEW c \in Calls, Allow(c)
      PROVE  /\ Sound => Sound'
             /\ ~Cooling /\ state' # "Open"
             /\ Probing => state' = "HalfOpen"
             /\ state = "HalfOpen" => state' = "HalfOpen"
  BY <1>1 DEF Allow, TypeOK, States, AllGood
<1>2. ASSUME NEW c \in Calls, Succeed(c)
      PROVE  /\ Sound => Sound'
             /\ Cooling => Cooling'
             /\ Probing => Probing'
             /\ state = "HalfOpen" => Sound'
             /\ call' = [call EXCEPT ![c] = "none"]
  <2>1. Record(TRUE) /\ call' = [call EXCEPT ![c] = "none"]
    BY <1>2 DEF Succeed
  <2>2. CASE RecordClosed(TRUE)
    <3>1. Sound => ~Tripped(outcomes') /\ AllGood(outcomes')
      <4>1. SUFFICES ASSUME Sound PROVE ~Tripped(outcomes') /\ AllGood(outcomes')
        OBVIOUS
      <4>2. outcomes' = Slide(outcomes, TRUE)
        BY <2>2 DEF RecordClosed
      <4>3. outcomes' \in Seq(BOOLEAN)
        BY <4>2, SlideType DEF TypeOK
      <4>4. AllGood(outcomes')
        BY <4>1, <4>2, SlideKeepsGood DEF TypeOK
      <4>5. QED
        BY <4>3, <4>4, GoodWindowStaysClosed
    <3>2. Sound => Sound'
      BY <2>2, <3>1 DEF RecordClosed, Tripped, Failures, AllGood
    <3>3. QED
      BY <2>1, <2>2, <3>2 DEF RecordClosed
  <2>3. CASE RecordHalfOpen(TRUE)
    BY <2>1, <2>3 DEF RecordHalfOpen, AllGood
  <2>4. CASE RecordOpen(TRUE)
    BY <2>1, <2>4 DEF RecordOpen
  <2>5. QED
    BY <2>1, <2>2, <2>3, <2>4 DEF Record
<1>3. ASSUME NEW c \in Calls PROVE ~Fail(c)
  BY DEF Fail
<1>4. ASSUME (\E c \in Calls : Abandon(c)) \/ HealthChanges \/ UNCHANGED vars
      PROVE  UNCHANGED <<state, outcomes, cooled>>
  BY <1>4 DEF Abandon, HealthChanges, vars
<1>5. CooldownPasses => Cooling /\ Probing' /\ UNCHANGED call
  BY DEF CooldownPasses
<1>6. ASSUME UNCHANGED <<state, outcomes, cooled>>
      PROVE  /\ Sound => Sound'
             /\ Cooling => Cooling'
             /\ Probing => Probing'
             /\ state' = state
  BY <1>6 DEF AllGood
<1>7. /\ Sound => Sound'
      /\ Cooling => Cooling' \/ Probing'
      /\ Probing => Probing' \/ (state' = "HalfOpen")
      /\ state = "HalfOpen" => state' = "HalfOpen" \/ Sound'
  BY <1>1, <1>2, <1>3, <1>4, <1>5, <1>6 DEF Next
<1>8. ASSUME NEW c \in Calls, Probing, call[c] = "none"
      PROVE  call'[c] = "none" \/ (state' = "HalfOpen")
  <2>1. ASSUME NEW d \in Calls, Succeed(d) \/ Abandon(d) PROVE call'[c] = "none"
    BY <1>8, <2>1 DEF Succeed, Abandon, TypeOK
  <2>2. CASE HealthChanges \/ UNCHANGED vars
    BY <1>8, <2>2 DEF HealthChanges, vars
  <2>3. QED
    BY <1>1, <1>3, <1>5, <1>8, <2>1, <2>2 DEF Next
<1>9. ASSUME NEW c \in Calls
      PROVE  /\ Allow(c) => state' # "Open"
             /\ Succeed(c) => call'[c] = "none" /\ (state = "HalfOpen" => Sound')
  <2>1. Succeed(c) => call'[c] = "none"
    BY <1>2 DEF TypeOK
  <2>2. QED
    BY <1>1, <1>2, <2>1
<1>10. QED
  BY <1>5, <1>7, <1>8, <1>9

\* However many calls there are, and whatever late results and abandoned probes
\* come in between, the breaker of a capability that answers for good is closed
\* in the end for good -- if a window without a failure does not open it.
THEOREM RecoversForGood ==
    Calls # {} /\ FailureShare > 0 => (Spec /\ Polled => Recovers)
<1>1. ASSUME FailureShare > 0, NEW c \in Calls
      PROVE  /\ Spec
             /\ []<>~(state = "Open" /\ ~cooled) \/ []<><<CooldownPasses>>_vars
             /\ []<>~Asked(c) \/ []<><<Allow(c)>>_vars
             /\ <>[](call[c] = "none") \/ []<><<Succeed(c)>>_vars
             => Recovers
  <2> DEFINE C == state = "Closed"
             H == state = "HalfOpen"
             N == call[c] = "none"
  <2>1. TypeOK => C \/ H \/ Cooling \/ Probing
    BY DEF TypeOK, States, Cooling, Probing
  <2>2. /\ Sound => C
        /\ Cooling <=> (state = "Open" /\ ~cooled)
        /\ C <=> (state = "Closed")
        /\ N <=> (call[c] = "none")
        /\ Probing => ~C /\ ~H /\ ~Cooling
        /\ H => ~C /\ ~Cooling
        /\ Cooling => ~C
        /\ (Probing /\ N => Asked(c)) /\ (H /\ N => Asked(c))
    BY DEF Sound, Cooling, Probing, Asked
  <2>3. TypeOK /\ [Next]_vars /\ up =>
          /\ Sound => Sound'
          /\ Cooling => Cooling' \/ Probing'
          /\ Probing => Probing' \/ H'
          /\ H => H' \/ Sound'
          /\ Probing /\ N => N' \/ H'
    BY <1>1, UpMoves
  <2>4. TypeOK /\ [Next]_vars /\ up /\ <<CooldownPasses>>_vars => Probing'
    BY <1>1, UpMoves
  <2>5. TypeOK /\ [Next]_vars /\ up /\ <<Allow(c)>>_vars => ~Cooling' /\ ~Probing' /\ ~N'
    BY <1>1, UpMoves DEF Cooling, Probing, Allow, TypeOK
  <2>6. TypeOK /\ [Next]_vars /\ up /\ <<Succeed(c)>>_vars => N' /\ (H => Sound')
    BY <1>1, UpMoves
  <2> HIDE DEF C, H, N, Sound, Cooling, Probing, Asked
  <2>7. QED
    BY <2>1, <2>2, <2>3, <2>4, <2>5, <2>6, TypeCorrect, PTL DEF Spec, Recovers
<1>2. QED
  BY <1>1 DEF Polled

=============================================================================
