--------------------------- MODULE Dashboard_proofs ---------------------------
(***************************************************************************)
(* Proofs about the permission cache, for every number of requests, of     *)
(* capabilities and of lifetimes, and about the dashboard on top of it,    *)
(* for every number of positions and of modules.                           *)
(***************************************************************************)
EXTENDS Dashboard, FiniteSetTheorems, TLAPS

-----------------------------------------------------------------------------
(* The permission cache.                                                   *)

\* The invariant holds at the start.
LEMMA InvInit == Init => IInv
<1>1. SUFFICES ASSUME Init PROVE IInv
  OBVIOUS
<1>2. TypeOK
  BY <1>1, CacheAssumption DEF Init, TypeOK, CacheAssumption, Time, IsEntry, IsRequest
<1>3. GrantedNow
  BY <1>1, CacheAssumption DEF Init, GrantedNow, CacheAssumption
<1>4. CacheSound
  BY <1>1 DEF Init, CacheSound
<1>5. ToldSound /\ ServedSound
  BY <1>1 DEF Init, ToldSound, ServedSound, Idle
<1>6. QED
  BY <1>2, <1>3, <1>4, <1>5 DEF IInv

\* A step of a request r changes no other request, and neither time nor what
\* Armor grants.  It keeps the invariant if it keeps r's part and the cache's.
LEMMA RequestStep ==
    ASSUME IInv, NEW r \in Requests, NEW q, req' = [req EXCEPT ![r] = q],
           UNCHANGED <<now, granted, lastGranted, changes>>,
           IsRequest(q), IsEntry(cache'), CacheSound',
           q # Idle => q.since <= now,
           q.at = "told" => \A a \in q.assertions :
               Issued(a) /\ lastGranted[a.capability] >= q.since,
           q.at = "decided" => \A a \in q.assertions :
               Issued(a) /\ lastGranted[a.capability] + LifetimeOf[a.capability] > q.since
    PROVE  IInv'
<1>1. \A t \in Requests : req'[t] = IF t = r THEN q ELSE req[t]
  BY DEF IInv, TypeOK
<1>2. TypeOK'
  BY <1>1 DEF IInv, TypeOK
<1>3. GrantedNow'
  BY DEF IInv, GrantedNow
<1>4. ToldSound'
  BY <1>1 DEF IInv, ToldSound, Issued
<1>5. ServedSound'
  BY <1>1 DEF IInv, ServedSound, Issued
<1>6. QED
  BY <1>2, <1>3, <1>4, <1>5 DEF IInv

LEMMA LookUpStep ==
    ASSUME IInv, NEW r \in Requests, LookUp(r)
    PROVE  IInv'
<1>1. now \in Nat /\ now \in Time /\ IsEntry(cache)
  BY DEF IInv, TypeOK, Time
<1>6. IsEntry(cache')
  BY <1>1 DEF LookUp
<1>2. CacheSound'
  BY DEF LookUp, IInv, CacheSound, Issued
<1>3. CASE Fresh
  <2> DEFINE q == [at |-> "decided", since |-> now, assertions |-> cache.assertions]
  <2>1. req' = [req EXCEPT ![r] = q] /\ UNCHANGED <<now, granted, lastGranted, changes>>
    BY <1>3 DEF LookUp
  <2>2. cache # NoEntry /\ cache.expires_at > now
    BY <1>3 DEF Fresh
  <2>3. cache.assertions \in SUBSET Assertions /\ cache.expires_at \in Nat
    BY <1>1, <2>2 DEF IsEntry, NoEntry
  <2>4. IsRequest(q) /\ q # Idle /\ q.at = "decided" /\ q.since = now /\ q.assertions = cache.assertions
    BY <1>1, <2>3 DEF IsRequest, Idle
  <2>5. ASSUME NEW a \in cache.assertions
        PROVE  Issued(a) /\ lastGranted[a.capability] + LifetimeOf[a.capability] > now
    <3>1. Issued(a) /\ cache.expires_at <= a.expires_at
      BY <2>2 DEF IInv, CacheSound
    <3>2. a.capability \in Capabilities /\ a.expires_at \in Nat
      BY <2>3 DEF Assertions
    <3>3. lastGranted[a.capability] \in Int /\ LifetimeOf[a.capability] \in Nat
      BY <3>2, CacheAssumption DEF IInv, TypeOK, Time, CacheAssumption
    <3>4. QED
      BY <1>1, <2>2, <2>3, <3>1, <3>2, <3>3 DEF Issued
  <2>7. q.since <= now
    BY <1>1, <2>4
  <2>8. QED
    BY <1>2, <1>6, <2>1, <2>4, <2>5, <2>7, RequestStep
<1>4. CASE ~Fresh
  <2> DEFINE q == [at |-> "asking", since |-> now]
  <2>1. req' = [req EXCEPT ![r] = q] /\ UNCHANGED <<now, granted, lastGranted, changes>>
    BY <1>4 DEF LookUp
  <2>2. IsRequest(q) /\ q # Idle /\ q.at = "asking" /\ q.since = now
    BY <1>1 DEF IsRequest, Idle
  <2>3. q.since <= now
    BY <1>1, <2>2
  <2>4. QED
    BY <1>2, <1>6, <2>1, <2>2, <2>3, RequestStep
<1>5. QED
  BY <1>3, <1>4

LEMMA AnswerStep ==
    ASSUME IInv, NEW r \in Requests, Answer(r)
    PROVE  IInv'
<1> DEFINE told == {[capability |-> c, expires_at |-> now + LifetimeOf[c]] : c \in granted}
           q == [at |-> "told", since |-> req[r].since, assertions |-> told]
<1>1. req' = [req EXCEPT ![r] = q] /\ UNCHANGED <<now, granted, cache, lastGranted, changes>>
  BY DEF Answer
<1>2. /\ req[r] # Idle
      /\ req[r].since \in Time /\ req[r].since <= now
  BY DEF Answer, IInv, TypeOK, IsRequest, Idle, ToldSound
<1>3. now \in Nat /\ granted \subseteq Capabilities /\ LifetimeOf \in [Capabilities -> Nat]
  BY CacheAssumption DEF IInv, TypeOK, Time, CacheAssumption
<1>4. told \subseteq Assertions
  BY <1>3 DEF Assertions
<1>5. IsRequest(q) /\ q # Idle /\ q.at = "told" /\ q.since = req[r].since /\ q.assertions = told
  BY <1>2, <1>4 DEF IsRequest, Idle
<1>6. ASSUME NEW a \in told
      PROVE  Issued(a) /\ lastGranted[a.capability] >= req[r].since
  <2>1. PICK c \in granted : a = [capability |-> c, expires_at |-> now + LifetimeOf[c]]
    OBVIOUS
  <2>2. lastGranted[c] = now
    BY DEF IInv, GrantedNow
  <2>3. QED
    BY <1>2, <1>3, <2>1, <2>2 DEF Issued
<1>7. IsEntry(cache') /\ CacheSound'
  BY <1>1 DEF IInv, TypeOK, CacheSound, Issued
<1>8. QED
  BY <1>1, <1>2, <1>5, <1>6, <1>7, RequestStep

LEMMA RefreshStep ==
    ASSUME IInv, NEW r \in Requests, Refresh(r)
    PROVE  IInv'
<1> DEFINE set == req[r].assertions
           q == [at |-> "decided", since |-> req[r].since, assertions |-> set]
<1>1. PICK e \in Expiries(set) :
        /\ IsFirstExpiry(e, set)
        /\ cache' = [at |-> "entry", assertions |-> set, expires_at |-> e]
  BY DEF Refresh
<1>2. req' = [req EXCEPT ![r] = q] /\ UNCHANGED <<now, granted, lastGranted, changes>>
  BY DEF Refresh
<1>3. /\ req[r] # Idle
      /\ req[r].since \in Time /\ req[r].since <= now
      /\ set \in SUBSET Assertions
  BY DEF Refresh, IInv, TypeOK, IsRequest, Idle, ToldSound
<1>4. \A a \in set : Issued(a) /\ lastGranted[a.capability] >= req[r].since
  BY DEF Refresh, IInv, ToldSound
<1>5. e \in Nat
  BY <1>1, <1>3, CacheAssumption DEF Expiries, Assertions, IInv, TypeOK, Time, CacheAssumption
<1>6. IsEntry(cache')
  BY <1>1, <1>3, <1>5 DEF IsEntry
<1>7. CacheSound'
  BY <1>1, <1>2, <1>4 DEF CacheSound, IsFirstExpiry, Issued
<1>8. IsRequest(q) /\ q # Idle /\ q.at = "decided" /\ q.since = req[r].since /\ q.assertions = set
  BY <1>3 DEF IsRequest, Idle
<1>9. ASSUME NEW a \in set
      PROVE  Issued(a) /\ lastGranted[a.capability] + LifetimeOf[a.capability] > req[r].since
  <2>1. a.capability \in Capabilities
    BY <1>3 DEF Assertions
  <2>2. lastGranted[a.capability] \in Int /\ LifetimeOf[a.capability] \in Nat \ {0}
    BY <2>1, CacheAssumption DEF IInv, TypeOK, Time, CacheAssumption
  <2>3. QED
    BY <1>3, <1>4, <2>2 DEF Time
<1>10. QED
  BY <1>2, <1>3, <1>6, <1>7, <1>8, <1>9, RequestStep

LEMMA FetchFailsStep ==
    ASSUME IInv, NEW r \in Requests, FetchFails(r)
    PROVE  IInv'
<1> DEFINE q == [at |-> "decided", since |-> req[r].since, assertions |-> {}]
<1>1. req' = [req EXCEPT ![r] = q] /\ UNCHANGED <<now, granted, cache, lastGranted, changes>>
  BY DEF FetchFails, Deny
<1>2. /\ req[r] # Idle
      /\ req[r].since \in Time /\ req[r].since <= now
  BY DEF FetchFails, IInv, TypeOK, IsRequest, Idle, ToldSound
<1>3. IsRequest(q) /\ q # Idle /\ q.at = "decided" /\ q.since = req[r].since /\ q.assertions = {}
  BY <1>2 DEF IsRequest, Idle
<1>4. IsEntry(cache') /\ CacheSound'
  BY <1>1 DEF IInv, TypeOK, CacheSound, Issued
<1>5. QED
  BY <1>1, <1>2, <1>3, <1>4, RequestStep

LEMMA LeaveStep ==
    ASSUME IInv, NEW r \in Requests, Leave(r)
    PROVE  IInv'
<1>1. req' = [req EXCEPT ![r] = Idle] /\ UNCHANGED <<now, granted, cache, lastGranted, changes>>
  BY DEF Leave
<1>2. IsRequest(Idle) /\ Idle.at = "idle"
  BY DEF IsRequest, Idle
<1>3. IsEntry(cache') /\ CacheSound'
  BY <1>1 DEF IInv, TypeOK, CacheSound, Issued
<1>4. QED
  BY <1>1, <1>2, <1>3, RequestStep

\* Time and Armor only ever move the last moment a capability was granted on,
\* which keeps every promise about it.
LEMMA GrantsMoveOn ==
    ASSUME IInv, TypeOK', GrantedNow', UNCHANGED req,
           cache' = cache \/ cache' = NoEntry,
           now' >= now, \A c \in Capabilities : lastGranted'[c] >= lastGranted[c]
    PROVE  IInv'
<1>1. /\ lastGranted \in [Capabilities -> Int] /\ lastGranted' \in [Capabilities -> Int]
      /\ LifetimeOf \in [Capabilities -> Nat]
      /\ now \in Nat /\ now' \in Nat
  BY CacheAssumption DEF IInv, TypeOK, Time, CacheAssumption
<1>2. ASSUME NEW a \in Assertions, Issued(a) PROVE Issued(a)'
  BY <1>1, <1>2 DEF Issued, Assertions
<1>3. CacheSound'
  <2>1. CASE cache' = NoEntry
    BY <2>1 DEF CacheSound
  <2>2. CASE cache' = cache /\ cache # NoEntry
    <3>1. cache.assertions \subseteq Assertions
      BY <2>2 DEF IInv, TypeOK, IsEntry, NoEntry
    <3>2. QED
      BY <1>2, <2>2, <3>1 DEF CacheSound, IInv
  <2>3. QED
    BY <2>1, <2>2
<1>4. ToldSound'
  <2>1. SUFFICES ASSUME NEW r \in Requests
                 PROVE  /\ req[r] # Idle => req[r].since <= now'
                        /\ req[r].at = "told" => \A a \in req[r].assertions :
                               Issued(a)' /\ lastGranted'[a.capability] >= req[r].since
    BY DEF ToldSound
  <2>2. IsRequest(req[r])
    BY DEF IInv, TypeOK
  <2>3. req[r] # Idle => req[r].since \in Nat /\ req[r].since <= now
    BY <2>2 DEF IsRequest, Time, IInv, ToldSound
  <2>4. ASSUME req[r].at = "told", NEW a \in req[r].assertions
        PROVE  Issued(a)' /\ lastGranted'[a.capability] >= req[r].since
    <3>1. req[r].assertions \subseteq Assertions /\ req[r].since \in Nat
      BY <2>2, <2>4 DEF IsRequest, Time, Idle
    <3>2. a \in Assertions /\ a.capability \in Capabilities
      BY <2>4, <3>1 DEF Assertions
    <3>3. Issued(a) /\ lastGranted[a.capability] >= req[r].since
      BY <2>4 DEF IInv, ToldSound
    <3>4. lastGranted'[a.capability] >= req[r].since
      BY <1>1, <3>1, <3>2, <3>3
    <3>5. QED
      BY <1>2, <3>2, <3>3, <3>4
  <2>5. QED
    BY <1>1, <2>3, <2>4
<1>5. ServedSound'
  <2>1. SUFFICES ASSUME NEW r \in Requests, req[r].at = "decided", NEW a \in req[r].assertions
                 PROVE  /\ Issued(a)'
                        /\ lastGranted'[a.capability] + LifetimeOf[a.capability] > req[r].since
    BY DEF ServedSound
  <2>2. req[r].assertions \subseteq Assertions /\ req[r].since \in Nat
    BY <2>1 DEF IInv, TypeOK, IsRequest, Time, Idle
  <2>3. a \in Assertions /\ a.capability \in Capabilities
    BY <2>1, <2>2 DEF Assertions
  <2>4. Issued(a) /\ lastGranted[a.capability] + LifetimeOf[a.capability] > req[r].since
    BY <2>1 DEF IInv, ServedSound
  <2>5. lastGranted'[a.capability] + LifetimeOf[a.capability] > req[r].since
    BY <1>1, <2>2, <2>3, <2>4
  <2>6. QED
    BY <1>2, <2>3, <2>4, <2>5
<1>6. QED
  BY <1>3, <1>4, <1>5 DEF IInv

LEMMA ClockStep ==
    ASSUME IInv, Invalidate \/ Tick \/ \E c \in Capabilities : Regrant(c)
    PROVE  IInv'
<1>1. /\ now \in Nat /\ now <= MaxTime /\ MaxTime \in Nat /\ changes \in 0..MaxChanges
      /\ MaxChanges \in Nat
      /\ granted \subseteq Capabilities /\ lastGranted \in [Capabilities -> Time \cup {-1}]
      /\ \A c \in Capabilities : lastGranted[c] \in Int /\ lastGranted[c] <= now
      /\ \A c \in granted : lastGranted[c] = now
  BY CacheAssumption DEF IInv, TypeOK, Time, CacheAssumption, GrantedNow
<1>2. CASE Invalidate
  <2>1. UNCHANGED <<now, granted, req, lastGranted>> /\ cache' = NoEntry /\ changes' \in 0..MaxChanges
    BY <1>1, <1>2 DEF Invalidate, Change
  <2>2. TypeOK' /\ GrantedNow'
    BY <2>1 DEF IInv, TypeOK, GrantedNow, IsEntry
  <2>3. QED
    BY <1>1, <2>1, <2>2, GrantsMoveOn
<1>3. CASE Tick
  <2>1. /\ UNCHANGED <<granted, cache, req, changes>>
        /\ now' = now + 1 /\ now' \in Time
        /\ lastGranted' = [c \in Capabilities |-> IF c \in granted THEN now' ELSE lastGranted[c]]
    BY <1>1, <1>3 DEF Tick, Time
  <2>2. TypeOK' /\ GrantedNow'
    BY <1>1, <2>1 DEF IInv, TypeOK, GrantedNow
  <2>3. \A c \in Capabilities : lastGranted'[c] >= lastGranted[c]
    BY <1>1, <2>1
  <2>4. QED
    BY <1>1, <2>1, <2>2, <2>3, GrantsMoveOn
<1>4. ASSUME NEW c \in Capabilities, Regrant(c) PROVE IInv'
  <2>1. /\ UNCHANGED <<now, cache, req>>
        /\ granted' = IF c \in granted THEN granted \ {c} ELSE granted \cup {c}
        /\ lastGranted' = [lastGranted EXCEPT ![c] = now]
        /\ changes' \in 0..MaxChanges
    BY <1>1, <1>4 DEF Regrant, Change
  <2>2. TypeOK' /\ GrantedNow'
    <3>1. now \in Time
      BY DEF IInv, TypeOK
    <3>2. QED
      BY <1>1, <2>1, <3>1 DEF IInv, TypeOK, GrantedNow
  <2>3. \A d \in Capabilities : lastGranted'[d] >= lastGranted[d]
    BY <1>1, <2>1
  <2>4. QED
    BY <1>1, <2>1, <2>2, <2>3, GrantsMoveOn
<1>5. QED
  BY <1>2, <1>3, <1>4

\* The inductive invariant: an entry, an answer on its way and a verdict are
\* never better than what Armor issued, whatever overlaps.
THEOREM Invariance == Spec => []IInv
<1>1. IInv /\ [Next]_vars => IInv'
  <2>1. SUFFICES ASSUME IInv, [Next]_vars PROVE IInv'
    OBVIOUS
  <2>2. CASE UNCHANGED vars
    BY <2>1, <2>2 DEF vars, IInv, TypeOK, GrantedNow, CacheSound, ToldSound, Issued,
                      ServedSound
  <2>3. ASSUME NEW r \in Requests, LookUp(r) PROVE IInv'
    BY <2>1, <2>3, LookUpStep
  <2>4. ASSUME NEW r \in Requests, Answer(r) PROVE IInv'
    BY <2>1, <2>4, AnswerStep
  <2>5. ASSUME NEW r \in Requests, Refresh(r) PROVE IInv'
    BY <2>1, <2>5, RefreshStep
  <2>6. ASSUME NEW r \in Requests, FetchFails(r) PROVE IInv'
    BY <2>1, <2>6, FetchFailsStep
  <2>7. ASSUME NEW r \in Requests, Leave(r) PROVE IInv'
    BY <2>1, <2>7, LeaveStep
  <2>8. CASE Invalidate \/ Tick \/ \E c \in Capabilities : Regrant(c)
    BY <2>1, <2>8, ClockStep
  <2>9. QED
    BY <2>1, <2>2, <2>3, <2>4, <2>5, <2>6, <2>7, <2>8 DEF Next
<1>2. QED
  BY InvInit, <1>1, PTL DEF Spec

\* Nobody is permitted a module on a grant taken back for longer than its
\* assertions live, for every number of requests and however their answers
\* are reordered.
THEOREM Bounded == Spec => []RevocationBounded
<1>1. IInv => RevocationBounded
  <2>1. SUFFICES ASSUME IInv, NEW r \in Requests, NEW m \in Modules, req[r].at = "decided",
                        NEW a \in req[r].assertions, FamilyOf[a.capability] = m
                 PROVE  \E c \in Capabilities :
                            /\ FamilyOf[c] = m
                            /\ lastGranted[c] >= 0
                            /\ lastGranted[c] + LifetimeOf[c] > req[r].since
    BY DEF RevocationBounded, Permits
  <2>2. a.capability \in Capabilities
    BY <2>1 DEF IInv, TypeOK, IsRequest, Idle, Assertions
  <2>3. Issued(a) /\ lastGranted[a.capability] + LifetimeOf[a.capability] > req[r].since
    BY <2>1 DEF IInv, ServedSound
  <2>4. QED
    BY <2>1, <2>2, <2>3 DEF Issued
<1>2. QED
  BY Invariance, <1>1, PTL

-----------------------------------------------------------------------------
(* The dashboard.                                                          *)

\* The composition implements the permission cache: a step of a job stutters,
\* or is the request leaving.
THEOREM DashboardAsks == DashboardSpec => Spec
<1>1. DashboardInit => Init
  BY DEF DashboardInit
<1>2. [DashboardNext]_allVars => [Next]_vars
  BY DEF DashboardNext, allVars, GateStep, vars, Next
<1> QED
  BY <1>1, <1>2, PTL DEF DashboardSpec, Spec

\* So the cache's invariant holds under the dashboard.
COROLLARY CacheStillSound == DashboardSpec => []IInv
  BY DashboardAsks, Invariance, PTL

-----------------------------------------------------------------------------
LEMMA DashboardInitially == DashboardInit => DashboardIInv
<1> SUFFICES ASSUME DashboardInit PROVE DashboardIInv
  OBVIOUS
<1>1. \A r \in Requests : job[r] = NoJob
  BY DEF DashboardInit
<1>2. DashboardTypeOK
  BY DEF DashboardInit, DashboardTypeOK, IsJob
<1>3. SavesAlone /\ JobsSound
  BY <1>1 DEF SavesAlone, JobsSound, NoJob
<1>4. StoredIsOneLayout
  BY DEF DashboardInit, StoredIsOneLayout, UniquePositions
<1> QED
  BY <1>2, <1>3, <1>4 DEF DashboardIInv

\* Requests and assertions stay what they are for a request that has a job.
JobUndisturbed == \A r \in Requests : job[r] # NoJob => req'[r] = req[r]

LEMMA GateKeeps ==
  ASSUME DashboardIInv, JobUndisturbed, UNCHANGED dashboardVars
  PROVE  DashboardIInv'
<1>1. config' = config /\ cards' = cards /\ holder' = holder /\ job' = job /\ laid' = laid
  BY DEF dashboardVars
<1>2. DashboardTypeOK' /\ SavesAlone' /\ StoredIsOneLayout'
  BY <1>1 DEF DashboardIInv, DashboardTypeOK, SavesAlone, StoredIsOneLayout
<1>3. ASSUME NEW r \in Requests
      PROVE  /\ job[r] # NoJob => req'[r].at = "decided"
             /\ job[r].at \in {"valid", "locked", "cleared"} => UniquePositions(job[r].body)
             /\ job[r].at = "shown" => \A card \in job[r].cards : Permits(req'[r].assertions, card.module)
  <2>1. CASE job[r] = NoJob
    BY <2>1 DEF NoJob
  <2>2. CASE job[r] # NoJob
    BY <2>2 DEF DashboardIInv, JobsSound, JobUndisturbed, May
  <2> QED
    BY <2>1, <2>2
<1>4. JobsSound'
  BY <1>1, <1>3 DEF JobsSound, May
<1> QED
  BY <1>2, <1>4 DEF DashboardIInv

\* A step that moves job r on, or ends it, with the stored cards as they are.
LEMMA JobMoves ==
  ASSUME DashboardIInv, NEW r \in Requests, NEW j, job' = [job EXCEPT ![r] = j], IsJob(j),
         UNCHANGED <<config, cards, laid>>,
         \A q \in Requests : q # r => req'[q] = req[q],
         holder' \in {holder, holder \ {r}} \/ (holder = {} /\ holder' = {r}),
         j.at \in {"locked", "cleared"} => holder' = {r},
         j.at = "cleared" => j.old = cards,
         j # NoJob => req'[r].at = "decided",
         j.at \in {"valid", "locked", "cleared"} => UniquePositions(j.body),
         j.at = "shown" => \A card \in j.cards : Permits(req'[r].assertions, card.module)
  PROVE  DashboardIInv'
<1>1. DOMAIN job = Requests /\ \A q \in Requests : job'[q] = IF q = r THEN j ELSE job[q]
  BY DEF DashboardIInv, DashboardTypeOK
<1>2. DashboardTypeOK'
  BY <1>1 DEF DashboardIInv, DashboardTypeOK
<1>3. ASSUME NEW q \in Requests, q # r, job[q].at \in {"locked", "cleared"} PROVE holder' = {q}
  BY <1>3 DEF DashboardIInv, SavesAlone
<1>4. SavesAlone'
  BY <1>1, <1>3 DEF DashboardIInv, SavesAlone
<1>5. JobsSound'
  BY <1>1 DEF DashboardIInv, JobsSound, May
<1>6. StoredIsOneLayout'
  BY DEF DashboardIInv, StoredIsOneLayout
<1> QED
  BY <1>2, <1>4, <1>5, <1>6 DEF DashboardIInv

\* DashboardConfiguration::new places modules it knows.
LEMMA DefaultCards ==
  ASSUME NEW r \in Requests
  PROVE  Defaults(r) \subseteq Cards
<1> DEFINE D == DEFAULT_CARD_MODULE_IDS
           permitted == {i \in DOMAIN D : May(r, D[i])}
           place(i) == Cardinality({k \in permitted : k < i})
<1>1. D \in Seq(Modules) /\ DOMAIN D = 1 .. Len(D) /\ Len(D) \in Nat
  BY DashboardAssumption DEF DashboardAssumption
<1>2. IsFiniteSet(1 .. Len(D))
  BY <1>1, FS_Interval
<1>3. ASSUME NEW i \in permitted
      PROVE  D[i] \in Modules /\ place(i) \in Nat
  <2>1. IsFiniteSet({k \in permitted : k < i})
    BY <1>1, <1>2, FS_Subset
  <2> QED
    BY <1>1, <2>1, FS_CardinalityType
<1>4. Defaults(r) = {[module |-> D[i], position |-> place(i)] : i \in permitted}
  BY DEF Defaults
<1> HIDE DEF permitted, place
<1> QED
  BY <1>3, <1>4 DEF Cards

LEMMA JobStepKeeps ==
  ASSUME IInv, DashboardIInv, NEW r \in Requests, JobStep(r), UNCHANGED vars
  PROVE  DashboardIInv'
<1>0. req' = req /\ IsJob(job[r]) /\ cards \subseteq Cards /\ config \in BOOLEAN
  BY DEF vars, DashboardIInv, DashboardTypeOK
<1>1. ASSUME NEW body \in SUBSET [module : Modules, position : Positions], PutDashboard(r, body)
      PROVE  DashboardIInv'
  <2> DEFINE j == [at |-> "valid", body |-> body, old |-> {}]
  <2>1. body \subseteq Cards
    BY DashboardAssumption DEF Cards, DashboardAssumption
  <2>2. IsJob(j) /\ j.at = "valid" /\ j.body = body
    BY <2>1 DEF IsJob
  <2>3. /\ job' = [job EXCEPT ![r] = j] /\ UNCHANGED <<config, cards, holder, laid>>
        /\ req[r].at = "decided" /\ UniquePositions(body)
    BY <1>1 DEF PutDashboard, AddCards, Arrives
  <2> HIDE DEF j
  <2> QED
    BY <1>0, <2>2, <2>3, JobMoves
<1>2. ASSUME UpsertRow(r) PROVE DashboardIInv'
  <2> DEFINE j == [job[r] EXCEPT !.at = "locked"]
  <2>1. job[r].at = "valid" /\ job[r] # NoJob
    BY <1>2 DEF UpsertRow, NoJob
  <2>2. req[r].at = "decided" /\ UniquePositions(job[r].body)
    BY <2>1 DEF DashboardIInv, JobsSound
  <2>3. job' = [job EXCEPT ![r] = j] /\ UNCHANGED <<config, cards, laid>> /\ holder = {} /\ holder' = {r}
    BY <1>2 DEF UpsertRow
  <2>4. IsJob(j) /\ j.at = "locked" /\ j.body = job[r].body
    BY <1>0, <2>1 DEF IsJob, NoJob
  <2> HIDE DEF j
  <2> QED
    BY <1>0, <2>2, <2>3, <2>4, JobMoves
<1>3. ASSUME DeleteCards(r) PROVE DashboardIInv'
  <2> DEFINE j == [job[r] EXCEPT !.at = "cleared", !.old = cards]
  <2>1. job[r].at = "locked" /\ job[r] # NoJob
    BY <1>3 DEF DeleteCards, NoJob
  <2>2. req[r].at = "decided" /\ UniquePositions(job[r].body) /\ holder = {r}
    BY <2>1 DEF DashboardIInv, JobsSound, SavesAlone
  <2>3. job' = [job EXCEPT ![r] = j] /\ UNCHANGED <<config, cards, laid, holder>>
    BY <1>3 DEF DeleteCards
  <2>4. IsJob(j) /\ j.at = "cleared" /\ j.body = job[r].body /\ j.old = cards
    BY <1>0, <2>1 DEF IsJob, NoJob
  <2> HIDE DEF j
  <2> QED
    BY <1>0, <2>2, <2>3, <2>4, JobMoves
<1>4. ASSUME FindRow(r) PROVE DashboardIInv'
  <2> DEFINE j == [at |-> "found", row |-> config]
  <2>1. /\ job' = [job EXCEPT ![r] = j] /\ UNCHANGED <<config, cards, holder, laid>>
        /\ req[r].at = "decided"
    BY <1>4 DEF FindRow, Arrives
  <2>2. IsJob(j) /\ j.at = "found"
    BY <1>0 DEF IsJob
  <2> HIDE DEF j
  <2> QED
    BY <1>0, <2>1, <2>2, JobMoves
<1>5. ASSUME GetDashboard(r) PROVE DashboardIInv'
  <2>1. PICK stored : /\ job' = [job EXCEPT ![r] = [at |-> "shown", cards |-> ShowPermitted(r, stored)]]
                      /\ stored \in {cards, Defaults(r)}
    BY <1>5 DEF GetDashboard
  <2> DEFINE j == [at |-> "shown", cards |-> ShowPermitted(r, stored)]
  <2>2. job[r].at = "found" /\ job[r] # NoJob /\ UNCHANGED <<config, cards, holder, laid>>
    BY <1>5 DEF GetDashboard, NoJob
  <2>3. req[r].at = "decided"
    BY <2>2 DEF DashboardIInv, JobsSound
  <2>4. ShowPermitted(r, stored) \subseteq Cards
    BY <1>0, <2>1, DefaultCards DEF ShowPermitted
  <2>5. IsJob(j) /\ j.at = "shown" /\ \A card \in j.cards : Permits(req[r].assertions, card.module)
    BY <2>4 DEF IsJob, ShowPermitted, May
  <2> HIDE DEF j
  <2> QED
    BY <1>0, <2>1, <2>2, <2>3, <2>5, JobMoves DEF j
<1> QED
  BY <1>1, <1>2, <1>3, <1>4, <1>5 DEF JobStep

LEMMA EndKeeps ==
  ASSUME DashboardIInv, NEW r \in Requests, EndJob(r), Leave(r)
  PROVE  DashboardIInv'
<1>1. IsJob(NoJob) /\ NoJob.at = "none"
  BY DEF IsJob, NoJob
<1>2. \A q \in Requests : q # r => req'[q] = req[q]
  BY DEF Leave
<1>3. job' = [job EXCEPT ![r] = NoJob] /\ holder' = holder \ {r} /\ UNCHANGED <<config, cards, laid>>
  BY DEF EndJob, Release
<1> QED
  BY <1>1, <1>2, <1>3, JobMoves

\* The commit replaces all the cards there are: nobody saved since the DELETE.
LEMMA CommitKeeps ==
  ASSUME DashboardIInv, NEW r \in Requests, Commit(r), Leave(r)
  PROVE  DashboardIInv'
<1>1. /\ job[r].at = "cleared" /\ job[r] # NoJob /\ config' = TRUE
      /\ cards' = (cards \ job[r].old) \cup job[r].body /\ laid' = job[r].body
      /\ holder' = holder \ {r} /\ job' = [job EXCEPT ![r] = NoJob]
  BY DEF Commit, Release, NoJob
<1>2. holder = {r} /\ job[r].old = cards /\ UniquePositions(job[r].body) /\ IsJob(job[r])
  BY <1>1 DEF DashboardIInv, SavesAlone, JobsSound, DashboardTypeOK
<1>3. cards' = job[r].body /\ job[r].body \subseteq Cards
  BY <1>1, <1>2 DEF IsJob
<1>4. DOMAIN job = Requests /\ \A q \in Requests : job'[q] = IF q = r THEN NoJob ELSE job[q]
  BY <1>1 DEF DashboardIInv, DashboardTypeOK
<1>5. \A q \in Requests : q # r => req'[q] = req[q]
  BY DEF Leave
<1>6. \A q \in Requests : job'[q].at \notin {"locked", "cleared"}
  BY <1>2, <1>4 DEF DashboardIInv, SavesAlone, NoJob
<1>7. DashboardTypeOK'
  BY <1>1, <1>2, <1>3, <1>4 DEF DashboardIInv, DashboardTypeOK, IsJob
<1>8. JobsSound'
  BY <1>4, <1>5 DEF DashboardIInv, JobsSound, NoJob, May
<1>9. StoredIsOneLayout'
  BY <1>1, <1>2, <1>3 DEF StoredIsOneLayout
<1> QED
  BY <1>6, <1>7, <1>8, <1>9 DEF DashboardIInv, SavesAlone

LEMMA DashboardStep == IInv /\ DashboardIInv /\ [DashboardNext]_allVars => DashboardIInv'
<1> SUFFICES ASSUME IInv, DashboardIInv, [DashboardNext]_allVars PROVE DashboardIInv'
  OBVIOUS
<1>1. CASE GateStep
  BY <1>1, GateKeeps DEF GateStep, JobUndisturbed
<1>2. ASSUME NEW r \in Requests, JobStep(r), UNCHANGED vars PROVE DashboardIInv'
  BY <1>2, JobStepKeeps
<1>3. ASSUME NEW r \in Requests, Commit(r) \/ EndJob(r), Leave(r) PROVE DashboardIInv'
  BY <1>3, CommitKeeps, EndKeeps
<1>4. CASE UNCHANGED allVars
  BY <1>4, GateKeeps DEF allVars, dashboardVars, JobUndisturbed
<1> QED
  BY <1>1, <1>2, <1>3, <1>4 DEF DashboardNext

\* Transactions and jobs agree with what is stored, whatever overlaps.
THEOREM DashboardInvariance == DashboardSpec => []DashboardIInv
  BY DashboardInitially, DashboardStep, CacheStillSound, PTL DEF DashboardSpec

\* PgDashboardConfigurationRepository::save leaves one body, never a mix.
THEOREM OneLayout == DashboardSpec => []StoredIsOneLayout
<1>1. DashboardIInv => StoredIsOneLayout
  BY DEF DashboardIInv
<1> QED
  BY <1>1, DashboardInvariance, PTL

\* get_dashboard shows no card for longer after a revocation than an assertion
\* lives, however long the card has been stored.
THEOREM ShownHeld == DashboardSpec => []ShownIsHeld
<1>1. IInv /\ DashboardIInv => ShownIsHeld
  <2> SUFFICES ASSUME IInv, DashboardIInv, NEW r \in Requests, job[r].at = "shown",
                      NEW card \in job[r].cards
               PROVE  \E c \in Capabilities :
                          /\ FamilyOf[c] = card.module
                          /\ lastGranted[c] >= 0
                          /\ lastGranted[c] + LifetimeOf[c] > req[r].since
    BY DEF ShownIsHeld
  <2>1. req[r].at = "decided" /\ Permits(req[r].assertions, card.module)
    BY DEF DashboardIInv, JobsSound, NoJob, May
  <2>2. PICK a \in req[r].assertions : FamilyOf[a.capability] = card.module
    BY <2>1 DEF Permits
  <2>3. Issued(a) /\ lastGranted[a.capability] + LifetimeOf[a.capability] > req[r].since
    BY <2>1 DEF IInv, ServedSound
  <2>4. a.capability \in Capabilities
    BY <2>1 DEF IInv, TypeOK, IsRequest, Idle, Assertions
  <2> QED
    BY <2>2, <2>3, <2>4 DEF Issued
<1> QED
  BY <1>1, CacheStillSound, DashboardInvariance, PTL

=============================================================================
