--------------------------- MODULE EventFanout_proofs ---------------------------
(***************************************************************************)
(* Proofs about the push fan-out, for any number of entries, of tabs of a  *)
(* consultant and of server instances, and any capacity of the bus.        *)
(***************************************************************************)
EXTENDS EventFanout, TLAPS

-----------------------------------------------------------------------------
(* The order of states, and the queue of the bus.                          *)

LEMMA RankOrder ==
  /\ \A s \in States : AtLeast(s, s) /\ AtLeast(s, "absent")
  /\ \A a, b, c \in States : AtLeast(a, b) /\ AtLeast(b, c) => AtLeast(a, c)
BY DEF AtLeast, States, Rows!States, Rank

LEMMA HeldFacts ==
  ASSUME TypeOK, NEW i \in Instances
  PROVE  /\ held[i].at \in {"recv", "hydrate", "publish"}
         /\ held[i].at = "hydrate" => held[i].entry \in Entries
         /\ held[i].at = "publish" => held[i].read \in Readings
BY DEF TypeOK, Holdings

LEMMA FetchFacts ==
  ASSUME TypeOK, NEW t \in Tabs
  PROVE  /\ fetch[t].at \in {"settled", "failed", "asked", "answered"}
         /\ fetch[t].at = "answered" => fetch[t].view \in Views
BY DEF TypeOK, Fetches

\* The channel keeps its newest messages in order and puts the new one last.
LEMMA PutKeepsOrder ==
  ASSUME NEW q \in Seq(Readings), NEW read \in Readings, Len(q) <= Capacity
  PROVE  /\ Put(q, read) \in Seq(Readings)
         /\ Len(Put(q, read)) \in 1 .. Capacity
         /\ Put(q, read)[Len(Put(q, read))] = read
         /\ \E d \in {0, 1} : \A j \in 1 .. Len(Put(q, read)) :
              j # Len(Put(q, read)) => j + d \in 1 .. Len(q) /\ Put(q, read)[j] = q[j + d]
<1>0. Capacity \in Nat \ {0} /\ Len(q) \in Nat
  BY FanoutAssumption DEF FanoutAssumption
<1>1. CASE Len(q) < Capacity
  <2>1. Put(q, read) = Append(q, read)
    BY <1>1 DEF Put
  <2>2. Len(Append(q, read)) = Len(q) + 1 /\ Append(q, read) \in Seq(Readings)
    OBVIOUS
  <2>3. \A j \in 1 .. Len(q) : Append(q, read)[j] = q[j]
    OBVIOUS
  <2>4. Append(q, read)[Len(q) + 1] = read
    OBVIOUS
  <2>5. \A j \in 1 .. Len(q) + 1 :
          j # Len(q) + 1 => j + 0 \in 1 .. Len(q) /\ Append(q, read)[j] = q[j + 0]
    BY <1>0, <2>3
  <2> QED
    BY <1>0, <1>1, <2>1, <2>2, <2>4, <2>5
<1>2. CASE Len(q) = Capacity
  <2>1. Put(q, read) = Append(Tail(q), read)
    BY <1>0, <1>2 DEF Put
  <2>2. q # <<>> /\ Tail(q) \in Seq(Readings) /\ Len(Tail(q)) = Len(q) - 1
    BY <1>0, <1>2
  <2>3. \A j \in 1 .. Len(q) - 1 : Tail(q)[j] = q[j + 1]
    BY <1>0, <2>2
  <2>4. /\ Len(Append(Tail(q), read)) = Len(q)
        /\ Append(Tail(q), read) \in Seq(Readings)
        /\ Append(Tail(q), read)[Len(q)] = read
    BY <1>0, <2>2
  <2>5. \A j \in 1 .. Len(q) - 1 : Append(Tail(q), read)[j] = q[j + 1]
    BY <1>0, <2>2, <2>3
  <2>6. \A j \in 1 .. Len(q) :
          j # Len(q) => j + 1 \in 1 .. Len(q) /\ Append(Tail(q), read)[j] = q[j + 1]
    BY <1>0, <2>5
  <2> QED
    BY <1>0, <1>2, <2>1, <2>4, <2>6
<1> QED
  BY <1>0, <1>1, <1>2

LEMMA TailMoves ==
  ASSUME NEW S, NEW q \in Seq(S), q # <<>>
  PROVE  /\ Head(q) = q[1] /\ Head(q) \in S
         /\ Len(q) \in Nat \ {0}
         /\ Tail(q) \in Seq(S) /\ Len(Tail(q)) = Len(q) - 1
         /\ \A j \in 1 .. Len(Tail(q)) : j + 1 \in 1 .. Len(q) /\ Tail(q)[j] = q[j + 1]
OBVIOUS

-----------------------------------------------------------------------------
(* What is left alone stays sound while the rows advance.                  *)

RowsAdvance == state' \in Views /\ \A e \in Entries : AtLeast(state'[e], state[e])

LEMMA PastStays ==
  ASSUME TypeOK, RowsAdvance, NEW read \in Readings, Past(read)
  PROVE  Past(read)'
<1>1. /\ read.entry \in Entries /\ read.state \in States
      /\ state[read.entry] \in States /\ state'[read.entry] \in States
  BY DEF Readings, TypeOK, RowsAdvance, Views
<1>2. AtLeast(state'[read.entry], state[read.entry]) /\ AtLeast(state[read.entry], read.state)
  BY <1>1 DEF RowsAdvance, Past
<1> QED
  BY <1>1, <1>2, RankOrder DEF Past

LEMMA StreamKept ==
  ASSUME TypeOK, RowsAdvance, NEW t \in Tabs, StreamSound(t),
         inbox'[t] = inbox[t], seen'[t] = seen[t],
         t \in live' => t \in live, t \notin live' => inbox[t] = <<>>,
         held'[InstanceOf[t]].at = "publish" => held'[InstanceOf[t]] = held[InstanceOf[t]]
  PROVE  StreamSound(t)'
<1>1. inbox[t] \in Seq(Readings) /\ seen[t] \in Views
  BY DEF TypeOK
<1>2. ASSUME NEW e \in Entries PROVE AtLeast(state'[e], seen[t][e])
  <2>1. state[e] \in States /\ state'[e] \in States /\ seen[t][e] \in States
    BY <1>1 DEF TypeOK, RowsAdvance, Views
  <2>2. AtLeast(state'[e], state[e]) /\ AtLeast(state[e], seen[t][e])
    BY DEF RowsAdvance, StreamSound
  <2> QED
    BY <2>1, <2>2, RankOrder
<1>3. ASSUME NEW j \in 1 .. Len(inbox[t]) PROVE Past(inbox[t][j])'
  BY <1>1, PastStays DEF StreamSound, Past
<1> QED
  BY <1>2, <1>3 DEF StreamSound, NoOlder, Past

LEMMA ListKept ==
  ASSUME TypeOK, RowsAdvance, NEW t \in Tabs, ListSound(t),
         list'[t] = list[t],
         fetch'[t].at = "answered" =>
           /\ fetch'[t] = fetch[t]
           /\ t \notin joined' => t \notin joined /\ \A e \in Entries :
                                    seen'[t][e] \in {seen[t][e], "absent"}
  PROVE  ListSound(t)'
<1> SUFFICES ASSUME NEW e \in Entries
             PROVE  /\ AtLeast(state'[e], list[t][e])
                    /\ fetch'[t].at = "answered" =>
                         /\ AtLeast(state'[e], fetch'[t].view[e])
                         /\ AtLeast(fetch'[t].view[e], list[t][e])
                         /\ OwnerOf[e] # UserOf[t] => fetch'[t].view[e] = "absent"
                         /\ t \notin joined' => AtLeast(fetch'[t].view[e], seen'[t][e])
  BY DEF ListSound
<1>1. /\ state[e] \in States /\ state'[e] \in States /\ list[t][e] \in States
      /\ AtLeast(state'[e], state[e])
  BY DEF TypeOK, Views, RowsAdvance
<1>2. AtLeast(state'[e], list[t][e])
  BY <1>1, RankOrder DEF ListSound
<1>3. CASE fetch'[t].at = "answered"
  <2>1. fetch'[t] = fetch[t] /\ fetch[t].view \in Views /\ fetch[t].view[e] \in States
    BY <1>3, FetchFacts DEF Views
  <2>2. AtLeast(state'[e], fetch[t].view[e])
    BY <1>1, <1>3, <2>1, RankOrder DEF ListSound
  <2>3. ASSUME t \notin joined' PROVE AtLeast(fetch[t].view[e], seen'[t][e])
    BY <1>3, <2>1, <2>3, RankOrder DEF ListSound
  <2> QED
    BY <1>2, <1>3, <2>1, <2>2, <2>3 DEF ListSound
<1> QED
  BY <1>2, <1>3

\* A refetch asks anew, or marks the tab as joined by a frame in its first fetch.
LEMMA RefetchFacts ==
  ASSUME TypeOK, NEW t \in Tabs, Refetch(t)
  PROVE  /\ fetch' \in [Tabs -> Fetches] /\ joined' \subseteq Tabs /\ loaded' = loaded
         /\ \A u \in Tabs : u # t => fetch'[u] = fetch[u] /\ (u \in joined' <=> u \in joined)
         /\ \/ fetch'[t] = [at |-> "asked"]
            \/ fetch' = fetch /\ fetch[t].at \in {"asked", "answered"} /\ t \in joined'
<1>1. fetch \in [Tabs -> Fetches] /\ joined \subseteq Tabs
  BY DEF TypeOK
<1>2. [at |-> "asked"] \in Fetches
  BY DEF Fetches
<1>3. loaded' = loaded /\ joined' \in {joined \ {t}, joined \cup {t}}
  BY DEF Refetch
<1>4. CASE JoinsFirstFetch(t)
  <2>1. fetch' = fetch /\ joined' = joined \cup {t}
    BY <1>4, FetchFacts DEF Refetch, JoinsFirstFetch
  <2> QED
    BY <1>1, <1>3, <1>4, <2>1, FetchFacts DEF JoinsFirstFetch
<1>5. CASE ~JoinsFirstFetch(t)
  <2>1. fetch' = [fetch EXCEPT ![t] = [at |-> "asked"]]
    BY <1>5 DEF Refetch
  <2> QED
    BY <1>1, <1>2, <1>3, <2>1
<1> QED
  BY <1>4, <1>5

-----------------------------------------------------------------------------
(* The invariant.                                                          *)

LEMMA Initially == Init => IInv
<1> SUFFICES ASSUME Init PROVE IInv
  OBVIOUS
<1> USE FanoutAssumption DEF FanoutAssumption
<1>0. Nothing \in Views /\ \A e \in Entries : Nothing[e] = "absent"
  BY DEF Nothing, Views, States, Rows!States
<1>1. TypeOK
  <2>1. chan \in [Instances -> Seq(Entries)] /\ held \in [Instances -> Holdings]
    BY DEF Init, Holdings
  <2>2. /\ inbox \in [Tabs -> Seq(Readings)]
        /\ \A t \in Tabs : Len(inbox[t]) <= Capacity
    BY DEF Init
  <2>3. seen \in [Tabs -> Views] /\ list \in [Tabs -> Views] /\ fetch \in [Tabs -> Fetches]
    BY <1>0 DEF Init, Fetches
  <2>4. state \in Views /\ duty \in [Tasks -> Rows!Duties]
    BY <1>0 DEF Init, Rows!Init, Rows!Duties, Nothing
  <2>5. faults \in 0 .. MaxFaults /\ gestures \in 0 .. MaxGestures
    BY DEF Init
  <2> QED
    BY <2>1, <2>2, <2>3, <2>4, <2>5 DEF Init, TypeOK
<1>2. \A i \in Instances : held[i].at = "recv"
  BY DEF Init
<1>3. \A t \in Tabs : StreamSound(t)
  BY <1>0, <1>2, RankOrder DEF Init, Rows!Init, StreamSound, States, Rows!States
<1>4. \A t \in Tabs : ListSound(t)
  <2> SUFFICES ASSUME NEW t \in Tabs, NEW e \in Entries
               PROVE AtLeast(state[e], list[t][e]) /\ fetch[t].at = "asked"
    BY DEF ListSound
  <2> QED
    BY <1>0, RankOrder DEF Init, Rows!Init, States, Rows!States
<1>5. OwnRowsOnly /\ SettledListHasFrames
  BY <1>0 DEF Init, OwnRowsOnly, SettledListHasFrames
<1> QED
  BY <1>1, <1>2, <1>3, <1>4, <1>5 DEF IInv

\* The steps that change rows, connections and bridges and reach no tab's stream or list.
LEMMA TabsUndisturbed ==
  ASSUME IInv, TypeOK', RowsAdvance, UNCHANGED <<stream, client>>,
         \A i \in Instances : held'[i].at = "publish" => held'[i] = held[i]
  PROVE  IInv'
<1> USE DEF IInv
<1>1. ASSUME NEW t \in Tabs PROVE StreamSound(t)' /\ ListSound(t)'
  <2>1. InstanceOf[t] \in Instances /\ (t \notin live => inbox[t] = <<>>)
    BY FanoutAssumption DEF FanoutAssumption, StreamSound
  <2>2. StreamSound(t)'
    BY <2>1, StreamKept DEF stream
  <2>3. ListSound(t)'
    BY ListKept DEF stream, client
  <2> QED
    BY <2>2, <2>3
<1>2. \A i \in Instances : (held[i].at = "publish" => Past(held[i].read))'
  BY PastStays, HeldFacts DEF Past
<1>3. OwnRowsOnly' /\ SettledListHasFrames'
  BY DEF OwnRowsOnly, SettledListHasFrames, stream, client
<1> QED
  BY <1>1, <1>2, <1>3

LEMMA DutyFacts ==
  \A d \in Rows!Duties : d.at \in {"confirming", "announcing"} => d.entry \in Entries
BY DEF Rows!Duties, Rows!NoDuty

\* What happens to the rows only takes them on.
LEMMA RowsAdvancing ==
  ASSUME TypeOK, [Rows!Next]_rows
  PROVE  RowsAdvance /\ duty' \in [Tasks -> Rows!Duties]
<1> USE DEF TypeOK
<1>1. \A e \in Entries : state[e] \in States
  BY DEF Views
<1>2. ASSUME state' = state PROVE RowsAdvance
  BY <1>1, <1>2, RankOrder DEF RowsAdvance
<1>3. ASSUME NEW e \in Entries, NEW s \in States, AtLeast(s, state[e]),
             state' = [state EXCEPT ![e] = s]
      PROVE  RowsAdvance
  BY <1>1, <1>3, RankOrder DEF RowsAdvance, Views
<1>4. ASSUME NEW s \in Tasks, NEW d \in Rows!Duties, duty' = [duty EXCEPT ![s] = d]
      PROVE  duty' \in [Tasks -> Rows!Duties]
  BY <1>4
<1>5. /\ Rows!NoDuty \in Rows!Duties
      /\ \A e \in Entries : /\ [at |-> "announcing", entry |-> e] \in Rows!Duties
                            /\ [at |-> "confirming", entry |-> e] \in Rows!Duties
  BY DEF Rows!Duties
<1>6. ASSUME NEW s \in Tasks, duty[s].at \in {"confirming", "announcing"}
      PROVE  duty[s].entry \in Entries
  <2>1. duty[s] \in Rows!Duties
    OBVIOUS
  <2> QED
    BY <1>6, <2>1, DutyFacts
<1>7. ASSUME NEW s \in Tasks, NEW e \in Entries, Rows!Insert(s, e)
      PROVE  RowsAdvance /\ duty' \in [Tasks -> Rows!Duties]
  <2>1. "pending" \in States /\ AtLeast("pending", state[e])
    BY <1>7 DEF Rows!Insert, States, Rows!States, AtLeast, Rank
  <2>2. RowsAdvance
    BY <1>3, <1>7, <2>1 DEF Rows!Insert
  <2> QED
    BY <1>4, <1>5, <1>7, <2>2 DEF Rows!Insert
<1>8. ASSUME NEW s \in Tasks, NEW e \in Entries, Rows!Find(s, e)
      PROVE  RowsAdvance /\ duty' \in [Tasks -> Rows!Duties]
  BY <1>2, <1>4, <1>5, <1>8 DEF Rows!Find
<1>9. ASSUME NEW s \in Tasks, Rows!Complete(s)
      PROVE  RowsAdvance /\ duty' \in [Tasks -> Rows!Duties]
  <2>1. PICK e \in Entries : e = duty[s].entry
    BY <1>6, <1>9 DEF Rows!Complete
  <2>2. CASE state[e] = "in_progress"
    <3>1. "completed" \in States /\ AtLeast("completed", state[e])
      BY <2>2 DEF States, Rows!States, AtLeast, Rank
    <3>2. state' = [state EXCEPT ![e] = "completed"]
      BY <1>9, <2>1, <2>2 DEF Rows!Complete, Rows!MarkCompleted
    <3> QED
      BY <1>3, <1>4, <1>5, <1>9, <2>1, <3>1, <3>2 DEF Rows!Complete
  <2>3. CASE state[e] # "in_progress"
    <3>1. state' = state
      BY <1>9, <2>1, <2>3 DEF Rows!Complete, Rows!MarkCompleted
    <3> QED
      BY <1>2, <1>4, <1>5, <1>9, <2>1, <3>1 DEF Rows!Complete
  <2> QED
    BY <2>2, <2>3
<1>10. ASSUME NEW s \in Tasks, Rows!Announce(s) \/ Rows!Drop(s)
       PROVE  RowsAdvance /\ duty' \in [Tasks -> Rows!Duties]
  BY <1>2, <1>4, <1>5, <1>10 DEF Rows!Announce, Rows!Drop
<1>11. ASSUME NEW e \in Entries, Rows!Start(e)
       PROVE  RowsAdvance /\ duty' \in [Tasks -> Rows!Duties]
  <2>1. CASE state[e] = "pending"
    <3>1. "in_progress" \in States /\ AtLeast("in_progress", state[e])
      BY <2>1 DEF States, Rows!States, AtLeast, Rank
    <3> QED
      BY <1>3, <1>11, <2>1, <3>1 DEF Rows!Start, Rows!MarkStarted
  <2>2. CASE state[e] # "pending"
    BY <1>2, <1>11, <2>2 DEF Rows!Start, Rows!MarkStarted
  <2> QED
    BY <2>1, <2>2
<1>12. ASSUME NEW overdue \in SUBSET Entries, Rows!Expire(overdue)
       PROVE  RowsAdvance /\ duty' \in [Tasks -> Rows!Duties]
  <2>1. "expired" \in States
    BY DEF States, Rows!States
  <2>2. \A e \in overdue : AtLeast("expired", state[e])
    BY <1>12 DEF Rows!Expire, AtLeast, Rank
  <2> QED
    BY <1>1, <1>12, <2>1, <2>2, RankOrder DEF Rows!Expire, RowsAdvance, Views
<1>13. CASE UNCHANGED rows
  BY <1>2, <1>13 DEF rows
<1> QED
  BY <1>7, <1>8, <1>9, <1>10, <1>11, <1>12, <1>13 DEF Rows!Next

\* The steps that touch rows only by way of Announcements.
LEMMA RowSteps ==
  /\ \A s \in Tasks, e \in Entries : Insert(s, e) \/ Find(s, e) => Rows!Next
  /\ \A s \in Tasks : Complete(s) \/ Notify(s) \/ TaskFails(s) => Rows!Next
  /\ \A t \in Tabs, e \in Entries : TakeAction(t, e) => Rows!Next
  /\ \A overdue \in SUBSET Entries : Expire(overdue) => Rows!Next
BY DEF Rows!Next, Insert, Find, Complete, Notify, TaskFails, TakeAction, Expire

LEMMA RowStep ==
  ASSUME IInv,
         \/ \E s \in Tasks, e \in Entries : Insert(s, e) \/ Find(s, e)
         \/ \E s \in Tasks : Complete(s) \/ Notify(s) \/ TaskFails(s)
         \/ \E overdue \in SUBSET Entries : Expire(overdue)
  PROVE  IInv'
<1> USE DEF IInv
<1>1. RowsAdvance /\ duty' \in [Tasks -> Rows!Duties]
  BY RowSteps, RowsAdvancing
<1>2. state' \in Views
  BY <1>1 DEF RowsAdvance
<1>3. chan' \in [Instances -> Seq(Entries)]
  <2>1. ASSUME NEW s \in Tasks, Notify(s) PROVE chan' \in [Instances -> Seq(Entries)]
    <3>1. duty[s].entry \in Entries
      BY <2>1, DutyFacts DEF TypeOK, Notify, Rows!Announce
    <3> QED
      BY <2>1, <3>1 DEF TypeOK, Notify
  <2>2. CASE chan' = chan
    BY <2>2 DEF TypeOK
  <2> QED
    BY <2>1, <2>2 DEF Insert, Find, Complete, TaskFails, Expire, bridge
<1>4. faults' \in 0 .. MaxFaults /\ gestures' = gestures
  BY FanoutAssumption
     DEF FanoutAssumption, TypeOK, Insert, Find, Complete, Notify, TaskFails, Expire, Fault
<1>5. held' = held /\ linked' = linked /\ UNCHANGED <<stream, client>>
  BY DEF Insert, Find, Complete, Notify, TaskFails, Expire, bridge
<1>6. TypeOK'
  BY <1>1, <1>2, <1>3, <1>4, <1>5 DEF TypeOK, stream, client
<1> QED
  BY <1>1, <1>5, <1>6, TabsUndisturbed

LEMMA BridgeStep ==
  ASSUME IInv, NEW i \in Instances,
         Recv(i) \/ HydrateFails(i) \/ Reconnect(i) \/ Disconnect(i)
  PROVE  IInv'
<1> USE DEF IInv
<1>1. RowsAdvance /\ UNCHANGED <<rows, stream, client, gestures>>
  BY RowsAdvancing DEF Recv, HydrateFails, Reconnect, Disconnect, rows
<1>2. faults' \in 0 .. MaxFaults
  BY FanoutAssumption DEF FanoutAssumption, TypeOK, Recv, HydrateFails, Reconnect, Disconnect, Fault
<1>3. linked' \subseteq Instances
  BY DEF TypeOK, Recv, HydrateFails, Reconnect, Disconnect
<1>4. /\ held' \in [Instances -> Holdings]
      /\ \A k \in Instances : held'[k].at = "publish" => held'[k] = held[k]
  <2>1. CASE Recv(i)
    <3>1. Head(chan[i]) \in Entries
      BY <2>1, TailMoves DEF TypeOK, Recv
    <3>2. [at |-> "hydrate", entry |-> Head(chan[i])] \in Holdings
      BY <3>1 DEF Holdings
    <3> QED
      BY <2>1, <3>2 DEF TypeOK, Recv
  <2>2. CASE HydrateFails(i)
    BY <2>2 DEF TypeOK, HydrateFails, Holdings
  <2>3. CASE Reconnect(i) \/ Disconnect(i)
    BY <2>3 DEF TypeOK, Reconnect, Disconnect
  <2> QED
    BY <2>1, <2>2, <2>3
<1>5. chan' \in [Instances -> Seq(Entries)]
  <2>1. CASE Recv(i)
    BY <2>1, TailMoves DEF TypeOK, Recv
  <2>2. CASE HydrateFails(i) \/ Reconnect(i)
    BY <2>2 DEF TypeOK, HydrateFails, Reconnect
  <2>3. CASE Disconnect(i)
    <3>1. <<>> \in Seq(Entries)
      OBVIOUS
    <3> QED
      BY <2>3, <3>1 DEF TypeOK, Disconnect
  <2> QED
    BY <2>1, <2>2, <2>3
<1>6. TypeOK'
  BY <1>1, <1>2, <1>3, <1>4, <1>5 DEF TypeOK, rows, stream, client
<1> QED
  BY <1>1, <1>4, <1>6, TabsUndisturbed

\* The row is read after every reading the tabs of the instance have.
LEMMA HydrateStep ==
  ASSUME IInv, NEW i \in Instances, Hydrate(i)
  PROVE  IInv'
<1> USE DEF IInv
<1> DEFINE e == held[i].entry
           read == [entry |-> e, state |-> state[e]]
           next == IF state[e] = "absent" THEN [at |-> "recv"] ELSE [at |-> "publish", read |-> read]
<1>1. RowsAdvance /\ UNCHANGED <<rows, linked, chan, stream, client, faults, gestures>>
  BY RowsAdvancing DEF Hydrate, rows
<1>2. e \in Entries /\ state[e] \in States /\ read \in Readings
  BY HeldFacts DEF TypeOK, Views, Hydrate, Readings
<1>3. held' = [held EXCEPT ![i] = next] /\ next \in Holdings
  BY <1>2 DEF Hydrate, Holdings
<1>4. \A k \in Instances : held'[k] = IF k = i THEN next ELSE held[k]
  BY <1>3 DEF TypeOK
<1>5. TypeOK'
  BY <1>1, <1>3 DEF TypeOK, rows, stream, client
<1>6. next.at = "publish" => next.read = read
  OBVIOUS
<1> HIDE DEF next
<1>7. ASSUME NEW k \in Instances, held'[k].at = "publish" PROVE Past(held[k].read)'
  <2>1. CASE k = i
    BY <1>1, <1>2, <1>4, <1>6, <1>7, <2>1, RankOrder DEF Past, rows
  <2>2. CASE k # i
    BY <1>1, <1>4, <1>7, <2>2 DEF Past, rows
  <2> QED
    BY <2>1, <2>2
<1>8. ASSUME NEW t \in Tabs PROVE StreamSound(t)'
  <2>1. InstanceOf[t] \in Instances /\ (t \notin live => inbox[t] = <<>>)
    BY FanoutAssumption DEF FanoutAssumption, StreamSound
  <2>2. CASE InstanceOf[t] = i
    <3>1. AtLeast(state[e], seen[t][e])
      BY <1>2 DEF StreamSound
    <3>2. \A j \in 1 .. Len(inbox[t]) : NoOlder(read, inbox[t][j])
      BY DEF StreamSound, Past, NoOlder
    <3>3. held'[InstanceOf[t]] = next
      BY <1>4, <2>1, <2>2
    <3> QED
      BY <1>1, <1>6, <3>1, <3>2, <3>3 DEF StreamSound, stream, rows, Past
  <2>3. CASE InstanceOf[t] # i
    BY <1>1, <1>4, <2>1, <2>3, StreamKept DEF stream
  <2> QED
    BY <2>2, <2>3
<1>9. ASSUME NEW t \in Tabs PROVE ListSound(t)'
  BY <1>1, ListKept DEF stream, client
<1>10. OwnRowsOnly' /\ SettledListHasFrames'
  BY <1>1 DEF OwnRowsOnly, SettledListHasFrames, stream, client
<1> QED
  BY <1>5, <1>7, <1>8, <1>9, <1>10

\* The queue of a live tab of the instance gets its newest reading last.
LEMMA PublishStep ==
  ASSUME IInv, NEW i \in Instances, Publish(i)
  PROVE  IInv'
<1> USE DEF IInv
<1> DEFINE read == held[i].read
           here == {t \in live : InstanceOf[t] = i}
<1>1. RowsAdvance /\ UNCHANGED <<rows, linked, chan, live, seen, client, faults, gestures>>
  BY RowsAdvancing DEF Publish, rows
<1>2. read \in Readings /\ Past(read) /\ held[i].at = "publish"
  BY HeldFacts DEF Publish
<1>3. held' = [held EXCEPT ![i] = [at |-> "recv"]] /\ lagged' \subseteq Tabs
  BY DEF Publish, TypeOK
<1>4. /\ \A k \in Instances : held'[k] = IF k = i THEN [at |-> "recv"] ELSE held[k]
      /\ held' \in [Instances -> Holdings]
  BY <1>3 DEF TypeOK, Holdings
<1>5. inbox' = [t \in Tabs |-> IF t \in here THEN Put(inbox[t], read) ELSE inbox[t]]
  BY DEF Publish
<1>6. /\ inbox' \in [Tabs -> Seq(Readings)]
      /\ \A t \in Tabs : Len(inbox'[t]) <= Capacity
  <2>1. ASSUME NEW t \in Tabs
        PROVE  Put(inbox[t], read) \in Seq(Readings) /\ Len(Put(inbox[t], read)) <= Capacity
    BY <1>2, PutKeepsOrder DEF TypeOK
  <2> QED
    BY <1>5, <2>1 DEF TypeOK
<1>7. TypeOK'
  BY <1>1, <1>3, <1>4, <1>6 DEF TypeOK, rows, client
<1>8. \A k \in Instances : (held[k].at = "publish" => Past(held[k].read))'
  BY <1>1, <1>4 DEF Past, rows
<1>9. ASSUME NEW t \in here PROVE StreamSound(t)'
  <2> DEFINE old == inbox[t]
             new == Put(old, read)
  <2>1. t \in live /\ t \in Tabs /\ InstanceOf[t] = i /\ old \in Seq(Readings) /\ Len(old) <= Capacity
    BY DEF TypeOK
  <2>2. inbox'[t] = new /\ held'[InstanceOf[t]].at = "recv" /\ state' = state /\ seen' = seen /\ live' = live
    BY <1>1, <1>4, <1>5, <2>1 DEF rows
  <2>3. Len(new) \in 1 .. Capacity /\ new[Len(new)] = read
    BY <1>2, <2>1, PutKeepsOrder
  <2>4. PICK d \in {0, 1} : \A j \in 1 .. Len(new) :
          j # Len(new) => j + d \in 1 .. Len(old) /\ new[j] = old[j + d]
    BY <1>2, <2>1, PutKeepsOrder
  <2>5. /\ AtLeast(read.state, seen[t][read.entry])
        /\ \A j \in 1 .. Len(old) : NoOlder(read, old[j])
    BY <1>2, <2>1 DEF StreamSound
  <2>6. \A j \in 1 .. Len(old) :
          /\ Past(old[j])
          /\ AtLeast(old[j].state, seen[t][old[j].entry])
          /\ \A k \in 1 .. Len(old) : j < k => NoOlder(old[k], old[j])
    BY <2>1 DEF StreamSound
  <2> HIDE DEF old, new, read
  <2>7. ASSUME NEW j \in 1 .. Len(new)
        PROVE  /\ Past(new[j])
               /\ AtLeast(new[j].state, seen[t][new[j].entry])
               /\ \A k \in 1 .. Len(new) : j < k => NoOlder(new[k], new[j])
    <3>1. CASE j = Len(new)
      BY <1>2, <2>3, <2>5, <3>1
    <3>2. CASE j # Len(new)
      <4>1. j + d \in 1 .. Len(old) /\ new[j] = old[j + d]
        BY <2>4, <3>2
      <4>2. ASSUME NEW k \in 1 .. Len(new), j < k PROVE NoOlder(new[k], new[j])
        <5>1. CASE k = Len(new)
          BY <2>3, <2>5, <4>1, <5>1
        <5>2. CASE k # Len(new)
          <6>1. k + d \in 1 .. Len(old) /\ new[k] = old[k + d] /\ j + d < k + d
            BY <2>4, <4>2, <5>2
          <6> QED
            BY <2>6, <4>1, <6>1
        <5> QED
          BY <5>1, <5>2
      <4> QED
        BY <2>6, <4>1, <4>2
    <3> QED
      BY <3>1, <3>2
  <2>8. \A e \in Entries : AtLeast(state[e], seen[t][e])
    BY <2>1 DEF StreamSound
  <2> QED
    BY <2>1, <2>2, <2>7, <2>8 DEF StreamSound, Past, NoOlder
<1>10. ASSUME NEW t \in Tabs PROVE StreamSound(t)'
  <2>1. InstanceOf[t] \in Instances /\ (t \notin live => inbox[t] = <<>>)
    BY FanoutAssumption DEF FanoutAssumption, StreamSound
  <2>2. CASE t \notin here
    BY <1>1, <1>4, <1>5, <2>1, <2>2, StreamKept
  <2> QED
    BY <1>9, <2>2
<1>11. ASSUME NEW t \in Tabs PROVE ListSound(t)'
  BY <1>1, ListKept DEF client
<1>12. OwnRowsOnly' /\ SettledListHasFrames'
  BY <1>1 DEF OwnRowsOnly, SettledListHasFrames, client
<1> QED
  BY <1>7, <1>8, <1>10, <1>11, <1>12

\* A step of one tab.
LEMMA OneTab ==
  ASSUME IInv, TypeOK', RowsAdvance, held' = held, NEW t \in Tabs,
         \A u \in Tabs : u # t =>
            /\ u \in live' <=> u \in live
            /\ u \in joined' <=> u \in joined
            /\ inbox'[u] = inbox[u] /\ seen'[u] = seen[u]
            /\ fetch'[u] = fetch[u] /\ list'[u] = list[u],
         StreamSound(t)', ListSound(t)',
         \A e \in Entries :
            /\ OwnerOf[e] # UserOf[t] => seen'[t][e] = "absent" /\ list'[t][e] = "absent"
            /\ fetch'[t].at = "settled" /\ t \notin joined' => AtLeast(list'[t][e], seen'[t][e])
  PROVE  IInv'
<1> USE DEF IInv
<1>1. ASSUME NEW u \in Tabs, u # t PROVE StreamSound(u)' /\ ListSound(u)'
  <2>1. InstanceOf[u] \in Instances /\ (u \notin live => inbox[u] = <<>>)
    BY FanoutAssumption DEF FanoutAssumption, StreamSound
  <2>2. StreamSound(u)'
    BY <1>1, <2>1, StreamKept
  <2>3. ListSound(u)'
    BY <1>1, ListKept
  <2> QED
    BY <2>2, <2>3
<1>2. \A i \in Instances : (held[i].at = "publish" => Past(held[i].read))'
  BY PastStays, HeldFacts DEF Past
<1>3. OwnRowsOnly'
  BY DEF OwnRowsOnly
<1>4. SettledListHasFrames'
  BY DEF SettledListHasFrames
<1> QED
  BY <1>1, <1>2, <1>3, <1>4

LEMMA Subscribing ==
  ASSUME IInv, NEW t \in Tabs, Subscribe(t)
  PROVE  IInv'
<1> USE DEF IInv
<1>1. /\ RowsAdvance /\ held' = held /\ state' = state
      /\ UNCHANGED <<rows, bridge, inbox, client, lagged, faults, gestures>>
  BY RowsAdvancing DEF Subscribe, rows, bridge
<1>2. Nothing \in Views /\ \A e \in Entries : Nothing[e] = "absent"
  BY DEF Nothing, Views, States, Rows!States
<1>3. seen' \in [Tabs -> Views] /\ \A u \in Tabs : seen'[u] = IF u = t THEN Nothing ELSE seen[u]
  BY <1>2 DEF TypeOK, Subscribe
<1>4. t \notin live /\ live' = live \cup {t}
  BY DEF Subscribe
<1>5. TypeOK'
  BY <1>1, <1>3, <1>4 DEF TypeOK, rows, bridge, client
<1>6. inbox[t] = <<>> /\ InstanceOf[t] \in Instances
  BY <1>4, FanoutAssumption DEF StreamSound, FanoutAssumption
<1>7. StreamSound(t)'
  <2>1. \A e \in Entries : AtLeast(state[e], "absent")
    BY RankOrder DEF TypeOK, Views
  <2>2. held[InstanceOf[t]].at = "publish" =>
          /\ held[InstanceOf[t]].read.entry \in Entries
          /\ AtLeast(held[InstanceOf[t]].read.state, "absent")
    BY <1>6, HeldFacts, RankOrder DEF Readings
  <2> QED
    BY <1>1, <1>2, <1>3, <1>6, <2>1, <2>2 DEF StreamSound
<1>8. ListSound(t)'
  BY <1>1, <1>2, <1>3, ListKept DEF client
<1>9. ASSUME NEW e \in Entries
      PROVE  /\ seen'[t][e] = "absent"
             /\ OwnerOf[e] # UserOf[t] => list'[t][e] = "absent"
             /\ AtLeast(list'[t][e], seen'[t][e])
  BY <1>1, <1>2, <1>3, RankOrder DEF client, OwnRowsOnly, TypeOK, Views
<1> QED
  BY <1>1, <1>3, <1>4, <1>5, <1>7, <1>8, <1>9, OneTab DEF client

LEMMA Delivering ==
  ASSUME IInv, NEW t \in Tabs, Deliver(t)
  PROVE  IInv' /\ \A e \in Entries : AtLeast(seen'[t][e], seen[t][e])
<1> USE DEF IInv
<1> DEFINE old == inbox[t]
           new == Tail(old)
           read == Head(old)
<1>1. /\ RowsAdvance /\ held' = held /\ state' = state
      /\ UNCHANGED <<rows, bridge, live, list, lagged, faults, gestures>>
  BY RowsAdvancing DEF Deliver, rows, bridge
<1>2. old \in Seq(Readings) /\ old # <<>> /\ Len(old) <= Capacity
  BY DEF TypeOK, Deliver
<1>3. /\ read = old[1] /\ read \in Readings
      /\ Len(old) \in Nat \ {0}
      /\ new \in Seq(Readings) /\ Len(new) = Len(old) - 1
      /\ \A j \in 1 .. Len(new) : j + 1 \in 1 .. Len(old) /\ new[j] = old[j + 1]
  BY <1>2, TailMoves
<1>4. inbox' = [inbox EXCEPT ![t] = new]
  BY DEF Deliver
<1>5. \A u \in Tabs : inbox'[u] = IF u = t THEN new ELSE inbox[u]
  BY <1>4 DEF TypeOK
<1>6. inbox' \in [Tabs -> Seq(Readings)] /\ \A u \in Tabs : Len(inbox'[u]) <= Capacity
  BY <1>2, <1>3, <1>4, FanoutAssumption DEF FanoutAssumption, TypeOK
<1>7. /\ \A j \in 1 .. Len(old) :
           /\ Past(old[j])
           /\ AtLeast(old[j].state, seen[t][old[j].entry])
           /\ \A k \in 1 .. Len(old) : j < k => NoOlder(old[k], old[j])
      /\ held[InstanceOf[t]].at = "publish" =>
           /\ AtLeast(held[InstanceOf[t]].read.state, seen[t][held[InstanceOf[t]].read.entry])
           /\ \A j \in 1 .. Len(old) : NoOlder(held[InstanceOf[t]].read, old[j])
      /\ \A e \in Entries : AtLeast(state[e], seen[t][e])
  BY DEF StreamSound, Deliver
<1>8. Past(read) /\ AtLeast(read.state, seen[t][read.entry]) /\ t \in live
  BY <1>3, <1>7 DEF Deliver
<1>9. read.entry \in Entries /\ read.state \in States
  BY <1>3 DEF Readings
<1>10. \A u \in Tabs, e \in Entries : seen[u][e] \in States /\ state[e] \in States /\ list[u][e] \in States
  BY DEF TypeOK, Views
<1> HIDE DEF old, new, read
\* What is left in the queue was there before, one place later.
<1>11. /\ \A j \in 1 .. Len(new) :
            /\ Past(new[j])
            /\ AtLeast(new[j].state, seen[t][new[j].entry])
            /\ new[j].entry = read.entry => AtLeast(new[j].state, read.state)
            /\ \A k \in 1 .. Len(new) : j < k => NoOlder(new[k], new[j])
       /\ held[InstanceOf[t]].at = "publish" =>
            /\ held[InstanceOf[t]].read.entry = read.entry =>
                 AtLeast(held[InstanceOf[t]].read.state, read.state)
            /\ \A j \in 1 .. Len(new) : NoOlder(held[InstanceOf[t]].read, new[j])
  <2>1. ASSUME NEW j \in 1 .. Len(new)
        PROVE  /\ Past(new[j])
               /\ AtLeast(new[j].state, seen[t][new[j].entry])
               /\ new[j].entry = read.entry => AtLeast(new[j].state, read.state)
               /\ held[InstanceOf[t]].at = "publish" => NoOlder(held[InstanceOf[t]].read, new[j])
    <3>1. j + 1 \in 1 .. Len(old) /\ new[j] = old[j + 1]
      BY <1>3
    <3>2. 1 \in 1 .. Len(old) /\ 1 < j + 1
      BY <1>3
    <3>3. NoOlder(old[j + 1], old[1])
      BY <1>7, <3>1, <3>2
    <3> QED
      BY <1>3, <1>7, <3>1, <3>3 DEF NoOlder
  <2>2. ASSUME NEW j \in 1 .. Len(new), NEW k \in 1 .. Len(new), j < k
        PROVE  NoOlder(new[k], new[j])
    <3>1. /\ j + 1 \in 1 .. Len(old) /\ new[j] = old[j + 1]
          /\ k + 1 \in 1 .. Len(old) /\ new[k] = old[k + 1]
          /\ j + 1 < k + 1
      BY <1>3, <2>2
    <3> QED
      BY <1>7, <3>1
  <2>3. held[InstanceOf[t]].at = "publish" => NoOlder(held[InstanceOf[t]].read, read)
    BY <1>3, <1>7
  <2> QED
    BY <2>1, <2>2, <2>3 DEF NoOlder
<1>12. CASE ~Mine(t, read)
  <2>1. UNCHANGED <<seen, fetch, loaded, joined>>
    BY <1>12 DEF Deliver, read, old
  <2>2. TypeOK'
    BY <1>1, <1>6, <2>1 DEF TypeOK, rows, bridge
  <2>3. StreamSound(t)'
    BY <1>1, <1>5, <1>7, <1>8, <1>11, <2>1 DEF StreamSound, Past, NoOlder
  <2>4. ListSound(t)'
    BY <1>1, <2>1, ListKept
  <2>5. \A e \in Entries :
          /\ OwnerOf[e] # UserOf[t] => seen'[t][e] = "absent" /\ list'[t][e] = "absent"
          /\ fetch'[t].at = "settled" /\ t \notin joined' => AtLeast(list'[t][e], seen'[t][e])
    BY <1>1, <2>1 DEF OwnRowsOnly, SettledListHasFrames
  <2>6. IInv'
    BY <1>1, <1>5, <2>1, <2>2, <2>3, <2>4, <2>5, OneTab
  <2> QED
    BY <1>10, <2>1, <2>6, RankOrder
<1>13. CASE Mine(t, read)
  <2>1. Refetch(t) /\ seen' = [seen EXCEPT ![t][read.entry] = read.state]
    BY <1>13 DEF Deliver, read, old
  <2>2. /\ \A u \in Tabs : u # t => seen'[u] = seen[u]
        /\ \A e \in Entries : seen'[t][e] = IF e = read.entry THEN read.state ELSE seen[t][e]
        /\ seen' \in [Tabs -> Views]
    BY <1>9, <2>1 DEF TypeOK, Views
  <2>3. \A e \in Entries : AtLeast(seen'[t][e], seen[t][e]) /\ AtLeast(state[e], seen'[t][e])
    BY <1>7, <1>8, <1>10, <2>2, RankOrder DEF Past
  <2>4. TypeOK'
    BY <1>1, <1>6, <2>1, <2>2, RefetchFacts DEF TypeOK, rows, bridge
  <2>5. StreamSound(t)'
    <3>1. ASSUME NEW j \in 1 .. Len(new) PROVE AtLeast(new[j].state, seen'[t][new[j].entry])
      <4>1. new[j].entry \in Entries
        <5>1. new \in Seq(Readings)
          BY <1>3
        <5>2. new[j] \in Readings
          BY <5>1
        <5> QED
          BY <5>2 DEF Readings
      <4> QED
        BY <1>11, <2>2, <4>1
    <3>2. ASSUME held[InstanceOf[t]].at = "publish"
          PROVE  AtLeast(held[InstanceOf[t]].read.state, seen'[t][held[InstanceOf[t]].read.entry])
      <4>1. held[InstanceOf[t]].read.entry \in Entries
        <5>1. InstanceOf[t] \in Instances
          BY FanoutAssumption DEF FanoutAssumption
        <5>2. held[InstanceOf[t]].read \in Readings
          BY <3>2, <5>1, HeldFacts
        <5> QED
          BY <5>2 DEF Readings
      <4>2. AtLeast(held[InstanceOf[t]].read.state, seen[t][held[InstanceOf[t]].read.entry])
        BY <1>7, <3>2
      <4>3. held[InstanceOf[t]].read.entry = read.entry =>
              AtLeast(held[InstanceOf[t]].read.state, read.state)
        BY <1>11, <3>2
      <4> QED
        BY <2>2, <4>1, <4>2, <4>3
    <3> QED
      BY <1>1, <1>5, <1>8, <1>11, <2>3, <3>1, <3>2 DEF StreamSound, Past, NoOlder
  <2>6. fetch'[t].at = "answered" => fetch'[t] = fetch[t] /\ t \in joined'
    BY <2>1, RefetchFacts
  <2>7. fetch'[t].at = "settled" => t \in joined'
    BY <2>1, RefetchFacts
  <2>8. ListSound(t)'
    BY <1>1, <2>6, ListKept
  <2>9. \A e \in Entries :
          OwnerOf[e] # UserOf[t] => seen'[t][e] = "absent" /\ list'[t][e] = "absent"
    BY <1>1, <1>13, <2>2 DEF Mine, OwnRowsOnly
  <2>10. \A u \in Tabs : u # t => fetch'[u] = fetch[u] /\ (u \in joined' <=> u \in joined)
    BY <2>1, RefetchFacts
  <2> QED
    BY <1>1, <1>5, <2>2, <2>3, <2>4, <2>5, <2>7, <2>8, <2>9, <2>10, OneTab
<1> QED
  BY <1>12, <1>13

LEMMA StreamGoesOff ==
  ASSUME IInv, NEW t \in Tabs, Break(t)
  PROVE  IInv'
<1> USE DEF IInv
<1>1. /\ RowsAdvance /\ held' = held /\ live' = live \ {t}
      /\ UNCHANGED <<rows, bridge, seen, client, lagged, gestures>>
  BY RowsAdvancing DEF Break, rows, bridge
<1>2. /\ inbox' \in [Tabs -> Seq(Readings)]
      /\ \A u \in Tabs : inbox'[u] = IF u = t THEN <<>> ELSE inbox[u]
  <2>1. <<>> \in Seq(Readings)
    OBVIOUS
  <2> QED
    BY <2>1 DEF Break, TypeOK
<1>3. faults' \in 0 .. MaxFaults
  BY FanoutAssumption DEF FanoutAssumption, TypeOK, Break, Fault
<1>4. TypeOK'
  <2>1. Len(<<>>) = 0 /\ Capacity \in Nat
    BY FanoutAssumption DEF FanoutAssumption
  <2> QED
    BY <1>1, <1>2, <1>3, <2>1 DEF TypeOK, rows, bridge, client
<1>5. StreamSound(t)'
  <2>1. \A e \in Entries : AtLeast(state[e], seen[t][e])
    BY DEF StreamSound
  <2> QED
    BY <1>1, <1>2, <2>1 DEF StreamSound, rows
<1>6. ListSound(t)'
  BY <1>1, ListKept DEF client
<1> QED
  BY <1>1, <1>2, <1>4, <1>5, <1>6, OneTab DEF client, OwnRowsOnly, SettledListHasFrames

\* The steps of a tab's query, and of its consultant, that tell it nothing: the
\* list may become an answer, and the query may be asked or marked.
LEMMA QueryMoves ==
  ASSUME IInv, NEW t \in Tabs, RowsAdvance, state' = state \/ ~(fetch'[t].at = "answered" /\ fetch[t].at = "asked"),
         duty' \in [Tasks -> Rows!Duties], UNCHANGED <<bridge, stream>>, faults' \in 0 .. MaxFaults, gestures' \in 0 .. MaxGestures,
         fetch' \in [Tabs -> Fetches], list' \in [Tabs -> Views], loaded' \subseteq Tabs, joined' \subseteq Tabs,
         \A u \in Tabs : u # t => fetch'[u] = fetch[u] /\ list'[u] = list[u] /\ (u \in joined' <=> u \in joined),
         ListSound(t)',
         \A e \in Entries :
            /\ OwnerOf[e] # UserOf[t] => list'[t][e] = "absent"
            /\ fetch'[t].at = "settled" /\ t \notin joined' => AtLeast(list'[t][e], seen[t][e])
  PROVE  IInv'
<1> USE DEF IInv
<1>1. TypeOK'
  BY DEF TypeOK, RowsAdvance, bridge, stream
<1>2. InstanceOf[t] \in Instances /\ (t \notin live => inbox[t] = <<>>)
  BY FanoutAssumption DEF FanoutAssumption, StreamSound
<1>3. StreamSound(t)'
  BY <1>2, StreamKept DEF stream, bridge
<1> QED
  BY <1>1, <1>3, OneTab DEF stream, bridge, OwnRowsOnly

LEMMA Serving ==
  ASSUME IInv, NEW t \in Tabs, Serve(t)
  PROVE  IInv'
<1> USE DEF IInv
<1> DEFINE view == RowsOf(t)
<1>1. RowsAdvance /\ UNCHANGED <<rows, bridge, stream, list, loaded, joined, faults, gestures>>
  BY RowsAdvancing DEF Serve, rows
<1>2. /\ view \in Views
      /\ \A e \in Entries : view[e] = IF OwnerOf[e] = UserOf[t] THEN state[e] ELSE "absent"
  BY DEF RowsOf, TypeOK, Views, States, Rows!States
<1>3. [at |-> "answered", view |-> view] \in Fetches
  BY <1>2 DEF Fetches
<1>4. /\ fetch' \in [Tabs -> Fetches]
      /\ \A u \in Tabs : fetch'[u] = IF u = t THEN [at |-> "answered", view |-> view] ELSE fetch[u]
  BY <1>3 DEF Serve, TypeOK
<1> HIDE DEF view
<1>5. ASSUME NEW e \in Entries
      PROVE  /\ AtLeast(state[e], list[t][e]) /\ AtLeast(state[e], view[e])
             /\ AtLeast(view[e], list[t][e]) /\ AtLeast(view[e], seen[t][e])
  <2>1. state[e] \in States /\ AtLeast(state[e], list[t][e]) /\ AtLeast(state[e], seen[t][e])
    BY DEF TypeOK, Views, ListSound, StreamSound
  <2>2. OwnerOf[e] # UserOf[t] => list[t][e] = "absent" /\ seen[t][e] = "absent"
    BY DEF OwnRowsOnly
  <2>3. "absent" \in States
    BY DEF States, Rows!States
  <2> QED
    BY <1>2, <2>1, <2>2, <2>3, RankOrder
<1>6. ListSound(t)'
  BY <1>1, <1>2, <1>4, <1>5 DEF ListSound, rows, stream
<1>7. \A e \in Entries : OwnerOf[e] # UserOf[t] => list'[t][e] = "absent"
  BY <1>1 DEF OwnRowsOnly
<1>8. /\ list' \in [Tabs -> Views] /\ loaded' \subseteq Tabs /\ joined' \subseteq Tabs
      /\ duty' \in [Tasks -> Rows!Duties]
      /\ faults' \in 0 .. MaxFaults /\ gestures' \in 0 .. MaxGestures
  BY <1>1 DEF TypeOK, rows
<1> QED
  BY <1>1, <1>4, <1>6, <1>7, <1>8, QueryMoves DEF rows

LEMMA Showing ==
  ASSUME IInv, NEW t \in Tabs, Show(t)
  PROVE  IInv' /\ \A e \in Entries : AtLeast(list'[t][e], list[t][e])
<1> USE DEF IInv
<1> DEFINE view == fetch[t].view
<1>1. /\ RowsAdvance /\ fetch[t].at = "answered"
      /\ UNCHANGED <<rows, bridge, stream, joined, faults, gestures>>
  BY RowsAdvancing DEF Show, rows
<1>2. view \in Views
  BY <1>1, FetchFacts
<1>3. /\ fetch' \in [Tabs -> Fetches] /\ list' \in [Tabs -> Views]
      /\ \A u \in Tabs : /\ fetch'[u] = IF u = t THEN [at |-> "settled"] ELSE fetch[u]
                         /\ list'[u] = IF u = t THEN view ELSE list[u]
  BY <1>2 DEF Show, TypeOK, Fetches
<1>4. ASSUME NEW e \in Entries
      PROVE  /\ AtLeast(state[e], view[e]) /\ AtLeast(view[e], list[t][e])
             /\ OwnerOf[e] # UserOf[t] => view[e] = "absent"
             /\ t \notin joined => AtLeast(view[e], seen[t][e])
  BY <1>1 DEF ListSound
<1> HIDE DEF view
<1>5. ListSound(t)'
  BY <1>1, <1>3, <1>4 DEF ListSound, rows
<1>6. /\ loaded' \subseteq Tabs /\ joined' \subseteq Tabs
      /\ duty' \in [Tasks -> Rows!Duties]
      /\ faults' \in 0 .. MaxFaults /\ gestures' \in 0 .. MaxGestures
  BY <1>1 DEF TypeOK, Show, rows
<1>7. IInv'
  BY <1>1, <1>3, <1>4, <1>5, <1>6, QueryMoves DEF rows
<1> QED
  BY <1>3, <1>4, <1>7

LEMMA Asking ==
  ASSUME IInv, NEW t \in Tabs,
         FetchFails(t) \/ Focus(t) \/ \E e \in Entries : TakeAction(t, e)
  PROVE  IInv'
<1> USE DEF IInv
<1>1. /\ RowsAdvance /\ duty' \in [Tasks -> Rows!Duties] /\ UNCHANGED <<bridge, stream, list>>
      /\ faults' \in 0 .. MaxFaults /\ gestures' \in 0 .. MaxGestures
  <2>1. RowsAdvance /\ duty' \in [Tasks -> Rows!Duties]
    BY RowSteps, RowsAdvancing DEF FetchFails, Focus
  <2> QED
    BY <2>1, FanoutAssumption DEF FanoutAssumption, TypeOK, FetchFails, Focus, TakeAction, rows, Fault, Gesture
<1>2. /\ fetch' \in [Tabs -> Fetches] /\ loaded' \subseteq Tabs /\ joined' \subseteq Tabs
      /\ \A u \in Tabs : u # t => fetch'[u] = fetch[u] /\ (u \in joined' <=> u \in joined)
      /\ \/ fetch'[t].at \in {"asked", "failed"}
         \/ fetch' = fetch /\ fetch[t].at \in {"asked", "answered"} /\ t \in joined'
  <2>1. CASE FetchFails(t)
    BY <2>1 DEF FetchFails, TypeOK, Fetches
  <2>2. CASE ~FetchFails(t)
    <3>1. Refetch(t)
      BY <2>2 DEF Focus, TakeAction
    <3> QED
      BY <3>1, RefetchFacts DEF TypeOK
  <2> QED
    BY <2>1, <2>2
<1>3. ListSound(t)'
  BY <1>1, <1>2, ListKept
<1>4. /\ list' \in [Tabs -> Views]
      /\ \A e \in Entries : OwnerOf[e] # UserOf[t] => list'[t][e] = "absent"
  BY <1>1 DEF TypeOK, OwnRowsOnly
<1> QED
  BY <1>1, <1>2, <1>3, <1>4, QueryMoves

LEMMA IsInductive == IInv /\ [Next]_vars => IInv'
<1> SUFFICES ASSUME IInv, [Next]_vars PROVE IInv'
  OBVIOUS
<1>1. ASSUME \/ \E s \in Tasks, e \in Entries : Insert(s, e) \/ Find(s, e)
             \/ \E s \in Tasks : Complete(s) \/ Notify(s) \/ TaskFails(s)
             \/ \E overdue \in SUBSET Entries : Expire(overdue)
      PROVE  IInv'
  BY <1>1, RowStep
<1>2. ASSUME NEW t \in Tabs, NEW e \in Entries, TakeAction(t, e) PROVE IInv'
  BY <1>2, Asking
<1>3. ASSUME NEW i \in Instances, Bridge(i) \/ HydrateFails(i) \/ Disconnect(i) PROVE IInv'
  BY <1>3, BridgeStep, HydrateStep, PublishStep DEF Bridge
<1>4. ASSUME NEW t \in Tabs, Browse(t) \/ Break(t) \/ FetchFails(t) \/ Focus(t) PROVE IInv'
  BY <1>4, Subscribing, Delivering, Serving, Showing, StreamGoesOff, Asking DEF Browse
<1>5. CASE UNCHANGED vars
  <2>1. /\ state' = state /\ duty' = duty /\ linked' = linked /\ chan' = chan /\ held' = held
        /\ live' = live /\ inbox' = inbox /\ seen' = seen /\ lagged' = lagged
        /\ fetch' = fetch /\ list' = list /\ loaded' = loaded /\ joined' = joined
        /\ faults' = faults /\ gestures' = gestures
    BY <1>5 DEF vars
  <2>2. RowsAdvance
    BY <2>1, RowsAdvancing DEF IInv, rows
  <2>3. TypeOK'
    BY <2>1 DEF IInv, TypeOK
  <2> QED
    BY <2>1, <2>2, <2>3, TabsUndisturbed DEF stream, client
<1> QED
  BY <1>1, <1>2, <1>3, <1>4, <1>5 DEF Next

\* However pointers are delayed, lost or read late, and however many tabs and
\* instances there are: everything in flight is a reading of the row in order.
THEOREM Invariance == Spec => []IInv
BY Initially, IsInductive, PTL DEF Spec

\* No consultant is told of, or shown, another's entry.
THEOREM OwnOnly == Spec => []OwnRowsOnly
<1>1. IInv => OwnRowsOnly
  BY DEF IInv
<1> QED
  BY <1>1, Invariance, PTL

\* A settled list is at least as new as every frame its tab has been sent, but
\* for the frames that joined its first fetch.
THEOREM SettledHasFrames == Spec => []SettledListHasFrames
<1>1. IInv => SettledListHasFrames
  BY DEF IInv
<1> QED
  BY <1>1, Invariance, PTL

\* The frames of one stream never take an entry back.
THEOREM NoStreamRegresses == Spec => StreamNeverRegresses
<1>1. ASSUME IInv, [Next]_vars, NEW t \in live \cap live', NEW e \in Entries
      PROVE  AtLeast(seen'[t][e], seen[t][e])
  <2>1. seen[t][e] \in States /\ t \in Tabs
    BY <1>1 DEF IInv, TypeOK, Views
  <2>2. CASE seen' = seen
    BY <2>1, <2>2, RankOrder
  <2>3. ASSUME NEW u \in Tabs, Subscribe(u) \/ Deliver(u) PROVE AtLeast(seen'[t][e], seen[t][e])
    <3>1. CASE Subscribe(u)
      <4>1. u # t
        BY <3>1 DEF Subscribe
      <4>2. seen'[t] = seen[t]
        BY <1>1, <2>1, <3>1, <4>1 DEF Subscribe, IInv, TypeOK
      <4> QED
        BY <2>1, <4>2, RankOrder
    <3>2. CASE Deliver(u) /\ u = t
      BY <1>1, <3>2, Delivering
    <3>3. CASE Deliver(u) /\ u # t
      <4>1. seen'[t] = seen[t]
        BY <1>1, <2>1, <3>3 DEF Deliver, IInv, TypeOK
      <4> QED
        BY <2>1, <4>1, RankOrder
    <3> QED
      BY <2>3, <3>1, <3>2, <3>3
  <2>4. ASSUME [Next]_vars, \A u \in Tabs : ~(Subscribe(u) \/ Deliver(u)) PROVE seen' = seen
    BY <2>4 DEF Next, vars, Bridge, Browse, Insert, Find, Complete, Notify, TaskFails, Expire, TakeAction, Recv, Hydrate,
       Publish, Reconnect, HydrateFails, Disconnect, Break, Serve, Show, FetchFails, Focus, stream
  <2> QED
    BY <1>1, <2>2, <2>3, <2>4
<1>2. IInv /\ [Next]_vars => [\A t \in live \cap live', e \in Entries : AtLeast(seen'[t][e], seen[t][e])]_vars
  BY <1>1
<1> QED
  BY <1>2, Invariance, PTL DEF Spec, StreamNeverRegresses

\* Nor do refetches, in whatever order their answers and the frames arrive.
THEOREM NoListRegresses == Spec => ListNeverRegresses
<1>1. ASSUME IInv, [Next]_vars, NEW t \in Tabs, NEW e \in Entries
      PROVE  AtLeast(list'[t][e], list[t][e])
  <2>1. list[t][e] \in States
    BY <1>1 DEF IInv, TypeOK, Views
  <2>2. CASE list' = list
    BY <2>1, <2>2, RankOrder
  <2>3. ASSUME NEW u \in Tabs, Show(u) PROVE AtLeast(list'[t][e], list[t][e])
    <3>1. CASE u = t
      BY <1>1, <2>3, <3>1, Showing
    <3>2. CASE u # t
      <4>1. list'[t] = list[t]
        BY <1>1, <2>3, <3>2 DEF Show, IInv, TypeOK
      <4> QED
        BY <2>1, <4>1, RankOrder
    <3> QED
      BY <3>1, <3>2
  <2>4. ASSUME [Next]_vars, \A u \in Tabs : ~Show(u) PROVE list' = list
    BY <2>4 DEF Next, vars, Bridge, Browse, Insert, Find, Complete, Notify, TaskFails, Expire, TakeAction, Recv, Hydrate,
       Publish, Reconnect, HydrateFails, Disconnect, Break, Serve, Subscribe, Deliver, FetchFails, Focus, client
  <2> QED
    BY <1>1, <2>2, <2>3, <2>4
<1>2. IInv /\ [Next]_vars => [\A t \in Tabs, e \in Entries : AtLeast(list'[t][e], list[t][e])]_vars
  BY <1>1
<1> QED
  BY <1>2, Invariance, PTL DEF Spec, ListNeverRegresses

-----------------------------------------------------------------------------
(* The fan-out rests on Announcements, and implements EntryViews.          *)

\* Pushing, streaming and fetching do nothing to the rows: they and what is
\* owed for them are those of Announcements.
THEOREM RowsAsAnnounced == Spec => Rows!Spec
<1>1. Init => Rows!Init
  BY DEF Init
<1>2. [Next]_vars => [Rows!Next]_(Rows!vars)
  <2>1. CASE UNCHANGED rows
    BY <2>1 DEF rows, Rows!vars
  <2>2. CASE Rows!Next
    BY <2>2
  <2>3. ASSUME Next, ~Rows!Next PROVE UNCHANGED rows
    BY <2>3, RowSteps DEF Next, Bridge, Browse, Recv, Hydrate, Publish, Reconnect, HydrateFails,
       Disconnect, Break, Serve, Subscribe, Deliver, Show, FetchFails, Focus
  <2>4. CASE UNCHANGED vars
    BY <2>4 DEF vars, rows, Rows!vars
  <2> QED
    BY <2>1, <2>2, <2>3, <2>4
<1> QED
  BY <1>1, <1>2, PTL DEF Spec, Rows!Spec

\* The order of states is the order of the moves an entry can make.
LEMMA LaterIsAtLeast ==
  \A r, s \in States : AtLeast(s, r) <=> s \in Shown!Later[r]
BY DEF States, Rows!States, AtLeast, Rank, Shown!Later, Shown!States

\* Every change of rows is made of moves of entries.
LEMMA RowsMove ==
  ASSUME TypeOK, Rows!Next, UNCHANGED list
  PROVE  Shown!Next \/ UNCHANGED Shown!vars
<1> USE DEF TypeOK
<1>0. Shown!States = States /\ \A e \in Entries : state[e] \in States
  BY DEF Shown!States, States, Rows!States, Views
<1>1. ASSUME NEW e \in Entries, NEW s \in States, <<state[e], s>> \in Shown!Moves,
             state' = [state EXCEPT ![e] = s]
      PROVE  Shown!Next
  <2>1. state' = [x \in Entries |-> IF x \in {e} THEN [y \in {e} |-> s][x] ELSE state[x]]
    BY <1>1 DEF Views
  <2>2. [y \in {e} |-> s] \in [{e} -> Shown!States]
    BY <1>0
  <2>3. Shown!Advance({e})
    BY <1>1, <2>1, <2>2 DEF Shown!Advance
  <2> QED
    BY <2>3 DEF Shown!Next
<1>2. ASSUME state' = state PROVE UNCHANGED Shown!vars
  BY <1>2 DEF Shown!vars
<1>3. ASSUME NEW s \in Tasks, NEW e \in Entries, Rows!Insert(s, e) PROVE Shown!Next
  <2>1. <<state[e], "pending">> \in Shown!Moves /\ "pending" \in States
    BY <1>3 DEF Rows!Insert, Shown!Moves, States, Rows!States
  <2> QED
    BY <1>1, <1>3, <2>1 DEF Rows!Insert
<1>4. ASSUME NEW s \in Tasks, Rows!Complete(s) PROVE Shown!Next \/ UNCHANGED Shown!vars
  <2>1. PICK e \in Entries : e = duty[s].entry
    BY <1>4, DutyFacts DEF Rows!Complete
  <2>2. CASE state[e] = "in_progress"
    <3>1. <<state[e], "completed">> \in Shown!Moves /\ "completed" \in States
      BY <2>2 DEF Shown!Moves, States, Rows!States
    <3> QED
      BY <1>1, <1>4, <2>1, <2>2, <3>1 DEF Rows!Complete, Rows!MarkCompleted
  <2>3. CASE state[e] # "in_progress"
    BY <1>2, <1>4, <2>1, <2>3 DEF Rows!Complete, Rows!MarkCompleted
  <2> QED
    BY <2>2, <2>3
<1>5. ASSUME NEW e \in Entries, Rows!Start(e) PROVE Shown!Next \/ UNCHANGED Shown!vars
  <2>1. CASE state[e] = "pending"
    <3>1. <<state[e], "in_progress">> \in Shown!Moves /\ "in_progress" \in States
      BY <2>1 DEF Shown!Moves, States, Rows!States
    <3> QED
      BY <1>1, <1>5, <2>1, <3>1 DEF Rows!Start, Rows!MarkStarted
  <2>2. CASE state[e] # "pending"
    BY <1>2, <1>5, <2>2 DEF Rows!Start, Rows!MarkStarted
  <2> QED
    BY <2>1, <2>2
<1>6. ASSUME NEW overdue \in SUBSET Entries, Rows!Expire(overdue) PROVE Shown!Next
  <2> DEFINE next == [e \in overdue |-> "expired"]
  <2>1. next \in [overdue -> Shown!States] /\ \A e \in overdue : next[e] = "expired"
    BY DEF Shown!States
  <2>2. \A e \in overdue : <<state[e], next[e]>> \in Shown!Moves
    BY <1>6, <2>1 DEF Rows!Expire, Shown!Moves
  <2>3. state' = [e \in Entries |-> IF e \in overdue THEN next[e] ELSE state[e]]
    BY <1>6, <2>1 DEF Rows!Expire
  <2>4. overdue # {}
    BY <1>6 DEF Rows!Expire
  <2> HIDE DEF next
  <2>5. Shown!Advance(overdue)
    BY <2>1, <2>2, <2>3, <2>4 DEF Shown!Advance
  <2> QED
    BY <2>5 DEF Shown!Next
<1> QED
  BY <1>2, <1>3, <1>4, <1>5, <1>6 DEF Rows!Next, Rows!Find, Rows!Announce, Rows!Drop

\* An answer that is shown is a later view of the tab's own entries.
LEMMA ShowsLater ==
  ASSUME IInv, NEW t \in Tabs, Show(t)
  PROVE  Shown!Show(t)
<1> USE DEF IInv
<1> DEFINE view == fetch[t].view
<1>1. /\ fetch[t].at = "answered" /\ list' = [list EXCEPT ![t] = view] /\ state' = state
  BY DEF Show, rows
<1>2. view \in Views /\ Shown!States = States
  BY <1>1, FetchFacts DEF Shown!States, States, Rows!States
<1>3. ASSUME NEW e \in Entries
      PROVE  IF OwnerOf[e] = UserOf[t]
             THEN view[e] \in Shown!Later[list[t][e]] /\ state[e] \in Shown!Later[view[e]]
             ELSE view[e] = "absent"
  <2>1. state[e] \in States /\ view[e] \in States /\ list[t][e] \in States
    BY <1>2 DEF TypeOK, Views
  <2>2. AtLeast(state[e], view[e]) /\ AtLeast(view[e], list[t][e])
    BY <1>1 DEF ListSound
  <2>3. OwnerOf[e] # UserOf[t] => view[e] = "absent"
    BY <1>1 DEF ListSound
  <2> QED
    BY <2>1, <2>2, <2>3, LaterIsAtLeast
<1>4. view \in [Entries -> Shown!States]
  BY <1>2 DEF Views
<1> HIDE DEF view
<1> QED
  BY <1>1, <1>3, <1>4 DEF Shown!Show

\* Whatever is lost, delayed or repeated on the way, what the tabs show is what
\* EntryViews promises: the consultant's own entries, as they were, going on.
THEOREM ShownAsPromised == Spec => ShownSpec
<1>1. Init => Shown!Init
  BY DEF Init, Rows!Init, Nothing, Shown!Init
<1>2. IInv /\ [Next]_vars => [Shown!Next]_(Shown!vars)
  <2> SUFFICES ASSUME IInv, [Next]_vars PROVE Shown!Next \/ UNCHANGED Shown!vars
    OBVIOUS
  <2>1. CASE Rows!Next /\ list' = list
    BY <2>1, RowsMove DEF IInv
  <2>2. ASSUME NEW t \in Tabs, Show(t) PROVE Shown!Next
    BY <2>2, ShowsLater DEF Shown!Next
  <2>3. CASE state' = state /\ list' = list
    BY <2>3 DEF Shown!vars
  <2>4. ASSUME [Next]_vars, \A t \in Tabs : ~Show(t) PROVE list' = list
    BY <2>4 DEF Next, vars, Bridge, Browse, Insert, Find, Complete, Notify, TaskFails, Expire,
       TakeAction, Recv, Hydrate, Publish, Reconnect, HydrateFails, Disconnect, Break, Serve,
       Subscribe, Deliver, FetchFails, Focus, client
  <2>5. ASSUME [Next]_vars, ~Rows!Next PROVE state' = state
    BY <2>5, RowSteps DEF Next, vars, Bridge, Browse, Recv, Hydrate, Publish, Reconnect,
       HydrateFails, Disconnect, Break, Serve, Subscribe, Deliver, Show, FetchFails, Focus, rows
  <2> QED
    BY <2>1, <2>2, <2>3, <2>4, <2>5
<1> QED
  BY <1>1, <1>2, Invariance, PTL DEF Spec, ShownSpec, Shown!Spec

=============================================================================
