------------------------ MODULE EventIngestion_proofs ------------------------
(***************************************************************************)
(* Proofs about EventIngestion, for every set of events, tasks and faults: *)
(* its type invariant; the inductive invariant IInv and, from it, the      *)
(* safety invariants of the model; and that it implements ActionLifecycle. *)
(***************************************************************************)
EXTENDS EventIngestion, FiniteSetTheorems, TLAPS

-----------------------------------------------------------------------------
\* The kinds of events are disjoint: no event type is listed twice.
LEMMA KindsDisjoint ==
    /\ Actions \cap Confirmations = {}
    /\ LegalUpdates \cap (Actions \cup Confirmations) = {}
    /\ LegalUpdates \subseteq Notifications
    /\ Events = Actions \cup Confirmations \cup Notifications
    /\ Notifications \cap (Actions \cup Confirmations) = {}
    /\ Actions \subseteq Events /\ Confirmations \subseteq Events
  BY ConstantsAssumption DEF Actions, Confirmations, Notifications, LegalUpdates,
     ACTION_EVENT_TYPES, CONFIRMATION_EVENT_TYPES, LEGAL_CLAUSE_UPDATED_EVENT_TYPE

\* Every state the model reaches is well typed.
LEMMA TypeInit == Init => TypeOK
  BY ConstantsAssumption DEF Init, TypeOK, PCs, RowStates

\* Every step keeps the types.
LEMMA TypeStep == TypeOK /\ [Next]_vars => TypeOK'
<1> SUFFICES ASSUME TypeOK, [Next]_vars PROVE TypeOK'
  OBVIOUS
<1> USE ConstantsAssumption, KindsDisjoint DEF TypeOK, nexus, tasks, Goto, Fault, PCs
<1>1. ASSUME NEW s \in Slots, NEW e \in Events, Deliver(s, e) PROVE TypeOK'
  BY <1>1 DEF Deliver, Dispatch, Builds
<1>2. ASSUME NEW s \in Slots, Filter(s) PROVE TypeOK'
  BY <1>2 DEF Filter, Dispatch, Builds
<1>3. ASSUME NEW s \in Slots, Save(s) PROVE TypeOK'
  BY <1>3 DEF Save, InsertEntry, InsertNotification, AfterSave, RowStates
<1>4. ASSUME NEW s \in Slots, Find(s) PROVE TypeOK'
  BY <1>4 DEF Find, Confirmable
<1>5. ASSUME NEW s \in Slots, Complete(s) PROVE TypeOK'
  BY <1>5 DEF Complete, MarkCompleted, RowStates, Terminal
<1>6. ASSUME NEW s \in Slots, Reread(s) PROVE TypeOK'
  BY <1>6 DEF Reread
<1>7. ASSUME NEW s \in Slots, Publish(s) PROVE TypeOK'
  BY <1>7 DEF Publish, Report
<1>8. ASSUME NEW s \in Slots, Reply(s) PROVE TypeOK'
  BY <1>8 DEF Reply, Acknowledges
<1>9. ASSUME NEW s \in Slots, StatementFails(s) PROVE TypeOK'
  BY <1>9 DEF StatementFails, AfterFailure, Report
<1>10. ASSUME NEW s \in Slots, Abandon(s) PROVE TypeOK'
  BY <1>10 DEF Abandon
<1>11. ASSUME NEW x \in Events, ActionQueueStart(x) PROVE TypeOK'
  BY <1>11 DEF ActionQueueStart, MarkStarted, RowStates
<1>12. ASSUME NEW x \in Events, MarkNotificationRead(x) PROVE TypeOK'
  BY <1>12 DEF MarkNotificationRead, MarkRead, RowStates
<1>13. ASSUME NEW x \in Events, TtlElapses(x) PROVE TypeOK'
  BY <1>13 DEF TtlElapses
<1>14. ASSUME ExpireOlderThan PROVE TypeOK'
  BY <1>14 DEF ExpireOlderThan, RowStates, Terminal
<1>15. CASE UNCHANGED vars
  BY <1>15 DEF vars
<1>. QED
  BY <1>1, <1>2, <1>3, <1>4, <1>5, <1>6, <1>7, <1>8, <1>9, <1>10, <1>11, <1>12, <1>13,
     <1>14, <1>15 DEF Next, Step

\* The model is type correct.
THEOREM TypeCorrect == Spec => []TypeOK
  BY TypeInit, TypeStep, PTL DEF Spec

-----------------------------------------------------------------------------
(* The inductive invariant.                                                *)

\* The inductive invariant holds where the process starts.
LEMMA InvInit == Init => IInv
<1> SUFFICES ASSUME Init PROVE IInv
  OBVIOUS
<1>1. Silent = {}
  BY DEF Init, Silent
<1>2. IsFiniteSet(Silent) /\ EveryRowIsAnnounced
  BY <1>1, FS_EmptySet DEF Init, EveryRowIsAnnounced
<1>3. /\ RowKinds /\ OnePublisher /\ ConfirmationsResolve /\ InsertPushedOnce
      /\ PushedIsDurable /\ ConfirmationPushIsFinal /\ AcceptedIsDurable
      /\ \A s \in Slots : TaskInv(s)
  BY KindsDisjoint DEF Init, RowKinds, TaskInv, OnePublisher, ConfirmationsResolve,
     InsertPushedOnce, PushedIsDurable, ConfirmationPushIsFinal, AcceptedIsDurable
<1> QED
  BY <1>2, <1>3, TypeInit DEF IInv

\* A row is never deleted, and a settled entry never moves again.
RowsGrow ==
    \A x \in Events :
        /\ row[x] # "absent" => row'[x] # "absent"
        /\ row[x] \in Terminal => row'[x] = row[x]
        /\ row[x] = "in_progress" => row'[x] \in {"in_progress"} \cup Terminal

\* No step deletes a row, moves a settled entry or mixes up the two tables.
LEMMA RowsStep == IInv /\ [Next]_vars => RowsGrow /\ RowKinds'
<1> SUFFICES ASSUME IInv, [Next]_vars PROVE RowsGrow /\ RowKinds'
  OBVIOUS
<1> USE KindsDisjoint DEF IInv, TypeOK, RowKinds, RowsGrow, Terminal
<1>1. ASSUME NEW s \in Slots, Save(s) PROVE RowsGrow /\ RowKinds'
  BY <1>1 DEF Save, InsertEntry, InsertNotification, AfterSave, TaskInv, Goto
<1>2. ASSUME NEW s \in Slots, Complete(s) PROVE RowsGrow /\ RowKinds'
  BY <1>2 DEF Complete, MarkCompleted, TaskInv, Goto
<1>3. ASSUME NEW x \in Events, ActionQueueStart(x) PROVE RowsGrow /\ RowKinds'
  BY <1>3 DEF ActionQueueStart, MarkStarted
<1>4. ASSUME NEW x \in Events, MarkNotificationRead(x) PROVE RowsGrow /\ RowKinds'
  BY <1>4 DEF MarkNotificationRead, MarkRead
<1>5. ASSUME ExpireOlderThan PROVE RowsGrow /\ RowKinds'
  BY <1>5 DEF ExpireOlderThan
<1>6. CASE UNCHANGED row
  BY <1>6
<1>. QED
  BY <1>1, <1>2, <1>3, <1>4, <1>5, <1>6 DEF Next, Step, vars,
     Deliver, Filter, Find, Reread, Publish, Reply, StatementFails, Abandon, TtlElapses

\* What a task knows stays true while it is suspended, and each step leaves it
\* knowing what its next statement needs.
LEMMA TaskStep == IInv /\ [Next]_vars => \A t \in Slots : TaskInv(t)'
<1> SUFFICES ASSUME IInv, [Next]_vars, NEW t \in Slots PROVE TaskInv(t)'
  OBVIOUS
<1>. RowsGrow /\ RowKinds' /\ TypeOK'
  BY RowsStep, TypeStep DEF IInv
<1> USE KindsDisjoint DEF IInv, TypeOK, RowKinds, RowsGrow, TaskInv, Terminal, Goto
<1>1. ASSUME NEW s \in Slots, NEW e \in Events, Deliver(s, e) PROVE TaskInv(t)'
  BY <1>1 DEF Deliver, Dispatch, Builds
<1>2. ASSUME NEW s \in Slots, Filter(s) PROVE TaskInv(t)'
  BY <1>2 DEF Filter, Dispatch, Builds
<1>3. ASSUME NEW s \in Slots, Save(s) PROVE TaskInv(t)'
  BY <1>3 DEF Save, InsertEntry, InsertNotification, AfterSave, PushedIsDurable
<1>4. ASSUME NEW s \in Slots, Find(s) PROVE TaskInv(t)'
  BY <1>4 DEF Find, Confirmable
<1>5. ASSUME NEW s \in Slots, Complete(s) PROVE TaskInv(t)'
  BY <1>5 DEF Complete, MarkCompleted
<1>6. ASSUME NEW s \in Slots, Reread(s) PROVE TaskInv(t)'
  BY <1>6 DEF Reread
<1>7. ASSUME NEW s \in Slots, Publish(s) PROVE TaskInv(t)'
  BY <1>7 DEF Publish, OnePublisher
<1>8. ASSUME NEW s \in Slots, Reply(s) PROVE TaskInv(t)'
  BY <1>8 DEF Reply, Acknowledges
<1>9. ASSUME NEW s \in Slots, StatementFails(s) PROVE TaskInv(t)'
  BY <1>9 DEF StatementFails, AfterFailure
<1>10. ASSUME NEW s \in Slots, Abandon(s) PROVE TaskInv(t)'
  BY <1>10 DEF Abandon
<1>11. CASE UNCHANGED <<tasks, pushes>>
  BY <1>11 DEF tasks
<1>. QED
  BY <1>1, <1>2, <1>3, <1>4, <1>5, <1>6, <1>7, <1>8, <1>9, <1>10, <1>11 DEF Next, Step,
     vars,
     ActionQueueStart, MarkStarted, MarkNotificationRead, MarkRead, TtlElapses, ExpireOlderThan, tasks

\* The task that inserts a row finds nobody else owing its announcement.
LEMMA PublisherStep == IInv /\ [Next]_vars => OnePublisher'
<1> SUFFICES ASSUME IInv, [Next]_vars PROVE OnePublisher'
  OBVIOUS
<1>. RowsGrow /\ RowKinds' /\ TypeOK'
  BY RowsStep, TypeStep DEF IInv
<1> USE KindsDisjoint DEF IInv, TypeOK, RowKinds, TaskInv, OnePublisher, Goto
<1>1. ASSUME NEW s \in Slots, NEW e \in Events, Deliver(s, e) PROVE OnePublisher'
  BY <1>1 DEF Deliver, Dispatch, Builds
<1>2. ASSUME NEW s \in Slots, Filter(s) PROVE OnePublisher'
  BY <1>2 DEF Filter, Dispatch, Builds
<1>3. ASSUME NEW s \in Slots, Save(s) PROVE OnePublisher'
  BY <1>3 DEF Save, InsertEntry, InsertNotification, AfterSave
<1>4. ASSUME NEW s \in Slots, Find(s) PROVE OnePublisher'
  BY <1>4 DEF Find, Confirmable
<1>5. ASSUME NEW s \in Slots, Complete(s) PROVE OnePublisher'
  BY <1>5 DEF Complete, MarkCompleted
<1>6. ASSUME NEW s \in Slots, Reread(s) PROVE OnePublisher'
  BY <1>6 DEF Reread
<1>7. ASSUME NEW s \in Slots, Publish(s) PROVE OnePublisher'
  BY <1>7 DEF Publish
<1>8. ASSUME NEW s \in Slots, Reply(s) PROVE OnePublisher'
  BY <1>8 DEF Reply, Acknowledges
<1>9. ASSUME NEW s \in Slots, StatementFails(s) PROVE OnePublisher'
  BY <1>9 DEF StatementFails, AfterFailure
<1>10. ASSUME NEW s \in Slots, Abandon(s) PROVE OnePublisher'
  BY <1>10 DEF Abandon
<1>11. CASE UNCHANGED tasks
  BY <1>11 DEF tasks
<1>. QED
  BY <1>1, <1>2, <1>3, <1>4, <1>5, <1>6, <1>7, <1>8, <1>9, <1>10, <1>11 DEF Next, Step,
     vars,
     ActionQueueStart, MarkStarted, MarkNotificationRead, MarkRead, TtlElapses, ExpireOlderThan

\* Only Publish touches pushes, and it runs in a task that knows the row is
\* there, that nobody announced it before, or that the entry is settled.
PushInv ==
    /\ ConfirmationsResolve
    /\ InsertPushedOnce
    /\ PushedIsDurable
    /\ ConfirmationPushIsFinal

LEMMA PushStep == IInv /\ [Next]_vars => PushInv'
<1> SUFFICES ASSUME IInv, [Next]_vars PROVE PushInv'
  OBVIOUS
<1>. RowsGrow /\ RowKinds' /\ TypeOK'
  BY RowsStep, TypeStep DEF IInv
<1> USE KindsDisjoint DEF IInv, TypeOK
<1>1. ASSUME NEW s \in Slots, Publish(s) PROVE PushInv'
  <2> USE <1>1 DEF Publish, TaskInv
  <2>1. ConfirmationsResolve'
    BY DEF ConfirmationsResolve
  <2>2. InsertPushedOnce'
    BY DEF InsertPushedOnce
  <2>3. PushedIsDurable'
    BY DEF PushedIsDurable, RowsGrow
  <2>4. ConfirmationPushIsFinal'
    BY DEF ConfirmationPushIsFinal, ConfirmationsResolve, RowsGrow
  <2>. QED
    BY <2>1, <2>2, <2>3, <2>4 DEF PushInv
<1>2. CASE UNCHANGED pushes
  BY <1>2 DEF PushInv, ConfirmationsResolve, InsertPushedOnce, PushedIsDurable,
     ConfirmationPushIsFinal, RowsGrow
<1>. QED
  BY <1>1, <1>2 DEF Next, Step, vars, Deliver, Filter, Save, InsertEntry, InsertNotification, Find, Complete, Reread, Reply,
     StatementFails, Abandon, ActionQueueStart, MarkStarted, MarkNotificationRead, MarkRead, TtlElapses,
     ExpireOlderThan, tasks

\* A row is born with a task that owes its announcement; only Publish and a
\* fault relieve that task, and a fault relieves one task of one event.
LEMMA SilentStep ==
  IInv /\ [Next]_vars =>
      \/ Silent' \subseteq Silent /\ faults' \in {faults, faults + 1}
      \/ \E e \in Events : Silent' \subseteq Silent \cup {e} /\ faults' = faults + 1
<1> DEFINE Quiet == Silent' \subseteq Silent /\ faults' \in {faults, faults + 1}
           Loses(e) == Silent' \subseteq Silent \cup {e} /\ faults' = faults + 1
<1> SUFFICES ASSUME IInv, [Next]_vars PROVE Quiet \/ \E e \in Events : Loses(e)
  OBVIOUS
<1>. RowsGrow /\ RowKinds' /\ TypeOK'
  BY RowsStep, TypeStep DEF IInv
<1> USE KindsDisjoint DEF IInv, TypeOK, TaskInv, Goto, Silent, Fault, Terminal, RowKinds, tasks
<1>1. ASSUME NEW s \in Slots, NEW e \in Events, Deliver(s, e) PROVE Quiet
  BY <1>1 DEF Deliver, Dispatch, Builds
<1>2. ASSUME NEW s \in Slots, Filter(s) PROVE Quiet
  BY <1>2 DEF Filter, Dispatch, Builds
<1>3. ASSUME NEW s \in Slots, Save(s) PROVE Quiet
  BY <1>3 DEF Save, InsertEntry, InsertNotification, AfterSave
<1>4. ASSUME NEW s \in Slots, Find(s) PROVE Quiet
  BY <1>4 DEF Find, Confirmable
<1>5. ASSUME NEW s \in Slots, Complete(s) PROVE Quiet
  BY <1>5 DEF Complete, MarkCompleted
<1>6. ASSUME NEW s \in Slots, Reread(s) PROVE Quiet
  BY <1>6 DEF Reread
<1>7. ASSUME NEW s \in Slots, Publish(s) PROVE Quiet
  BY <1>7 DEF Publish
<1>8. ASSUME NEW s \in Slots, Reply(s) PROVE Quiet
  BY <1>8 DEF Reply, Acknowledges
<1>9. ASSUME NEW x \in Events, ActionQueueStart(x) PROVE Quiet
  BY <1>9 DEF ActionQueueStart, MarkStarted
<1>10. ASSUME NEW x \in Events, MarkNotificationRead(x) PROVE Quiet
  BY <1>10 DEF MarkNotificationRead, MarkRead
<1>11. ASSUME ExpireOlderThan PROVE Quiet
  BY <1>11 DEF ExpireOlderThan
<1>12. ASSUME NEW s \in Slots, StatementFails(s) \/ Abandon(s), pc[s] # "idle"
       PROVE  Loses(ev[s]) /\ ev[s] \in Events
  <2>1. /\ faults' = faults + 1 /\ row' = row /\ pushes' = pushes
        /\ \A t \in Slots : t # s => pc'[t] = pc[t] /\ ev'[t] = ev[t]
    BY <1>12 DEF StatementFails, Abandon
  <2>2. ev[s] \in Events
    BY <1>12
  <2> QED
    BY <2>1, <2>2
<1>13. ASSUME NEW s \in Slots, StatementFails(s) \/ Abandon(s) PROVE pc[s] # "idle"
  BY <1>13 DEF StatementFails, Abandon
<1>14. CASE UNCHANGED <<row, pc, ev, pushes, faults>>
  BY <1>14
<1>. QED
  BY <1>1, <1>2, <1>3, <1>4, <1>5, <1>6, <1>7, <1>8, <1>9, <1>10, <1>11, <1>12, <1>13,
     <1>14 DEF Next, Step, vars, TtlElapses, tasks

\* The silent rows stay as few as the faults.
LEMMA EveryRowIsAnnouncedStep ==
  IInv /\ [Next]_vars => IsFiniteSet(Silent') /\ EveryRowIsAnnounced'
<1> SUFFICES ASSUME IInv, [Next]_vars PROVE IsFiniteSet(Silent') /\ EveryRowIsAnnounced'
  OBVIOUS
<1>1. IsFiniteSet(Silent) /\ Cardinality(Silent) <= faults /\ faults \in Nat /\ Cardinality(Silent) \in Nat
  BY FS_CardinalityType DEF IInv, EveryRowIsAnnounced, TypeOK
<1>2. CASE Silent' \subseteq Silent /\ faults' \in {faults, faults + 1}
  <2>1. IsFiniteSet(Silent') /\ Cardinality(Silent') <= Cardinality(Silent) /\ Cardinality(Silent') \in Nat
    BY <1>1, <1>2, FS_Subset, FS_CardinalityType
  <2> QED
    BY <1>1, <1>2, <2>1 DEF EveryRowIsAnnounced
<1>3. ASSUME NEW e \in Events, Silent' \subseteq Silent \cup {e}, faults' = faults + 1
      PROVE  IsFiniteSet(Silent') /\ EveryRowIsAnnounced'
  <2>1. /\ IsFiniteSet(Silent \cup {e}) /\ Cardinality(Silent \cup {e}) \in Nat
        /\ Cardinality(Silent \cup {e}) <= Cardinality(Silent) + 1
    BY <1>1, FS_AddElement
  <2>2. /\ IsFiniteSet(Silent') /\ Cardinality(Silent') \in Nat
        /\ Cardinality(Silent') <= Cardinality(Silent \cup {e})
    BY <1>3, <2>1, FS_Subset, FS_CardinalityType
  <2> QED
    BY <1>1, <1>3, <2>1, <2>2 DEF EveryRowIsAnnounced
<1>. QED
  BY <1>2, <1>3, SilentStep

\* Only Reply acknowledges, and what it accepts is in the tables for good.
LEMMA AcceptedIsDurableStep == IInv /\ [Next]_vars => AcceptedIsDurable'
<1> SUFFICES ASSUME IInv, [Next]_vars PROVE AcceptedIsDurable'
  OBVIOUS
<1>. RowsGrow /\ RowKinds' /\ TypeOK'
  BY RowsStep, TypeStep DEF IInv
<1> USE KindsDisjoint DEF IInv, TypeOK, TaskInv, Goto, AcceptedIsDurable, RowsGrow
<1>1. ASSUME NEW s \in Slots, Reply(s) PROVE AcceptedIsDurable'
  BY <1>1 DEF Reply, Acknowledges
<1>2. CASE UNCHANGED <<acked, rejected>>
  BY <1>2
<1>. QED
  BY <1>1, <1>2 DEF Next, Step, vars,
     Deliver, Filter, Save, InsertEntry, InsertNotification, Find, Complete, Reread, Publish, StatementFails, Abandon,
     ActionQueueStart, MarkStarted, MarkNotificationRead, MarkRead, TtlElapses, ExpireOlderThan, nexus

\* Every step preserves the whole of the inductive invariant.
LEMMA InvStep == IInv /\ [Next]_vars => IInv'
  BY TypeStep, RowsStep, TaskStep, PublisherStep, PushStep, EveryRowIsAnnouncedStep,
     AcceptedIsDurableStep DEF IInv, PushInv

\* The inductive invariant holds of every behaviour: whatever a suspended task
\* relies on is kept true by everything that runs meanwhile.
THEOREM Invariance == Spec => []IInv
  BY InvInit, InvStep, PTL DEF Spec

\* However its deliveries overlap, an event's row is announced at most once.
THEOREM PushedOnce == Spec => []InsertPushedOnce
<1>. IInv => InsertPushedOnce
  BY DEF IInv
<1>. QED
  BY Invariance, PTL

\* A NOTIFY never precedes the row it points to.
THEOREM PushFollowsRow == Spec => []PushedIsDurable
<1>. IInv => PushedIsDurable
  BY DEF IInv
<1>. QED
  BY Invariance, PTL

\* A confirmation is only pushed about an entry whose fate is settled.
THEOREM PushAfterSettled == Spec => []ConfirmationPushIsFinal
<1>. IInv => ConfirmationPushIsFinal
  BY DEF IInv
<1>. QED
  BY Invariance, PTL

\* Deliveries lose the announcement of one row at most per fault.
THEOREM NoPushLost == Spec => []EveryRowIsAnnounced
<1>. IInv => EveryRowIsAnnounced
  BY DEF IInv
<1>. QED
  BY Invariance, PTL

\* What nexus holds a 200 for, and was not told is rejected, is in the tables.
THEOREM AcknowledgedIsSaved == Spec => []AcceptedIsDurable
<1>. IInv => AcceptedIsDurable
  BY DEF IInv
<1>. QED
  BY Invariance, PTL

-----------------------------------------------------------------------------
(* EventIngestion implements ActionLifecycle.                              *)

LEMMA RefineInit == Init => Lifecycle!Init
  BY KindsDisjoint DEF Init, Lifecycle!Init

\* Deliver confirms, Save receives, ActionQueueStart starts, Complete completes
\* and the sweep expires entries; every other step is invisible in the queue.
LEMMA RefineStep == IInv /\ [Next]_vars => [Lifecycle!Next]_(Lifecycle!vars)
<1> SUFFICES ASSUME IInv, [Next]_vars PROVE [Lifecycle!Next]_(Lifecycle!vars)
  OBVIOUS
<1> USE KindsDisjoint, ConstantsAssumption DEF IInv, TypeOK
<1>1. ASSUME NEW s \in Slots, NEW e \in Events, Deliver(s, e)
      PROVE  Lifecycle!Next \/ UNCHANGED Lifecycle!vars
  <2>1. CASE e \in Confirmations /\ RelatedOf[e] \in Actions
    <3>1. Lifecycle!Confirm(RelatedOf[e])
      BY <1>1, <2>1 DEF Deliver, Lifecycle!Confirm
    <3>. QED
      BY <2>1, <3>1 DEF Lifecycle!Next
  <2>2. CASE ~(e \in Confirmations /\ RelatedOf[e] \in Actions)
    BY <1>1, <2>2 DEF Deliver, Lifecycle!vars
  <2>. QED
    BY <2>1, <2>2
<1>2. ASSUME NEW s \in Slots, Save(s)
      PROVE  Lifecycle!Next \/ UNCHANGED Lifecycle!vars
  <2>1. CASE ev[s] \in Actions /\ row[ev[s]] = "absent"
    <3>1. PICK x \in Actions : x = ev[s]
      BY <2>1
    <3>2. row[x] = "absent" /\ row' = [row EXCEPT ![x] = "pending"] /\ heard' = heard /\
    due' = due
      BY <1>2, <2>1, <3>1 DEF Save, InsertEntry, InsertNotification, nexus
    <3>3. Lifecycle!Receive(x)
      BY <3>2 DEF Lifecycle!Receive
    <3>. QED
      BY <3>3 DEF Lifecycle!Next
  <2>2. CASE ~(ev[s] \in Actions /\ row[ev[s]] = "absent")
    BY <1>2, <2>2 DEF Save, InsertEntry, InsertNotification, nexus, Lifecycle!vars
  <2>. QED
    BY <2>1, <2>2
<1>3. ASSUME NEW s \in Slots, Complete(s)
      PROVE  Lifecycle!Next \/ UNCHANGED Lifecycle!vars
  <2>1. PICK x \in Actions, c \in heard \cap Confirmations : c = ev[s] /\ RelatedOf[c] = x
    BY <1>3 DEF Complete, TaskInv
  <2>2. CASE row[x] = "in_progress"
    <3>1. row' = [row EXCEPT ![x] = "completed"] /\ heard' = heard /\ due' = due
      BY <1>3, <2>1, <2>2 DEF Complete, MarkCompleted, nexus
    <3>2. Lifecycle!Complete(x)
      BY <2>1, <2>2, <3>1
      DEF Lifecycle!Complete, Lifecycle!ValidTransition, Lifecycle!Terminal
    <3>. QED
      BY <3>2 DEF Lifecycle!Next
  <2>3. CASE row[x] # "in_progress"
    BY <1>3, <2>1, <2>3 DEF Complete, MarkCompleted, nexus, Lifecycle!vars
  <2>. QED
    BY <2>2, <2>3
<1>4. ASSUME NEW x \in Events, ActionQueueStart(x)
      PROVE  Lifecycle!Next \/ UNCHANGED Lifecycle!vars
  <2>1. x \in Actions
    BY <1>4 DEF ActionQueueStart
  <2>2. CASE row[x] = "pending"
    <3>1. Lifecycle!Start(x)
      BY <1>4, <2>1, <2>2
         DEF ActionQueueStart, MarkStarted, nexus, Lifecycle!Start, Lifecycle!ValidTransition
    <3>. QED
      BY <2>1, <3>1 DEF Lifecycle!Next
  <2>3. CASE row[x] # "pending"
    BY <1>4, <2>3 DEF ActionQueueStart, MarkStarted, nexus, Lifecycle!vars
  <2>. QED
    BY <2>2, <2>3
<1>5. ASSUME NEW x \in Events, MarkNotificationRead(x)
      PROVE  Lifecycle!Next \/ UNCHANGED Lifecycle!vars
  <2>1. x \notin Actions
    BY <1>5 DEF MarkNotificationRead, Notifications
  <2>. QED
    BY <1>5, <2>1 DEF MarkNotificationRead, MarkRead, nexus, Lifecycle!vars
<1>6. ASSUME ExpireOlderThan
      PROVE  Lifecycle!Next \/ UNCHANGED Lifecycle!vars
  <2>1. PICK overdue \in SUBSET Actions :
          overdue = {x \in due : row[x] \in {"pending", "in_progress"}}
    OBVIOUS
  <2>2. /\ overdue # {} /\ overdue \subseteq due /\ heard' = heard /\ due' = due
        /\ row' = [x \in Events |-> IF x \in overdue THEN "expired" ELSE row[x]]
    BY <1>6, <2>1 DEF ExpireOlderThan, nexus
  <2>3. Lifecycle!Expire(overdue)
    BY <2>1, <2>2 DEF Lifecycle!Expire, Lifecycle!ValidTransition, Lifecycle!Terminal
  <2>. QED
    BY <2>3 DEF Lifecycle!Next
<1>7. ASSUME NEW x \in Events, TtlElapses(x)
      PROVE  Lifecycle!Next \/ UNCHANGED Lifecycle!vars
  <2>1. x \in Actions /\ Lifecycle!Elapse(x)
    BY <1>7 DEF TtlElapses, nexus, Lifecycle!Elapse
  <2>. QED
    BY <2>1 DEF Lifecycle!Next
<1>8. CASE UNCHANGED <<row, heard, due>>
  BY <1>8 DEF Lifecycle!vars
<1>. QED
  BY <1>1, <1>2, <1>3, <1>4, <1>5, <1>6, <1>7, <1>8 DEF Next, Step, vars, Filter, Find,
     Reread,
     Publish, Reply, StatementFails, Abandon, nexus

\* The action queue built from pushed events, with every retry, race and fault,
\* is a queue of entries that live the life ActionLifecycle allows.
THEOREM Refinement == Spec => LifecycleSpec
  BY RefineInit, RefineStep, Invariance, PTL DEF Spec, LifecycleSpec, Lifecycle!Spec

-----------------------------------------------------------------------------
(* EventIngestion implements Announcements.                                *)

\* What the task of each statement has still to do for an entry.
LEMMA Duties ==
  ASSUME IInv, NEW s \in Slots
  PROVE  /\ pc[s] \notin {"complete", "reread", "publish"} => DutyOf(s) = [at |-> "none"]
         /\ pc[s] = "complete" => /\ RelatedOf[ev[s]] \in Actions
                                  /\ DutyOf(s) = [at |-> "confirming", entry |-> RelatedOf[ev[s]]]
         /\ pc[s] \in {"reread", "publish"} /\ ev[s] \in Confirmations =>
              /\ RelatedOf[ev[s]] \in Actions
              /\ DutyOf(s) = [at |-> "announcing", entry |-> RelatedOf[ev[s]]]
         /\ pc[s] = "publish" /\ ev[s] \in Actions =>
              DutyOf(s) = [at |-> "announcing", entry |-> ev[s]]
         /\ pc[s] = "publish" /\ ev[s] \in Notifications => DutyOf(s) = [at |-> "none"]
  BY KindsDisjoint DEF IInv, TaskInv, DutyOf

LEMMA AnnouncedInit == Init => Announced!Init
<1> SUFFICES ASSUME Init PROVE Announced!Init
  OBVIOUS
<1>1. \A s \in Slots : DutyOf(s) = [at |-> "none"]
  BY DEF Init, DutyOf
<1>2. [x \in Actions |-> row[x]] = [x \in Actions |-> "absent"]
  BY KindsDisjoint DEF Init
<1>. QED
  BY <1>1, <1>2 DEF Announced!Init, Announced!NoDuty

\* A step of one task leaves what the others owe alone.
LEMMA DutyMoves ==
  ASSUME TypeOK, NEW s \in Slots, NEW d,
         \A t \in Slots \ {s} : pc'[t] = pc[t] /\ ev'[t] = ev[t],
         DutyOf(s)' = d
  PROVE  [t \in Slots |-> DutyOf(t)]' = [[t \in Slots |-> DutyOf(t)] EXCEPT ![s] = d]
  BY DEF DutyOf

\* The NOTIFY of a task that has one to issue for an entry is an Announce.
LEMMA PublishAnnounces ==
  ASSUME IInv, NEW s \in Slots, Publish(s)
  PROVE  /\ ev[s] \in Actions \cup Confirmations => Announced!Announce(s)
         /\ ev[s] \notin Actions \cup Confirmations => UNCHANGED Announced!vars
<1> USE KindsDisjoint DEF IInv, TypeOK
<1> DEFINE duties == [t \in Slots |-> DutyOf(t)]
           none == [at |-> "none"]
<1>1. /\ pc[s] = "publish" /\ pc'[s] = "accepted" /\ row' = row
      /\ \A t \in Slots \ {s} : pc'[t] = pc[t] /\ ev'[t] = ev[t]
      /\ ev[s] \in Events
  BY DEF Publish, Goto
<1>2. DutyOf(s)' = none
  BY <1>1 DEF DutyOf
<1>3. duties' = [duties EXCEPT ![s] = none]
  BY <1>1, <1>2, DutyMoves
<1>4. CASE ev[s] \in Actions \cup Confirmations
  <2>1. duties[s].at = "announcing"
    BY <1>1, <1>4, Duties
  <2>. QED
    BY <1>1, <1>3, <1>4, <2>1 DEF Announced!Announce, Announced!NoDuty
<1>5. CASE ev[s] \notin Actions \cup Confirmations
  <2>1. DutyOf(s) = none
    BY <1>1, <1>5, Duties
  <2>2. duties' = duties
    BY <1>3, <2>1
  <2>. QED
    BY <1>1, <1>5, <2>2 DEF Announced!vars
<1>. QED
  BY <1>4, <1>5

LEMMA AnnouncedStep == IInv /\ [Next]_vars => [Announced!Next]_(Announced!vars)
<1> SUFFICES ASSUME IInv, [Next]_vars PROVE [Announced!Next]_(Announced!vars)
  OBVIOUS
<1> USE KindsDisjoint DEF IInv, TypeOK
<1> DEFINE rows == [x \in Actions |-> row[x]]
           duties == [t \in Slots |-> DutyOf(t)]
           none == [at |-> "none"]
<1>0. IInv'
  BY InvStep
<1>1. ASSUME NEW s \in Slots, \A t \in Slots \ {s} : pc'[t] = pc[t] /\ ev'[t] = ev[t],
             DutyOf(s)' = DutyOf(s)
      PROVE  duties' = duties
  BY <1>1, DutyMoves DEF DutyOf
<1>2. ASSUME NEW s \in Slots, NEW e \in Events, Deliver(s, e)
      PROVE  UNCHANGED Announced!vars
  <2>1. DutyOf(s) = none /\ DutyOf(s)' = none
    BY <1>2 DEF Deliver, Dispatch, Builds, DutyOf
  <2>2. \A t \in Slots \ {s} : pc'[t] = pc[t] /\ ev'[t] = ev[t]
    BY <1>2 DEF Deliver
  <2>. QED
    BY <1>1, <1>2, <2>1, <2>2 DEF Deliver, Announced!vars
<1>3. ASSUME NEW s \in Slots, Filter(s) \/ Reply(s)
      PROVE  UNCHANGED Announced!vars
  <2>1. DutyOf(s) = none /\ DutyOf(s)' = none
    BY <1>3 DEF Filter, Reply, Goto, Dispatch, Builds, DutyOf
  <2>2. \A t \in Slots \ {s} : pc'[t] = pc[t] /\ ev'[t] = ev[t]
    BY <1>3 DEF Filter, Reply, Goto
  <2>. QED
    BY <1>1, <1>3, <2>1, <2>2 DEF Filter, Reply, Announced!vars
<1>4. ASSUME NEW s \in Slots, Save(s)
      PROVE  Announced!Next \/ UNCHANGED Announced!vars
  <2>1. \A t \in Slots \ {s} : pc'[t] = pc[t] /\ ev'[t] = ev[t]
    BY <1>4 DEF Save, Goto
  <2>2. DutyOf(s) = none /\ ev[s] \in Events \ Confirmations /\ ev'[s] = ev[s]
    BY <1>4, Duties DEF Save, TaskInv, Goto
  <2>3. CASE ev[s] \in Actions /\ row[ev[s]] = "absent"
    <3>1. PICK x \in Actions : x = ev[s]
      BY <2>3
    <3>2. pc'[s] = "publish" /\ row' = [row EXCEPT ![x] = "pending"]
      BY <1>4, <2>3, <3>1 DEF Save, Goto, AfterSave, InsertEntry
    <3>3. DutyOf(s)' = [at |-> "announcing", entry |-> x]
      BY <1>0, <2>2, <3>1, <3>2 DEF DutyOf
    <3>4. duties' = [duties EXCEPT ![s] = [at |-> "announcing", entry |-> x]]
      BY <2>1, <3>3, DutyMoves
    <3>5. rows' = [rows EXCEPT ![x] = "pending"]
      BY <3>2
    <3>6. Announced!Insert(s, x)
      BY <2>2, <2>3, <3>1, <3>4, <3>5 DEF Announced!Insert, Announced!NoDuty
    <3>. QED
      BY <3>6 DEF Announced!Next
  <2>4. CASE ~(ev[s] \in Actions /\ row[ev[s]] = "absent")
    <3>1. DutyOf(s)' = none
      BY <1>4, <2>2, <2>4 DEF Save, Goto, AfterSave, DutyOf
    <3>2. rows' = rows
      BY <1>4, <2>4 DEF Save, InsertEntry, InsertNotification
    <3>. QED
      BY <1>1, <2>1, <2>2, <3>1, <3>2 DEF Announced!vars
  <2>. QED
    BY <2>3, <2>4
<1>5. ASSUME NEW s \in Slots, Find(s)
      PROVE  Announced!Next \/ UNCHANGED Announced!vars
  <2>1. \A t \in Slots \ {s} : pc'[t] = pc[t] /\ ev'[t] = ev[t]
    BY <1>5 DEF Find, Goto
  <2>2. DutyOf(s) = none /\ ev'[s] = ev[s] /\ row' = row /\ ev[s] \in Confirmations
    BY <1>5, Duties DEF Find, Goto, TaskInv
  <2>3. CASE Confirmable(ev[s])
    <3>1. PICK x \in Actions : x = RelatedOf[ev[s]] /\ row[x] = "in_progress"
      BY <2>3 DEF Confirmable
    <3>2. pc'[s] = "complete"
      BY <1>5, <2>3 DEF Find, Goto
    <3>3. DutyOf(s)' = [at |-> "confirming", entry |-> x]
      BY <2>2, <3>1, <3>2 DEF DutyOf
    <3>4. duties' = [duties EXCEPT ![s] = [at |-> "confirming", entry |-> x]]
      BY <2>1, <3>3, DutyMoves
    <3>5. Announced!Find(s, x)
      BY <2>2, <3>1, <3>4 DEF Announced!Find, Announced!NoDuty
    <3>. QED
      BY <3>5 DEF Announced!Next
  <2>4. CASE ~Confirmable(ev[s])
    <3>1. DutyOf(s)' = none
      BY <1>5, <2>2, <2>4 DEF Find, Goto, DutyOf
    <3>. QED
      BY <1>1, <2>1, <2>2, <3>1 DEF Announced!vars
  <2>. QED
    BY <2>3, <2>4
<1>6. ASSUME NEW s \in Slots, Complete(s)
      PROVE  Announced!Next
  <2>1. \A t \in Slots \ {s} : pc'[t] = pc[t] /\ ev'[t] = ev[t]
    BY <1>6 DEF Complete, Goto
  <2>2. PICK x \in Actions : x = RelatedOf[ev[s]] /\ DutyOf(s) = [at |-> "confirming", entry |-> x]
    BY <1>6, Duties DEF Complete
  <2>3. /\ pc'[s] = "reread" /\ ev'[s] = ev[s] /\ ev[s] \in Confirmations
        /\ row' = IF row[x] = "in_progress" THEN [row EXCEPT ![x] = "completed"] ELSE row
    BY <1>6, <2>2 DEF Complete, Goto, TaskInv, MarkCompleted
  <2>4. DutyOf(s)' = [at |-> "announcing", entry |-> x]
    BY <2>2, <2>3 DEF DutyOf
  <2>5. duties' = [duties EXCEPT ![s] = [at |-> "announcing", entry |-> x]]
    BY <2>1, <2>4, DutyMoves
  <2>6. rows' = IF rows[x] = "in_progress" THEN [rows EXCEPT ![x] = "completed"] ELSE rows
    BY <2>3
  <2>7. duties[s].at = "confirming" /\ duties[s].entry = x
    BY <2>2
  <2>8. Announced!Complete(s)
    BY <2>5, <2>6, <2>7 DEF Announced!Complete, Announced!MarkCompleted
  <2>. QED
    BY <2>8 DEF Announced!Next
<1>7. ASSUME NEW s \in Slots, Reread(s)
      PROVE  UNCHANGED Announced!vars
  <2>1. pc'[s] = "publish" /\ ev' = ev /\ pc[s] = "reread" /\ row' = row
    BY <1>7 DEF Reread, Goto
  <2>2. \A t \in Slots \ {s} : pc'[t] = pc[t] /\ ev'[t] = ev[t]
    BY <1>7 DEF Reread, Goto
  <2>3. DutyOf(s)' = DutyOf(s)
    BY <2>1 DEF DutyOf
  <2>. QED
    BY <1>1, <2>1, <2>2, <2>3 DEF Announced!vars
<1>8. ASSUME NEW s \in Slots, Publish(s)
      PROVE  Announced!Next \/ UNCHANGED Announced!vars
  BY <1>8, PublishAnnounces DEF Announced!Next
<1>9. ASSUME NEW s \in Slots, StatementFails(s) \/ Abandon(s)
      PROVE  Announced!Next \/ UNCHANGED Announced!vars
  <2>1. DutyOf(s)' = none /\ row' = row
    BY <1>9 DEF StatementFails, AfterFailure, Abandon, Goto, DutyOf
  <2>2. \A t \in Slots \ {s} : pc'[t] = pc[t] /\ ev'[t] = ev[t]
    BY <1>9 DEF StatementFails, Abandon, Goto
  <2>3. duties' = [duties EXCEPT ![s] = none]
    BY <2>1, <2>2, DutyMoves
  <2>4. CASE DutyOf(s) # none
    <3>1. Announced!Drop(s)
      BY <2>1, <2>3, <2>4 DEF Announced!Drop, Announced!NoDuty
    <3>. QED
      BY <3>1 DEF Announced!Next
  <2>5. CASE DutyOf(s) = none
    BY <1>1, <2>1, <2>2, <2>5 DEF Announced!vars
  <2>. QED
    BY <2>4, <2>5
<1>10. ASSUME NEW x \in Events, ActionQueueStart(x)
       PROVE  Announced!Next
  <2>1. x \in Actions /\ duties' = duties
    BY <1>10 DEF ActionQueueStart, DutyOf, tasks
  <2>2. rows' = IF rows[x] = "pending" THEN [rows EXCEPT ![x] = "in_progress"] ELSE rows
    BY <1>10, <2>1 DEF ActionQueueStart, MarkStarted
  <2>3. Announced!Start(x)
    BY <2>1, <2>2 DEF Announced!Start, Announced!MarkStarted
  <2>. QED
    BY <2>1, <2>3 DEF Announced!Next
<1>11. ASSUME NEW x \in Events, MarkNotificationRead(x) \/ TtlElapses(x)
       PROVE  UNCHANGED Announced!vars
  <2>1. duties' = duties
    BY <1>11 DEF MarkNotificationRead, TtlElapses, DutyOf, tasks
  <2>2. rows' = rows
    BY <1>11 DEF MarkNotificationRead, MarkRead, TtlElapses
  <2>. QED
    BY <2>1, <2>2 DEF Announced!vars
<1>12. ASSUME ExpireOlderThan
       PROVE  Announced!Next
  <2>1. PICK overdue \in SUBSET Actions :
          overdue = {x \in due : row[x] \in {"pending", "in_progress"}}
    OBVIOUS
  <2>2. /\ overdue # {} /\ duties' = duties
        /\ rows' = [x \in Actions |-> IF x \in overdue THEN "expired" ELSE rows[x]]
    BY <1>12, <2>1 DEF ExpireOlderThan, DutyOf, tasks
  <2>3. Announced!Expire(overdue)
    BY <2>1, <2>2 DEF Announced!Expire
  <2>. QED
    BY <2>3 DEF Announced!Next
<1>13. CASE UNCHANGED vars
  BY <1>13 DEF vars, DutyOf, Announced!vars
<1>. QED
  BY <1>2, <1>3, <1>4, <1>5, <1>6, <1>7, <1>8, <1>9, <1>10, <1>11, <1>12, <1>13 DEF Next, Step

\* What the deliveries do to the rows, and the NOTIFYs they owe for it, are
\* what the push fan-out is built on.
THEOREM AnnouncesAsPromised == Spec => AnnouncementsSpec
  BY AnnouncedInit, AnnouncedStep, Invariance, PTL
     DEF Spec, AnnouncementsSpec, Announced!Spec

\* No NOTIFY about an entry is issued but by a task that owes it.
THEOREM OwedOnly == Spec => NotifiesAreOwed
<1>1. ASSUME IInv, [Next]_vars, NEW e \in AboutEntries, pushes'[e] # pushes[e]
      PROVE  \E s \in Slots : ev[s] = e /\ Announced!Announce(s)
  <2>1. PICK s \in Slots : Publish(s)
    BY <1>1 DEF Next, Step, vars, Deliver, Filter, Save, Find, Complete, Reread, Reply,
       StatementFails, Abandon, ActionQueueStart, MarkNotificationRead, TtlElapses,
       ExpireOlderThan, tasks
  <2>2. ev[s] = e
    BY <1>1, <2>1 DEF Publish, IInv, TypeOK
  <2>3. ev[s] \in Actions \cup Confirmations
    BY <1>1, <2>2 DEF AboutEntries
  <2>. QED
    BY <1>1, <2>1, <2>2, <2>3, PublishAnnounces
<1>2. IInv /\ [Next]_vars =>
        [\A e \in AboutEntries : pushes'[e] # pushes[e] =>
           \E s \in Slots : ev[s] = e /\ Announced!Announce(s)]_vars
  BY <1>1
<1>. QED
  BY <1>2, Invariance, PTL DEF Spec, NotifiesAreOwed

-----------------------------------------------------------------------------
(* Every delivery comes to an end.                                         *)

\* How many awaits a task may still have before it.
Ahead == [filter |-> 6, save |-> 5, find |-> 5, complete |-> 4, reread |-> 3,
          publish |-> 2, accepted |-> 1, rejected |-> 1, idle |-> 0]

LEMMA AheadTyped == \A label \in PCs : Ahead[label] \in 0 .. 6 /\ (Ahead[label] = 0 <=> label = "idle")
BY DEF PCs, Ahead

\* A task goes forward only, whether a statement succeeds or fails or the task is
\* dropped, and no other task moves it.
LEMMA TaskMoves ==
  ASSUME TypeOK, [Next]_vars, NEW s \in Slots, pc[s] # "idle"
  PROVE  /\ pc'[s] = pc[s] \/ Ahead[pc'[s]] < Ahead[pc[s]]
         /\ Step(s) => Ahead[pc'[s]] < Ahead[pc[s]]
<1>1. pc \in [Slots -> PCs]
  BY DEF TypeOK
<1>2. ASSUME Step(s) PROVE Ahead[pc'[s]] < Ahead[pc[s]]
  <2>1. CASE Filter(s)
    BY <1>1, <2>1 DEF Filter, Goto, Dispatch, Ahead
  <2>2. CASE Save(s)
    BY <1>1, <2>2 DEF Save, AfterSave, Goto, Ahead
  <2>3. CASE Find(s)
    BY <1>1, <2>3 DEF Find, Goto, Ahead
  <2>4. CASE Complete(s) \/ Reread(s) \/ Publish(s) \/ Reply(s)
    BY <1>1, <2>4 DEF Complete, Reread, Publish, Reply, Goto, Ahead
  <2>. QED
    BY <1>2, <2>1, <2>2, <2>3, <2>4 DEF Step
<1>3. ASSUME StatementFails(s) PROVE Ahead[pc'[s]] < Ahead[pc[s]]
  BY <1>1, <1>3 DEF StatementFails, AfterFailure, Goto, Ahead
<1>4. ASSUME Abandon(s) PROVE Ahead[pc'[s]] < Ahead[pc[s]]
  <2>1. pc'[s] = "idle"
    BY <1>1, <1>4 DEF Abandon
  <2>2. Ahead["idle"] = 0 /\ Ahead[pc[s]] > 0
    BY <1>1, AheadTyped DEF PCs
  <2>. QED
    BY <2>1, <2>2
<1>5. ASSUME NEW t \in Slots, t # s, Step(t) \/ StatementFails(t) \/ Abandon(t)
      PROVE  pc'[s] = pc[s]
  BY <1>1, <1>5 DEF Step, Filter, Save, Find, Complete, Reread, Publish, Reply, StatementFails,
                    Abandon, Goto
<1>6. ASSUME NEW t \in Slots, NEW e \in Events, Deliver(t, e) PROVE pc'[s] = pc[s]
  BY <1>1, <1>6 DEF Deliver
<1>7. ASSUME \/ \E x \in Events : ActionQueueStart(x) \/ MarkNotificationRead(x) \/ TtlElapses(x)
             \/ ExpireOlderThan \/ UNCHANGED vars
      PROVE  pc'[s] = pc[s]
  BY <1>7 DEF ActionQueueStart, MarkNotificationRead, TtlElapses, ExpireOlderThan, vars, tasks
<1>. QED
  BY <1>2, <1>3, <1>4, <1>5, <1>6, <1>7 DEF Next

\* Where the runtime polls the tasks, each delivery ends, however many of them
\* run at once and whatever nexus, the consultants and the sweep do meanwhile.
THEOREM EveryTaskEnds == Spec /\ (\A s \in Slots : Polled(s)) => TasksEnd
<1>1. ASSUME NEW s \in Slots
      PROVE  Spec /\ Polled(s) => (pc[s] # "idle" ~> pc[s] = "idle")
  <2> DEFINE Within(n) == pc[s] # "idle" /\ Ahead[pc[s]] <= n
             P == pc[s] # "idle"
             Z == pc[s] = "idle"
             W1 == Within(1)  W2 == Within(2)  W3 == Within(3)
             W4 == Within(4)  W5 == Within(5)  W6 == Within(6)
  <2>1. ASSUME TypeOK, [Next]_vars, NEW n \in 1 .. 6, Within(n)
        PROVE  /\ Within(n)' \/ Z'
               /\ Step(s) => Within(n - 1)' \/ Z'
    <3>1. pc[s] \in PCs /\ pc'[s] \in PCs
      BY <2>1, TypeStep DEF TypeOK
    <3>2. Ahead[pc[s]] \in 0 .. 6 /\ Ahead[pc'[s]] \in 0 .. 6
      BY <3>1, AheadTyped
    <3>. QED
      BY <2>1, <3>2, TaskMoves
  <2>2. TypeOK /\ [Next]_vars =>
          /\ W6 => W6' \/ Z'
          /\ W5 => W5' \/ Z'
          /\ W4 => W4' \/ Z'
          /\ W3 => W3' \/ Z'
          /\ W2 => W2' \/ Z'
          /\ W1 => W1' \/ Z'
    BY <2>1
  <2>3. ASSUME TypeOK, W1, Step(s), [Next]_vars PROVE Z'
    <3>1. Within(0)' \/ Z'
      BY <2>1, <2>3
    <3>2. pc'[s] \in PCs
      BY <2>3, TypeStep DEF TypeOK
    <3>. QED
      BY <3>1, <3>2, AheadTyped
  <2>4. TypeOK /\ [Next]_vars /\ <<Step(s)>>_vars =>
          /\ W6 => W5' \/ Z'
          /\ W5 => W4' \/ Z'
          /\ W4 => W3' \/ Z'
          /\ W3 => W2' \/ Z'
          /\ W2 => W1' \/ Z'
          /\ W1 => Z'
    BY <2>1, <2>3
  <2>5. TypeOK => (P => W6)
    BY AheadTyped DEF TypeOK
  <2>6. Z => ~W1 /\ ~W2 /\ ~W3 /\ ~W4 /\ ~W5 /\ ~W6
    OBVIOUS
  <2>7. Z <=> pc[s] = "idle"
    OBVIOUS
  <2> HIDE DEF W1, W2, W3, W4, W5, W6, P, Z
  <2>8. Spec /\ Polled(s) => (W6 ~> Z)
    BY <2>2, <2>4, <2>6, <2>7, TypeCorrect, PTL DEF Spec, Polled
  <2>9. Spec /\ Polled(s) => (P ~> Z)
    BY <2>5, <2>8, TypeCorrect, PTL
  <2>. QED
    BY <2>9 DEF P, Z
<1>. QED
  BY <1>1 DEF TasksEnd

\* Without a fault, only its own next statement moves a task; the last of them
\* is the answer.
LEMMA TaskKeeps ==
  ASSUME TypeOK, [Next]_vars, NEW s \in Slots, pc[s] # "idle"
  PROVE  /\ faults' >= faults
         /\ \/ faults' > faults
            \/ Step(s)
            \/ pc'[s] = pc[s] /\ ev'[s] = ev[s]
         /\ Step(s) /\ pc[s] \notin {"accepted", "rejected"} => ev'[s] = ev[s] /\ pc'[s] # "idle"
         /\ Step(s) /\ pc[s] \in {"accepted", "rejected"} => ev[s] \in acked'
<1>1. pc \in [Slots -> PCs] /\ ev \in [Slots -> Events \cup {NoEvent}] /\ faults \in Nat
  BY ConstantsAssumption DEF TypeOK, ConstantsAssumption
<1>2. ASSUME Step(s), pc[s] \notin {"accepted", "rejected"}
      PROVE  ev'[s] = ev[s] /\ pc'[s] # "idle"
  BY <1>1, <1>2 DEF Step, Filter, Save, Find, Complete, Reread, Publish, Reply, Goto, Dispatch, AfterSave
<1>3. ASSUME Step(s), pc[s] \in {"accepted", "rejected"} PROVE ev[s] \in acked'
  BY <1>1, <1>3 DEF Step, Filter, Save, Find, Complete, Reread, Publish, Reply, Acknowledges
<1>4. ASSUME NEW t \in Slots, StatementFails(t) \/ Abandon(t) PROVE faults' > faults
  BY <1>1, <1>4 DEF StatementFails, Abandon, Fault
<1>5. ASSUME NEW t \in Slots, Step(t)
      PROVE  faults' = faults /\ (t # s => pc'[s] = pc[s] /\ ev'[s] = ev[s])
  BY <1>1, <1>5 DEF Step, Filter, Save, Find, Complete, Reread, Publish, Reply, Goto
<1>6. ASSUME NEW t \in Slots, NEW e \in Events, Deliver(t, e)
      PROVE  faults' >= faults /\ pc'[s] = pc[s] /\ ev'[s] = ev[s]
  BY <1>1, <1>6 DEF Deliver, Fault
<1>7. ASSUME \/ \E x \in Events : ActionQueueStart(x) \/ MarkNotificationRead(x) \/ TtlElapses(x)
             \/ ExpireOlderThan \/ UNCHANGED vars
      PROVE  faults' = faults /\ pc'[s] = pc[s] /\ ev'[s] = ev[s]
  BY <1>7 DEF ActionQueueStart, MarkNotificationRead, TtlElapses, ExpireOlderThan, vars, tasks
<1> DEFINE Kept == /\ faults' >= faults
                   /\ faults' > faults \/ Step(s) \/ (pc'[s] = pc[s] /\ ev'[s] = ev[s])
<1>8. Kept
  <2>1. ASSUME NEW t \in Slots, Step(t) \/ StatementFails(t) \/ Abandon(t) PROVE Kept
    <3>1. faults' \in Nat
      BY TypeStep, ConstantsAssumption DEF TypeOK, ConstantsAssumption
    <3>2. CASE Step(t)
      BY <1>1, <1>5, <3>2
    <3>3. CASE StatementFails(t) \/ Abandon(t)
      BY <1>1, <1>4, <3>1, <3>3
    <3>. QED
      BY <2>1, <3>2, <3>3
  <2>2. ASSUME NEW t \in Slots, NEW e \in Events, Deliver(t, e) PROVE Kept
    BY <1>6, <2>2
  <2>3. ASSUME \/ \E x \in Events : ActionQueueStart(x) \/ MarkNotificationRead(x) \/ TtlElapses(x)
               \/ ExpireOlderThan \/ UNCHANGED vars
        PROVE  Kept
    BY <1>1, <1>7, <2>3
  <2> HIDE DEF Kept
  <2>. QED
    BY <2>1, <2>2, <2>3 DEF Next
<1>. QED
  BY <1>2, <1>3, <1>8

\* Where the runtime polls the tasks, a delivery is answered unless a fault
\* comes in between, whatever runs beside it.
THEOREM EveryDeliveryAnswered == Spec /\ (\A s \in Slots : Polled(s)) => DeliveriesAnswered
<1>1. ASSUME NEW s \in Slots, NEW e \in Events, NEW n \in Nat
      PROVE  Spec /\ Polled(s) =>
               (pc[s] # "idle" /\ ev[s] = e /\ faults = n ~> e \in acked \/ faults > n)
  <2> DEFINE Within(k) == pc[s] # "idle" /\ Ahead[pc[s]] <= k /\ ev[s] = e /\ faults = n
             P == pc[s] # "idle" /\ ev[s] = e /\ faults = n
             Z == e \in acked \/ faults > n
             W1 == Within(1)  W2 == Within(2)  W3 == Within(3)
             W4 == Within(4)  W5 == Within(5)  W6 == Within(6)
  <2>1. ASSUME TypeOK, [Next]_vars, NEW k \in 1 .. 6, Within(k)
        PROVE  /\ Within(k)' \/ Z'
               /\ Step(s) => (k > 1 /\ Within(k - 1)') \/ Z'
    <3>1. pc[s] \in PCs /\ pc'[s] \in PCs /\ faults' \in Nat
      BY <2>1, TypeStep, ConstantsAssumption DEF TypeOK, ConstantsAssumption
    <3>2. Ahead[pc[s]] \in 0 .. 6 /\ Ahead[pc'[s]] \in 0 .. 6 /\ (pc'[s] # "idle" => Ahead[pc'[s]] > 0)
      BY <3>1, AheadTyped
    <3>3. CASE faults' > faults
      BY <2>1, <3>3
    <3>4. CASE ~(faults' > faults)
      <4>1. faults' = n
        BY <2>1, <3>1, <3>4, TaskKeeps
      <4>2. CASE Step(s) /\ pc[s] \in {"accepted", "rejected"}
        BY <2>1, <4>2, TaskKeeps
      <4>3. CASE Step(s) /\ pc[s] \notin {"accepted", "rejected"}
        BY <2>1, <3>2, <4>1, <4>3, TaskKeeps, TaskMoves
      <4>4. CASE ~Step(s)
        BY <2>1, <3>4, <4>1, <4>4, TaskKeeps
      <4>. QED
        BY <4>2, <4>3, <4>4
    <3>. QED
      BY <3>3, <3>4
  <2>2. TypeOK /\ [Next]_vars =>
          /\ W6 => W6' \/ Z'
          /\ W5 => W5' \/ Z'
          /\ W4 => W4' \/ Z'
          /\ W3 => W3' \/ Z'
          /\ W2 => W2' \/ Z'
          /\ W1 => W1' \/ Z'
    BY <2>1
  <2>3. TypeOK /\ [Next]_vars /\ <<Step(s)>>_vars =>
          /\ W6 => W5' \/ Z'
          /\ W5 => W4' \/ Z'
          /\ W4 => W3' \/ Z'
          /\ W3 => W2' \/ Z'
          /\ W2 => W1' \/ Z'
          /\ W1 => Z'
    BY <2>1
  <2>4. TypeOK => (P => W6)
    BY AheadTyped DEF TypeOK
  <2>5. W1 \/ W2 \/ W3 \/ W4 \/ W5 \/ W6 => ~(pc[s] = "idle")
    OBVIOUS
  <2> HIDE DEF W1, W2, W3, W4, W5, W6, P, Z
  <2>6. Spec /\ Polled(s) => (W6 ~> Z)
    BY <2>2, <2>3, <2>5, TypeCorrect, PTL DEF Spec, Polled
  <2>7. Spec /\ Polled(s) => (P ~> Z)
    BY <2>4, <2>6, TypeCorrect, PTL
  <2>. QED
    BY <2>7 DEF P, Z
<1>. QED
  BY <1>1 DEF DeliveriesAnswered

\* A confirmation that finds its entry in progress settles it, although the row
\* may be anybody's between the read and the UPDATE.
THEOREM EveryFoundSettled == Spec /\ (\A s \in Slots : Polled(s)) => FoundIsSettled
<1>1. ASSUME NEW s \in Slots, NEW c \in Confirmations, NEW n \in Nat
      PROVE  Spec /\ Polled(s) =>
               (/\ pc[s] = "find" /\ ev[s] = c /\ faults = n
                /\ RelatedOf[c] \in Actions /\ row[RelatedOf[c]] = "in_progress"
                ~> row[RelatedOf[c]] \in Terminal \/ faults > n)
  <2> DEFINE x == RelatedOf[c]
             Going(label) == /\ pc[s] = label /\ ev[s] = c /\ faults = n
                             /\ x \in Actions /\ row[x] = "in_progress"
             F == Going("find")
             C == Going("complete")
             Z == row[x] \in Terminal \/ faults > n
  <2>1. ASSUME IInv, [Next]_vars, NEW label \in {"find", "complete"}, Going(label)
        PROVE  /\ Going(label)' \/ C' \/ Z'
               /\ Step(s) => (label = "find" /\ C') \/ Z'
    <3>1. row'[x] \in {"in_progress"} \cup Terminal
      BY <2>1, RowsStep DEF RowsGrow, Actions
    <3>2. faults' \in Nat /\ faults' >= n
      BY <2>1, TypeStep, TaskKeeps, ConstantsAssumption DEF IInv, TypeOK, ConstantsAssumption
    <3>3. ASSUME Step(s) PROVE (label = "find" /\ pc'[s] = "complete" /\ ev'[s] = c) \/ row'[x] \in Terminal
      <4>1. CASE Find(s)
        BY <2>1, <4>1 DEF Find, Confirmable, Goto, IInv, TypeOK
      <4>2. CASE Complete(s)
        BY <2>1, <4>2 DEF Complete, MarkCompleted, IInv, TypeOK, Actions, Terminal
      <4>. QED
        BY <2>1, <3>3, <4>1, <4>2 DEF Step, Filter, Save, Reread, Publish, Reply
    <3>4. faults' > faults \/ Step(s) \/ (pc'[s] = pc[s] /\ ev'[s] = ev[s])
      BY <2>1, TaskKeeps DEF IInv
    <3>. QED
      BY <2>1, <3>1, <3>2, <3>3, <3>4
  <2>2. IInv /\ [Next]_vars => (F => F' \/ C' \/ Z') /\ (C => C' \/ Z')
    BY <2>1
  <2>3. IInv /\ [Next]_vars /\ <<Step(s)>>_vars => (F => C' \/ Z') /\ (C => Z')
    BY <2>1
  <2>4. F \/ C => ~(pc[s] = "idle")
    OBVIOUS
  <2> HIDE DEF F, C, Z
  <2>5. Spec /\ Polled(s) => (F ~> Z)
    BY <2>2, <2>3, <2>4, Invariance, PTL DEF Spec, Polled
  <2>. QED
    BY <2>5 DEF F, Z
<1>. QED
  BY <1>1 DEF FoundIsSettled

=============================================================================
