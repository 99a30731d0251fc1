---------------------------- MODULE Announcements ----------------------------
(***************************************************************************)
(* What ingestion does to the action queue as the push fan-out sees it:    *)
(* rows that change, and tasks that owe a NOTIFY for a change they made.   *)
(* EventFanout is built on this module, and EventIngestion, where the same *)
(* things are statements of SQL and redeliveries, implements it.           *)
(*                                                                         *)
(* A task that confirms an entry reads it first and updates it later, so   *)
(* two confirming tasks may both go on; the one that comes too late leaves *)
(* the row as it is and announces it all the same.                         *)
(*                                                                         *)
(* Sources: crates/bff-core/src/event_ingestion.rs (ingest_action,         *)
(* ingest_confirmation), persistence/src/action_queue_entry_repository.rs. *)
(***************************************************************************)

CONSTANTS
    Entries,        \* action-queue entries
    Tasks           \* tasks of the reaction endpoint

VARIABLES
    state,          \* action_state of an entry, or "absent"
    duty            \* what a task has still to do for an entry, if anything

vars == <<state, duty>>

States == {"absent", "pending", "in_progress", "completed", "expired"}
NoDuty == [at |-> "none"]
Duties == {NoDuty} \cup [at : {"confirming", "announcing"}, entry : Entries]

TypeOK ==
    /\ state \in [Entries -> States]
    /\ duty \in [Tasks -> Duties]

Init ==
    /\ state = [e \in Entries |-> "absent"]
    /\ duty = [s \in Tasks |-> NoDuty]

Announcing(s, e) == duty[s] = [at |-> "announcing", entry |-> e]

\* ingest_action: the save that inserts the row obliges its task to announce it.
InsertAgain(s, e) ==
    /\ duty[s] = NoDuty
    /\ state[e] # "pending"
    /\ state' = [state EXCEPT ![e] = "pending"]
    /\ duty' = [duty EXCEPT ![s] = [at |-> "announcing", entry |-> e]]
Insert(s, e) ==
    /\ duty[s] = NoDuty
    /\ state[e] = "absent"
    /\ state' = [state EXCEPT ![e] = "pending"]
    /\ duty' = [duty EXCEPT ![s] = [at |-> "announcing", entry |-> e]]

\* ingest_confirmation has found the entry in progress, and will complete it.
Find(s, e) ==
    /\ duty[s] = NoDuty
    /\ state[e] = "in_progress"
    /\ duty' = [duty EXCEPT ![s] = [at |-> "confirming", entry |-> e]]
    /\ UNCHANGED state

\* mark_completed: UPDATE ... WHERE action_state = 'in_progress'.
MarkCompleted(e) == IF state[e] = "in_progress" THEN [state EXCEPT ![e] = "completed"] ELSE state

Complete(s) ==
    /\ duty[s].at = "confirming"
    /\ state' = MarkCompleted(duty[s].entry)
    /\ duty' = [duty EXCEPT ![s] = [at |-> "announcing", entry |-> duty[s].entry]]

\* The NOTIFY is issued.
Announce(s) ==
    /\ duty[s].at = "announcing"
    /\ duty' = [duty EXCEPT ![s] = NoDuty]
    /\ UNCHANGED state

\* A statement of the task fails, or the task is dropped.
Drop(s) ==
    /\ duty[s] # NoDuty
    /\ duty' = [duty EXCEPT ![s] = NoDuty]
    /\ UNCHANGED state

\* mark_started: UPDATE ... WHERE action_state = 'pending'; nothing is owed.
MarkStarted(e) == IF state[e] = "pending" THEN [state EXCEPT ![e] = "in_progress"] ELSE state

Start(e) ==
    /\ state' = MarkStarted(e)
    /\ UNCHANGED duty

\* expire_older_than: overdue entries, in one UPDATE; nothing is owed for it.
Expire(overdue) ==
    /\ overdue # {}
    /\ \A e \in overdue : state[e] \in {"pending", "in_progress"}
    /\ state' = [e \in Entries |-> IF e \in overdue THEN "expired" ELSE state[e]]
    /\ UNCHANGED duty

Next ==
    \/ \E s \in Tasks, e \in Entries : Insert(s, e) \/ Find(s, e)
    \/ \E s \in Tasks : Complete(s) \/ Announce(s) \/ Drop(s)
    \/ \E e \in Entries : Start(e)
    \/ \E overdue \in SUBSET Entries : Expire(overdue)

Spec == Init /\ [][Next]_vars

=============================================================================
