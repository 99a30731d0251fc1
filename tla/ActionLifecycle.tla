--------------------------- MODULE ActionLifecycle ---------------------------
(***************************************************************************)
(* What the action queue promises for one consultant-facing entry, with no *)
(* deliveries, retries, tasks or pushes in it: an entry appears once, as   *)
(* pending; the consultant may start it; it completes only when it has     *)
(* been started AND its capability has confirmed it; it may expire while   *)
(* unresolved, once it is due; and a terminal state is final.              *)
(* EventIngestion is shown to implement this module.                       *)
(*                                                                         *)
(* Source: crates/bff-core/src/action_queue_entry.rs (ActionState and the  *)
(* aggregate's start / complete / expire).                                 *)
(***************************************************************************)

CONSTANT Entries        \* the action-queue entries, by origin event

VARIABLES
    state,              \* the entry's ActionState, or "absent"
    confirmed,          \* entries whose owning capability has confirmed them
    due                 \* entries whose expires_at has passed

vars == <<state, confirmed, due>>

ActionState == {"pending", "in_progress", "completed", "expired"}

Terminal == {"completed", "expired"}

\* ActionState::is_valid_transition.
ValidTransition(from, to) ==
    \/ from = "pending" /\ to \in {"in_progress", "expired"}
    \/ from = "in_progress" /\ to \in Terminal

TypeOK ==
    /\ state \in [Entries -> ActionState \cup {"absent"}]
    /\ confirmed \subseteq Entries
    /\ due \subseteq Entries

Init ==
    /\ state = [e \in Entries |-> "absent"]
    /\ confirmed = {}
    /\ due = {}

\* ActionQueueEntry::new: every entry is born pending.
Receive(e) ==
    /\ state[e] = "absent"
    /\ state' = [state EXCEPT ![e] = "pending"]
    /\ UNCHANGED <<confirmed, due>>

\* ActionQueueEntry::start.
Start(e) ==
    /\ ValidTransition(state[e], "in_progress")
    /\ state' = [state EXCEPT ![e] = "in_progress"]
    /\ UNCHANGED <<confirmed, due>>

\* The owning capability says the action is done; the entry is only a mirror.
Confirm(e) ==
    /\ confirmed' = confirmed \cup {e}
    /\ UNCHANGED <<state, due>>

\* ActionQueueEntry::complete: takes the confirmation it is justified by.
Complete(e) ==
    /\ ValidTransition(state[e], "completed")
    /\ e \in confirmed
    /\ state' = [state EXCEPT ![e] = "completed"]
    /\ UNCHANGED <<confirmed, due>>

\* expires_at passes.
Elapse(e) ==
    /\ due' = due \cup {e}
    /\ UNCHANGED <<state, confirmed>>

\* ActionQueueEntry::expire, for every entry a sweep finds overdue at once.
Expire(overdue) ==
    /\ overdue # {}
    /\ overdue \subseteq due
    /\ \A e \in overdue : ValidTransition(state[e], "expired")
    /\ state' = [e \in Entries |-> IF e \in overdue THEN "expired" ELSE state[e]]
    /\ UNCHANGED <<confirmed, due>>

Next ==
    \/ \E e \in Entries : Receive(e) \/ Start(e) \/ Confirm(e) \/ Complete(e) \/ Elapse(e)
    \/ \E overdue \in SUBSET Entries : Expire(overdue)

Spec == Init /\ [][Next]_vars

=============================================================================
