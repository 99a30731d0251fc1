------------------------------ MODULE EntryViews ------------------------------
(***************************************************************************)
(* What the portal promises a consultant who watches the action queue,     *)
(* with no pushes, streams, queries or failures in it: entries only ever   *)
(* advance, and what a tab shows of them changes only to a later view that *)
(* the rows have already reached, and to the consultant's own entries.  A  *)
(* tab may lag behind for ever, but never shows what never was or goes     *)
(* back.  EventFanout is shown to implement this module.                   *)
(*                                                                         *)
(* Sources: crates/bff-core/src/action_queue_entry.rs (ActionState),       *)
(* bff-api/src/notifications.rs (list_action_queue) and                    *)
(* frontend/src/lib/useActionQueueQuery.ts.                                *)
(***************************************************************************)

CONSTANTS
    Entries,        \* action-queue entries
    Tabs,           \* browser tabs
    OwnerOf,        \* the consultant an entry belongs to
    UserOf          \* the consultant a tab belongs to

VARIABLES
    state,          \* the state of an entry, or "absent"
    view            \* the states a tab shows

vars == <<state, view>>

States == {"absent", "pending", "in_progress", "completed", "expired"}

\* ActionState::is_valid_transition, with the creation of the entry.
Moves ==
    {<<"absent", "pending">>, <<"pending", "in_progress">>, <<"pending", "expired">>,
     <<"in_progress", "completed">>, <<"in_progress", "expired">>}

\* What an entry that was in some state may have become since.
Later ==
    [absent      |-> States,
     pending     |-> States \ {"absent"},
     in_progress |-> {"in_progress", "completed", "expired"},
     completed   |-> {"completed"},
     expired     |-> {"expired"}]

TypeOK ==
    /\ state \in [Entries -> States]
    /\ view \in [Tabs -> [Entries -> States]]

Init ==
    /\ state = [e \in Entries |-> "absent"]
    /\ view = [t \in Tabs |-> [e \in Entries |-> "absent"]]

\* Entries make one move each, a sweep moves several at once.
Advance(moving) ==
    /\ moving # {}
    /\ \E next \in [moving -> States] :
         /\ \A e \in moving : <<state[e], next[e]>> \in Moves
         /\ state' = [e \in Entries |-> IF e \in moving THEN next[e] ELSE state[e]]
    /\ UNCHANGED view

\* A tab shows a later view: of each entry of its consultant something between
\* what it has shown and the row, of any other nothing.
Show(t) ==
    /\ \E later \in [Entries -> States] :
         /\ \A e \in Entries :
              IF OwnerOf[e] = UserOf[t]
              THEN later[e] \in Later[view[t][e]] /\ state[e] \in Later[later[e]]
              ELSE later[e] = "absent"
         /\ view' = [view EXCEPT ![t] = later]
    /\ UNCHANGED state

Next ==
    \/ \E moving \in SUBSET Entries : Advance(moving)
    \/ \E t \in Tabs : Show(t)

Spec == Init /\ [][Next]_vars

=============================================================================
