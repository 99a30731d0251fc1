---------------------------- MODULE EventIngestion ----------------------------
(***************************************************************************)
(* The ingestion of capability events pushed by nexus: the reaction        *)
(* endpoint, the classification of an event, the idempotent save of the    *)
(* notification or action-queue row it produces, the confirmation path     *)
(* that completes an entry, and the NOTIFY issued for each of them;        *)
(* together with what consultants (start, read) and the housekeeping sweep *)
(* (expire) do to the same rows.                                           *)
(*                                                                         *)
(* nexus delivers at least once: it redelivers whatever it has not seen a  *)
(* 200 for, possibly while an earlier attempt is still running, and a      *)
(* reply may be lost.  Every handler runs as a task that is suspended at   *)
(* each await, so the database statements of two deliveries of one event,  *)
(* or of an event and its confirmation, interleave freely.  A task may be  *)
(* abandoned at any await: the process dies, or nexus hangs up and the     *)
(* server drops the handler's future.                                      *)
(*                                                                         *)
(* One statement of SQL is one step.  A row is named by the event that     *)
(* created it: (origin_capability, origin_event_id) is UNIQUE.             *)
(*                                                                         *)
(* Sources: crates/bff-api/src/reactions.rs, bff-core/src/                 *)
(* event_ingestion.rs, bff-api/src/notifications.rs, persistence/src/      *)
(* {notification,action_queue_entry}_repository.rs and event_notify.rs.    *)
(***************************************************************************)
EXTENDS Naturals, FiniteSets

CONSTANTS
    Events,         \* the events nexus may deliver, by origin key
    TypeOf,         \* [Events -> STRING], the event_type, already normalised
    RelatedOf,      \* [Events -> Events \cup {NoEvent}], the origin event of
                    \* the same capability a confirmation names
    Malformed,      \* events whose aggregate cannot be built (a blank field)
    NoEvent,        \* no event
    Slots,          \* handler tasks that may run at once
    MaxFaults       \* how many faults (below) a behaviour may contain

VARIABLES
    row,            \* the state of the row of an event, or "absent"
    due,            \* action events whose expires_at has passed
    pc,             \* the await a task is suspended at
    ev,             \* the event a task is handling
    pushes,         \* NOTIFYs issued on behalf of an event
    transitioned,   \* outcomes Confirmed{transitioned: true} for an entry
    heard,          \* events that have reached the endpoint
    acked,          \* events nexus has seen a 200 for
    rejected,       \* events nexus has seen {"status": "rejected"} for
    faults          \* failed statements, lost replies, abandoned tasks and
                    \* deliveries of what was already acknowledged

tasks == <<pc, ev>>
nexus == <<heard, acked, rejected>>
vars  == <<row, due, pc, ev, pushes, transitioned, heard, acked, rejected, faults>>

ACTION_EVENT_TYPES ==
    {"task_assigned", "collaboration_request_acknowledged", "proposal_accepted",
     "training_requirement_due", "delivery_risk_raised"}

CONFIRMATION_EVENT_TYPES == {"task_completed"}

LEGAL_CLAUSE_UPDATED_EVENT_TYPE == "legal_clause_updated"

\* Everything that is neither a confirmation nor a known action is a
\* notification, unknown types included.
Confirmations == {e \in Events : TypeOf[e] \in CONFIRMATION_EVENT_TYPES}
Actions       == {e \in Events : TypeOf[e] \in ACTION_EVENT_TYPES}
Notifications == Events \ (Confirmations \cup Actions)
LegalUpdates  == {e \in Events : TypeOf[e] = LEGAL_CLAUSE_UPDATED_EVENT_TYPE}

ASSUME ConstantsAssumption ==
    /\ TypeOf \in [Events -> STRING]
    /\ RelatedOf \in [Events -> Events \cup {NoEvent}]
    /\ NoEvent \notin Events
    /\ Malformed \subseteq Events
    /\ MaxFaults \in Nat

Terminal  == {"completed", "expired"}
RowStates == {"absent", "unread", "read", "pending", "in_progress"} \cup Terminal

PCs == {"idle", "filter", "save", "find", "complete", "reread", "publish",
        "accepted", "rejected"}

TypeOK ==
    /\ row \in [Events -> RowStates]
    /\ due \subseteq Actions
    /\ pc \in [Slots -> PCs]
    /\ ev \in [Slots -> Events \cup {NoEvent}]
    /\ \A s \in Slots : pc[s] # "idle" => ev[s] \in heard
    /\ pushes \in [Events -> Nat]
    /\ transitioned \in [Events -> Nat]
    /\ heard \subseteq Events
    /\ acked \subseteq heard
    /\ rejected \subseteq acked
    /\ faults \in 0..MaxFaults

Init ==
    /\ row = [e \in Events |-> "absent"]
    /\ due = {}
    /\ pc = [s \in Slots |-> "idle"]
    /\ ev = [s \in Slots |-> NoEvent]
    /\ pushes = [e \in Events |-> 0]
    /\ transitioned = [e \in Events |-> 0]
    /\ heard = {}
    /\ acked = {}
    /\ rejected = {}
    /\ faults = 0

Fault ==
    /\ faults < MaxFaults
    /\ faults' = faults + 1

Goto(s, label) ==
    /\ pc' = [pc EXCEPT ![s] = label]
    /\ UNCHANGED ev

-----------------------------------------------------------------------------
(* The reaction endpoint and the ingestion of one event.                   *)

\* NotificationItem::new, ActionQueueEntry::new and a confirmation's related id:
\* nothing is built from an event that lacks a field.
Builds(e) == e \notin Malformed

\* Where ingest_events takes an event first: no statement at all when nothing
\* can be built.
Dispatch(e) ==
    IF ~Builds(e) THEN "rejected"
    ELSE IF e \in Confirmations THEN "find" ELSE "save"

\* A verified POST /api/reactions/{handler}.  A refused caller (401) or an
\* unparseable body (400) changes nothing and is not acknowledged.
Deliver(s, e) ==
    /\ pc[s] = "idle"
    /\ IF e \in acked THEN Fault ELSE UNCHANGED faults
    /\ pc' = [pc EXCEPT ![s] = IF e \in LegalUpdates THEN "filter" ELSE Dispatch(e)]
    /\ ev' = [ev EXCEPT ![s] = e]
    /\ heard' = heard \cup {e}
    /\ UNCHANGED <<row, due, pushes, transitioned, acked, rejected>>

\* A legal clause update is kept only when the consultant has an active
\* hand-off to the proposal it names; the hand-offs are not modelled here, so
\* either answer is possible.  A failed lookup drops the event too.
Filter(s) ==
    /\ pc[s] = "filter"
    /\ \/ Goto(s, Dispatch(ev[s]))
       \/ Goto(s, "accepted")
    /\ UNCHANGED <<row, due, pushes, transitioned, nexus, faults>>

\* What a save is followed by: only SaveOutcome::Inserted is published.
AlwaysPublish(inserted) == "publish"
NeverPublish(inserted) == "accepted"
AfterSave(inserted) == IF inserted THEN "publish" ELSE "accepted"

\* INSERT ... ON CONFLICT (origin_capability, origin_event_id) DO NOTHING.
InsertNotification(e) == IF row[e] = "absent" THEN [row EXCEPT ![e] = "unread"] ELSE row
InsertEntry(e) == IF row[e] = "absent" THEN [row EXCEPT ![e] = "pending"] ELSE row

Save(s) ==
    LET e == ev[s] IN
    /\ pc[s] = "save"
    /\ row' = IF e \in Actions THEN InsertEntry(e) ELSE InsertNotification(e)
    /\ Goto(s, AfterSave(row[e] = "absent"))
    /\ UNCHANGED <<due, pushes, transitioned, nexus, faults>>

\* ingest_confirmation goes on only for a known entry that is in progress;
\* anything else is a no-op, acknowledged like any success.
AnyEntryIsConfirmable(c) == RelatedOf[c] \in Actions /\ row[RelatedOf[c]] # "absent"
OnlyPendingIsConfirmable(c) == RelatedOf[c] \in Actions /\ row[RelatedOf[c]] = "pending"
Confirmable(c) == RelatedOf[c] \in Actions /\ row[RelatedOf[c]] = "in_progress"

Find(s) ==
    /\ pc[s] = "find"
    /\ Goto(s, IF Confirmable(ev[s]) THEN "complete" ELSE "accepted")
    /\ UNCHANGED <<row, due, pushes, transitioned, nexus, faults>>

\* mark_completed: UPDATE ... WHERE action_state = 'in_progress'.  Zero rows
\* affected is not an error, so the task goes on either way.
UnguardedMarkCompleted(x) == [row EXCEPT ![x] = "completed"]
MarkCompleted(x) == IF row[x] = "in_progress" THEN [row EXCEPT ![x] = "completed"] ELSE row

Complete(s) ==
    /\ pc[s] = "complete"
    /\ row' = MarkCompleted(RelatedOf[ev[s]])
    /\ Goto(s, "reread")
    /\ UNCHANGED <<due, pushes, transitioned, nexus, faults>>

\* The entry as it is now is read back, to be published.
Reread(s) ==
    /\ pc[s] = "reread"
    /\ Goto(s, "publish")
    /\ UNCHANGED <<row, due, pushes, transitioned, nexus, faults>>

\* confirmed(event, true), the outcome of a confirmation that got this far.
Report(s) ==
    IF ev[s] \in Confirmations
    THEN transitioned' = [transitioned EXCEPT ![RelatedOf[ev[s]]] = @ + 1]
    ELSE UNCHANGED transitioned

\* PgNotifyPublisher::publish: SELECT pg_notify, once the row is saved.
Publish(s) ==
    /\ pc[s] = "publish"
    /\ pushes' = [pushes EXCEPT ![ev[s]] = @ + 1]
    /\ Report(s)
    /\ Goto(s, "accepted")
    /\ UNCHANGED <<row, due, nexus, faults>>

\* The endpoint answers 200 to an accepted and to a rejected event alike.
OnlyAcceptedAcknowledges(label) == label = "accepted"
Acknowledges(label) == label \in {"accepted", "rejected"}

\* The answer reaches nexus, which redelivers until it has seen a 200.
Reply(s) ==
    /\ pc[s] \in {"accepted", "rejected"}
    /\ acked' = IF Acknowledges(pc[s]) THEN acked \cup {ev[s]} ELSE acked
    /\ rejected' = IF pc[s] = "rejected" THEN rejected \cup {ev[s]} ELSE rejected
    /\ pc' = [pc EXCEPT ![s] = "idle"]
    /\ ev' = [ev EXCEPT ![s] = NoEvent]
    /\ UNCHANGED <<row, due, pushes, transitioned, heard, faults>>

-----------------------------------------------------------------------------
(* Faults.                                                                 *)

\* A failed save, lookup or update rejects the event; reading an entry back
\* and notifying are best effort.
FailedSavePublishes(label) == IF label \in {"find", "complete"} THEN "rejected" ELSE
                              IF label = "save" THEN "publish" ELSE "accepted"
FailedSaveIsAccepted(label) == IF label \in {"find", "complete"} THEN "rejected" ELSE "accepted"
AfterFailure(label) == IF label \in {"save", "find", "complete"} THEN "rejected" ELSE "accepted"

\* A statement of the task fails.
StatementFails(s) ==
    /\ Fault
    /\ pc[s] \in {"save", "find", "complete", "reread", "publish"}
    /\ Goto(s, AfterFailure(pc[s]))
    /\ IF pc[s] \in {"reread", "publish"} THEN Report(s) ELSE UNCHANGED transitioned
    /\ UNCHANGED <<row, due, pushes, nexus>>

\* The task is dropped where it is suspended, or its reply is lost.
Abandon(s) ==
    /\ Fault
    /\ pc[s] # "idle"
    /\ pc' = [pc EXCEPT ![s] = "idle"]
    /\ ev' = [ev EXCEPT ![s] = NoEvent]
    /\ UNCHANGED <<row, due, pushes, transitioned, nexus>>

-----------------------------------------------------------------------------
(* The consultant and the housekeeping sweep.                              *)

\* UPDATE ... WHERE action_state = 'pending', and WHERE read_state = 'unread':
\* a second click changes nothing, and neither does one that comes too late.
MarkStarted(x) == IF row[x] = "pending" THEN [row EXCEPT ![x] = "in_progress"] ELSE row
MarkRead(x) == IF row[x] = "unread" THEN [row EXCEPT ![x] = "read"] ELSE row

\* POST /api/action-queue/{id}/start.  The ownership read before the UPDATE
\* concerns immutable columns of a row that is never deleted, so the two
\* statements are one step.
ActionQueueStart(x) ==
    /\ x \in Actions /\ row[x] # "absent"
    /\ row' = MarkStarted(x)
    /\ UNCHANGED <<due, tasks, pushes, transitioned, nexus, faults>>

\* POST /api/notifications/{id}/read, likewise.
MarkNotificationRead(x) ==
    /\ x \in Notifications /\ row[x] # "absent"
    /\ row' = MarkRead(x)
    /\ UNCHANGED <<due, tasks, pushes, transitioned, nexus, faults>>

\* 72 hours after the event was emitted, whether or not it was saved by then.
TtlElapses(x) ==
    /\ x \in Actions \ due
    /\ due' = due \cup {x}
    /\ UNCHANGED <<row, tasks, pushes, transitioned, nexus, faults>>

\* expire_older_than: every unresolved overdue entry, in one UPDATE.
ExpireOlderThan ==
    LET overdue == {x \in due : row[x] \in {"pending", "in_progress"}} IN
    /\ overdue # {}
    /\ row' = [x \in Events |-> IF x \in overdue THEN "expired" ELSE row[x]]
    /\ UNCHANGED <<due, tasks, pushes, transitioned, nexus, faults>>

-----------------------------------------------------------------------------
Step(s) ==
    Filter(s) \/ Save(s) \/ Find(s) \/ Complete(s) \/ Reread(s) \/ Publish(s) \/ Reply(s)

Next ==
    \/ \E s \in Slots, e \in Events : Deliver(s, e)
    \/ \E s \in Slots : Step(s) \/ StatementFails(s) \/ Abandon(s)
    \/ \E x \in Events : ActionQueueStart(x) \/ MarkNotificationRead(x) \/ TtlElapses(x)
    \/ ExpireOlderThan

Spec == Init /\ [][Next]_vars

\* The runtime polls every task, and nexus redelivers what is not acknowledged.
\* Nobody is obliged to click, and no task of the server runs the sweep.
Fairness ==
    /\ \A s \in Slots : WF_vars(Step(s))
    /\ \A e \in Events : WF_vars(e \notin acked /\ \E s \in Slots : Deliver(s, e))

FairSpec == Spec /\ Fairness

-----------------------------------------------------------------------------
(* Properties.                                                             *)

\* However often nexus delivers an event, and however its deliveries overlap,
\* the row it creates is announced to the browsers at most once: the unique
\* key decides which delivery inserted it, and only that one publishes.
InsertPushedOnce == \A e \in Events \ Confirmations : pushes[e] <= 1

\* A NOTIFY is a pointer to a row, so it must never precede the row: whoever
\* follows the pointer finds it (event_notify_bridge.rs relies on that).
PushedIsDurable == \A e \in Events \ Confirmations : pushes[e] > 0 => row[e] # "absent"

\* The push a confirmation causes is published about an entry whose fate is
\* settled, whatever raced with it: a second confirmation, the sweep, a start.
ConfirmationPushIsFinal ==
    \A c \in Confirmations : pushes[c] > 0 => row[RelatedOf[c]] \in Terminal

\* The rows that were saved, have not been announced, and that no running task
\* will announce any more: a redelivery finds them and does not publish.
Silent ==
    {e \in Events \ Confirmations :
        /\ row[e] # "absent" /\ pushes[e] = 0
        /\ \A s \in Slots : ~(pc[s] = "publish" /\ ev[s] = e)}

\* Each fault silences one row at most: whatever deliveries overlap, are
\* redelivered or are given up, every row is announced, or owed by a running
\* task, but for as many as statements failed, tasks died and replies were lost.
EveryRowIsAnnounced == Cardinality(Silent) <= faults

\* nexus never redelivers what it has a 200 for, so every event acknowledged
\* as anything but rejected must have its row.
AcceptedIsDurable ==
    \A e \in acked \ (rejected \cup Confirmations \cup LegalUpdates) : row[e] # "absent"

-----------------------------------------------------------------------------
(* The inductive invariant behind the safety properties above.             *)

\* The rows of each kind of event only ever hold the states of their table.
RowKinds ==
    \A e \in Events :
        /\ e \in Actions => row[e] \in {"absent", "pending", "in_progress"} \cup Terminal
        /\ e \in Notifications => row[e] \in {"absent", "unread", "read"}
        /\ e \in Confirmations => row[e] = "absent"

\* What a suspended task knows: the kind of its event, and how far the row it
\* has read or written must have come by now.
TaskInv(s) ==
    LET e == ev[s] IN
    /\ pc[s] = "filter" => e \in LegalUpdates
    /\ pc[s] = "save" => e \notin Confirmations
    /\ pc[s] \in {"find", "complete", "reread"} => e \in Confirmations
    /\ pc[s] = "complete" =>
           RelatedOf[e] \in Actions /\ row[RelatedOf[e]] \in {"in_progress"} \cup Terminal
    /\ pc[s] \in {"reread", "publish"} /\ e \in Confirmations =>
           RelatedOf[e] \in Actions /\ row[RelatedOf[e]] \in Terminal
    /\ pc[s] = "publish" /\ e \notin Confirmations => row[e] # "absent" /\ pushes[e] = 0
    /\ pc[s] = "accepted" /\ e \notin Confirmations \cup LegalUpdates => row[e] # "absent"

\* Only one task owes the announcement of a row.
OnePublisher ==
    \A s, t \in Slots :
        pc[s] = "publish" /\ pc[t] = "publish" /\ ev[s] = ev[t] /\ s # t
            => ev[s] \in Confirmations

ConfirmationsResolve ==
    \A c \in Confirmations : pushes[c] > 0 => RelatedOf[c] \in Actions

\* Everything above holds together: what each suspended task still relies on is
\* kept true by every other task, the consultant and the sweep.
IInv ==
    /\ TypeOK
    /\ RowKinds
    /\ \A s \in Slots : TaskInv(s)
    /\ OnePublisher
    /\ ConfirmationsResolve
    /\ InsertPushedOnce
    /\ PushedIsDurable
    /\ ConfirmationPushIsFinal
    /\ IsFiniteSet(Silent)
    /\ EveryRowIsAnnounced
    /\ AcceptedIsDurable

-----------------------------------------------------------------------------
(* The abstract specification, and liveness.                               *)

\* The rows are a faithful mirror: each entry lives the life ActionLifecycle
\* allows, completed only once started and confirmed, final states final.
Lifecycle == INSTANCE ActionLifecycle WITH
    Entries   <- Actions,
    state     <- [x \in Actions |-> row[x]],
    confirmed <- {x \in Actions : \E c \in heard \cap Confirmations : RelatedOf[c] = x},
    due       <- due

LifecycleSpec == Lifecycle!Spec

\* What the push fan-out sees of all this: the entry a suspended task has still
\* to complete, or to announce.
DutyOf(s) ==
    LET entry == IF ev[s] \in Confirmations THEN RelatedOf[ev[s]] ELSE ev[s] IN
    IF entry \notin Actions THEN [at |-> "none"]
    ELSE IF pc[s] = "complete" THEN [at |-> "confirming", entry |-> entry]
    ELSE IF pc[s] \in {"reread", "publish"} THEN [at |-> "announcing", entry |-> entry]
    ELSE [at |-> "none"]

Announced == INSTANCE Announcements WITH
    Entries <- Actions,
    Tasks   <- Slots,
    state   <- [x \in Actions |-> row[x]],
    duty    <- [s \in Slots |-> DutyOf(s)]

\* Redelivered, interleaved and abandoned, the tasks do nothing to the rows
\* and owe no NOTIFY that Announcements, on which EventFanout rests, does not
\* allow.
AnnouncementsSpec == Announced!Spec

\* A NOTIFY about an entry is issued by a task that owes it, and takes the duty
\* away; none is issued in passing.
AboutEntries == Actions \cup {c \in Confirmations : RelatedOf[c] \in Actions}
NotifiesAreOwed ==
    [][\A e \in AboutEntries : pushes'[e] # pushes[e] =>
         \E s \in Slots : ev[s] = e /\ Announced!Announce(s)]_vars

\* Every event is eventually acknowledged, so nexus is never stuck on one.
Delivered == \A e \in Events : <>(e \in acked)

\* The fairness of a task with its guard written out: a task that is not idle
\* always has a step to take. Nothing is assumed of nexus, and a statement may fail.
Polled(s) == []<>(pc[s] = "idle") \/ []<><<Step(s)>>_vars

\* No delivery holds its task for ever: it is answered, or abandoned.
TasksEnd == \A s \in Slots : pc[s] # "idle" ~> pc[s] = "idle"

\* A delivery that no fault meets gets its event acknowledged.
DeliveriesAnswered ==
    \A s \in Slots, e \in Events, n \in Nat :
        pc[s] # "idle" /\ ev[s] = e /\ faults = n ~> e \in acked \/ faults > n

\* A confirmation that finds its entry in progress settles it, unless a fault
\* comes between: whatever else moves the entry between the two statements
\* settles it, too.
FoundIsSettled ==
    \A s \in Slots, c \in Confirmations, n \in Nat :
        /\ pc[s] = "find" /\ ev[s] = c /\ faults = n
        /\ RelatedOf[c] \in Actions /\ row[RelatedOf[c]] = "in_progress"
        ~> row[RelatedOf[c]] \in Terminal \/ faults > n

\* A confirmation nexus still has to deliver when its entry is in progress
\* settles that entry, unless a failed statement rejects it: abandoned tasks
\* and lost replies only delay it.
ConfirmationSettles ==
    \A c \in Confirmations \ Malformed : RelatedOf[c] \in Actions =>
        /\ row[RelatedOf[c]] = "in_progress"
        /\ c \notin acked
        /\ \A s \in Slots : ev[s] # c
        ~> row[RelatedOf[c]] \in Terminal \/ c \in rejected

\* event_ingestion.rs:636 says an outcome with transitioned = true "found the
\* entry and moved it to Completed"; an entry is moved there at most once.
TransitionedOnce == \A x \in Actions : transitioned[x] <= 1

\* consultant-experience-context.md:178 says that after expires_at "unresolved
\* entries move to expired rather than lingering indefinitely".
OverdueIsSettled == \A x \in Actions : x \in due /\ row[x] # "absent" ~> row[x] \in Terminal

=============================================================================
