----------------------------- MODULE EventFanout -----------------------------
(***************************************************************************)
(* How a change of an action-queue entry reaches the browsers: NOTIFY, the *)
(* LISTEN bridge and the in-process EventBus of every server instance, the *)
(* SSE streams subscribed to that bus, and the list each tab refetches     *)
(* when a frame arrives.                                                   *)
(*                                                                         *)
(* A NOTIFY carries a pointer only; each bridge reads the row anew, later, *)
(* and takes one notification at a time.  Frames carry that reading, but a *)
(* tab shows none of it: a frame only invalidates the query whose answer   *)
(* the tab shows.  Every hop may lose a push: a NOTIFY fails, a LISTEN     *)
(* connection drops with what was queued on it, a slow stream lags behind  *)
(* the bus, an EventSource reconnects.                                     *)
(*                                                                         *)
(* The rows and the NOTIFYs that are owed for them are those of the module *)
(* Announcements, which EventIngestion implements.                         *)
(*                                                                         *)
(* Sources: crates/bff-api/src/{event_notify_bridge,notifications_sse,     *)
(* notifications}.rs, bff-core/src/event_ingestion.rs (EventBus, hydrate), *)
(* frontend/src/lib/useNotificationStream.ts and useActionQueueQuery.ts.   *)
(***************************************************************************)
EXTENDS Integers, Sequences

CONSTANTS
    Entries,        \* action-queue entries, by id
    Tasks,          \* tasks of the reaction endpoint
    OwnerOf,        \* [Entries -> Users], the consultant_id of the row
    Users,          \* consultants
    Tabs,           \* browser tabs showing the dashboard
    UserOf,         \* [Tabs -> Users], the session of the tab
    Instances,      \* server instances
    InstanceOf,     \* [Tabs -> Instances], where the tab's stream ends up
    Capacity,       \* DEFAULT_EVENT_BUS_CAPACITY
    MaxFaults,      \* bound on the faults of a behaviour
    MaxGestures     \* bound on what consultants do: clicks and returns to a tab

VARIABLES
    state,          \* action_state of the row, or "absent"
    duty,           \* what an ingestion task has still to do for an entry
    linked,         \* instances whose LISTEN connection is up
    chan,           \* pointers queued on that connection
    held,           \* what the bridge is handling: a pointer, then a reading
    live,           \* tabs whose stream is subscribed to the bus
    inbox,          \* what the bus holds for that stream
    seen,           \* the last state a frame has told a tab of an entry
    fetch,          \* the tab's GET /api/action-queue
    list,           \* the states the tab shows
    loaded,         \* tabs that have got an answer before
    joined,         \* tabs a frame has reached during their first fetch
    lagged,         \* tabs the bus has skipped messages for
    faults,         \* faults so far
    gestures        \* clicks and returns to a tab so far

rows   == <<state, duty>>
bridge == <<linked, chan, held>>
stream == <<live, inbox, seen, lagged>>
client == <<fetch, list, loaded, joined>>
vars   == <<state, duty, linked, chan, held, live, inbox, seen, fetch, list,
            loaded, joined, lagged, faults, gestures>>

Rows == INSTANCE Announcements

States == Rows!States
Rank   == [absent |-> 0, pending |-> 1, in_progress |-> 2, completed |-> 3, expired |-> 3]

ASSUME FanoutAssumption ==
    /\ OwnerOf \in [Entries -> Users]
    /\ UserOf \in [Tabs -> Users]
    /\ InstanceOf \in [Tabs -> Instances]
    /\ Capacity \in Nat \ {0}
    /\ MaxFaults \in Nat
    /\ MaxGestures \in Nat

Readings == [entry : Entries, state : States]
Views    == [Entries -> States]
Nothing  == [e \in Entries |-> "absent"]

\* The bridge is waiting in recv, about to read a row, or about to publish.
Holdings == {[at |-> "recv"]}
            \cup [at : {"hydrate"}, entry : Entries]
            \cup [at : {"publish"}, read : Readings]

\* The tab's query is settled, failed (the tab shows an alert and no list),
\* waiting for the server, or has its answer.
Fetches == [at : {"settled", "failed", "asked"}] \cup [at : {"answered"}, view : Views]

TypeOK ==
    /\ state \in Views
    /\ duty \in [Tasks -> Rows!Duties]
    /\ linked \subseteq Instances
    /\ chan \in [Instances -> Seq(Entries)]
    /\ held \in [Instances -> Holdings]
    /\ live \subseteq Tabs
    /\ inbox \in [Tabs -> Seq(Readings)] /\ \A t \in Tabs : Len(inbox[t]) <= Capacity
    /\ seen \in [Tabs -> Views]
    /\ fetch \in [Tabs -> Fetches]
    /\ list \in [Tabs -> Views]
    /\ joined \subseteq Tabs /\ loaded \subseteq Tabs
    /\ lagged \subseteq Tabs
    /\ faults \in 0..MaxFaults
    /\ gestures \in 0..MaxGestures

Init ==
    /\ Rows!Init
    /\ linked = Instances
    /\ chan = [i \in Instances |-> <<>>]
    /\ held = [i \in Instances |-> [at |-> "recv"]]
    /\ live = {}
    /\ inbox = [t \in Tabs |-> <<>>]
    /\ seen = [t \in Tabs |-> Nothing]
    /\ fetch = [t \in Tabs |-> [at |-> "asked"]]
    /\ list = [t \in Tabs |-> Nothing]
    /\ loaded = {}
    /\ joined = {}
    /\ lagged = {}
    /\ faults = 0
    /\ gestures = 0

Fault ==
    /\ faults < MaxFaults
    /\ faults' = faults + 1

Gesture ==
    /\ gestures < MaxGestures
    /\ gestures' = gestures + 1

-----------------------------------------------------------------------------
(* The rows.                                                               *)

\* What ingestion tasks do to rows before they issue a NOTIFY.
Insert(s, e) == Rows!Insert(s, e) /\ UNCHANGED <<bridge, stream, client, faults, gestures>>
Find(s, e)   == Rows!Find(s, e) /\ UNCHANGED <<bridge, stream, client, faults, gestures>>
Complete(s)  == Rows!Complete(s) /\ UNCHANGED <<bridge, stream, client, faults, gestures>>

\* The sweep; nothing is pushed for it.
Expire(overdue) == Rows!Expire(overdue) /\ UNCHANGED <<bridge, stream, client, faults, gestures>>

\* invalidateQueries: a settled query is fetched anew, and so is one whose
\* answer is on its way, unless that is the tab's first, which is waited for.
JoinsFetch(t) == fetch[t].at \notin {"settled", "failed"}
JoinsFirstFetch(t) == fetch[t].at \notin {"settled", "failed"} /\ t \notin loaded

Refetch(t) ==
    /\ fetch' = IF JoinsFirstFetch(t) THEN fetch ELSE [fetch EXCEPT ![t] = [at |-> "asked"]]
    /\ joined' = IF t \in loaded \/ fetch[t].at = "failed" THEN joined \ {t} ELSE joined \cup {t}
    /\ UNCHANGED loaded

\* "Take action", offered on what the tab shows as pending; nothing is pushed
\* for it, and the tab that clicked refetches.
TakeAction(t, e) ==
    /\ Gesture
    /\ list[t][e] = "pending"
    /\ Rows!Start(e)
    /\ Refetch(t)
    /\ UNCHANGED <<bridge, stream, list, faults>>

\* pg_notify: one pointer to every connection that listens at this moment.
Notify(s) ==
    /\ Rows!Announce(s)
    /\ chan' = [i \in Instances |-> IF i \in linked THEN Append(chan[i], duty[s].entry) ELSE chan[i]]
    /\ UNCHANGED <<linked, held, stream, client, faults, gestures>>

\* A statement of a task fails, or the task is dropped.
TaskFails(s) ==
    /\ Fault
    /\ Rows!Drop(s)
    /\ UNCHANGED <<bridge, stream, client, gestures>>

-----------------------------------------------------------------------------
(* run_listen_bridge of one instance.                                      *)

Recv(i) ==
    /\ held[i].at = "recv"
    /\ chan[i] # <<>>
    /\ held' = [held EXCEPT ![i] = [at |-> "hydrate", entry |-> Head(chan[i])]]
    /\ chan' = [chan EXCEPT ![i] = Tail(@)]
    /\ UNCHANGED <<rows, linked, stream, client, faults, gestures>>

\* hydrate_notify_pointer: the row as it is now; skipped if there is none.
Hydrate(i) ==
    /\ held[i].at = "hydrate"
    /\ LET e == held[i].entry IN
       held' = [held EXCEPT ![i] = IF state[e] = "absent" THEN [at |-> "recv"]
                ELSE [at |-> "publish", read |-> [entry |-> e, state |-> state[e]]]]
    /\ UNCHANGED <<rows, linked, chan, stream, client, faults, gestures>>

HydrateFails(i) ==
    /\ Fault
    /\ held[i].at = "hydrate"
    /\ held' = [held EXCEPT ![i] = [at |-> "recv"]]
    /\ UNCHANGED <<rows, linked, chan, stream, client, gestures>>

\* A broadcast channel keeps the Capacity newest messages for a receiver.
PutAll(q, read) == Append(q, read)
PutFirst(q, read) == IF Len(q) < Capacity THEN <<read>> \o q ELSE q
Put(q, read) == IF Len(q) < Capacity THEN Append(q, read) ELSE Append(Tail(q), read)

Publish(i) ==
    LET here == {t \in live : InstanceOf[t] = i} IN
    /\ held[i].at = "publish"
    /\ inbox' = [t \in Tabs |-> IF t \in here THEN Put(inbox[t], held[i].read) ELSE inbox[t]]
    /\ lagged' = lagged \cup {t \in here : Len(inbox[t]) = Capacity}
    /\ held' = [held EXCEPT ![i] = [at |-> "recv"]]
    /\ UNCHANGED <<rows, linked, chan, live, seen, client, faults, gestures>>

\* recv fails: what was queued on the connection is gone.
Disconnect(i) ==
    /\ Fault
    /\ i \in linked
    /\ linked' = linked \ {i}
    /\ chan' = [chan EXCEPT ![i] = <<>>]
    /\ UNCHANGED <<rows, held, stream, client, gestures>>

\* RECONNECT_DELAY later.
Reconnect(i) ==
    /\ i \notin linked
    /\ held[i].at = "recv"
    /\ linked' = linked \cup {i}
    /\ UNCHANGED <<rows, chan, held, stream, client, faults, gestures>>

-----------------------------------------------------------------------------
(* The stream of a tab, and the list it shows.                             *)

\* notifications_stream: receives what is published from now on.
Subscribe(t) ==
    /\ t \notin live
    /\ live' = live \cup {t}
    /\ seen' = [seen EXCEPT ![t] = Nothing]
    /\ UNCHANGED <<rows, bridge, inbox, client, lagged, faults, gestures>>

\* Every stream sees every event of its bus and keeps its own consultant's.
KeepAll(t, read) == TRUE
Mine(t, read) == OwnerOf[read.entry] = UserOf[t]

\* One message of the bus: a frame for the tab, which invalidates its query,
\* or nothing.
Deliver(t) ==
    /\ t \in live
    /\ inbox[t] # <<>>
    /\ inbox' = [inbox EXCEPT ![t] = Tail(@)]
    /\ LET read == Head(inbox[t]) IN
       IF Mine(t, read)
       THEN /\ seen' = [seen EXCEPT ![t][read.entry] = read.state]
            /\ Refetch(t)
       ELSE UNCHANGED <<seen, fetch, loaded, joined>>
    /\ UNCHANGED <<rows, bridge, live, list, lagged, faults, gestures>>

\* The stream breaks; EventSource will subscribe again, and not refetch.
Break(t) ==
    /\ Fault
    /\ t \in live
    /\ live' = live \ {t}
    /\ inbox' = [inbox EXCEPT ![t] = <<>>]
    /\ UNCHANGED <<rows, bridge, seen, client, lagged, gestures>>

\* list_action_queue: the consultant's rows, in one SELECT.
AnyonesRows(t) == state
OpenRows(t) ==
    [e \in Entries |-> IF OwnerOf[e] = UserOf[t] /\ state[e] # "completed" THEN state[e] ELSE "absent"]
RowsOf(t) == [e \in Entries |-> IF OwnerOf[e] = UserOf[t] THEN state[e] ELSE "absent"]

Serve(t) ==
    /\ fetch[t].at = "asked"
    /\ fetch' = [fetch EXCEPT ![t] = [at |-> "answered", view |-> RowsOf(t)]]
    /\ UNCHANGED <<rows, bridge, stream, list, loaded, joined, faults, gestures>>

Show(t) ==
    /\ fetch[t].at = "answered"
    /\ list' = [list EXCEPT ![t] = fetch[t].view]
    /\ loaded' = loaded \cup {t}
    /\ fetch' = [fetch EXCEPT ![t] = [at |-> "settled"]]
    /\ UNCHANGED <<rows, bridge, stream, joined, faults, gestures>>

\* The request and its retries fail.
FetchFails(t) ==
    /\ Fault
    /\ fetch[t].at = "asked"
    /\ fetch' = [fetch EXCEPT ![t] = [at |-> "failed"]]
    /\ UNCHANGED <<rows, bridge, stream, list, loaded, joined, gestures>>

\* The tab gets the focus back: a query that is not on its way is refetched.
Focus(t) ==
    /\ Gesture
    /\ fetch[t].at \in {"settled", "failed"}
    /\ Refetch(t)
    /\ UNCHANGED <<rows, bridge, stream, list, faults>>

-----------------------------------------------------------------------------
Bridge(i) == Recv(i) \/ Hydrate(i) \/ Publish(i) \/ Reconnect(i)
Browse(t) == Subscribe(t) \/ Deliver(t) \/ Serve(t) \/ Show(t)

Next ==
    \/ \E s \in Tasks, e \in Entries : Insert(s, e) \/ Find(s, e)
    \/ \E s \in Tasks : Complete(s) \/ Notify(s) \/ TaskFails(s)
    \/ \E overdue \in SUBSET Entries : Expire(overdue)
    \/ \E t \in Tabs, e \in Entries : TakeAction(t, e)
    \/ \E i \in Instances : Bridge(i) \/ HydrateFails(i) \/ Disconnect(i)
    \/ \E t \in Tabs : Browse(t) \/ Break(t) \/ FetchFails(t) \/ Focus(t)

Spec == Init /\ [][Next]_vars

\* The tasks of the server run and the browser reads its stream and answers;
\* nobody is obliged to click, to confirm or to come back to a tab.
Fairness ==
    /\ \A s \in Tasks : WF_vars(Complete(s) \/ Notify(s))
    /\ \A i \in Instances : WF_vars(Bridge(i))
    /\ \A t \in Tabs : /\ WF_vars(Subscribe(t))
                       /\ WF_vars(Deliver(t))
                       /\ WF_vars(Serve(t))
                       /\ WF_vars(Show(t))

FairSpec == Spec /\ Fairness

-----------------------------------------------------------------------------
(* Properties.                                                             *)

\* No state of an entry follows its final ones.
AtLeast(s, r) == s = r \/ Rank[s] > Rank[r]

\* The tasks that owe a NOTIFY for an entry.
Announcers(e) == {s \in Tasks : Rows!Announcing(s, e)}

\* No cross-consultant bleed, through either way in: nothing a tab has been
\* told or shows is of another consultant's entry, although every stream is
\* handed every consultant's events.
OwnRowsOnly ==
    \A t \in Tabs, e \in Entries :
        OwnerOf[e] # UserOf[t] => seen[t][e] = "absent" /\ list[t][e] = "absent"

\* One stream never tells of an entry going back: pointers are read late, so a
\* NOTIFY that was delayed past a later one repeats the newer state.
StreamNeverRegresses ==
    [][\A t \in live \cap live', e \in Entries : AtLeast(seen'[t][e], seen[t][e])]_vars

\* What a consultant sees of the rows is what EntryViews promises: each list
\* holds the consultant's own entries only, as some later reading had them,
\* whatever frames, clicks and refetches overlap.
Shown == INSTANCE EntryViews WITH view <- list

ShownSpec == Shown!Spec

\* Nor does a list go back, whatever frames and refetches overlap.
ListNeverRegresses ==
    [][\A t \in Tabs, e \in Entries : AtLeast(list'[t][e], list[t][e])]_vars

\* Once its query has settled, a tab shows at least what it has been told:
\* a fetch that was already on its way is not taken for the answer, except
\* where the frame came during the tab's first fetch.
SettledListHasFrames ==
    \A t \in Tabs, e \in Entries :
        fetch[t].at = "settled" /\ t \notin joined => AtLeast(list[t][e], seen[t][e])

\* A tab that had loaded and was subscribed before an entry arrived comes to show it, unless
\* something on the way was lost.
NewEntryIsShown ==
    \A t \in Tabs, e \in Entries : OwnerOf[e] = UserOf[t] =>
        (t \in live \cap loaded /\ state[e] = "pending" /\ Announcers(e) # {})
            ~> (list[t][e] # "absent" \/ faults > 0 \/ t \in lagged)

\* A completed entry, too, though the click that started it was not pushed.
CompletionIsShown ==
    \A t \in Tabs, e \in Entries : OwnerOf[e] = UserOf[t] =>
        (t \in live \cap loaded /\ state[e] = "completed" /\ Announcers(e) # {})
            ~> (list[t][e] = "completed" \/ faults > 0 \/ t \in lagged)

-----------------------------------------------------------------------------
(* The inductive invariant behind the safety properties.                   *)

\* A reading is no newer than its row, and of one entry no older than another.
Past(read) == AtLeast(state[read.entry], read.state)
NoOlder(read, other) == read.entry = other.entry => AtLeast(read.state, other.state)

\* What a tab's stream has told, what waits for it and what its bridge is about
\* to publish are readings of the row in the order they were taken.
StreamSound(t) ==
    LET queue == inbox[t]
        hand  == held[InstanceOf[t]] IN
    /\ t \notin live => queue = <<>>
    /\ \A e \in Entries : AtLeast(state[e], seen[t][e])
    /\ \A j \in 1 .. Len(queue) :
         /\ Past(queue[j])
         /\ AtLeast(queue[j].state, seen[t][queue[j].entry])
         /\ \A k \in 1 .. Len(queue) : j < k => NoOlder(queue[k], queue[j])
    /\ t \in live /\ hand.at = "publish" =>
         /\ AtLeast(hand.read.state, seen[t][hand.read.entry])
         /\ \A j \in 1 .. Len(queue) : NoOlder(hand.read, queue[j])

\* An answer on its way lies between the list and the rows, holds the tab's own
\* entries only, and what the tab has been told unless a frame joined it.
ListSound(t) ==
    \A e \in Entries :
        /\ AtLeast(state[e], list[t][e])
        /\ fetch[t].at = "answered" =>
             /\ AtLeast(state[e], fetch[t].view[e])
             /\ AtLeast(fetch[t].view[e], list[t][e])
             /\ OwnerOf[e] # UserOf[t] => fetch[t].view[e] = "absent"
             /\ t \notin joined => AtLeast(fetch[t].view[e], seen[t][e])

IInv ==
    /\ TypeOK
    /\ \A i \in Instances : held[i].at = "publish" => Past(held[i].read)
    /\ \A t \in Tabs : StreamSound(t) /\ ListSound(t)
    /\ OwnRowsOnly
    /\ SettledListHasFrames

=============================================================================
