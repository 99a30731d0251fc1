# Verification of cognitum-consultants

TLA+ models of the consultant portal's server ("BFF": `crates/`) and of the part
of its browser client that the server pushes to, with the TLC runs that check
them and the TLAPS proofs of their properties.

    tlc -config Ingestion.cfg MCEventIngestion.tla
    tlapm EventIngestion_proofs.tla

## The system and its parts

The BFF serves a React client. It owns little: rows of its own tables in
Postgres, caches, and the connection to *nexus*, through which it reaches the
capabilities (sales, commit, legal, ...) that own everything else. Several
instances may run against one database.

| part | state | operations | how it interacts |
|---|---|---|---|
| event ingestion (`bff-api/src/reactions.rs`, `bff-core/src/event_ingestion.rs`) | none of its own between statements | one HTTP delivery: filter, classify, save or complete, NOTIFY, answer | called by nexus, at least once; writes the two row tables; NOTIFYs |
| notification and action-queue rows (`persistence/src/{notification,action_queue_entry}_repository.rs`) | `read_state`, `action_state` | insert unless there, mark read, start, complete, expire | written by ingestion and by the consultant's clicks |
| push fan-out (`event_notify_bridge.rs`, `EventBus`, `notifications_sse.rs`) | a LISTEN connection, a bounded broadcast channel, one stream per tab | receive, hydrate, publish, filter | reads the rows anew for each NOTIFY |
| browser lists (`useNotificationStream.ts`, `ActionQueue.tsx`) | a cached query | fetch, invalidate, start | frames invalidate, GETs answer |
| circuit breaker (`nexus-client/src/circuit_breaker.rs`) | state, window, time of opening | allow, record | offered to wrap a gateway's transport; `main.rs` wires none yet |
| permission cache (`permissions.rs`) | assertions by consultant | look up, refresh, invalidate | asked by every capability handler and the dashboard |
| dashboard (`dashboard.rs`, `dashboard_configuration_repository.rs`) | a row and its cards, by consultant | GET, PUT | asks the permission cache; a save is a transaction of several statements |
| workflow sessions and proposals (`workflow_sessions.rs`, `commit.rs`) | session status and target reference | create, resolve, advance | calls Commit in between; ingestion filters legal updates by the result |
| prospects and action items (`sales.rs`, `action_items.rs` and their repositories) | rows, notes, links from items to prospects | create, patch, note, stage, delete: load, change, save | overlapping requests of one consultant |
| login and sessions (`auth/src/firebase.rs`, `session.rs`) | signing keys cached, `sessions` rows | log in, require a session, log out | asks Google for keys; the allowlist is edited from outside |
| capability routes (`capacity.rs`, `execution.rs`, ..., `nexus-client/src/*.rs`, the wiring in `main.rs`) | none | one call each: session, permission, gateway, transport stack | a command that timed out may still take effect |
| preferences, configuration, health, the other client features | see `PROJECT.json` | | |

What is hard here is what overlaps and what is lost. Handlers are async and hold
no transaction across statements, so another request runs between any two of
them; nexus redelivers what it holds no answer for while the first delivery may
still be running; a future may be dropped at any await; pushes are best effort
at four hops; a timeout says nothing of what the callee did; and every cached or
loaded value may be stale when it is used. Per part, correctness means:

* ingestion: an event acknowledged is stored, once, and announced once, after it
  is stored; a confirmation moves exactly the entry it is about, and only from
  `in_progress`;
* rows: `pending`, `in_progress`, then `completed` or `expired` for good;
* fan-out: nobody sees another consultant's entries, nobody's view goes back,
  and what was pushed without loss is eventually shown;
* breaker: it is open for a reason, closes when the reason is gone, and is not
  misled by the calls that overlap it;
* cache: staleness of a permission is bounded, however answers are reordered;
* dashboard: what is stored is one PUT's layout and never a mixture, and a card
  is shown only to who holds its module;
* hand-off: one request makes at most one proposal, and legal updates about it
  reach its owner and nobody else;
* prospects and items: no stage is skipped and no note lost, however saves
  overlap, and no item links another consultant's prospect;
* login: every session is vouched for by a key and an allowlist entry of its
  time, and rotating keys turn nobody away;
* capability calls: a command runs at most once, the answer does not claim what
  did not happen, nothing is asked without permission, everyone is answered.

## Modules

| module | what it is |
|---|---|
| `ActionLifecycle` | abstract specification: what becomes of an action-queue entry |
| `Announcements` | what the fan-out relies on: rows that change, and tasks that owe a NOTIFY for a change they made |
| `EventIngestion` | deliveries, statement by statement, and what else touches the rows; implements `ActionLifecycle` and `Announcements` |
| `EntryViews` | abstract specification: what a consultant's lists may show of the entries |
| `EventFanout` | NOTIFY, bridges, buses, streams and tabs on top of `Announcements`; implements `EntryViews` |
| `CircuitBreaker` | the breaker and the calls in flight |
| `PermissionCache` | one consultant's cached assertions, Armor and overlapping requests |
| `Dashboard` | composes `PermissionCache` with the dashboard its requests read and replace |
| `ProposalHandoff` | workflow sessions, requests that create proposals, Commit, and the legal filter |
| `ProspectPipeline` | prospects, their notes, and overlapping requests |
| `ActionItems` | composes `ProspectPipeline` with the action items that link prospects |
| `LoginSessions` | logins, the cache of signing keys, sessions, and requests under them |
| `CapabilityRoutes` | every route that relays to Nexus: permission, method, transport stack |
| `CapabilityCalls` | composes `LoginSessions` and `CapabilityRoutes` with the call itself; implements `LoginSessions` |
| `*_proofs` | theorems about the module of that name (`Dashboard_proofs` and `CapabilityCalls_proofs` also hold those of `PermissionCache` and `LoginSessions`) |
| `MC*` | constants for TLC |

### ActionLifecycle
`state` is `action_state` ("absent" before the entry's event is ingested),
`confirmed` the entries whose capability has confirmed them and `due` those
whose `expires_at` has passed. `Receive`, `Start`, `Complete` and `Expire` are
`ActionQueueEntry::new/start/complete/expire`; the guards are
`is_valid_transition`'s, plus that completion needs a confirmation and expiry a
passed deadline. It says nothing of tasks, statements or deliveries.

### EventIngestion
A task is one delivery in progress. Its program counter names the statement it
is about to issue, and what it remembers from the statements before it is in
its record, which is all that survives an `await`. The actions follow
`ingest_events`: `Deliver`, `Filter` (legal updates only),
`Save` (`INSERT ... ON CONFLICT DO NOTHING`), `Find`, `Complete`
(`UPDATE ... WHERE action_state = 'in_progress'`), `Reread`, `Publish`
(`pg_notify`) and `Reply`. `StatementFails` is a database error at any
statement, handled as `AfterFailure` says; `Abandon` is a dropped future or a
dead process: what was written stays, what was not is not. The rows are also
touched by `ActionQueueStart`, `MarkNotificationRead` and `ExpireOlderThan`.
The lookup behind the legal filter is an arbitrary answer here.

The refinement mapping to `ActionLifecycle` reads `state` off the rows,
`confirmed` off the confirmations ever delivered and `due` off the entries
overdue; every task step that does not change an action row is a stutter. The one
to `Announcements` reads a task's duty off where it is suspended (`DutyOf`):
between the SELECT that found an entry in progress and its UPDATE it is
confirming, between a save or an UPDATE and the NOTIFY it is announcing.

### Announcements
What ingestion is to the fan-out. `Insert` and `Complete` change a row and
leave the task with a NOTIFY to issue, `Announce` issues it, `Drop` is a task that
never does. `Find` is the read before `Complete`: two confirming tasks may both
have found the entry in progress, and the later one announces a row it did not
change. `Start` and `Expire` owe nothing. `EventFanout` takes its rows from
this module and `EventIngestion` is proved to implement it, so the fan-out does not
rest on a simplification of ingestion that nobody checked.

### EntryViews
What the lists promise, with no pushes, streams or queries in it: an entry makes
the moves of `is_valid_transition`, and what a tab shows of it changes only to
something between what it has shown and the row, and only for the consultant's own
entries.

### EventFanout
The rows and their NOTIFYs are `Announcements`' (`Insert`, `Find`, `Complete`,
`Expire`, `Notify`, `TaskFails`, and `Start` inside `TakeAction`). Each instance has
a LISTEN connection (`linked`, `chan`) and a bridge that handles one pointer at a
time (`held`): `Recv`, `Hydrate`, `Publish`. The bus is what it holds for each
stream (`inbox`), bounded by `Capacity` with the oldest dropped. A tab's query is
settled, failed, asked or answered, and `list` is what it shows. `Refetch` is the
query library's rule for an invalidated query: a fetch under way is cancelled and
started anew, except a query's first, which is waited for. `seen`, `lagged` and `joined` only record
what happened, for the properties.

### CircuitBreaker
`Allow` is `allow_call` answering true, `Succeed` and `Fail` are `record` at the
end of `send`; between them anything may happen to the breaker, since the mutex
is not held across the call. `Abandon` is a dropped call, which records nothing.
Time is one flag, `cooled`. A call remembers whether it was let through by a
closed breaker or as a probe; the code does not, and nothing in `record` depends
on it.

### PermissionCache
A request is idle, asking Armor, told by it, or decided. `LookUp` reads the
entry under the lock (`is_permitted`, `get_or_refresh`, `cached_if_fresh`);
`Answer` is Armor's, with what it grants at that moment; `Refresh` inserts it
when the request goes on, over whatever is there by then; `FetchFails` is the
fail-closed branch. `Invalidate`, `Regrant` (Armor's own change) and `Tick` run
between any two of them. An entry is served until the first expiry of its
assertions, as `refresh` computes it. `lastGranted` is Armor's memory, for the
property.

### ProposalHandoff
`row` is `cross_capability_workflow_sessions` and `overdue` the sessions past
their `expires_at`. A request follows `create_proposal`: `Resolve` (or
`ResolveBare`, for a body with an origin reference and no session) loads and
checks the session, `Send`, `Receive` and `CallFails` are the call through the
command stack, `Advance` and `Save` are `advance_workflow_session`. What it
loaded is in its record, and is what it saves. `CommitMakes` is Commit's, and
may happen after `CallFails` gave up waiting. `order` is what Commit was asked
for and made. `Expire`, `ExpireOlderThan` (which nothing in production calls)
and other requests run in between. `LegalUpdate` is an update that
`filter_conservative_legal_events` lets through: the lookup that
`EventIngestion` leaves open. The permission gates are left to `PermissionCache`.
A consultant's second try after a failure is a new request.

### ProspectPipeline
A request follows `load_owned_prospect` (`LoadRow`, then `LoadNotes`, two
statements), one of `PatchProspect`, `AddProspectNote` and
`TransitionProspectStage` on its copy, and `Save`, one transaction that writes
the copy's stage and name and inserts its notes. A stage is its place in the
funnel; a name stands for the company and contact names. `been` and `fresh` only
record what happened, for the properties: the stages a row has had, and
whether a copy was overtaken by another save.

### ActionItems
`item` is `consultant_action_items`. A request is a look-up and a write:
`CreateActionItem` checks the linked prospect and mints an id, `PatchActionItem`
and `DeleteActionItem` load the item and check whose it is, and `SaveItem` (an
upsert of everything but the consultant) or `RemoveItem` follows, by id alone.
`DropEdit` is a failed write or a dropped request. The prospect requests run
beside them, in the places no item request holds.

### Dashboard
A request is a `PermissionCache` request with a job. `PutDashboard` checks every
card against the assertions the cache gave it (`AddCards` is the aggregate's
rule: positions are unique) and then saves in one transaction: `UpsertRow`, which
locks the configuration's row, `DeleteCards`, which deletes the cards it *sees*,
`Commit`, which makes its own visible. Under READ COMMITTED the delete sees what
was committed when it started. `FindRow` and `GetDashboard` are the two reads of
a GET, filtered by `ShowPermitted`; a consultant without a row is shown the
`Defaults`. `EndJob` drops a request, and with it its transaction.
`GateStep` lets the cache's own actions run beside.

### LoginSessions
A login follows `login_with_id_token`: the cached keys answer
(`CertFromCache`) or Google is asked with no lock held (`AskGoogle`,
`GoogleAnswers`), the answer replaces the cache whatever it holds by then
(`StoreCerts`) or lacks the key (`RefuseUnknownKey`), the allowlist is read
(`CheckAllowlist`) and a session inserted (`IssueSession`). Keys come and go
(`PublishKey`, `WithdrawKey`), addresses are added and struck off
(`AddConsultant`, `RemoveConsultant`) and other logins run in between.
`RequireSession` attaches the row to a request, which keeps it until `EndRequest`
whatever becomes of the row; `Logout` deletes it. The clock is explicit, because
the properties are about lifetimes. `withdrawn` and `struck` only record when.

### CapabilityRoutes
A table. A gateway is one trait for queries and commands, and two instances of it
differ in nothing but the transport stack they were built over: which of them a
handler was given decides whether a command can be sent twice, and no type tells
them apart. Each route names the permission it asks for, the method it calls and
the retries of the stack that `main.rs` put below it.

### CapabilityCalls
A request that holds a session calls a route (`BeginCall`), is permitted or not
(`Decide`, `Refuse`), and sends attempts (`SendAttempt`). `NexusRuns` is Nexus
running what it was sent; `FinishCall` its answer, one of `Results`; `TimeOut` is
`TimeoutTransport` giving the attempt up, after which Nexus may still run it
(`LateCopy`); `RetryAttempt` is `RetryingTransport`. The counters `runs` and
`late` are what Nexus has run and may yet run on the request's behalf. `DropCall`
is the browser going away. `EndCall` releases the session.

## Runs

| run | instance | what it shows |
|---|---|---|
| `ingestion` | a task, its confirmation, a malformed event and a legal update; up to two deliveries at once; one fault | no double or premature push, every row announced but for one per fault, nothing acknowledged is missing, the inductive invariant, the refinements of `ActionLifecycle` and `Announcements`; every event is acknowledged in the end, and a confirmation settles the entry it finds started |
| `ingestion_expiry` | a task and its confirmation | *violated*: an overdue entry may linger for ever |
| `ingestion_outcome` | the same | *violated*: two deliveries of one confirmation both report that they completed the entry |
| `fanout` | two ingestion tasks, one entry of ann's, a tab of ann's and one of bob's on one instance, one gesture, one fault | frames never go back, the lists implement `EntryViews`, settled lists are as new as their frames, others' entries are never shown, own ones are unless a push was lost |
| `breaker_safety` | three calls, window 4, at least 2 samples, one half | closed means healthy, late results are ignored while open, recovery |
| `breaker_probe` | the same | *violated*: more than one probe at a time |
| `dashboard` | two requests, two grants with lifetimes 1 and 2, time 1, one change, layouts of at most two cards in two positions | who is permitted was granted within a lifetime; what is stored is one PUT's layout; what is shown was held |
| `proposal_handoff` | two consultants, two sessions to Commit or Legal, two requests, two proposals | updates reach only a proposal's owner, and do for one at least of the hand-offs a session recorded; one proposal per request; a session past its time stays inactive |
| `prospects_and_items` | a funnel of four stages, one prospect, one item, two consultants, two overlapping requests, two notes, names and texts | no stage skipped, no note lost, links stay within one consultant's data, the matrix, names and items change as asked or by an overtaken save |
| `prospect_terminal` | the funnel's ten stages, no items | *violated*: a closed prospect goes back into the funnel |
| `login_sessions` | two overlapping logins, two keys, one guest, time 2, lifetimes and slowest fetch 1 | sessions and requests are vouched for, rotation turns nobody away, the inductive invariant |
| `portal` | a member of staff and a guest with fewer grants, one login and one request at a time; a command, a query and the query with the largest budget; retries 3 and 5 | commands run once at most, answers are honest, nothing is asked without permission, every call is answered, the inductive invariant |

**Bounds.** `MaxFaults` bounds failures, abandoned tasks and lost connections;
one of them lets a delivery stop at any statement and its successor meet what it
left, and the faults of one hop do not enable those of another. Deliveries of
one event only interact through the row they share, so two at once show every
order; a third repeats what one of them does. `MaxGestures` bounds clicks and
returns to a tab, without which a consultant who clicks for ever keeps a query
from settling. `Capacity` is 256 in the code and 1 here, so that a stream lags
as soon as two events meet. Two tasks of `fanout` are a save and a confirmation, or
two confirmations, that overlap; its tabs share an instance, since instances share
nothing but the rows and the NOTIFY that reaches each of them, and two of them
take the run past its time (the proofs have any number). The breaker's default is ten outcomes, five samples,
one half, 30 s: a window of four with two samples reaches every branch (sliding,
too few samples, tripping on a success). The cache's clock stops at `MaxTime` 1:
an assertion of lifetime 1 is then expired and one of lifetime 2 is not, and
`MaxChanges` 1 takes a grant back, gives one or invalidates the entry. In
`proposal_handoff` a request serves once: two that share a session, or one that
was given up and its second try, are what can disturb each other, and each may
get a proposal. In `prospects_and_items` requests are reused without bound; a
funnel of four has a first stage, a step in between and both terminal stages, and
the finding's run has all ten. In `login_sessions` the clock reaches one past
every lifetime, so that keys are fetched, served, withdrawn and out of the cache
within a run. `portal` takes the retry budgets from the code, and its three
routes are one of each class that `RoutesWellWired` tells apart. The theorems
have none of these bounds, and for each property of a passing run there is one,
but for four of liveness (see Proofs).

**Deadlock.** Checked for the breaker, the prospects and the items. The other
systems may stop: every event has been dealt with, or every tab has settled and
no consultant clicks any more, or a clock has reached its bound, or every request
has been served.

**Fairness.** The runtime polls every task that can go on and nexus redelivers
what is not acknowledged (`EventIngestion`); a task's UPDATE and NOTIFY, bridges, streams
and fetches go on (`EventFanout`). Nobody is obliged to click, confirm, fail or come back.
Recovery of the breaker needs callers: each place keeps calling, and not every
call is given up before its answer (strong fairness of `Succeed`). The sweep has
no fairness: nothing in the server runs it, which is the finding of
`ingestion_expiry`. A capability call needs only that the runtime polls its
handler and that its timer fires (weak fairness of `Decide`, `SendAttempt` and
`TimeOut`): nothing is assumed of Nexus, which may never answer.

## Findings

* `ingestion_expiry`: nothing calls `expire_older_than`.
* `ingestion_outcome`: `transitioned` is true also when the UPDATE matched no row.
* `breaker_probe`: half open is not a single probe.
* `prospect_terminal`: `save` writes back the stage it loaded, whatever route it
  serves. `MatrixUnlessOvertaken` says that this is the only way the matrix is
  broken, so a version check in `save` would be enough, and that it leads to no stage
  the prospect was neither at nor one step from. `RenamedUnlessOvertaken`
  and `ItemAsAsked` say of names and of items that nothing else brings an old name
  or a deleted item back.

`PROJECT.json` quotes the text each disagrees with.

## Proofs

*EventIngestion* (every set of events and tasks, any number of faults). None of
its safety properties is inductive: what a suspended task remembers must still
mean something when it goes on. `IInv` says what: each row has the kind of its
event (`RowKinds`), a task past `Find` refers to an action entry that exists and has left
`pending`, a task about to publish has its row stored (`TaskInv`), and of the tasks that hold one
event at most one created its row, and only while it has not been announced (`OnePublisher`).
The announcements lost are counted: `Silent` is the set of rows nobody will announce
any more, only a fault adds to it and each adds one (`SilentStep`), so it is finite
and no larger than the number of faults (`EveryRowIsAnnounced`).
`RowsStep`, `TaskStep`, `PublisherStep` and `PushStep` show the parts
preserved, one step per action; `Invariance` combines them and the safety
theorems follow. `Refinement` uses `IInv` for the one step that
needs it: `Complete` is only reached with a confirmation that was delivered.

*EventFanout* (any number of entries, instances and tabs, any capacity): every
value a tab may come to show is a reading of the row, taken at some time. Rows
only go forward, so `StreamSound` says that what a stream has been told, what
its queue holds and what its bridge is about to publish are readings in the order
they were taken, none ahead of the row; and `ListSound` that an answer on its way
to a tab lies between what the tab shows and the rows. That nothing goes back
follows step by step, that a settled list has its frames from what a refetch
does to a fetch under way.

*CircuitBreaker* (every number of calls, window, sample count and threshold):
`TypeCorrect` bounds the window; `Healthy` is inductive because `record` tests
the window on every outcome while closed and clears it when it closes, and
rests on an empty window being no reason to open (`min_samples > 0`);
`LateResultsAreIgnored` follows from the steps alone.

*PermissionCache and Dashboard* (any number of requests, modules, lifetimes and
cards): the verdict's bound is inductive only with what it comes from.
`CacheSound` says of the entry, and `ToldSound` of every answer on its way, that
each assertion was issued while Armor held the grant and expires within its
lifetime; the latter also that Armor held it after the request was made, which is
what survives a refresh that overwrites a newer answer. `GrantsMoveOn` carries
both over Armor's own steps. `DashboardAsks` shows that every step of the
composition is the cache's or a stutter of it, so the cache's theorems hold of the
dashboard too. A layout is never a mixture because the row's lock keeps saves
apart between the upsert and the commit, so the cards a DELETE saw are all there
are (`SavesAlone`).

*ProposalHandoff* (any number of sessions, consultants, requests and proposals):
what reaches a consultant depends on a chain, from the update to the session's
reference, to the order it stands for, to the request that gave it, to the
session's owner. `ReferenceSound` and `OrderSound` state its links,
`RequestSound` that a copy's owner is still the row's. That rows keep their
owners and orders their origin is a lemma (`Kept`) from which a request that does
not move stays sound (`StillFine`), so each action is only looked at where it
acts. `Followed` rests on `SavedSound`: what a session points at is always what some
request told it, so requests that overwrite each other leave one of their own.
`NeverActiveAgain` needs that only the overdue are ever expired: a stale
save brings a status back, but not the time.

*ProspectPipeline* (any number of prospects and requests, any length of the
funnel): stages are gapless because what is saved is one the row has had, or one
valid step from one, although not necessarily from the current one
(`CopiesSound`, `Gapless`). A fresh copy's stage is the row's own or one step
from it, which is all that `Overtaken` needs; `Renamed` is the same argument for
names.

*ActionItems* (any number of either kind of request): `ItemsLeaveProspects` shows
that an item request's steps are stutters of `ProspectPipeline`, so its invariant
carries over (`ProspectsStillSound`). `LinksOwned` rests on prospects never
changing hands: the owner a create checked is the owner for good. `AsAsked`
compares a copy with the item it was loaded from.

*LoginSessions and CapabilityCalls* (any number of logins, keys, sessions,
lifetimes, retries, requests and served routes). `LoginIInv` says of the cached
keys, of what a login was answered and of a verified login when each key was
still served; an answer that replaces a newer one is older than it by at most one
fetch, which is the bound of `IssuedVouched`. `PortalLogsIn`: a request's call is
a stutter of `LoginSpec`, and ending it is `EndRequest`. For the calls, every
attempt costs a retry, so the copies Nexus holds and the retries left never
exceed the stack's budget (`CallIInv`); for a command that budget is none, which
is what the lemma `RoutesWellWired` checks of the table, route by route.

*Refinements between the parts.* `AnnouncesAsPromised` maps each step of
`EventIngestion` to a step of `Announcements` or a stutter. It needs `IInv` twice:
a task that saves a new row owed nothing before, and a task that comes to
`Reread` has left an entry that is settled. `OwedOnly` says that the NOTIFYs are
the steps that discharge a duty. On the other side `RowsAsAnnounced` shows that the
fan-out touches rows and duties as `Announcements` allows and no otherwise, and
`ShownAsPromised` that it implements `EntryViews`: a row's change is an `Advance`
(`RowsMove`), and a list that takes an answer takes something between what it showed
and the row (`ShowsLater`, from `ListSound`). Together: what a consultant is shown
follows from what nexus delivers, whatever is lost in between.

*Liveness.* The prover knows neither `ENABLED` nor temporal induction, and two
things make some liveness provable all the same. Fairness is stated once more
with the guards of the fair actions written out in place of `ENABLED` (`Polled` in
`EventIngestion`, `CapabilityCalls` and `CircuitBreaker`); that they are
the same was checked with TLC on the runs' instances, where each guard is equivalent
to `ENABLED <<A>>_vars`. And where the number of stages is fixed by the code, each
stage is a formula of its own and the chain is left to the temporal backend.

* `EveryTaskEnds`: a task has at most six awaits ahead (`Ahead`), and goes forward
  whether a statement succeeds or fails or the task is dropped (`TaskMoves`).
* `EveryDeliveryAnswered`: if no fault comes in between, it goes forward by its own
  statements alone (`TaskKeeps`) and the last of them is the answer.
  `EveryFoundSettled`: nor does a confirmation that has found its entry in progress
  leave it there. These are the halves of `Delivered` and `ConfirmationSettles`
  that lie after nexus's redelivery.
* `EveryAttemptEnds`: an attempt ends in an answer or with a retry less, for any
  number of retries; `CallsWindDown` (`WindsDown`) is the measure behind it, every
  step of a request takes something from `Work`, and holds with no fairness at all.
  `EveryCommandAnswered`: a command has the one attempt, so it is answered.
* `EveryRequestAnswered` (`EveryCallAnswered`): so is every request, under
  `FewRetries`, at most five of them, which is `AGGRESSIVE_MAX_RETRIES` in `retry.rs`.
* `RecoversForGood` (`Recovers`): while the capability answers, an open breaker
  cools, is probed and closes with an empty window, and a closed one without a
  failure in its window stays closed (`UpMoves`, `GoodWindowStaysClosed`). A
  breaker that is closed when the capability recovers may still open once, when a
  success completes `min_samples`. The hypotheses are needed: somebody calls, and
  the threshold is above zero, for a breaker with a threshold of zero opens on
  successes for ever. The constructor does not check it; the tests that build one pass 0.9 and 1.

Assumptions are those on the constants, named in the modules that declare them,
and the two hypotheses just named. Only model-checked: `Delivered`,
`ConfirmationSettles`, `NewEntryIsShown` and `CompletionIsShown`. The first two need
an induction over the events not yet acknowledged and the faults left, the others
over the queues between a NOTIFY and a tab, and none of these has a fixed length.
The four findings' properties are refuted, not proved.

## Not modelled

* *Preferences*: an aggregate and a repository that no handler uses.
* *The verification of the reaction caller's token*: a delivery in
  `EventIngestion` starts once it is accepted. The cache of keys in
  `google_identity_token.rs` is refreshed as the login's is, which
  `LoginSessions` models; its claims, like those of a login's token, are the
  identity provider's. So is the development stub's login.
* *Startup, configuration, health, metrics, correlation ids*, but for the wiring
  of the gateways (`CapabilityRoutes`): reading, counting and formatting.
* *The browser's other features*: forms and lists over one query each. One
  hand-over is worth a note: the deep link from a conflict check to Commit's
  workspace (`LeadConflictCheck.tsx`) passes its session in the query string,
  which `ProposalWorkspace.tsx` reads when it is mounted, and `navigate()` does not
  remount a workspace that is there already.
* *The component libraries*: presentation.
* *The notification list's query* is not repeated in `EventFanout`: it is the
  action queue's with a shorter life of a row. List endpoints are the load alone.
* *Operations nothing calls*: `remove_card`, `delete_by_consultant_id`,
  `set_done`, the deletion of prospects.
* *Time*: explicit in the permission cache and in logins only; elsewhere a
  deadline is an event that may happen, and a retry's delay is none.

Read while modelling, stated by no property:

* a logout whose DELETE fails is answered as a success and leaves the session
  alive, while the comment at `bff-api/src/session.rs:352-354` says that a copied
  cookie must not work after it;
* the fetch of an outgoing identity token counts within `TimeoutTransport`'s
  budget, and `TimeOut` covers it, while the comment at
  `reqwest_transport.rs:35-39` speaks of the call alone;
* the fetch of signing keys (`auth/src/firebase.rs:172`) has no timeout, so a login
  may wait for ever; no liveness is claimed of logins;
* the sweep tests `expires_at < cutoff` (`action_queue_entry_repository.rs:220`)
  and the aggregate `now >= expires_at`: at the instant itself they disagree, which
  a model without instants cannot tell;
* an event with an empty `consultant_id`, which the comment of
  `envelope_into_received` calls an inert placeholder, is rejected by
  `NotificationItem` and `ActionQueueEntry`: it is a `Malformed` event here.
