---------------------------- MODULE ProposalHandoff ----------------------------
(***************************************************************************)
(* The hand-off from a capability to Commit: a workflow session is started, *)
(* proposals are created from it, the session is told which, and legal     *)
(* updates reach whoever owns the proposal an active session points at.    *)
(*                                                                         *)
(* A request to create a proposal reads its session, calls Commit for as    *)
(* long as its timeout allows, and then writes back the session as it read *)
(* it, changed.  No transaction spans the three: other requests for the    *)
(* same session, its expiry and the sweep run in between, and Commit may    *)
(* create a proposal whose caller has already given up.                    *)
(*                                                                         *)
(* A session stands for its own origin_reference, which is opaque.  Requests *)
(* are used once.                                                          *)
(*                                                                         *)
(* Source: crates/bff-api/src/{workflow_sessions,commit}.rs,               *)
(* crates/bff-core/src/{workflow_session,event_ingestion}.rs,              *)
(* crates/persistence/src/workflow_session_repository.rs,                  *)
(* crates/nexus-client/src/{timeout,retry,commit}.rs.                      *)
(***************************************************************************)
EXTENDS Naturals

CONSTANTS
    Sessions,       \* workflow session ids
    Consultants,
    Targets,        \* target capabilities sessions are started for
    Commit,         \* the one whose proposals legal updates are about
    Requests,       \* POSTs to create a proposal
    Proposals,      \* the ids Commit gives, one for each order it gets
    None

VARIABLES
    row,        \* cross_capability_workflow_sessions, by session
    overdue,    \* the sessions whose expires_at has passed
    req,        \* what each request is doing
    order,      \* what Commit has been asked for, and made
    surfaced    \* the legal updates let through: <<consultant, proposal>>

vars == <<row, overdue, req, order, surfaced>>

ASSUME HandoffAssumption ==
    /\ Commit \in Targets
    /\ None \notin Sessions \cup Consultants \cup Proposals

Statuses == {"started", "in_progress", "expired"}
Terminal == {"expired"}   \* nothing completes or abandons a session
Stages   == {"new", "resolved", "waiting", "created", "saving", "answered", "failed"}

NoRow   == [status |-> "none"]
NoOrder == [at |-> "none"]

\* A session's row, or none.
Row == {NoRow} \cup [consultant : Consultants, target : Targets,
                     reference : Proposals \cup {None}, status : Statuses]

\* A request: who makes it, from which session (None for a bare reference),
\* the status it loaded and then the one it saves, and the order it waits for
\* or was answered with.
Request == [at : Stages, consultant : Consultants \cup {None}, session : Sessions \cup {None},
            status : Statuses, proposal : Proposals \cup {None}, retries : Nat, saved : BOOLEAN]

Order == {NoOrder} \cup
         [at : {"sent", "made"}, by : Requests, consultant : Consultants,
          origin : Sessions \cup {None}]

TypeOK ==
    /\ row \in [Sessions -> Row]
    /\ overdue \subseteq Sessions
    /\ req \in [Requests -> Request]
    /\ order \in [Proposals -> Order]
    /\ surfaced \subseteq Consultants \X Proposals

Init ==
    /\ row = [s \in Sessions |-> NoRow]
    /\ overdue = {}
    /\ req = [r \in Requests |->
                [at |-> "new", consultant |-> None, session |-> None, status |-> "started",
                 proposal |-> None, retries |-> 0, saved |-> FALSE]]
    /\ order = [p \in Proposals |-> NoOrder]
    /\ surfaced = {}

-----------------------------------------------------------------------------
\* find_active_by_consultant_id's condition on a row.
ActiveByStatus(s) == row[s] # NoRow /\ row[s].status \notin Terminal
IsActive(s) ==
    /\ row[s] # NoRow
    /\ row[s].status \notin Terminal
    /\ s \notin overdue

StartSession(c, target) ==
    [consultant |-> c, target |-> target, reference |-> None, status |-> "started"]

\* create_workflow_session, permitted and saved.
CreateWorkflowSession(s, c, target) ==
    /\ row[s] = NoRow
    /\ row' = [row EXCEPT ![s] = StartSession(c, target)]
    /\ UNCHANGED <<overdue, req, order, surfaced>>

\* now >= expires_at from here on.
Expire(s) ==
    /\ row[s] # NoRow
    /\ s \notin overdue
    /\ overdue' = overdue \cup {s}
    /\ UNCHANGED <<row, req, order, surfaced>>

\* expire_older_than, of the repository.
ExpireOlderThan ==
    /\ \E s \in overdue : row[s].status \notin Terminal
    /\ row' = [s \in Sessions |->
                IF s \in overdue THEN [row[s] EXCEPT !.status = "expired"] ELSE row[s]]
    /\ UNCHANGED <<overdue, req, order, surfaced>>

-----------------------------------------------------------------------------
(* One POST to create a proposal.                                          *)

\* The retries of the gateway the call goes through: the command stack is a
\* TimeoutTransport over the base transport, the query stack retries.
QueryRetries == 3
CommandRetries == 0

AnyRow(s, c) == row[s] # NoRow
Owned(s, c) == row[s] # NoRow /\ row[s].consultant = c

\* resolve_origin_reference finds the session; what it refuses (not found, not
\* the caller's, expired) ends the request with nothing done.
Resolve(r, c, s) ==
    /\ req[r].at = "new"
    /\ Owned(s, c)
    /\ s \notin overdue
    /\ req' = [req EXCEPT ![r] = [@ EXCEPT !.at = "resolved", !.consultant = c, !.session = s,
                                          !.status = row[s].status, !.retries = CommandRetries]]
    /\ UNCHANGED <<row, overdue, order, surfaced>>

\* The same with an origin_reference in the body and no session.
ResolveBare(r, c) ==
    /\ req[r].at = "new"
    /\ req' = [req EXCEPT ![r] =
                [@ EXCEPT !.at = "resolved", !.consultant = c, !.retries = CommandRetries]]
    /\ UNCHANGED <<row, overdue, order, surfaced>>

\* The transport sends CreateProposalCommand.
Send(r, p) ==
    /\ req[r].at = "resolved"
    /\ order[p] = NoOrder
    /\ order' = [order EXCEPT ![p] = [at |-> "sent", by |-> r, consultant |-> req[r].consultant,
                                      origin |-> req[r].session]]
    /\ req' = [req EXCEPT ![r] = [@ EXCEPT !.at = "waiting", !.proposal = p]]
    /\ UNCHANGED <<row, overdue, surfaced>>

\* Commit makes the proposal, whether or not anybody still waits for it.
CommitMakes(p) ==
    /\ order[p].at = "sent"
    /\ order' = [order EXCEPT ![p].at = "made"]
    /\ UNCHANGED <<row, overdue, req, surfaced>>

\* Its answer arrives within the timeout.
Receive(r) ==
    /\ req[r].at = "waiting"
    /\ order[req[r].proposal].at = "made"
    /\ req' = [req EXCEPT ![r].at = IF req[r].session = None THEN "answered" ELSE "created"]
    /\ UNCHANGED <<row, overdue, order, surfaced>>

\* Timeout, transport error or 5xx: sent again while the stack has retries
\* left, 502 otherwise.
CallFails(r) ==
    /\ req[r].at = "waiting"
    /\ req' = IF req[r].retries > 0
              THEN [req EXCEPT ![r] = [@ EXCEPT !.at = "resolved", !.retries = req[r].retries - 1]]
              ELSE [req EXCEPT ![r].at = "failed"]
    /\ UNCHANGED <<row, overdue, order, surfaced>>

\* transition_to and set_target_reference are refused, which is only logged,
\* once the session has expired.
SessionExpired(r) == req[r].session \in overdue

\* advance_workflow_session up to its save: a session that has started is in
\* progress from now on.
NextStatus(status) == IF status = "started" THEN "in_progress" ELSE status

Advance(r) ==
    /\ req[r].at = "created"
    /\ req' = IF SessionExpired(r)
              THEN [req EXCEPT ![r].at = "answered"]
              ELSE [req EXCEPT ![r] =
                      [@ EXCEPT !.at = "saving", !.status = NextStatus(req[r].status)]]
    /\ UNCHANGED <<row, overdue, order, surfaced>>

\* WorkflowSessionRepository::save: the row's reference and status are what
\* this request says, whatever they have become since it loaded them.
SaveStatusOnly(s, r) ==
    row' = [row EXCEPT ![s].status = req[r].status]
SaveSession(s, r) ==
    row' = [row EXCEPT ![s] = [@ EXCEPT !.status = req[r].status, !.reference = req[r].proposal]]

Save(r) ==
    /\ req[r].at = "saving"
    /\ SaveSession(req[r].session, r)
    /\ req' = [req EXCEPT ![r] = [@ EXCEPT !.at = "answered", !.saved = TRUE]]
    /\ UNCHANGED <<overdue, order, surfaced>>

\* The save fails: logged, and the answer is a success all the same.
SaveFails(r) ==
    /\ req[r].at = "saving"
    /\ req' = [req EXCEPT ![r].at = "answered"]
    /\ UNCHANGED <<row, overdue, order, surfaced>>

\* The future is dropped or the process ends.
Abandon(r) ==
    /\ req[r].at \in {"resolved", "waiting", "created", "saving"}
    /\ req' = [req EXCEPT ![r].at = "failed"]
    /\ UNCHANGED <<row, overdue, order, surfaced>>

-----------------------------------------------------------------------------
\* legal_clause_update_is_tied_to_an_in_progress_commit_proposal.
TiedToProposal(c, p) ==
    \E s \in Sessions :
        IsActive(s) /\ row[s].consultant = c /\ row[s].target = Commit /\ row[s].reference = p

\* Legal reports a change to a clause of p to c, and the filter keeps it.
LegalUpdate(c, p) ==
    /\ TiedToProposal(c, p)
    /\ surfaced' = surfaced \cup {<<c, p>>}
    /\ UNCHANGED <<row, overdue, req, order>>

Next ==
    \/ \E s \in Sessions, c \in Consultants, t \in Targets : CreateWorkflowSession(s, c, t)
    \/ \E s \in Sessions : Expire(s)
    \/ ExpireOlderThan
    \/ \E r \in Requests, c \in Consultants, s \in Sessions : Resolve(r, c, s)
    \/ \E r \in Requests, c \in Consultants : ResolveBare(r, c)
    \/ \E r \in Requests, p \in Proposals : Send(r, p)
    \/ \E p \in Proposals : CommitMakes(p)
    \/ \E r \in Requests :
           Receive(r) \/ CallFails(r) \/ Advance(r) \/ Save(r) \/ SaveFails(r) \/ Abandon(r)
    \/ \E c \in Consultants, p \in Proposals : LegalUpdate(c, p)

Spec == Init /\ [][Next]_vars

-----------------------------------------------------------------------------
(* Properties.                                                             *)

\* A legal update is shown to nobody but the consultant Commit made the
\* proposal for, out of a hand-off of theirs to Commit ("silence, not a false
\* positive, is the safe failure mode").
SurfacedToOwner ==
    \A u \in surfaced :
        /\ order[u[2]].at = "made"
        /\ order[u[2]].consultant = u[1]
        /\ \E s \in Sessions :
               /\ order[u[2]].origin = s
               /\ row[s] # NoRow /\ row[s].consultant = u[1] /\ row[s].target = Commit

\* Non-idempotent commands are never sent twice: whatever times out, and however
\* late Commit answers, a request leaves at most one proposal behind.
OneProposalPerRequest ==
    \A p, q \in Proposals :
        order[p] # NoOrder /\ order[q] # NoOrder /\ order[p].by = order[q].by => p = q

\* The request has told the session of its proposal.
RecordedIn(r, s) == req[r].saved /\ req[r].session = s

\* However many requests use a session at once, and however late each of them
\* saves what it loaded: once one has told an active session of its proposal,
\* legal updates get through about the proposal of one that has.  Overlapping
\* requests cost each other's reference, but never leave a session with none, or
\* with that of a request that was given up or failed to save.
HandoffIsFollowed ==
    \A s \in Sessions :
        IsActive(s) /\ row[s].target = Commit /\ (\E r \in Requests : RecordedIn(r, s)) =>
            \E r \in Requests :
                RecordedIn(r, s) /\ TiedToProposal(req[r].consultant, req[r].proposal)

\* A session that has stopped being active is never active again.  Nothing in
\* production sweeps, so its status goes on saying that it runs, and a request
\* that checked it in time may still save it as in progress: only the
\* expires_at condition of the query tells.
InactiveForGood ==
    [][\A s \in Sessions : row[s] # NoRow /\ ~IsActive(s) => ~IsActive(s)']_vars

-----------------------------------------------------------------------------
(* The inductive invariant behind them.                                    *)

\* What a request remembers of its session is still so.
RequestSound ==
    \A r \in Requests :
        /\ req[r].at # "new" => req[r].consultant \in Consultants
        /\ req[r].session # None =>
               /\ req[r].at # "new"
               /\ row[req[r].session] # NoRow
               /\ row[req[r].session].consultant = req[r].consultant
        /\ req[r].at \in {"created", "saving"} => req[r].session # None
        /\ req[r].session # None /\ req[r].status \in Terminal => req[r].session \in overdue
        /\ req[r].saved => req[r].at = "answered" /\ req[r].session # None
        /\ req[r].retries <= CommandRetries

\* The order a request waits for, or was answered with, is its own.
OrderSound ==
    /\ \A r \in Requests :
           /\ req[r].at \in {"waiting", "created", "saving", "answered"} =>
                  /\ req[r].proposal \in Proposals
                  /\ order[req[r].proposal] # NoOrder
                  /\ order[req[r].proposal].by = r
                  /\ order[req[r].proposal].consultant = req[r].consultant
                  /\ order[req[r].proposal].origin = req[r].session
           /\ req[r].at \in {"created", "saving", "answered"} =>
                  order[req[r].proposal].at = "made"
    /\ \A p \in Proposals :
           order[p] # NoOrder =>
               /\ req[order[p].by].at \notin {"new", "resolved"}
               /\ req[order[p].by].session = order[p].origin

\* A session's reference is a proposal that Commit made out of it.
ReferenceSound ==
    \A s \in Sessions :
        /\ row[s] = NoRow => s \notin overdue
        /\ row[s] # NoRow /\ row[s].status \in Terminal => s \in overdue
        /\ row[s] # NoRow /\ row[s].reference # None =>
               /\ order[row[s].reference] # NoOrder
               /\ order[row[s].reference].at = "made"
               /\ order[row[s].reference].consultant = row[s].consultant
               /\ order[row[s].reference].origin = s

\* A session that was told of a proposal points at one, and what it points at it
\* was told.
SavedSound ==
    /\ \A r \in Requests : req[r].saved => row[req[r].session].reference # None
    /\ \A s \in Sessions :
           row[s] # NoRow /\ row[s].reference # None =>
               \E r \in Requests : RecordedIn(r, s) /\ req[r].proposal = row[s].reference

IInv ==
    /\ TypeOK
    /\ RequestSound
    /\ OrderSound
    /\ ReferenceSound
    /\ SavedSound
    /\ OneProposalPerRequest
    /\ SurfacedToOwner

=============================================================================
