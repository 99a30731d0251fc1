------------------------ MODULE ProposalHandoff_proofs ------------------------
(***************************************************************************)
(* Proofs about ProposalHandoff, for every set of sessions, consultants,   *)
(* requests and proposals.                                                 *)
(***************************************************************************)
EXTENDS ProposalHandoff, TLAPS

USE DEF Statuses, Terminal, Stages, NoRow, NoOrder, QueryRetries, CommandRetries, Owned

\* What Init says satisfies the inductive invariant.
LEMMA Initially == Init => IInv
  BY HandoffAssumption
     DEF HandoffAssumption, Init, IInv, TypeOK, Row, Request, Order, RequestSound, OrderSound, ReferenceSound,
         SavedSound, RecordedIn, OneProposalPerRequest, SurfacedToOwner

\* The variables keep their types; only the sweep needs to know that there is
\* a row to change.
LEMMA TypeStep == IInv /\ [Next]_vars => TypeOK'
<1> SUFFICES ASSUME IInv, [Next]_vars PROVE TypeOK'
  OBVIOUS
<1> USE HandoffAssumption DEF HandoffAssumption, IInv, TypeOK
<1>1. ASSUME NEW s \in Sessions, NEW c \in Consultants, NEW t \in Targets, CreateWorkflowSession(s, c, t)
      PROVE TypeOK'
  BY <1>1 DEF CreateWorkflowSession, StartSession, Row
<1>2. ASSUME NEW s \in Sessions, Expire(s) PROVE TypeOK'
  BY <1>2 DEF Expire
<1>3. CASE ExpireOlderThan
  BY <1>3 DEF ExpireOlderThan, Row, ReferenceSound
<1>a. ASSUME NEW r \in Requests PROVE req[r] \in Request
  OBVIOUS
<1>4. ASSUME NEW r \in Requests, NEW c \in Consultants, NEW s \in Sessions, Resolve(r, c, s)
      PROVE TypeOK'
  <2>1. row[s].status \in Statuses
    BY <1>4 DEF Resolve, Row
  <2>2. [req[r] EXCEPT !.at = "resolved", !.consultant = c, !.session = s,
                       !.status = row[s].status, !.retries = 0] \in Request
    BY <1>a, <2>1 DEF Request
  <2> QED
    BY <1>4, <2>2 DEF Resolve
<1>5. ASSUME NEW r \in Requests, NEW c \in Consultants, ResolveBare(r, c) PROVE TypeOK'
  <2>1. [req[r] EXCEPT !.at = "resolved", !.consultant = c, !.retries = 0] \in Request
    BY <1>a DEF Request
  <2> QED
    BY <1>5, <2>1 DEF ResolveBare
<1>6. ASSUME NEW r \in Requests, NEW p \in Proposals, Send(r, p) PROVE TypeOK'
  <2>1. req[r].consultant \in Consultants /\ req[r].session \in Sessions \cup {None}
    BY <1>6, <1>a DEF Send, RequestSound, Request
  <2>2. [req[r] EXCEPT !.at = "waiting", !.proposal = p] \in Request
    BY <1>a DEF Request
  <2>3. [at |-> "sent", by |-> r, consultant |-> req[r].consultant, origin |-> req[r].session] \in Order
    BY <2>1 DEF Order
  <2> QED
    BY <1>6, <2>2, <2>3 DEF Send
<1>7. ASSUME NEW p \in Proposals, CommitMakes(p) PROVE TypeOK'
  BY <1>7 DEF CommitMakes, Order
<1>8. ASSUME NEW r \in Requests, Receive(r) PROVE TypeOK'
  <2>1. \A a \in Stages : [req[r] EXCEPT !.at = a] \in Request
    BY <1>a DEF Request
  <2> QED
    BY <1>8, <2>1 DEF Receive
<1>9. ASSUME NEW r \in Requests, CallFails(r) PROVE TypeOK'
  <2>1. [req[r] EXCEPT !.at = "failed"] \in Request
    BY <1>a DEF Request
  <2>2. req[r].retries > 0 => req[r].retries - 1 \in Nat
    BY <1>a DEF Request
  <2>3. req[r].retries > 0 => [req[r] EXCEPT !.at = "resolved", !.retries = req[r].retries - 1] \in Request
    BY <1>a, <2>2 DEF Request
  <2> QED
    BY <1>9, <2>1, <2>3 DEF CallFails
<1>10. ASSUME NEW r \in Requests, Advance(r) PROVE TypeOK'
  <2>1. [req[r] EXCEPT !.at = "answered"] \in Request
    BY <1>a DEF Request
  <2>2. [req[r] EXCEPT !.at = "saving", !.status = NextStatus(req[r].status)] \in Request
    BY <1>a DEF Request, NextStatus
  <2> QED
    BY <1>10, <2>1, <2>2 DEF Advance, SessionExpired
<1>11. ASSUME NEW r \in Requests, Save(r) PROVE TypeOK'
  <2> DEFINE s == req[r].session
  <2>1. /\ s \in Sessions /\ row[s] # NoRow
        /\ req[r].proposal \in Proposals /\ req[r].status \in Statuses
    BY <1>11, <1>a DEF Save, RequestSound, OrderSound, Request
  <2>2. row[s] \in Row \ {NoRow}
    BY <2>1
  <2>4. [row[s] EXCEPT !.status = req[r].status, !.reference = req[r].proposal] \in Row
    BY <2>1, <2>2 DEF Row
  <2>3. [req[r] EXCEPT !.at = "answered", !.saved = TRUE] \in Request
    BY <1>a DEF Request
  <2> QED
    BY <1>11, <2>1, <2>4, <2>3 DEF Save, SaveSession
<1>12. ASSUME NEW r \in Requests, SaveFails(r) PROVE TypeOK'
  BY <1>12, <1>a DEF SaveFails, Request
<1>13. ASSUME NEW r \in Requests, Abandon(r) PROVE TypeOK'
  BY <1>13, <1>a DEF Abandon, Request
<1>14. ASSUME NEW c \in Consultants, NEW p \in Proposals, LegalUpdate(c, p) PROVE TypeOK'
  BY <1>14 DEF LegalUpdate
<1>15. CASE UNCHANGED vars
  BY <1>15 DEF vars
<1> QED
  BY <1>1, <1>2, <1>3, <1>4, <1>5, <1>6, <1>7, <1>8, <1>9, <1>10, <1>11, <1>12, <1>13, <1>14, <1>15
     DEF Next


\* A session's row, once there, keeps its consultant and its target, and once
\* overdue it stays so; an order keeps who gave it, for whom and out of what,
\* and is never unmade.
RowsKept ==
    /\ overdue \subseteq overdue'
    /\ \A s \in Sessions : row[s] # NoRow =>
           /\ row'[s] # NoRow
           /\ row'[s].consultant = row[s].consultant
           /\ row'[s].target = row[s].target
OrdersKept ==
    \A p \in Proposals : order[p] # NoOrder =>
        /\ order'[p] # NoOrder
        /\ order'[p].by = order[p].by
        /\ order'[p].consultant = order[p].consultant
        /\ order'[p].origin = order[p].origin
        /\ order[p].at = "made" => order'[p].at = "made"

LEMMA Kept == IInv /\ [Next]_vars => RowsKept /\ OrdersKept
<1> SUFFICES ASSUME IInv, [Next]_vars PROVE RowsKept /\ OrdersKept
  OBVIOUS
<1> USE HandoffAssumption DEF HandoffAssumption, IInv, TypeOK, RowsKept, OrdersKept
<1>0. overdue \subseteq overdue'
  BY DEF Next, vars, CreateWorkflowSession, StartSession, Expire, ExpireOlderThan, Resolve, ResolveBare, Send, CommitMakes,
         Receive, CallFails, Advance, SessionExpired, Save, SaveFails, Abandon, LegalUpdate
<1>1. ASSUME NEW s \in Sessions, NEW c \in Consultants, NEW t \in Targets, CreateWorkflowSession(s, c, t)
      PROVE RowsKept /\ OrdersKept
  BY <1>1 DEF CreateWorkflowSession, StartSession
<1>2. CASE ExpireOlderThan
  <2>1. ASSUME NEW s \in Sessions, row[s] # NoRow
        PROVE /\ row'[s] # NoRow
              /\ row'[s].consultant = row[s].consultant
              /\ row'[s].target = row[s].target
    <3>1. row[s] \in Row \ {NoRow}
      BY <2>1
    <3>2. row'[s] = IF s \in overdue THEN [row[s] EXCEPT !.status = "expired"] ELSE row[s]
      BY <1>2 DEF ExpireOlderThan
    <3> QED
      BY <3>1, <3>2 DEF Row
  <2> QED
    BY <1>2, <2>1 DEF ExpireOlderThan
<1>3. ASSUME NEW r \in Requests, Save(r) PROVE RowsKept /\ OrdersKept
  <2> DEFINE s == req[r].session
  <2>1. s \in Sessions /\ row[s] \in Row \ {NoRow}
    BY <1>3 DEF Save, RequestSound, Request
  <2>2. row' = [row EXCEPT ![s] = [row[s] EXCEPT !.status = req[r].status, !.reference = req[r].proposal]]
    BY <1>3 DEF Save, SaveSession
  <2>3. row'[s] # NoRow /\ row'[s].consultant = row[s].consultant /\ row'[s].target = row[s].target
    BY <2>1, <2>2 DEF Row
  <2> QED
    BY <1>3, <2>2, <2>3 DEF Save
<1>4. ASSUME NEW r \in Requests, NEW p \in Proposals, Send(r, p) PROVE RowsKept /\ OrdersKept
  BY <1>4 DEF Send
<1>5. ASSUME NEW p \in Proposals, CommitMakes(p) PROVE RowsKept /\ OrdersKept
  <2>1. order[p] \in Order \ {NoOrder} /\ order' = [order EXCEPT ![p] = [order[p] EXCEPT !.at = "made"]]
    BY <1>5 DEF CommitMakes
  <2>2. /\ order'[p].at = "made" /\ order'[p].by = order[p].by
        /\ order'[p].consultant = order[p].consultant /\ order'[p].origin = order[p].origin
    BY <2>1 DEF Order
  <2> QED
    BY <1>5, <2>1, <2>2 DEF CommitMakes
<1>6. ASSUME UNCHANGED <<row, order>> PROVE RowsKept /\ OrdersKept
  BY <1>0, <1>6
<1> QED
  BY <1>1, <1>2, <1>3, <1>4, <1>5, <1>6
     DEF Next, vars, Expire, Resolve, ResolveBare, Receive, CallFails, Advance, SessionExpired, SaveFails, Abandon, LegalUpdate

\* The part of RequestSound and OrderSound that speaks of one request.
RequestFine(r) ==
    /\ req[r].at # "new" => req[r].consultant \in Consultants
    /\ req[r].session # None =>
           /\ req[r].at # "new"
           /\ row[req[r].session] # NoRow
           /\ row[req[r].session].consultant = req[r].consultant
    /\ req[r].at \in {"created", "saving"} => req[r].session # None
    /\ req[r].session # None /\ req[r].status \in Terminal => req[r].session \in overdue
    /\ req[r].saved => req[r].at = "answered" /\ req[r].session # None
    /\ req[r].at \in {"waiting", "created", "saving", "answered"} =>
           /\ req[r].proposal \in Proposals
           /\ order[req[r].proposal] # NoOrder
           /\ order[req[r].proposal].by = r
           /\ order[req[r].proposal].consultant = req[r].consultant
           /\ order[req[r].proposal].origin = req[r].session
    /\ req[r].at \in {"created", "saving", "answered"} =>
           order[req[r].proposal].at = "made"

\* A request that does not move stays sound, rows and orders being kept.
LEMMA StillFine ==
  ASSUME TypeOK, RowsKept, OrdersKept, NEW r \in Requests, RequestFine(r), req'[r] = req[r]
  PROVE  RequestFine(r)'
<1>1. req[r] \in Request
  BY DEF TypeOK
<1>2. req[r].session # None => req[r].session \in Sessions
  BY <1>1 DEF Request
<1>3. req[r].at \in {"waiting", "created", "saving", "answered"} => req[r].proposal \in Proposals
  BY DEF RequestFine
<1> QED
  BY <1>2, <1>3 DEF RequestFine, RowsKept, OrdersKept

LEMMA RequestStep == IInv /\ [Next]_vars => \A r \in Requests : RequestFine(r)'
<1> SUFFICES ASSUME IInv, [Next]_vars, NEW q \in Requests PROVE RequestFine(q)'
  OBVIOUS
<1> USE HandoffAssumption DEF HandoffAssumption
<1>a. TypeOK /\ RowsKept /\ OrdersKept /\ RequestFine(q)
  BY Kept DEF IInv, RequestSound, OrderSound, RequestFine
<1>b. req[q] \in Request
  BY <1>a DEF TypeOK
<1>c. req'[q] = req[q] => RequestFine(q)'
  BY <1>a, StillFine
<1>d. req[q].session # None => req[q].session \in Sessions
  BY <1>b DEF Request
<1>e. req \in [Requests -> Request] /\ order \in [Proposals -> Order] /\ row \in [Sessions -> Row]
  BY <1>a DEF TypeOK
<1>1. ASSUME NEW r \in Requests, NEW c \in Consultants, NEW s \in Sessions, Resolve(r, c, s)
      PROVE RequestFine(q)'
  <2>1. CASE r = q
    <3>1. req'[q] = [req[q] EXCEPT !.at = "resolved", !.consultant = c, !.session = s,
                                   !.status = row[s].status, !.retries = 0]
      BY <1>1, <1>e, <2>1 DEF Resolve
    <3>2. /\ req'[q].at = "resolved" /\ req'[q].consultant = c /\ req'[q].session = s
          /\ req'[q].saved = req[q].saved /\ req'[q].status = row[s].status
      BY <3>1, <1>b DEF Request
    <3>3. row' = row /\ row[s] # NoRow /\ row[s].consultant = c /\ ~req[q].saved
      BY <1>1, <1>a, <1>b, <2>1 DEF Resolve, RequestFine, Request
    <3>4. row[s].status \notin Terminal
      BY <1>1 DEF Resolve, IInv, ReferenceSound
    <3> QED
      BY <3>2, <3>3, <3>4 DEF RequestFine
  <2>2. CASE r # q
    BY <1>1, <1>c, <1>e, <2>2 DEF Resolve
  <2> QED
    BY <2>1, <2>2
<1>2. ASSUME NEW r \in Requests, NEW c \in Consultants, ResolveBare(r, c) PROVE RequestFine(q)'
  <2>1. CASE r = q
    <3>1. req'[q] = [req[q] EXCEPT !.at = "resolved", !.consultant = c, !.retries = 0]
      BY <1>2, <1>e, <2>1 DEF ResolveBare
    <3>2. /\ req'[q].at = "resolved" /\ req'[q].consultant = c /\ req'[q].session = req[q].session
          /\ req'[q].saved = req[q].saved
      BY <3>1, <1>b DEF Request
    <3>3. req[q].session = None /\ ~req[q].saved
      BY <1>2, <1>a, <1>b, <2>1 DEF ResolveBare, RequestFine, Request
    <3> QED
      BY <3>2, <3>3 DEF RequestFine
  <2>2. CASE r # q
    BY <1>2, <1>c, <1>e, <2>2 DEF ResolveBare
  <2> QED
    BY <2>1, <2>2
<1>3. ASSUME NEW r \in Requests, NEW p \in Proposals, Send(r, p) PROVE RequestFine(q)'
  <2>1. CASE r = q
    <3>1. req'[q] = [req[q] EXCEPT !.at = "waiting", !.proposal = p]
      BY <1>3, <1>e, <2>1 DEF Send
    <3>2. /\ req'[q].at = "waiting" /\ req'[q].proposal = p /\ req'[q].consultant = req[q].consultant
          /\ req'[q].session = req[q].session /\ req'[q].saved = req[q].saved /\ req'[q].status = req[q].status
      BY <3>1, <1>b DEF Request
    <3>3. order'[p] = [at |-> "sent", by |-> q, consultant |-> req[q].consultant, origin |-> req[q].session]
      BY <1>3, <1>e, <2>1 DEF Send
    <3>4. row' = row /\ overdue' = overdue /\ req[q].at = "resolved"
      BY <1>3, <2>1 DEF Send
    <3> QED
      BY <3>2, <3>3, <3>4, <1>a DEF RequestFine
  <2>2. CASE r # q
    BY <1>3, <1>c, <1>e, <2>2 DEF Send
  <2> QED
    BY <2>1, <2>2
<1>4. ASSUME NEW r \in Requests, Receive(r) PROVE RequestFine(q)'
  <2>1. CASE r = q
    <3>1. req'[q] = [req[q] EXCEPT !.at = IF req[q].session = None THEN "answered" ELSE "created"]
      BY <1>4, <1>e, <2>1 DEF Receive
    <3>2. /\ req'[q].at = IF req[q].session = None THEN "answered" ELSE "created"
          /\ req'[q].proposal = req[q].proposal /\ req'[q].consultant = req[q].consultant
          /\ req'[q].session = req[q].session /\ req'[q].saved = req[q].saved /\ req'[q].status = req[q].status
      BY <3>1, <1>b DEF Request
    <3>3. /\ row' = row /\ overdue' = overdue /\ order' = order /\ req[q].at = "waiting"
          /\ order[req[q].proposal].at = "made"
      BY <1>4, <2>1 DEF Receive
    <3> QED
      BY <3>2, <3>3, <1>a DEF RequestFine
  <2>2. CASE r # q
    BY <1>4, <1>c, <1>e, <2>2 DEF Receive
  <2> QED
    BY <2>1, <2>2
<1>5. ASSUME NEW r \in Requests, CallFails(r) PROVE RequestFine(q)'
  <2>1. CASE r = q
    <3>1. /\ req'[q].at \in {"resolved", "failed"} /\ req'[q].consultant = req[q].consultant
          /\ req'[q].session = req[q].session /\ req'[q].saved = req[q].saved /\ req'[q].status = req[q].status
      BY <1>5, <1>e, <1>b, <2>1 DEF CallFails, Request
    <3>2. row' = row /\ overdue' = overdue /\ req[q].at = "waiting"
      BY <1>5, <2>1 DEF CallFails
    <3> QED
      BY <3>1, <3>2, <1>a DEF RequestFine
  <2>2. CASE r # q
    BY <1>5, <1>c, <1>e, <2>2 DEF CallFails
  <2> QED
    BY <2>1, <2>2
<1>6. ASSUME NEW r \in Requests, Advance(r) PROVE RequestFine(q)'
  <2>1. CASE r = q
    <3>1. /\ \/ req'[q].at = "answered"
             \/ req'[q].at = "saving"
          /\ req'[q].status \in {req[q].status, "in_progress"}
          /\ req'[q].proposal = req[q].proposal /\ req'[q].consultant = req[q].consultant
          /\ req'[q].session = req[q].session /\ req'[q].saved = req[q].saved
      BY <1>6, <1>e, <1>b, <2>1 DEF Advance, SessionExpired, NextStatus, Request
    <3>2. row' = row /\ overdue' = overdue /\ order' = order /\ req[q].at = "created"
      BY <1>6, <2>1 DEF Advance, SessionExpired
    <3> QED
      BY <3>1, <3>2, <1>a DEF RequestFine
  <2>2. CASE r # q
    BY <1>6, <1>c, <1>e, <2>2 DEF Advance, SessionExpired
  <2> QED
    BY <2>1, <2>2
<1>7. ASSUME NEW r \in Requests, Save(r) \/ SaveFails(r) PROVE RequestFine(q)'
  <2>1. CASE r = q
    <3>0. \/ req'[q] = [req[q] EXCEPT !.at = "answered", !.saved = TRUE]
          \/ req'[q] = [req[q] EXCEPT !.at = "answered"]
      BY <1>7, <1>e, <2>1 DEF Save, SaveFails
    <3>1. /\ req'[q].at = "answered"
          /\ req'[q].proposal = req[q].proposal /\ req'[q].consultant = req[q].consultant
          /\ req'[q].session = req[q].session /\ req'[q].status = req[q].status
      BY <3>0, <1>b DEF Request
    <3>2. order' = order /\ overdue' = overdue /\ req[q].at = "saving"
      BY <1>7, <2>1 DEF Save, SaveFails
    <3>3. /\ req[q].session \in Sessions /\ row[req[q].session] # NoRow
          /\ row[req[q].session].consultant = req[q].consultant
      BY <3>2, <1>a, <1>d DEF RequestFine
    <3>4. row'[req[q].session] # NoRow /\ row'[req[q].session].consultant = req[q].consultant
      BY <3>3, <1>a DEF RowsKept
    <3> QED
      BY <3>1, <3>2, <3>3, <3>4, <1>a DEF RequestFine
  <2>2. CASE r # q
    BY <1>7, <1>c, <1>e, <2>2 DEF Save, SaveFails
  <2> QED
    BY <2>1, <2>2
<1>8. ASSUME NEW r \in Requests, Abandon(r) PROVE RequestFine(q)'
  <2>1. CASE r = q
    <3>0. req'[q] = [req[q] EXCEPT !.at = "failed"]
      BY <1>8, <1>e, <2>1 DEF Abandon
    <3>1. /\ req'[q].at = "failed" /\ req'[q].consultant = req[q].consultant
          /\ req'[q].session = req[q].session /\ req'[q].saved = req[q].saved /\ req'[q].status = req[q].status
      BY <3>0, <1>b DEF Request
    <3>2. row' = row /\ overdue' = overdue /\ req[q].at \in {"resolved", "waiting", "created", "saving"}
      BY <1>8, <2>1 DEF Abandon
    <3> QED
      BY <3>1, <3>2, <1>a DEF RequestFine
  <2>2. CASE r # q
    BY <1>8, <1>c, <1>e, <2>2 DEF Abandon
  <2> QED
    BY <2>1, <2>2
<1>9. ASSUME UNCHANGED req PROVE RequestFine(q)'
  BY <1>9, <1>c
<1> QED
  BY <1>1, <1>2, <1>3, <1>4, <1>5, <1>6, <1>7, <1>8, <1>9
     DEF Next, vars, CreateWorkflowSession, StartSession, Expire, ExpireOlderThan, CommitMakes, LegalUpdate

\* The command stack never gets a retry to spend.
LEMMA RetriesStep == IInv /\ [Next]_vars => \A r \in Requests : req'[r].retries <= CommandRetries
<1> SUFFICES ASSUME IInv, [Next]_vars, NEW q \in Requests PROVE req'[q].retries = 0
  OBVIOUS
<1>a. req \in [Requests -> Request] /\ req[q] \in Request /\ req[q].retries = 0
  BY DEF IInv, TypeOK, RequestSound, Request
<1>1. ASSUME NEW r \in Requests, NEW c \in Consultants, NEW s \in Sessions, Resolve(r, c, s)
      PROVE  req'[q].retries = 0
  BY <1>1, <1>a DEF Resolve, Request
<1>2. ASSUME NEW r \in Requests, NEW c \in Consultants, ResolveBare(r, c) PROVE req'[q].retries = 0
  BY <1>2, <1>a DEF ResolveBare, Request
<1>3. ASSUME NEW r \in Requests, NEW p \in Proposals, Send(r, p) PROVE req'[q].retries = 0
  BY <1>3, <1>a DEF Send, Request
<1>4. ASSUME NEW r \in Requests, Receive(r) PROVE req'[q].retries = 0
  BY <1>4, <1>a DEF Receive, Request
<1>5. ASSUME NEW r \in Requests, CallFails(r) PROVE req'[q].retries = 0
  <2>1. CASE r = q
    <3>1. req'[q] = [req[q] EXCEPT !.at = "failed"]
      BY <1>5, <1>a, <2>1 DEF CallFails
    <3> QED
      BY <3>1, <1>a DEF Request
  <2> QED
    BY <1>5, <1>a, <2>1 DEF CallFails
<1>6. ASSUME NEW r \in Requests, Advance(r) PROVE req'[q].retries = 0
  BY <1>6, <1>a DEF Advance, SessionExpired, Request
<1>7. ASSUME NEW r \in Requests, Save(r) PROVE req'[q].retries = 0
  BY <1>7, <1>a DEF Save, Request
<1>8. ASSUME NEW r \in Requests, SaveFails(r) PROVE req'[q].retries = 0
  BY <1>8, <1>a DEF SaveFails, Request
<1>9. ASSUME NEW r \in Requests, Abandon(r) PROVE req'[q].retries = 0
  BY <1>9, <1>a DEF Abandon, Request
<1>10. ASSUME UNCHANGED req PROVE req'[q].retries = 0
  BY <1>10, <1>a
<1> QED
  BY <1>1, <1>2, <1>3, <1>4, <1>5, <1>6, <1>7, <1>8, <1>9, <1>10
     DEF Next, vars, CreateWorkflowSession, StartSession, Expire, ExpireOlderThan, CommitMakes, LegalUpdate

\* A request's session never changes once it is resolved.
LEMMA SessionKept ==
  IInv /\ [Next]_vars =>
      \A q \in Requests : req[q].at \notin {"new", "resolved"} =>
          /\ req'[q].at \notin {"new", "resolved"}
          /\ req'[q].session = req[q].session
<1> SUFFICES ASSUME IInv, [Next]_vars, NEW q \in Requests, req[q].at \notin {"new", "resolved"}
             PROVE  req'[q].at \notin {"new", "resolved"} /\ req'[q].session = req[q].session
  OBVIOUS
<1> DEFINE Stays == req'[q].at \notin {"new", "resolved"} /\ req'[q].session = req[q].session
<1>a. req \in [Requests -> Request] /\ req[q] \in Request /\ req[q].retries = 0
  BY DEF IInv, TypeOK, RequestSound, Request
<1>1. ASSUME NEW r \in Requests, NEW c \in Consultants, NEW s \in Sessions, Resolve(r, c, s) PROVE Stays
  BY <1>1, <1>a DEF Resolve
<1>2. ASSUME NEW r \in Requests, NEW c \in Consultants, ResolveBare(r, c) PROVE Stays
  BY <1>2, <1>a DEF ResolveBare
<1>3. ASSUME NEW r \in Requests, NEW p \in Proposals, Send(r, p) PROVE Stays
  BY <1>3, <1>a DEF Send
<1>4. ASSUME NEW r \in Requests, Receive(r) PROVE Stays
  BY <1>4, <1>a DEF Receive, Request
<1>5. ASSUME NEW r \in Requests, CallFails(r) PROVE Stays
  <2>1. CASE r = q
    <3>1. req'[q] = [req[q] EXCEPT !.at = "failed"]
      BY <1>5, <1>a, <2>1 DEF CallFails
    <3> QED
      BY <3>1, <1>a DEF Request
  <2> QED
    BY <1>5, <1>a, <2>1 DEF CallFails
<1>6. ASSUME NEW r \in Requests, Advance(r) PROVE Stays
  BY <1>6, <1>a DEF Advance, SessionExpired, Request
<1>7. ASSUME NEW r \in Requests, Save(r) PROVE Stays
  BY <1>7, <1>a DEF Save, Request
<1>8. ASSUME NEW r \in Requests, SaveFails(r) PROVE Stays
  BY <1>8, <1>a DEF SaveFails, Request
<1>9. ASSUME NEW r \in Requests, Abandon(r) PROVE Stays
  BY <1>9, <1>a DEF Abandon, Request
<1>10. ASSUME UNCHANGED req PROVE Stays
  BY <1>10, <1>a
<1> QED
  BY <1>1, <1>2, <1>3, <1>4, <1>5, <1>6, <1>7, <1>8, <1>9, <1>10
     DEF Next, vars, CreateWorkflowSession, StartSession, Expire, ExpireOlderThan, CommitMakes, LegalUpdate

\* A request that has not sent has no order, and one that has, has one, made
\* out of its session.
LEMMA OrderStep ==
  IInv /\ [Next]_vars =>
      /\ OneProposalPerRequest'
      /\ \A p \in Proposals : order'[p] # NoOrder =>
             /\ req'[order'[p].by].at \notin {"new", "resolved"}
             /\ req'[order'[p].by].session = order'[p].origin
<1> DEFINE NotSent == \A p \in Proposals : order[p] # NoOrder =>
                          /\ req[order[p].by].at \notin {"new", "resolved"}
                          /\ req[order[p].by].session = order[p].origin
<1> SUFFICES ASSUME IInv, [Next]_vars PROVE OneProposalPerRequest' /\ NotSent'
  OBVIOUS
<1>a. /\ req \in [Requests -> Request] /\ order \in [Proposals -> Order]
      /\ OneProposalPerRequest /\ NotSent
  BY DEF IInv, TypeOK, OrderSound
<1>b. \A p \in Proposals : order[p] # NoOrder => order[p].by \in Requests
  BY <1>a DEF Order
<1>c. \A q \in Requests : req[q].at \notin {"new", "resolved"} =>
          req'[q].at \notin {"new", "resolved"} /\ req'[q].session = req[q].session
  BY SessionKept
<1>1. ASSUME NEW r \in Requests, NEW p \in Proposals, Send(r, p)
      PROVE OneProposalPerRequest' /\ NotSent'
  <2>1. /\ order[p] = NoOrder /\ req[r].at = "resolved"
        /\ \A o \in Proposals : o # p => order'[o] = order[o]
        /\ order'[p].by = r /\ order'[p].origin = req[r].session
    BY <1>1, <1>a DEF Send
  <2>2. req'[r].at = "waiting" /\ req'[r].session = req[r].session
    BY <1>1, <1>a DEF Send, Request
  <2>3. \A o \in Proposals : order[o] # NoOrder => order[o].by # r
    BY <2>1, <1>a
  <2>4. OneProposalPerRequest'
    BY <2>1, <2>3, <1>a DEF OneProposalPerRequest
  <2>5. NotSent'
    BY <2>1, <2>2, <1>a, <1>b, <1>c
  <2> QED
    BY <2>4, <2>5
<1>2. ASSUME NEW p \in Proposals, CommitMakes(p) PROVE OneProposalPerRequest' /\ NotSent'
  <2>1. /\ order[p] # NoOrder /\ req' = req
        /\ \A o \in Proposals : o # p => order'[o] = order[o]
    BY <1>2, <1>a DEF CommitMakes
  <2>2. order'[p].by = order[p].by /\ order'[p].origin = order[p].origin
    BY <1>2, <1>a DEF CommitMakes, Order
  <2> QED
    BY <2>1, <2>2, <1>a DEF OneProposalPerRequest
<1>3. CASE UNCHANGED order
  BY <1>3, <1>a, <1>b, <1>c DEF OneProposalPerRequest
<1> QED
  BY <1>1, <1>2, <1>3
     DEF Next, vars, CreateWorkflowSession, StartSession, Expire, ExpireOlderThan, Resolve, ResolveBare, Receive, CallFails,
         Advance, SessionExpired, Save, SaveFails, Abandon, LegalUpdate

\* A request that has told its session is done.
LEMMA SavedKept == IInv /\ [Next]_vars => \A q \in Requests : req[q].saved => req'[q] = req[q]
<1> SUFFICES ASSUME IInv, [Next]_vars, NEW q \in Requests, req[q].saved PROVE req'[q] = req[q]
  OBVIOUS
<1>1. req \in [Requests -> Request] /\ req[q].at = "answered"
  BY DEF IInv, TypeOK, RequestSound
<1> QED
  BY <1>1 DEF Next, vars, CreateWorkflowSession, StartSession, Expire, ExpireOlderThan, Resolve, ResolveBare, Send,
     CommitMakes, Receive, CallFails, Advance, SessionExpired, Save, SaveFails, Abandon, LegalUpdate

\* What a row points at was made out of its session, and a row that has been
\* told of a proposal goes on pointing at one that it was told of.
LEMMA ReferenceStep == IInv /\ [Next]_vars => ReferenceSound' /\ SavedSound'
<1> SUFFICES ASSUME IInv, [Next]_vars PROVE ReferenceSound' /\ SavedSound'
  OBVIOUS
<1> USE HandoffAssumption DEF HandoffAssumption
<1>a. /\ req \in [Requests -> Request] /\ order \in [Proposals -> Order] /\ row \in [Sessions -> Row]
      /\ overdue \subseteq Sessions
      /\ RowsKept /\ OrdersKept /\ ReferenceSound /\ SavedSound /\ RequestSound
  BY Kept DEF IInv, TypeOK
<1>b. \A s \in Sessions : row[s] # NoRow => row[s].reference \in Proposals \cup {None}
  BY <1>a DEF Row
<1>c. \A r \in Requests : req[r].saved => req[r].session \in Sessions /\ row[req[r].session] # NoRow
  BY <1>a DEF RequestSound, Request
<1>e. \A r \in Requests : req[r].saved => req'[r] = req[r]
  BY SavedKept
<1>d. ASSUME \A s \in Sessions : row[s] # NoRow => row'[s].reference = row[s].reference,
             \A s \in Sessions : row[s] = NoRow /\ row'[s] # NoRow => row'[s].reference = None,
             \A r \in Requests : req'[r].saved => req[r].saved
      PROVE  SavedSound'
  BY <1>d, <1>a, <1>c, <1>e DEF SavedSound, RecordedIn
<1>1. ASSUME NEW s \in Sessions, NEW c \in Consultants, NEW t \in Targets, CreateWorkflowSession(s, c, t)
      PROVE ReferenceSound' /\ SavedSound'
  <2>1. /\ row[s] = NoRow /\ row'[s].reference = None /\ row'[s] # NoRow /\ row'[s].status = "started"
        /\ \A o \in Sessions : o # s => row'[o] = row[o]
        /\ order' = order /\ overdue' = overdue /\ req' = req
    BY <1>1, <1>a DEF CreateWorkflowSession, StartSession
  <2>2. ReferenceSound'
    BY <2>1, <1>a, <1>b DEF ReferenceSound
  <2> QED
    BY <2>1, <2>2, <1>d
<1>2. ASSUME NEW s \in Sessions, Expire(s) PROVE ReferenceSound' /\ SavedSound'
  <2>1. row[s] # NoRow /\ overdue' = overdue \cup {s} /\ row' = row /\ order' = order /\ req' = req
    BY <1>2 DEF Expire
  <2> QED
    BY <2>1, <1>a DEF ReferenceSound, SavedSound, RecordedIn
<1>3. CASE ExpireOlderThan
  <2>1. order' = order /\ overdue' = overdue /\ req' = req
    BY <1>3 DEF ExpireOlderThan
  <2>2. ASSUME NEW s \in Sessions
        PROVE  /\ s \notin overdue => row'[s] = row[s]
               /\ row[s] # NoRow => row'[s].reference = row[s].reference
               /\ row[s] = NoRow => row'[s] = NoRow
    <3>1. row'[s] = IF s \in overdue THEN [row[s] EXCEPT !.status = "expired"] ELSE row[s]
      BY <1>3 DEF ExpireOlderThan
    <3>2. row[s] \in Row
      BY <1>a
    <3>3. row[s] = NoRow => s \notin overdue
      BY <1>a DEF ReferenceSound
    <3> QED
      BY <3>1, <3>2, <3>3 DEF Row
  <2>3. ReferenceSound'
    BY <2>1, <2>2, <1>a DEF ReferenceSound, RowsKept
  <2> QED
    BY <2>1, <2>2, <2>3, <1>d
<1>4. ASSUME NEW r \in Requests, Save(r) PROVE ReferenceSound' /\ SavedSound'
  <2> DEFINE s == req[r].session
  <2>1. /\ s \in Sessions /\ row[s] \in Row \ {NoRow} /\ row[s].consultant = req[r].consultant
        /\ req[r].at = "saving" /\ (req[r].status \in Terminal => s \in overdue)
    BY <1>4, <1>a DEF Save, RequestSound, Request
  <2>2. row' = [row EXCEPT ![s] = [row[s] EXCEPT !.status = req[r].status, !.reference = req[r].proposal]]
    BY <1>4 DEF Save, SaveSession
  <2>3. /\ row'[s] # NoRow /\ row'[s].consultant = row[s].consultant
        /\ row'[s].reference = req[r].proposal /\ row'[s].status = req[r].status
    <3>1. row'[s] = [row[s] EXCEPT !.status = req[r].status, !.reference = req[r].proposal]
      BY <2>1, <2>2, <1>a
    <3> QED
      BY <2>1, <3>1 DEF Row
  <2>4. \A o \in Sessions : o # s => row'[o] = row[o]
    BY <2>2, <1>a
  <2>5. order' = order /\ overdue' = overdue
    BY <1>4 DEF Save
  <2>6. /\ req[r].proposal \in Proposals /\ order[req[r].proposal] # NoOrder
        /\ order[req[r].proposal].at = "made" /\ order[req[r].proposal].origin = s
        /\ order[req[r].proposal].consultant = req[r].consultant
    BY <2>1 DEF IInv, OrderSound
  <2>7. ReferenceSound'
    BY <2>1, <2>3, <2>4, <2>5, <2>6, <1>a DEF ReferenceSound
  <2>8. /\ req'[r].session = s /\ req'[r].saved /\ req'[r].proposal = req[r].proposal
        /\ \A q \in Requests : q # r => req'[q] = req[q]
    BY <1>4, <1>a DEF Save, Request
  <2>9. SavedSound'
    <3>1. \A q \in Requests : req'[q].saved => row'[req'[q].session].reference # None
      BY <2>3, <2>4, <2>6, <2>8, <1>a, <1>c DEF SavedSound
    <3>2. ASSUME NEW o \in Sessions, row'[o] # NoRow, row'[o].reference # None
          PROVE  \E q \in Requests : RecordedIn(q, o)' /\ req'[q].proposal = row'[o].reference
      <4>1. CASE o = s
        BY <2>3, <2>8, <4>1 DEF RecordedIn
      <4>2. CASE o # s
        BY <2>4, <3>2, <4>2, <1>a, <1>e DEF SavedSound, RecordedIn
      <4> QED
        BY <4>1, <4>2
    <3> QED
      BY <3>1, <3>2 DEF SavedSound
  <2> QED
    BY <2>7, <2>9
<1>5. ASSUME row' = row, overdue' = overdue,
             \A q \in Requests : req'[q].saved = req[q].saved
      PROVE  ReferenceSound' /\ SavedSound'
  <2>1. ReferenceSound'
    BY <1>5, <1>a, <1>b DEF ReferenceSound, OrdersKept
  <2> QED
    BY <1>5, <2>1, <1>d
<1>6. ASSUME NEW r \in Requests, NEW c \in Consultants, NEW s \in Sessions, Resolve(r, c, s)
      PROVE  ReferenceSound' /\ SavedSound'
  BY <1>6, <1>5, <1>a DEF Resolve, Request
<1>7. ASSUME NEW r \in Requests, NEW c \in Consultants, ResolveBare(r, c) PROVE ReferenceSound' /\ SavedSound'
  BY <1>7, <1>5, <1>a DEF ResolveBare, Request
<1>8. ASSUME NEW r \in Requests, NEW p \in Proposals, Send(r, p) PROVE ReferenceSound' /\ SavedSound'
  BY <1>8, <1>5, <1>a DEF Send, Request
<1>9. ASSUME NEW r \in Requests, Receive(r) PROVE ReferenceSound' /\ SavedSound'
  BY <1>9, <1>5, <1>a DEF Receive, Request
<1>10. ASSUME NEW r \in Requests, CallFails(r) PROVE ReferenceSound' /\ SavedSound'
  BY <1>10, <1>5, <1>a DEF CallFails, Request
<1>11. ASSUME NEW r \in Requests, Advance(r) PROVE ReferenceSound' /\ SavedSound'
  BY <1>11, <1>5, <1>a DEF Advance, SessionExpired, Request
<1>12. ASSUME NEW r \in Requests, SaveFails(r) PROVE ReferenceSound' /\ SavedSound'
  BY <1>12, <1>5, <1>a DEF SaveFails, Request
<1>13. ASSUME NEW r \in Requests, Abandon(r) PROVE ReferenceSound' /\ SavedSound'
  BY <1>13, <1>5, <1>a DEF Abandon, Request
<1>14. ASSUME row' = row, overdue' = overdue, req' = req PROVE ReferenceSound' /\ SavedSound'
  BY <1>14, <1>5
<1> QED
  BY <1>1, <1>2, <1>3, <1>4, <1>6, <1>7, <1>8, <1>9, <1>10, <1>11, <1>12, <1>13, <1>14
     DEF Next, vars, CommitMakes, LegalUpdate

\* What is let through was tied to the caller's session, and stays so.
LEMMA SurfacedStep == IInv /\ [Next]_vars => SurfacedToOwner'
<1> SUFFICES ASSUME IInv, [Next]_vars PROVE SurfacedToOwner'
  OBVIOUS
<1> USE HandoffAssumption DEF HandoffAssumption
<1>a. RowsKept /\ OrdersKept /\ ReferenceSound /\ SurfacedToOwner /\ surfaced \subseteq Consultants \X Proposals
  BY Kept DEF IInv, TypeOK
<1>b. \A u \in surfaced : u[2] \in Proposals /\ order[u[2]] # NoOrder
  BY <1>a DEF SurfacedToOwner
<1>1. ASSUME surfaced' = surfaced PROVE SurfacedToOwner'
  BY <1>1, <1>a, <1>b DEF SurfacedToOwner, RowsKept, OrdersKept
<1>2. ASSUME NEW c \in Consultants, NEW p \in Proposals, LegalUpdate(c, p) PROVE SurfacedToOwner'
  <2>1. PICK s \in Sessions : /\ row[s] # NoRow /\ row[s].consultant = c
                              /\ row[s].target = Commit /\ row[s].reference = p
    BY <1>2 DEF LegalUpdate, TiedToProposal, IsActive
  <2>2. order[p].at = "made" /\ order[p].consultant = c /\ order[p].origin = s
    BY <2>1, <1>a DEF ReferenceSound
  <2>3. surfaced' = surfaced \cup {<<c, p>>} /\ row' = row /\ order' = order
    BY <1>2 DEF LegalUpdate
  <2> QED
    BY <2>1, <2>2, <2>3, <1>a DEF SurfacedToOwner
<1> QED
  BY <1>1, <1>2
     DEF Next, vars, CreateWorkflowSession, StartSession, Expire, ExpireOlderThan, Resolve, ResolveBare, Send, CommitMakes,
         Receive, CallFails, Advance, SessionExpired, Save, SaveFails, Abandon

-----------------------------------------------------------------------------
\* Rows, requests and orders agree with each other at every step of a hand-off
\* (the parts of IInv).
THEOREM Invariance == Spec => []IInv
<1>1. IInv /\ [Next]_vars => IInv'
  <2> SUFFICES ASSUME IInv, [Next]_vars PROVE IInv'
    OBVIOUS
  <2>1. RequestSound' /\ OrderSound'
    BY RequestStep, RetriesStep, OrderStep DEF RequestFine, RequestSound, OrderSound
  <2> QED
    BY <2>1, TypeStep, OrderStep, ReferenceStep, SurfacedStep DEF IInv
<1> QED
  BY <1>1, Initially, PTL DEF Spec

\* filter_conservative_legal_events shows an update to nobody but the
\* consultant whose hand-off the proposal came from.
THEOREM Surfaced == Spec => []SurfacedToOwner
  BY Invariance, PTL DEF IInv

\* create_proposal leaves at most one proposal behind per request.
THEOREM NeverSentTwice == Spec => []OneProposalPerRequest
  BY Invariance, PTL DEF IInv

\* A session that advance_workflow_session has told of a proposal is tied to one
\* that it was told of, whichever requests overlapped.
THEOREM Followed == Spec => []HandoffIsFollowed
<1>1. IInv => HandoffIsFollowed
  <2> SUFFICES ASSUME IInv, NEW s \in Sessions, IsActive(s), row[s].target = Commit,
                      NEW q \in Requests, RecordedIn(q, s)
               PROVE  \E r \in Requests :
                          RecordedIn(r, s) /\ TiedToProposal(req[r].consultant, req[r].proposal)
    BY DEF HandoffIsFollowed
  <2>1. row[s] # NoRow /\ row[s].reference # None
    BY DEF IInv, SavedSound, RecordedIn, IsActive
  <2>2. PICK r \in Requests : RecordedIn(r, s) /\ req[r].proposal = row[s].reference
    BY <2>1 DEF IInv, SavedSound
  <2>3. row[s].consultant = req[r].consultant
    BY <2>2, HandoffAssumption DEF HandoffAssumption, IInv, RequestSound, RecordedIn
  <2>4. TiedToProposal(req[r].consultant, req[r].proposal)
    BY <2>2, <2>3 DEF TiedToProposal
  <2> QED
    BY <2>2, <2>4
<1> QED
  BY <1>1, Invariance, PTL

\* find_active_by_consultant_id's condition on a row never comes back: status is
\* terminal only after the sweep, and the sweep only takes what is overdue.
THEOREM NeverActiveAgain == Spec => InactiveForGood
<1>1. IInv /\ [Next]_vars => \A s \in Sessions : row[s] # NoRow /\ ~IsActive(s) => ~IsActive(s)'
  <2> SUFFICES ASSUME IInv, [Next]_vars, NEW s \in Sessions, row[s] # NoRow, ~IsActive(s)
               PROVE  ~IsActive(s)'
    OBVIOUS
  <2>1. s \in overdue
    BY DEF IInv, ReferenceSound, IsActive
  <2>2. overdue \subseteq overdue'
    BY DEF Next, vars, CreateWorkflowSession, StartSession, Expire, ExpireOlderThan, Resolve, ResolveBare, Send, CommitMakes,
           Receive, CallFails, Advance, SessionExpired, Save, SaveFails, Abandon, LegalUpdate
  <2> QED
    BY <2>1, <2>2 DEF IsActive
<1> QED
  BY <1>1, Invariance, PTL DEF Spec, InactiveForGood

=============================================================================
