---------------------------- MODULE ProspectPipeline ----------------------------
(***************************************************************************)
(* A consultant's prospects, and the requests that change them.            *)
(*                                                                         *)
(* Every handler loads the aggregate, row first and notes second, changes   *)
(* its copy and saves all of it: an upsert of the row, and an insert of     *)
(* each note that is not there yet, in one transaction.  Nothing holds the *)
(* row from the load to the save, so requests for one prospect overlap.    *)
(*                                                                         *)
(* A stage is its place in the funnel: 1 is contacted, Won closed_won (the *)
(* tenth in the code), and Lost closed_lost.  A name stands for the company *)
(* and contact names.  No route deletes a prospect.                        *)
(*                                                                         *)
(* Source: crates/bff-api/src/sales.rs, crates/bff-core/src/prospect.rs,   *)
(* crates/persistence/src/prospect_repository.rs.                          *)
(***************************************************************************)
EXTENDS Naturals

CONSTANTS
    Prospects,
    Consultants,
    Requests,       \* places for a request; each serves one after the other
    Notes,          \* note ids
    Names,          \* what a prospect may be called
    Won             \* the last stage of the funnel

VARIABLES
    row,        \* prospects, by id
    notes,      \* prospect_notes, by prospect: <<id, author>>
    been,       \* the stages a prospect's row has had, for the properties
    req         \* what each request is doing

vars == <<row, notes, been, req>>

ASSUME PipelineAssumption == Won \in Nat /\ Won > 1

Lost == 0
Initial == 1
Stages == 0 .. Won
Terminal == {Won, Lost}

NoRow == [stage |-> "none"]
Idle  == [at |-> "idle"]

Row == {NoRow} \cup [consultant : Consultants, stage : Stages, name : Names]

\* A request under way and its copy of the aggregate.  fresh is for the
\* properties: nobody has saved the prospect since the copy's row was loaded.
Request == {Idle} \cup
    [at : {"loading", "loaded", "saving", "renaming"}, consultant : Consultants,
     prospect : Prospects, stage : Stages, name : Names, notes : SUBSET (Notes \X Consultants), fresh : BOOLEAN]

TypeOK ==
    /\ row \in [Prospects -> Row]
    /\ notes \in [Prospects -> SUBSET (Notes \X Consultants)]
    /\ been \in [Prospects -> SUBSET Stages]
    /\ req \in [Requests -> Request]

Init ==
    /\ row = [p \in Prospects |-> NoRow]
    /\ notes = [p \in Prospects |-> {}]
    /\ been = [p \in Prospects |-> {}]
    /\ req = [r \in Requests |-> Idle]

-----------------------------------------------------------------------------
\* is_valid_transition.
AnyStepForward(from, to) == from \notin Terminal /\ (to = Lost \/ to > from)
IsValidTransition(from, to) ==
    /\ from \notin Terminal
    /\ to = Lost \/ to = from + 1

AnyRow(p, c) == row[p] # NoRow
Owned(p, c) == row[p] # NoRow /\ row[p].consultant = c

NewProspect(c, name) == [consultant |-> c, stage |-> Initial, name |-> name]

\* create_prospect, permitted and saved.
CreateProspect(p, c, name) ==
    /\ row[p] = NoRow
    /\ row' = [row EXCEPT ![p] = NewProspect(c, name)]
    /\ been' = [been EXCEPT ![p] = {Initial}]
    /\ UNCHANGED <<notes, req>>

\* load_owned_prospect reads the row; a prospect that is not there or not the
\* caller's is a 404, which ends the request with nothing done.
Copy(p, c, name) ==
    [at |-> "loading", consultant |-> c, prospect |-> p, stage |-> row[p].stage, name |-> name,
     notes |-> {}, fresh |-> TRUE]

LoadAnyName(r, p, c) ==
    /\ req[r] = Idle
    /\ Owned(p, c)
    /\ \E name \in Names : req' = [req EXCEPT ![r] = Copy(p, c, name)]
    /\ UNCHANGED <<row, notes, been>>
LoadRow(r, p, c) ==
    /\ req[r] = Idle
    /\ Owned(p, c)
    /\ req' = [req EXCEPT ![r] = Copy(p, c, row[p].name)]
    /\ UNCHANGED <<row, notes, been>>

\* hydrate reads the notes, in a statement of its own.
LoadNotes(r) ==
    /\ req[r].at = "loading"
    /\ req' = [req EXCEPT ![r] = [@ EXCEPT !.at = "loaded", !.notes = notes[req[r].prospect]]]
    /\ UNCHANGED <<row, notes, been>>

\* patch_prospect changes names only: a stage in the body would be a way round
\* the matrix.
PatchStage(r, name) ==
    /\ req[r].at = "loaded"
    /\ \E to \in Stages :
        req' = [req EXCEPT ![r] = [@ EXCEPT !.at = "renaming", !.name = name, !.stage = to]]
    /\ UNCHANGED <<row, notes, been>>
PatchProspect(r, name) ==
    /\ req[r].at = "loaded"
    /\ req' = [req EXCEPT ![r] = [@ EXCEPT !.at = "renaming", !.name = name]]
    /\ UNCHANGED <<row, notes, been>>

\* add_prospect_note appends a note with a fresh id to the copy.
FreshNote(n) ==
    /\ \A p \in Prospects : \A note \in notes[p] : note[1] # n
    /\ \A r \in Requests : req[r] # Idle => \A note \in req[r].notes : note[1] # n

AddNote(copy, n) ==
    [copy EXCEPT !.at = "saving", !.notes = copy.notes \cup {<<n, copy.consultant>>}]

AddProspectNote(r, n) ==
    /\ req[r].at = "loaded"
    /\ FreshNote(n)
    /\ req' = [req EXCEPT ![r] = AddNote(req[r], n)]
    /\ UNCHANGED <<row, notes, been>>

\* transition_prospect_stage moves the copy; what the matrix forbids is a 422.
TransitionStage(copy, to) == [copy EXCEPT !.at = "saving", !.stage = to]

TransitionProspectStage(r, to) ==
    /\ req[r].at = "loaded"
    /\ IsValidTransition(req[r].stage, to)
    /\ req' = [req EXCEPT ![r] = TransitionStage(req[r], to)]
    /\ UNCHANGED <<row, notes, been>>

\* ProspectRepository::save, in one transaction.
ReplaceNotes(p, r) == notes' = [notes EXCEPT ![p] = req[r].notes]
InsertNotes(p, r) == notes' = [notes EXCEPT ![p] = @ \cup req[r].notes]

Save(r) ==
    /\ req[r].at \in {"saving", "renaming"}
    /\ LET p == req[r].prospect IN
       /\ row' = [row EXCEPT ![p] = [@ EXCEPT !.stage = req[r].stage, !.name = req[r].name]]
       /\ InsertNotes(p, r)
       /\ been' = [been EXCEPT ![p] = @ \cup {req[r].stage}]
       /\ req' = [q \in Requests |->
                    IF q = r THEN Idle
                    ELSE IF req[q] # Idle /\ req[q].prospect = p THEN [req[q] EXCEPT !.fresh = FALSE]
                    ELSE req[q]]

\* The request is refused, its save is rolled back, or it is dropped.
GiveUp(r) ==
    /\ req[r] # Idle
    /\ req' = [req EXCEPT ![r] = Idle]
    /\ UNCHANGED <<row, notes, been>>

Next ==
    \/ \E p \in Prospects, c \in Consultants, name \in Names : CreateProspect(p, c, name)
    \/ \E r \in Requests, p \in Prospects, c \in Consultants : LoadRow(r, p, c)
    \/ \E r \in Requests : LoadNotes(r) \/ Save(r) \/ GiveUp(r)
    \/ \E r \in Requests, name \in Names : PatchProspect(r, name)
    \/ \E r \in Requests, n \in Notes : AddProspectNote(r, n)
    \/ \E r \in Requests, to \in Stages : TransitionProspectStage(r, to)

Spec == Init /\ [][Next]_vars

-----------------------------------------------------------------------------
(* Properties.                                                             *)

\* "Linear progression through the deal funnel": however requests overlap, a
\* prospect is nowhere in the funnel without having been at every stage before.
FunnelNotSkipped ==
    \A p \in Prospects :
        row[p] # NoRow /\ row[p].stage # Lost => 1 .. row[p].stage \subseteq been[p]

\* "A true history": no save, however old its copy, loses a note of a prospect.
NotesAreAppendOnly ==
    [][\A p \in Prospects : notes[p] \subseteq notes'[p]]_vars

\* A prospect's notes are written by its consultant, whom it never leaves.
NotesByTheConsultant ==
    \A p \in Prospects :
        \A note \in notes[p] : row[p] # NoRow /\ note[2] = row[p].consultant

\* A stage only changes along the matrix unless the request that changes it was
\* overtaken: another save of the prospect came between its load and its save.
\* Even then the stage is one the prospect has had, or one valid step from one.
MatrixUnlessOvertaken ==
    [][\A p \in Prospects :
         row[p] # NoRow /\ row'[p].stage # row[p].stage =>
             \/ IsValidTransition(row[p].stage, row'[p].stage)
             \/ /\ \E r \in Requests :
                       req[r] # Idle /\ req[r].prospect = p /\ ~req[r].fresh /\ req'[r] = Idle
                /\ \E from \in been[p] :
                       row'[p].stage = from \/ IsValidTransition(from, row'[p].stage)]_vars

\* A prospect is called something else only when a PATCH asked for it, or when
\* the save that did it was overtaken: an old name never returns otherwise.
RenamedUnlessOvertaken ==
    [][\A p \in Prospects :
         row[p] # NoRow /\ row'[p].name # row[p].name =>
             \E r \in Requests :
                 /\ req[r] # Idle /\ req[r].prospect = p /\ req'[r] = Idle
                 /\ req[r].at = "renaming" \/ ~req[r].fresh]_vars

\* "No transition ever valid out of a terminal stage", as the row shows it.
TerminalForGood ==
    [][\A p \in Prospects :
         row[p] # NoRow /\ row[p].stage \in Terminal => row'[p].stage = row[p].stage]_vars

-----------------------------------------------------------------------------
(* The inductive invariant behind them.                                    *)

\* The row's stage is among those it has had, and those are gapless.
StagesSound ==
    \A p \in Prospects :
        /\ row[p] = NoRow => been[p] = {} /\ notes[p] = {}
        /\ row[p] # NoRow => row[p].stage \in been[p]
        /\ \A k \in been[p] : 1 .. k \subseteq been[p]

\* A copy's stage is one the row has had, or one valid step from it; a fresh
\* copy's is the row's own, or one valid step from that, and its name the row's
\* unless it is to change it.
CopiesSound ==
    \A r \in Requests : req[r] # Idle =>
        LET p == req[r].prospect
            s == req[r].stage IN
        /\ row[p] # NoRow /\ row[p].consultant = req[r].consultant
        /\ \A note \in req[r].notes : note[2] = req[r].consultant
        /\ \/ s \in been[p]
           \/ req[r].at = "saving" /\ \E from \in been[p] : IsValidTransition(from, s)
        /\ req[r].fresh =>
               \/ s = row[p].stage
               \/ req[r].at = "saving" /\ IsValidTransition(row[p].stage, s)
        /\ req[r].fresh => req[r].name = row[p].name \/ req[r].at = "renaming"

IInv == TypeOK /\ StagesSound /\ CopiesSound /\ NotesByTheConsultant

=============================================================================
