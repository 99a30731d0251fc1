------------------------ MODULE ProspectPipeline_proofs ------------------------
(***************************************************************************)
(* Proofs about ProspectPipeline, for every set of prospects, consultants, *)
(* requests, notes and names, and every length of the funnel.                     *)
(***************************************************************************)
EXTENDS ProspectPipeline, TLAPS

USE PipelineAssumption DEF PipelineAssumption, Lost, Initial, Stages, Terminal, NoRow, Idle, Owned,
    IsValidTransition

\* What Init says satisfies the inductive invariant.
LEMMA Initially == Init => IInv
  BY DEF Init, IInv, TypeOK, Row, Request, StagesSound, CopiesSound, NotesByTheConsultant

\* A copy's fields, once its type is known.
LEMMA CopyType ==
  ASSUME TypeOK, NEW r \in Requests, req[r] # Idle
  PROVE  /\ req[r] \in Request \ {Idle}
         /\ req[r].at \in {"loading", "loaded", "saving", "renaming"} /\ req[r].name \in Names
         /\ req[r].consultant \in Consultants /\ req[r].prospect \in Prospects
         /\ req[r].stage \in Stages /\ req[r].notes \in SUBSET (Notes \X Consultants)
         /\ req[r].fresh \in BOOLEAN
  BY DEF TypeOK, Request

\* What each of the four steps within a request does to its copy.
LEMMA CopyStep ==
  ASSUME IInv, NEW r \in Requests,
         \/ LoadNotes(r)
         \/ \E name \in Names : PatchProspect(r, name)
         \/ \E n \in Notes : AddProspectNote(r, n)
         \/ \E to \in Stages : TransitionProspectStage(r, to)
  PROVE  /\ req[r] # Idle /\ req'[r] \in Request \ {Idle}
         /\ \A q \in Requests : q # r => req'[q] = req[q]
         /\ req' \in [Requests -> Request]
         /\ req'[r].prospect = req[r].prospect /\ req'[r].consultant = req[r].consultant
         /\ req'[r].fresh = req[r].fresh
         /\ \A note \in req'[r].notes :
               note \in notes[req[r].prospect] \/ note \in req[r].notes \/ note[2] = req[r].consultant
         /\ \/ req'[r].stage = req[r].stage
            \/ /\ req[r].at = "loaded" /\ req'[r].at = "saving"
               /\ req'[r].stage \in Stages /\ IsValidTransition(req[r].stage, req'[r].stage)
         /\ req'[r].name = req[r].name \/ req'[r].at = "renaming"
         /\ req[r].at \notin {"saving", "renaming"}
<1>0. req \in [Requests -> Request] /\ notes \in [Prospects -> SUBSET (Notes \X Consultants)]
  BY DEF IInv, TypeOK
<1>a. req[r].at \in {"loading", "loaded"}
  BY DEF LoadNotes, PatchProspect, AddProspectNote, AddNote, TransitionProspectStage, TransitionStage
<1>1. req[r] # Idle /\ req[r].at \notin {"saving", "renaming"}
  BY <1>a
<1>2. /\ req[r] \in Request \ {Idle}
      /\ req[r].at \in {"loading", "loaded", "saving", "renaming"} /\ req[r].name \in Names
      /\ req[r].consultant \in Consultants /\ req[r].prospect \in Prospects
      /\ req[r].stage \in Stages /\ req[r].notes \in SUBSET (Notes \X Consultants)
      /\ req[r].fresh \in BOOLEAN
  BY <1>1, CopyType DEF IInv
<1>3. CASE LoadNotes(r)
  <2>1. req' = [req EXCEPT ![r] = [req[r] EXCEPT !.at = "loaded", !.notes = notes[req[r].prospect]]]
    BY <1>3 DEF LoadNotes
  <2>2. req'[r] = [req[r] EXCEPT !.at = "loaded", !.notes = notes[req[r].prospect]]
    BY <2>1, <1>0
  <2>3. [req[r] EXCEPT !.at = "loaded", !.notes = notes[req[r].prospect]] \in Request \ {Idle}
    BY <1>0, <1>2 DEF Request
  <2>4. /\ req'[r].prospect = req[r].prospect /\ req'[r].consultant = req[r].consultant
        /\ req'[r].fresh = req[r].fresh /\ req'[r].stage = req[r].stage
        /\ req'[r].notes = notes[req[r].prospect] /\ req'[r].name = req[r].name
    BY <2>2, <1>2 DEF Request
  <2> QED
    BY <1>0, <1>1, <2>1, <2>2, <2>3, <2>4
<1>4. ASSUME NEW name \in Names, PatchProspect(r, name)
      PROVE  /\ req'[r] \in Request \ {Idle} /\ req' \in [Requests -> Request]
             /\ \A q \in Requests : q # r => req'[q] = req[q]
             /\ req'[r].prospect = req[r].prospect /\ req'[r].consultant = req[r].consultant
             /\ req'[r].fresh = req[r].fresh /\ req'[r].stage = req[r].stage
             /\ req'[r].notes = req[r].notes /\ req'[r].at = "renaming"
  <2> DEFINE copy == [req[r] EXCEPT !.at = "renaming", !.name = name]
  <2>1. req' = [req EXCEPT ![r] = copy]
    BY <1>4 DEF PatchProspect
  <2>2. req'[r] = copy
    BY <2>1, <1>0
  <2>3. copy \in Request \ {Idle}
    BY <1>2 DEF Request
  <2>4. /\ copy.prospect = req[r].prospect /\ copy.consultant = req[r].consultant
        /\ copy.fresh = req[r].fresh /\ copy.stage = req[r].stage /\ copy.notes = req[r].notes
        /\ copy.at = "renaming"
    BY <1>2 DEF Request
  <2> HIDE DEF copy
  <2> QED
    BY <1>0, <2>1, <2>2, <2>3, <2>4
<1>5. ASSUME NEW n \in Notes, AddProspectNote(r, n)
      PROVE  /\ req'[r] \in Request \ {Idle} /\ req' \in [Requests -> Request]
             /\ \A q \in Requests : q # r => req'[q] = req[q]
             /\ req'[r].prospect = req[r].prospect /\ req'[r].consultant = req[r].consultant
             /\ req'[r].fresh = req[r].fresh /\ req'[r].stage = req[r].stage
             /\ req'[r].notes = req[r].notes \cup {<<n, req[r].consultant>>}
             /\ req'[r].name = req[r].name
  <2> DEFINE copy == [req[r] EXCEPT !.at = "saving",
                                    !.notes = req[r].notes \cup {<<n, req[r].consultant>>}]
  <2>1. req' = [req EXCEPT ![r] = copy]
    BY <1>5 DEF AddProspectNote, AddNote
  <2>2. req'[r] = copy
    BY <2>1, <1>0
  <2>5. req[r].notes \cup {<<n, req[r].consultant>>} \in SUBSET (Notes \X Consultants)
    BY <1>2
  <2>3. copy \in Request \ {Idle}
    BY <1>2, <2>5 DEF Request
  <2>4. /\ copy.prospect = req[r].prospect /\ copy.consultant = req[r].consultant
        /\ copy.fresh = req[r].fresh /\ copy.stage = req[r].stage
        /\ copy.notes = req[r].notes \cup {<<n, req[r].consultant>>} /\ copy.name = req[r].name
    BY <1>2 DEF Request
  <2> HIDE DEF copy
  <2> QED
    BY <1>0, <2>1, <2>2, <2>3, <2>4
<1>6. ASSUME NEW to \in Stages, TransitionProspectStage(r, to)
      PROVE  /\ req'[r] \in Request \ {Idle} /\ req' \in [Requests -> Request]
             /\ \A q \in Requests : q # r => req'[q] = req[q]
             /\ req'[r].prospect = req[r].prospect /\ req'[r].consultant = req[r].consultant
             /\ req'[r].fresh = req[r].fresh /\ req'[r].notes = req[r].notes
             /\ req[r].at = "loaded" /\ req'[r].at = "saving" /\ req'[r].stage = to
             /\ IsValidTransition(req[r].stage, to) /\ req'[r].name = req[r].name
  <2> DEFINE copy == [req[r] EXCEPT !.at = "saving", !.stage = to]
  <2>1. req' = [req EXCEPT ![r] = copy] /\ req[r].at = "loaded" /\ IsValidTransition(req[r].stage, to)
    BY <1>6 DEF TransitionProspectStage, TransitionStage
  <2>2. req'[r] = copy
    BY <2>1, <1>0
  <2>3. copy \in Request \ {Idle}
    BY <1>2 DEF Request
  <2>4. /\ copy.prospect = req[r].prospect /\ copy.consultant = req[r].consultant
        /\ copy.fresh = req[r].fresh /\ copy.stage = to /\ copy.at = "saving" /\ copy.notes = req[r].notes
        /\ copy.name = req[r].name
    BY <1>2 DEF Request
  <2> HIDE DEF copy
  <2> QED
    BY <1>0, <2>1, <2>2, <2>3, <2>4
<1> QED
  BY <1>1, <1>3, <1>4, <1>5, <1>6

\* The copies of other requests after a save, and those of one prospect in
\* particular, which are no longer fresh.
LEMMA SaveStep ==
  ASSUME IInv, NEW r \in Requests, Save(r), NEW q \in Requests
  PROVE  /\ req'[q] \in Request
         /\ q = r => req'[q] = Idle
         /\ req[q] = Idle => req'[q] = Idle
         /\ req'[q] # Idle =>
              /\ req'[q].at = req[q].at /\ req'[q].consultant = req[q].consultant
              /\ req'[q].prospect = req[q].prospect /\ req'[q].stage = req[q].stage
              /\ req'[q].notes = req[q].notes /\ req'[q].name = req[q].name
              /\ req'[q].fresh => req[q].fresh /\ req[q].prospect # req[r].prospect
<1>1. req[q] \in Request
  BY DEF IInv, TypeOK
<1>2. req'[q] = IF q = r THEN Idle
                ELSE IF req[q] # Idle /\ req[q].prospect = req[r].prospect
                     THEN [req[q] EXCEPT !.fresh = FALSE]
                     ELSE req[q]
  BY DEF Save
<1>3. CASE q = r \/ req[q] = Idle \/ req[q].prospect # req[r].prospect
  BY <1>1, <1>2, <1>3 DEF Request
<1>4. CASE q # r /\ req[q] # Idle /\ req[q].prospect = req[r].prospect
  <2>1. req'[q] = [req[q] EXCEPT !.fresh = FALSE]
    BY <1>2, <1>4
  <2>2. req[q] \in Request \ {Idle}
    BY <1>1, <1>4
  <2>3. [req[q] EXCEPT !.fresh = FALSE] \in Request \ {Idle}
    BY <2>2 DEF Request
  <2>4. /\ req'[q].at = req[q].at /\ req'[q].consultant = req[q].consultant
        /\ req'[q].prospect = req[q].prospect /\ req'[q].stage = req[q].stage
        /\ req'[q].notes = req[q].notes /\ req'[q].name = req[q].name /\ req'[q].fresh = FALSE
    BY <2>1, <2>2 DEF Request
  <2> QED
    BY <1>4, <2>1, <2>3, <2>4
<1> QED
  BY <1>3, <1>4

\* What a save does to the rows.
LEMMA SaveRow ==
  ASSUME IInv, NEW r \in Requests, Save(r)
  PROVE  LET p == req[r].prospect IN
         /\ req[r] # Idle /\ p \in Prospects /\ row[p] # NoRow
         /\ row' \in [Prospects -> Row]
         /\ row'[p] # NoRow /\ row'[p].consultant = row[p].consultant /\ row'[p].stage = req[r].stage
         /\ row'[p].name = req[r].name /\ req[r].at \in {"saving", "renaming"}
         /\ \A o \in Prospects : o # p => row'[o] = row[o]
         /\ notes' = [notes EXCEPT ![p] = notes[p] \cup req[r].notes]
         /\ been' = [been EXCEPT ![p] = been[p] \cup {req[r].stage}]
         /\ req[r].stage \in Stages /\ req[r].notes \in SUBSET (Notes \X Consultants)
<1> DEFINE p == req[r].prospect
<1>1. req[r] # Idle /\ req[r].at \in {"saving", "renaming"}
  BY DEF Save
<1>2. /\ p \in Prospects /\ req[r].stage \in Stages /\ req[r].notes \in SUBSET (Notes \X Consultants)
      /\ req[r].name \in Names
  BY <1>1, CopyType DEF IInv
<1>3. row \in [Prospects -> Row] /\ row[p] \in Row \ {NoRow}
  BY <1>1, <1>2 DEF IInv, TypeOK, CopiesSound
<1>4. row' = [row EXCEPT ![p] = [row[p] EXCEPT !.stage = req[r].stage, !.name = req[r].name]]
  BY DEF Save
<1>5. [row[p] EXCEPT !.stage = req[r].stage, !.name = req[r].name] \in Row \ {NoRow}
  BY <1>2, <1>3 DEF Row
<1>6. row'[p].consultant = row[p].consultant /\ row'[p].stage = req[r].stage /\ row'[p] # NoRow
      /\ row'[p].name = req[r].name
  BY <1>2, <1>3, <1>4, <1>5 DEF Row
<1>7. row' \in [Prospects -> Row] /\ \A o \in Prospects : o # p => row'[o] = row[o]
  BY <1>2, <1>3, <1>4, <1>5
<1>8. /\ notes' = [notes EXCEPT ![p] = notes[p] \cup req[r].notes]
      /\ been' = [been EXCEPT ![p] = been[p] \cup {req[r].stage}]
  BY DEF Save, InsertNotes
<1> QED
  BY <1>1, <1>2, <1>3, <1>6, <1>7, <1>8

\* The variables keep their types.
LEMMA TypeStep == IInv /\ [Next]_vars => TypeOK'
<1> SUFFICES ASSUME IInv, [Next]_vars PROVE TypeOK'
  OBVIOUS
<1>a. TypeOK
  BY DEF IInv
<1>1. ASSUME NEW p \in Prospects, NEW c \in Consultants, NEW name \in Names,
             CreateProspect(p, c, name)
      PROVE  TypeOK'
  BY <1>a, <1>1 DEF CreateProspect, NewProspect, TypeOK, Row
<1>2. ASSUME NEW r \in Requests, NEW p \in Prospects, NEW c \in Consultants, LoadRow(r, p, c) PROVE TypeOK'
  <2>1. row[p].stage \in Stages /\ row[p].name \in Names
    BY <1>a, <1>2 DEF LoadRow, TypeOK, Row
  <2>2. Copy(p, c, row[p].name) \in Request
    BY <2>1 DEF Request, Copy
  <2> QED
    BY <1>a, <1>2, <2>2 DEF LoadRow, TypeOK
<1>3. ASSUME NEW r \in Requests,
             \/ LoadNotes(r)
             \/ \E name \in Names : PatchProspect(r, name)
             \/ \E n \in Notes : AddProspectNote(r, n)
             \/ \E to \in Stages : TransitionProspectStage(r, to)
      PROVE  TypeOK'
  <2>1. req' \in [Requests -> Request]
    BY <1>3, CopyStep
  <2>2. UNCHANGED <<row, notes, been>>
    BY <1>3 DEF LoadNotes, PatchProspect, AddProspectNote, AddNote, TransitionProspectStage, TransitionStage
  <2> QED
    BY <1>a, <2>1, <2>2 DEF TypeOK
<1>4. ASSUME NEW r \in Requests, Save(r) PROVE TypeOK'
  <2>1. \A q \in Requests : req'[q] \in Request
    BY <1>4, SaveStep
  <2>2. req' \in [Requests -> Request]
    BY <1>4, <2>1 DEF Save
  <2>3. row' \in [Prospects -> Row]
    BY <1>4, SaveRow
  <2>4. /\ notes' \in [Prospects -> SUBSET (Notes \X Consultants)]
        /\ been' \in [Prospects -> SUBSET Stages]
    BY <1>a, <1>4, SaveRow DEF TypeOK
  <2> QED
    BY <2>2, <2>3, <2>4 DEF TypeOK
<1>5. ASSUME NEW r \in Requests, GiveUp(r) PROVE TypeOK'
  BY <1>a, <1>5 DEF GiveUp, TypeOK, Request
<1>6. CASE UNCHANGED vars
  BY <1>a, <1>6 DEF vars, TypeOK
<1> QED
  BY <1>1, <1>2, <1>3, <1>4, <1>5, <1>6 DEF Next

\* What a request may save extends the stages its prospect has had without a
\* gap: it is one of them or one step from one.
LEMMA Gapless ==
  ASSUME NEW B \in SUBSET Stages, NEW s \in Stages,
         \A k \in B : 1 .. k \subseteq B,
         s \in B \/ \E from \in B : IsValidTransition(from, s)
  PROVE  \A k \in B \cup {s} : 1 .. k \subseteq B \cup {s}
<1>1. CASE s \in B
  BY <1>1
<1>2. ASSUME NEW from \in B, IsValidTransition(from, s), s # Lost
      PROVE  1 .. s \subseteq B \cup {s}
  <2>1. s = from + 1 /\ from \in Nat /\ from # 0
    BY <1>2
  <2>2. from \in 1 .. from /\ 1 .. from \subseteq B
    BY <2>1
  <2> QED
    BY <2>1, <2>2
<1>3. CASE s = Lost
  BY <1>3
<1> QED
  BY <1>1, <1>2, <1>3

LEMMA StagesStep == IInv /\ [Next]_vars => StagesSound'
<1> SUFFICES ASSUME IInv, [Next]_vars PROVE StagesSound'
  OBVIOUS
<1>a. StagesSound /\ TypeOK
  BY DEF IInv
<1>1. ASSUME NEW p \in Prospects, NEW c \in Consultants, NEW name \in Names,
             CreateProspect(p, c, name)
      PROVE  StagesSound'
  <2>1. /\ row'[p].stage = 1 /\ row'[p] # NoRow /\ been'[p] = {1} /\ notes' = notes
        /\ \A o \in Prospects : o # p => row'[o] = row[o] /\ been'[o] = been[o]
    BY <1>a, <1>1 DEF CreateProspect, NewProspect, TypeOK
  <2> QED
    BY <1>a, <2>1 DEF StagesSound
<1>2. ASSUME NEW r \in Requests, Save(r) PROVE StagesSound'
  <2> DEFINE p == req[r].prospect
             s == req[r].stage
  <2>1. /\ p \in Prospects /\ row'[p] # NoRow /\ row'[p].stage = s /\ s \in Stages
        /\ \A o \in Prospects : o # p => row'[o] = row[o] /\ been'[o] = been[o] /\ notes'[o] = notes[o]
        /\ been'[p] = been[p] \cup {s} /\ been[p] \in SUBSET Stages
    BY <1>a, <1>2, SaveRow DEF TypeOK
  <2>2. s \in been[p] \/ \E from \in been[p] : IsValidTransition(from, s)
    BY <1>2 DEF Save, IInv, CopiesSound
  <2>3. \A k \in been[p] : 1 .. k \subseteq been[p]
    BY <1>a, <2>1 DEF StagesSound
  <2>4. \A k \in been[p] \cup {s} : 1 .. k \subseteq been[p] \cup {s}
    BY <2>1, <2>2, <2>3, Gapless
  <2> QED
    BY <1>a, <2>1, <2>4 DEF StagesSound
<1>3. ASSUME UNCHANGED <<row, notes, been>> PROVE StagesSound'
  BY <1>a, <1>3 DEF StagesSound
<1> QED
  BY <1>1, <1>2, <1>3
     DEF Next, vars, LoadRow, LoadNotes, PatchProspect, AddProspectNote, AddNote, TransitionProspectStage, TransitionStage, GiveUp

\* CopiesSound of one request.
CopyFine(r) ==
    req[r] # Idle =>
        /\ row[req[r].prospect] # NoRow /\ row[req[r].prospect].consultant = req[r].consultant
        /\ \A note \in req[r].notes : note[2] = req[r].consultant
        /\ \/ req[r].stage \in been[req[r].prospect]
           \/ /\ req[r].at = "saving"
              /\ \E from \in been[req[r].prospect] : IsValidTransition(from, req[r].stage)
        /\ req[r].fresh =>
               /\ \/ req[r].stage = row[req[r].prospect].stage
                  \/ req[r].at = "saving" /\ IsValidTransition(row[req[r].prospect].stage, req[r].stage)
               /\ req[r].name = row[req[r].prospect].name \/ req[r].at = "renaming"

\* A copy that stays as it is stays sound while its prospect does.
LEMMA StillFine ==
  ASSUME NEW q \in Requests, CopyFine(q), req'[q] = req[q],
         req[q] # Idle => /\ row'[req[q].prospect] = row[req[q].prospect]
                          /\ been'[req[q].prospect] = been[req[q].prospect]
  PROVE  CopyFine(q)'
  BY DEF CopyFine

LEMMA CopiesStep == IInv /\ [Next]_vars => CopiesSound'
<1> SUFFICES ASSUME IInv, [Next]_vars, NEW q \in Requests PROVE CopyFine(q)'
  BY DEF CopiesSound, CopyFine
<1>a. TypeOK /\ StagesSound /\ CopyFine(q) /\ NotesByTheConsultant
  BY DEF IInv, CopiesSound, CopyFine
<1>b. req[q] # Idle => req[q].prospect \in Prospects
  BY <1>a, CopyType
<1>1. ASSUME NEW p \in Prospects, NEW c \in Consultants, NEW name \in Names,
             CreateProspect(p, c, name)
      PROVE  CopyFine(q)'
  <2>1. /\ row[p] = NoRow /\ req' = req
        /\ \A o \in Prospects : o # p => row'[o] = row[o] /\ been'[o] = been[o]
    BY <1>a, <1>1 DEF CreateProspect, NewProspect, TypeOK
  <2>2. req[q] # Idle => req[q].prospect # p
    BY <1>a, <2>1 DEF CopyFine
  <2>3. req[q] # Idle => /\ row'[req[q].prospect] = row[req[q].prospect]
                         /\ been'[req[q].prospect] = been[req[q].prospect]
    BY <1>b, <2>1, <2>2
  <2> QED
    BY <1>a, <2>1, <2>3, StillFine
<1>2. ASSUME NEW r \in Requests, NEW p \in Prospects, NEW c \in Consultants, LoadRow(r, p, c)
      PROVE  CopyFine(q)'
  <2>1. row' = row /\ been' = been /\ row[p] # NoRow /\ row[p].consultant = c
    BY <1>2 DEF LoadRow
  <2>2. CASE q = r
    <3>1. req'[q] = [at |-> "loading", consultant |-> c, prospect |-> p, stage |-> row[p].stage,
                     name |-> row[p].name, notes |-> {}, fresh |-> TRUE]
      BY <1>a, <1>2, <2>2 DEF LoadRow, Copy, TypeOK
    <3>2. row[p].stage \in been[p]
      BY <1>a, <2>1 DEF StagesSound
    <3> QED
      BY <2>1, <3>1, <3>2 DEF CopyFine
  <2>3. CASE q # r
    <3>1. req'[q] = req[q]
      BY <1>a, <1>2, <2>3 DEF LoadRow, TypeOK
    <3> QED
      BY <1>a, <2>1, <3>1, StillFine
  <2> QED
    BY <2>2, <2>3
<1>3. ASSUME NEW r \in Requests,
             \/ LoadNotes(r)
             \/ \E name \in Names : PatchProspect(r, name)
             \/ \E n \in Notes : AddProspectNote(r, n)
             \/ \E to \in Stages : TransitionProspectStage(r, to)
      PROVE  CopyFine(q)'
  <2>1. UNCHANGED <<row, notes, been>>
    BY <1>3 DEF LoadNotes, PatchProspect, AddProspectNote, AddNote, TransitionProspectStage, TransitionStage
  <2>2. CASE q = r
    <3> DEFINE p == req[q].prospect
    <3>1. /\ req[q] # Idle /\ req[q].at \notin {"saving", "renaming"}
          /\ req'[q].name = req[q].name \/ req'[q].at = "renaming"
          /\ req'[q].prospect = p /\ req'[q].consultant = req[q].consultant
          /\ req'[q].fresh = req[q].fresh
          /\ \A note \in req'[q].notes :
                note \in notes[p] \/ note \in req[q].notes \/ note[2] = req[q].consultant
          /\ \/ req'[q].stage = req[q].stage
             \/ req'[q].at = "saving" /\ IsValidTransition(req[q].stage, req'[q].stage)
      BY <1>3, <2>2, CopyStep
    <3>2. /\ row[p] # NoRow /\ row[p].consultant = req[q].consultant
          /\ \A note \in req[q].notes : note[2] = req[q].consultant
          /\ req[q].stage \in been[p]
          /\ req[q].fresh => req[q].stage = row[p].stage /\ req[q].name = row[p].name
      BY <1>a, <3>1 DEF CopyFine
    <3>3. \A note \in req'[q].notes : note[2] = req[q].consultant
      BY <1>a, <1>b, <3>1, <3>2 DEF NotesByTheConsultant
    <3> QED
      BY <2>1, <3>1, <3>2, <3>3 DEF CopyFine
  <2>3. CASE q # r
    <3>1. req'[q] = req[q]
      BY <1>3, <2>3, CopyStep
    <3> QED
      BY <1>a, <2>1, <3>1, StillFine
  <2> QED
    BY <2>2, <2>3
<1>4. ASSUME NEW r \in Requests, Save(r) PROVE CopyFine(q)'
  <2> DEFINE p == req[r].prospect
             o == req[q].prospect
  <2> SUFFICES ASSUME req'[q] # Idle PROVE CopyFine(q)'
    BY DEF CopyFine
  <2>1. /\ req[q] # Idle
        /\ req'[q].at = req[q].at /\ req'[q].consultant = req[q].consultant
        /\ req'[q].prospect = o /\ req'[q].stage = req[q].stage /\ req'[q].notes = req[q].notes
        /\ req'[q].name = req[q].name
        /\ req'[q].fresh => req[q].fresh /\ o # p
    BY <1>4, SaveStep
  <2>2. o \in Prospects
    BY <1>b, <2>1
  <2>3. /\ p \in Prospects /\ row[p] # NoRow
        /\ row'[p] # NoRow /\ row'[p].consultant = row[p].consultant
        /\ o # p => row'[o] = row[o]
        /\ been' = [been EXCEPT ![p] = been[p] \cup {req[r].stage}]
    BY <1>4, <2>2, SaveRow
  <2>4. row[o] # NoRow /\ row[o].consultant = req[q].consultant
    BY <1>a, <2>1 DEF CopyFine
  <2>5. row'[o] # NoRow /\ row'[o].consultant = req[q].consultant
    BY <2>3, <2>4
  <2>6. been[o] \subseteq been'[o]
    BY <1>a, <2>2, <2>3 DEF TypeOK
  <2>7. /\ \A note \in req[q].notes : note[2] = req[q].consultant
        /\ \/ req[q].stage \in been[o]
           \/ req[q].at = "saving" /\ \E from \in been[o] : IsValidTransition(from, req[q].stage)
    BY <1>a, <2>1 DEF CopyFine
  <2>8. req'[q].fresh => /\ row'[o] = row[o]
                         /\ \/ req[q].stage = row[o].stage
                            \/ req[q].at = "saving" /\ IsValidTransition(row[o].stage, req[q].stage)
                         /\ req[q].name = row[o].name \/ req[q].at = "renaming"
    BY <1>a, <2>1, <2>3 DEF CopyFine
  <2> HIDE DEF o, p
  <2>9. \/ req[q].stage \in been'[o]
        \/ req[q].at = "saving" /\ \E from \in been'[o] : IsValidTransition(from, req[q].stage)
    BY <2>6, <2>7
  <2> QED
    BY <2>1, <2>5, <2>7, <2>8, <2>9 DEF CopyFine
<1>5. ASSUME NEW r \in Requests, GiveUp(r) PROVE CopyFine(q)'
  <2>1. row' = row /\ been' = been /\ req'[q] \in {Idle, req[q]}
    BY <1>a, <1>5 DEF GiveUp, TypeOK
  <2> QED
    BY <1>a, <2>1, StillFine DEF CopyFine
<1>6. CASE UNCHANGED vars
  BY <1>a, <1>6, StillFine DEF vars
<1> QED
  BY <1>1, <1>2, <1>3, <1>4, <1>5, <1>6 DEF Next

LEMMA NotesStep == IInv /\ [Next]_vars => NotesByTheConsultant'
<1> SUFFICES ASSUME IInv, [Next]_vars PROVE NotesByTheConsultant'
  OBVIOUS
<1>a. TypeOK /\ StagesSound /\ NotesByTheConsultant
  BY DEF IInv
<1>1. ASSUME NEW p \in Prospects, NEW c \in Consultants, NEW name \in Names,
             CreateProspect(p, c, name)
      PROVE  NotesByTheConsultant'
  <2>1. /\ row[p] = NoRow /\ notes' = notes
        /\ \A o \in Prospects : o # p => row'[o] = row[o]
    BY <1>a, <1>1 DEF CreateProspect, NewProspect, TypeOK
  <2>2. notes[p] = {}
    BY <1>a, <2>1 DEF StagesSound
  <2> QED
    BY <1>a, <2>1, <2>2 DEF NotesByTheConsultant
<1>2. ASSUME NEW r \in Requests, Save(r) PROVE NotesByTheConsultant'
  <2> DEFINE p == req[r].prospect
  <2>1. /\ req[r] # Idle /\ p \in Prospects
        /\ row'[p] # NoRow /\ row'[p].consultant = row[p].consultant
        /\ \A o \in Prospects : o # p => row'[o] = row[o] /\ notes'[o] = notes[o]
        /\ notes'[p] = notes[p] \cup req[r].notes
    BY <1>a, <1>2, SaveRow DEF TypeOK
  <2>2. \A note \in req[r].notes : note[2] = row[p].consultant
    BY <2>1 DEF IInv, CopiesSound
  <2> QED
    BY <1>a, <2>1, <2>2 DEF NotesByTheConsultant
<1>3. ASSUME UNCHANGED <<row, notes>> PROVE NotesByTheConsultant'
  BY <1>a, <1>3 DEF NotesByTheConsultant
<1> QED
  BY <1>1, <1>2, <1>3
     DEF Next, vars, LoadRow, LoadNotes, PatchProspect, AddProspectNote, AddNote, TransitionProspectStage, TransitionStage, GiveUp

-----------------------------------------------------------------------------
\* Rows, what they have been, and the copies under way agree with each other
\* however the handlers of sales.rs overlap.
THEOREM Invariance == Spec => []IInv
<1>1. IInv /\ [Next]_vars => IInv'
  BY TypeStep, StagesStep, CopiesStep, NotesStep DEF IInv
<1> QED
  BY <1>1, Initially, PTL DEF Spec

\* transition_prospect_stage lets no prospect skip a stage of the funnel.
THEOREM NothingSkipped == Spec => []FunnelNotSkipped
<1>1. IInv => FunnelNotSkipped
  BY DEF IInv, StagesSound, FunnelNotSkipped
<1> QED
  BY <1>1, Invariance, PTL

\* The author of every prospect_notes row is its prospect's consultant.
THEOREM Authors == Spec => []NotesByTheConsultant
  BY Invariance, PTL DEF IInv

\* prospect_notes only ever grows.
THEOREM AppendOnly == Spec => NotesAreAppendOnly
<1>1. IInv /\ [Next]_vars => \A p \in Prospects : notes[p] \subseteq notes'[p]
  <2> SUFFICES ASSUME IInv, [Next]_vars PROVE \A p \in Prospects : notes[p] \subseteq notes'[p]
    OBVIOUS
  <2>1. ASSUME NEW r \in Requests, Save(r) PROVE \A p \in Prospects : notes[p] \subseteq notes'[p]
    BY <2>1, SaveRow DEF IInv, TypeOK
  <2>2. CASE notes' = notes
    BY <2>2
  <2> QED
    BY <2>1, <2>2
       DEF Next, vars, CreateProspect, NewProspect, LoadRow, LoadNotes, PatchProspect, AddProspectNote, AddNote,
           TransitionProspectStage, TransitionStage, GiveUp
<1> QED
  BY <1>1, Invariance, PTL DEF Spec, NotesAreAppendOnly

\* A stage changes against is_valid_transition only in a save that another one
\* of the same prospect overtook, and only to where the prospect might have gone
\* from a stage it has had.
THEOREM Overtaken == Spec => MatrixUnlessOvertaken
<1> DEFINE OvertakenAt(p) ==
               \E r \in Requests :
                   req[r] # Idle /\ req[r].prospect = p /\ ~req[r].fresh /\ req'[r] = Idle
           FromWhereItWas(p) ==
               \E from \in been[p] :
                   row'[p].stage = from \/ IsValidTransition(from, row'[p].stage)
           Step == \A p \in Prospects :
                     row[p] # NoRow /\ row'[p].stage # row[p].stage =>
                       \/ IsValidTransition(row[p].stage, row'[p].stage)
                       \/ /\ OvertakenAt(p)
                          /\ FromWhereItWas(p)
<1>1. IInv /\ [Next]_vars => Step
  <2> SUFFICES ASSUME IInv, [Next]_vars,
                      NEW p \in Prospects, row[p] # NoRow, row'[p].stage # row[p].stage
               PROVE  \/ IsValidTransition(row[p].stage, row'[p].stage)
                      \/ OvertakenAt(p) /\ FromWhereItWas(p)
    OBVIOUS
  <2>1. ASSUME NEW o \in Prospects, NEW c \in Consultants, NEW name \in Names,
               CreateProspect(o, c, name)
        PROVE  FALSE
    BY <2>1 DEF CreateProspect, NewProspect, IInv, TypeOK
  <2>2. PICK r \in Requests : Save(r)
    BY <2>1
       DEF Next, vars, LoadRow, LoadNotes, PatchProspect, AddProspectNote, AddNote, TransitionProspectStage, TransitionStage, GiveUp
  <2>3. req[r] # Idle /\ req[r].prospect = p /\ row'[p].stage = req[r].stage
    BY <2>2, SaveRow
  <2>4. req'[r] = Idle
    BY <2>2, SaveStep
  <2>5. req[r].fresh => IsValidTransition(row[p].stage, row'[p].stage)
    BY <2>3 DEF IInv, CopiesSound
  <2>6. FromWhereItWas(p)
    BY <2>3 DEF IInv, CopiesSound
  <2> QED
    BY <2>3, <2>4, <2>5, <2>6
<1> QED
  BY <1>1, Invariance, PTL DEF Spec, MatrixUnlessOvertaken

\* A prospect's name changes only in the save of a PATCH, or in one that
\* another save of the same prospect overtook.
THEOREM Renamed == Spec => RenamedUnlessOvertaken
<1> DEFINE Step == \A p \in Prospects :
                     row[p] # NoRow /\ row'[p].name # row[p].name =>
                       \E r \in Requests :
                           /\ req[r] # Idle /\ req[r].prospect = p /\ req'[r] = Idle
                           /\ req[r].at = "renaming" \/ ~req[r].fresh
<1>1. IInv /\ [Next]_vars => Step
  <2> SUFFICES ASSUME IInv, [Next]_vars,
                      NEW p \in Prospects, row[p] # NoRow, row'[p].name # row[p].name
               PROVE  \E r \in Requests :
                          /\ req[r] # Idle /\ req[r].prospect = p /\ req'[r] = Idle
                          /\ req[r].at = "renaming" \/ ~req[r].fresh
    OBVIOUS
  <2>1. ASSUME NEW o \in Prospects, NEW c \in Consultants, NEW name \in Names,
               CreateProspect(o, c, name)
        PROVE  FALSE
    BY <2>1 DEF CreateProspect, NewProspect, IInv, TypeOK
  <2>2. PICK r \in Requests : Save(r)
    BY <2>1
       DEF Next, vars, LoadRow, LoadNotes, PatchProspect, AddProspectNote, AddNote, TransitionProspectStage, TransitionStage, GiveUp
  <2>3. req[r] # Idle /\ req[r].prospect = p /\ row'[p].name = req[r].name
    BY <2>2, SaveRow
  <2>4. req'[r] = Idle
    BY <2>2, SaveStep
  <2>5. req[r].fresh => req[r].name = row[p].name \/ req[r].at = "renaming"
    BY <2>3 DEF IInv, CopiesSound
  <2>6. req[r].at = "renaming" \/ ~req[r].fresh
    BY <2>3, <2>5
  <2> QED
    BY <2>3, <2>4, <2>6
<1> QED
  BY <1>1, Invariance, PTL DEF Spec, RenamedUnlessOvertaken

=============================================================================
