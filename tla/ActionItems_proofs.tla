--------------------------- MODULE ActionItems_proofs ---------------------------
(***************************************************************************)
(* Proofs about ActionItems, and that the prospect routes keep all that is *)
(* proved of them when the item routes run beside them.                    *)
(***************************************************************************)
EXTENDS ActionItems, ProspectPipeline_proofs

\* The composition implements the prospect pipeline: an item request stutters.
THEOREM ItemsLeaveProspects == ItemSpec => Spec
<1>1. ItemInit => Init
  BY DEF ItemInit
<1>2. [ItemNext]_allVars => [Next]_vars
  BY DEF ItemNext, allVars, ProspectStep, vars
<1> QED
  BY <1>1, <1>2, PTL DEF ItemSpec, Spec

\* So what holds of the prospects alone holds beside the items.
COROLLARY ProspectsStillSound == ItemSpec => []IInv
  BY ItemsLeaveProspects, Invariance, PTL

-----------------------------------------------------------------------------
\* What is known of a request's copy.
LEMMA EditType ==
  ASSUME ItemTypeOK, NEW r \in Requests, edit[r] # NoEdit
  PROVE  /\ edit[r] \in Edit \ {NoEdit}
         /\ edit[r].at \in {"creating", "patching", "deleting"}
         /\ edit[r].id \in Items /\ edit[r].copy \in ConsultantActionItem
         /\ edit[r].asked \in SUBSET Fields /\ edit[r].fresh \in BOOLEAN
  BY DEF ItemTypeOK, Edit, NoEdit

\* No prospect changes hands.
LEMMA OwnersStay ==
  ASSUME IInv, [Next]_vars, NEW p \in Prospects, NEW c \in Consultants, Owned(p, c)
  PROVE  Owned(p, c)'
<1>a. row[p] # NoRow /\ row[p].consultant = c /\ row \in [Prospects -> Row]
  BY DEF Owned, IInv, TypeOK
<1>1. ASSUME NEW o \in Prospects, NEW d \in Consultants, NEW name \in Names, CreateProspect(o, d, name)
      PROVE  row'[p] = row[p]
  BY <1>a, <1>1 DEF CreateProspect, NewProspect
<1>2. ASSUME NEW r \in Requests, Save(r) PROVE row'[p] # NoRow /\ row'[p].consultant = row[p].consultant
  <2>1. CASE p = req[r].prospect
    BY <1>2, <2>1, SaveRow
  <2>2. CASE p # req[r].prospect
    BY <1>a, <1>2, <2>2, SaveRow
  <2> QED
    BY <2>1, <2>2
<1>3. CASE row' = row
  BY <1>3, <1>a DEF Owned
<1> QED
  BY <1>a, <1>1, <1>2, <1>3
     DEF Next, vars, Owned, LoadRow, LoadNotes, PatchProspect, AddProspectNote, AddNote, TransitionProspectStage, TransitionStage, GiveUp

\* A step of the prospect routes keeps the items' invariant.
LEMMA ProspectKeeps == IInv /\ ItemIInv /\ [Next]_vars /\ UNCHANGED itemVars => ItemIInv'
<1> SUFFICES ASSUME IInv, ItemIInv, [Next]_vars, UNCHANGED itemVars PROVE ItemIInv'
  OBVIOUS
<1>0. item' = item /\ minted' = minted /\ edit' = edit /\ ItemTypeOK
  BY DEF itemVars, ItemIInv
<1>1. ItemTypeOK' /\ IdsSound'
  BY <1>0 DEF ItemIInv, ItemTypeOK, IdsSound
<1>2. ASSUME NEW i \in Items, item[i] # NoItem, item[i].link # NoLink
      PROVE  Owned(item[i].link, item[i].consultant)'
  <2>1. item[i] \in ConsultantActionItem
    BY <1>0, <1>2 DEF ItemTypeOK
  <2>2. item[i].link \in Prospects /\ item[i].consultant \in Consultants
    BY <1>2, <2>1 DEF ConsultantActionItem, Links
  <2>3. Owned(item[i].link, item[i].consultant)
    BY <1>2 DEF ItemIInv, LinksOwnProspects
  <2>4. \A p \in Prospects, c \in Consultants : Owned(p, c) => Owned(p, c)'
    BY OwnersStay
  <2>5. row'[item[i].link] # NoRow /\ row'[item[i].link].consultant = item[i].consultant
    BY <2>2, <2>3, <2>4 DEF Owned
  <2> QED
    BY <1>0, <2>5 DEF Owned
<1>3. LinksOwnProspects'
  BY <1>0, <1>2 DEF LinksOwnProspects
<1>4. ASSUME NEW r \in Requests, edit[r] # NoEdit, edit[r].copy.link # NoLink
      PROVE  Owned(edit[r].copy.link, edit[r].copy.consultant)'
  <2>1. edit[r].copy \in ConsultantActionItem
    BY <1>0, <1>4, EditType
  <2>2. edit[r].copy.link \in Prospects /\ edit[r].copy.consultant \in Consultants
    BY <1>4, <2>1 DEF ConsultantActionItem, Links
  <2>3. Owned(edit[r].copy.link, edit[r].copy.consultant)
    BY <1>4 DEF ItemIInv, EditsSound
  <2>4. \A p \in Prospects, c \in Consultants : Owned(p, c) => Owned(p, c)'
    BY OwnersStay
  <2>5. /\ row'[edit[r].copy.link] # NoRow
        /\ row'[edit[r].copy.link].consultant = edit[r].copy.consultant
    BY <2>2, <2>3, <2>4 DEF Owned
  <2> QED
    BY <1>0, <2>5 DEF Owned
<1>5. EditsSound'
  BY <1>0, <1>4 DEF ItemIInv, EditsSound
<1> QED
  BY <1>1, <1>3, <1>5 DEF ItemIInv

\* What a request must be like for starting it to keep the invariant.
Startable(e) ==
    /\ e \in Edit \ {NoEdit}
    /\ e.at = "creating" => e.fresh /\ item[e.id] = NoItem /\ e.id \notin minted
    /\ e.at # "creating" => item[e.id] # NoItem /\ Differing(item[e.id], e.copy) \subseteq e.asked
    /\ e.copy.link # NoLink => Owned(e.copy.link, e.copy.consultant)
    /\ item[e.id] # NoItem => item[e.id].consultant = e.copy.consultant /\ item[e.id].link = e.copy.link

LEMMA Started ==
  ASSUME ItemIInv, NEW r \in Requests, NEW e, Startable(e), UNCHANGED <<row, item>>,
         edit' = [edit EXCEPT ![r] = e], minted' = minted \cup {e.id}
  PROVE  ItemIInv'
<1>0. /\ ItemTypeOK /\ e \in Edit \ {NoEdit} /\ e.id \in Items
      /\ edit \in [Requests -> Edit] /\ minted \in SUBSET Items
      /\ e.at \in {"creating", "patching", "deleting"} /\ e.copy \in ConsultantActionItem
  BY DEF ItemIInv, ItemTypeOK, Startable, Edit, NoEdit
<1>1. item' = item /\ row' = row /\ edit'[r] = e /\ \A q \in Requests : q # r => edit'[q] = edit[q]
  BY <1>0
<1>2. ItemTypeOK'
  BY <1>0, <1>1 DEF ItemTypeOK
<1>3. LinksOwnProspects'
  BY <1>1 DEF ItemIInv, LinksOwnProspects, Owned
<1>4. \A q \in Requests : edit[q] # NoEdit /\ edit[q].id = e.id =>
        /\ e.at # "creating" /\ edit[q].at # "creating"
        /\ edit[q].copy.consultant = e.copy.consultant /\ edit[q].copy.link = e.copy.link
  BY DEF ItemIInv, IdsSound, EditsSound, Startable
<1>5. IdsSound'
  BY <1>0, <1>1, <1>4 DEF ItemIInv, IdsSound, Startable
<1>6. EditsSound'
  <2> SUFFICES ASSUME NEW q \in Requests, edit'[q] # NoEdit
               PROVE  /\ edit'[q].copy.link # NoLink =>
                           /\ row'[edit'[q].copy.link] # NoRow
                           /\ row'[edit'[q].copy.link].consultant = edit'[q].copy.consultant
                      /\ item'[edit'[q].id] # NoItem =>
                           /\ item'[edit'[q].id].consultant = edit'[q].copy.consultant
                           /\ item'[edit'[q].id].link = edit'[q].copy.link
                      /\ edit'[q].fresh /\ edit'[q].at # "creating" =>
                           /\ item'[edit'[q].id] # NoItem
                           /\ Differing(item'[edit'[q].id], edit'[q].copy) \subseteq edit'[q].asked
                      /\ \A o \in Requests : edit'[o] # NoEdit /\ edit'[o].id = edit'[q].id =>
                           /\ edit'[o].copy.consultant = edit'[q].copy.consultant
                           /\ edit'[o].copy.link = edit'[q].copy.link
    BY DEF EditsSound, Owned
  <2>1. CASE q = r
    BY <1>1, <1>4, <2>1 DEF Startable, Owned
  <2>2. CASE q # r
    <3>1. edit'[q] = edit[q] /\ edit[q] # NoEdit
      BY <1>1, <2>2
    <3>2. \A o \in Requests : edit'[o] # NoEdit /\ edit'[o].id = edit[q].id =>
            /\ edit'[o].copy.consultant = edit[q].copy.consultant
            /\ edit'[o].copy.link = edit[q].copy.link
      BY <1>1, <1>4, <3>1 DEF ItemIInv, EditsSound
    <3> QED
      BY <1>1, <3>1, <3>2 DEF ItemIInv, EditsSound, Owned
  <2> QED
    BY <2>1, <2>2
<1> QED
  BY <1>2, <1>3, <1>5, <1>6 DEF ItemIInv

\* The three handlers start requests of that kind.
LEMMA CreateStarts ==
  ASSUME ItemIInv, NEW r \in Requests, NEW c \in Consultants, NEW i \in Items, NEW text \in Texts,
         NEW link \in Links, CreateActionItem(r, c, i, text, link), row' = row
  PROVE  ItemIInv'
<1> DEFINE e == [at |-> "creating", id |-> i, asked |-> Fields, fresh |-> TRUE,
                 copy |-> [consultant |-> c, text |-> text, done |-> FALSE, link |-> link]]
<1>1. e \in Edit \ {NoEdit}
  BY DEF Edit, NoEdit, ConsultantActionItem
<1>2. item[i] = NoItem /\ i \notin minted
  BY DEF CreateActionItem, NewItem, ItemIInv, IdsSound
<1>3. link # NoLink => Owned(link, c)
  BY DEF CreateActionItem, NewItem, ValidateLinkedProspect
<1>4. Startable(e)
  BY <1>1, <1>2, <1>3 DEF Startable
<1>5. item' = item /\ edit' = [edit EXCEPT ![r] = e] /\ minted' = minted \cup {e.id}
  BY DEF CreateActionItem, NewItem
<1> HIDE DEF e
<1> QED
  BY <1>4, <1>5, Started

LEMMA OwnItem ==
  ASSUME ItemIInv, NEW i \in Items, NEW c, OwnedItem(i, c)
  PROVE  /\ item[i] \in ConsultantActionItem /\ item[i] # NoItem /\ minted = minted \cup {i}
         /\ item[i].link # NoLink => Owned(item[i].link, item[i].consultant)
  BY DEF OwnedItem, ItemIInv, ItemTypeOK, IdsSound, LinksOwnProspects

LEMMA PatchStarts ==
  ASSUME ItemIInv, NEW r \in Requests, NEW c \in Consultants, NEW i \in Items,
         NEW asked \in SUBSET Fields, NEW text \in Texts, NEW done \in BOOLEAN,
         PatchActionItem(r, c, i, asked, text, done), row' = row
  PROVE  ItemIInv'
<1> DEFINE copy == Patched(item[i], asked, text, done)
           e == [at |-> "patching", id |-> i, asked |-> asked, fresh |-> TRUE, copy |-> copy]
<1>0. OwnedItem(i, c)
  BY DEF PatchActionItem
<1>1. item[i] \in ConsultantActionItem /\ item[i] # NoItem /\ minted = minted \cup {i}
  BY <1>0, OwnItem
<1>2. /\ copy \in ConsultantActionItem
      /\ copy.consultant = item[i].consultant /\ copy.link = item[i].link
  BY <1>1 DEF ConsultantActionItem, Patched
<1>3. Differing(item[i], copy) \subseteq asked
  BY <1>1 DEF ConsultantActionItem, Patched, Differing, Fields
<1>4. copy.link # NoLink => Owned(copy.link, copy.consultant)
  BY <1>0, <1>2, OwnItem
<1>5. item' = item /\ edit' = [edit EXCEPT ![r] = e] /\ minted' = minted \cup {i}
  BY <1>1 DEF PatchActionItem
<1> HIDE DEF copy
<1>6. e \in Edit \ {NoEdit}
  BY <1>2 DEF Edit, NoEdit
<1>7. Startable(e)
  BY <1>1, <1>2, <1>3, <1>4, <1>6 DEF Startable
<1> QED
  BY <1>5, <1>7, Started

LEMMA DeleteStarts ==
  ASSUME ItemIInv, NEW r \in Requests, NEW c \in Consultants, NEW i \in Items,
         DeleteActionItem(r, c, i), row' = row
  PROVE  ItemIInv'
<1> DEFINE e == [at |-> "deleting", id |-> i, asked |-> {}, fresh |-> TRUE, copy |-> item[i]]
<1>0. OwnedItem(i, c)
  BY DEF DeleteActionItem
<1>1. item[i] \in ConsultantActionItem /\ item[i] # NoItem /\ minted = minted \cup {i}
  BY <1>0, OwnItem
<1>2. Differing(item[i], item[i]) = {}
  BY DEF Differing
<1>3. e \in Edit \ {NoEdit}
  BY <1>1 DEF Edit, NoEdit
<1>4. item[i].link # NoLink => Owned(item[i].link, item[i].consultant)
  BY <1>0, OwnItem
<1>5. Startable(e)
  BY <1>1, <1>2, <1>3, <1>4 DEF Startable
<1>6. item' = item /\ edit' = [edit EXCEPT ![r] = e] /\ minted' = minted \cup {i}
  BY <1>1 DEF DeleteActionItem
<1> QED
  BY <1>5, <1>6, Started

-----------------------------------------------------------------------------
\* What becomes of the requests when one of them writes its item.
LEMMA WrittenStep ==
  ASSUME ItemTypeOK, NEW r \in Requests, Written(r), NEW q \in Requests
  PROVE  /\ edit'[q] \in Edit
         /\ q = r => edit'[q] = NoEdit
         /\ edit'[q] # NoEdit =>
              /\ edit[q] # NoEdit /\ edit'[q].at = edit[q].at /\ edit'[q].id = edit[q].id
              /\ edit'[q].copy = edit[q].copy /\ edit'[q].asked = edit[q].asked
              /\ edit'[q].fresh => edit[q].fresh /\ edit[q].id # edit[r].id
              /\ edit[q].id # edit[r].id => edit'[q] = edit[q]
<1>1. edit[q] \in Edit
  BY DEF ItemTypeOK
<1>2. edit'[q] = IF q = r THEN NoEdit
                 ELSE IF edit[q] # NoEdit /\ edit[q].id = edit[r].id
                      THEN [edit[q] EXCEPT !.fresh = FALSE]
                      ELSE edit[q]
  BY DEF Written
<1>3. CASE q = r \/ edit[q] = NoEdit \/ edit[q].id # edit[r].id
  BY <1>1, <1>2, <1>3 DEF Edit
<1>4. CASE q # r /\ edit[q] # NoEdit /\ edit[q].id = edit[r].id
  <2>1. edit'[q] = [edit[q] EXCEPT !.fresh = FALSE]
    BY <1>2, <1>4
  <2>2. edit[q] \in Edit \ {NoEdit}
    BY <1>1, <1>4
  <2>3. [edit[q] EXCEPT !.fresh = FALSE] \in Edit
    BY <2>2 DEF Edit
  <2>4. /\ edit'[q].at = edit[q].at /\ edit'[q].id = edit[q].id /\ edit'[q].copy = edit[q].copy
        /\ edit'[q].asked = edit[q].asked /\ edit'[q].fresh = FALSE
    BY <2>1, <2>2 DEF Edit
  <2> QED
    BY <1>4, <2>1, <2>3, <2>4
<1> QED
  BY <1>3, <1>4

\* A write leaves the copy it carries, or nothing; either keeps the invariant.
LEMMA WriteKeeps ==
  ASSUME ItemIInv, NEW r \in Requests, edit[r] # NoEdit, Written(r), NEW new,
         new \in {NoItem, edit[r].copy}, new = NoItem => edit[r].at # "creating",
         item' = [item EXCEPT ![edit[r].id] = new], UNCHANGED <<row, minted>>
  PROVE  ItemIInv'
<1> DEFINE i == edit[r].id
<1>0. /\ ItemTypeOK /\ i \in Items /\ edit[r].copy \in ConsultantActionItem
      /\ item \in [Items -> {NoItem} \cup ConsultantActionItem]
  BY EditType DEF ItemIInv, ItemTypeOK
<1>1. /\ item'[i] = new /\ \A j \in Items : j # i => item'[j] = item[j]
      /\ row' = row /\ minted' = minted
  BY <1>0
<1>2. \A q \in Requests :
        /\ edit'[q] \in Edit
        /\ q = r => edit'[q] = NoEdit
        /\ edit'[q] # NoEdit =>
             /\ edit[q] # NoEdit /\ edit'[q].at = edit[q].at /\ edit'[q].id = edit[q].id
             /\ edit'[q].copy = edit[q].copy /\ edit'[q].asked = edit[q].asked
             /\ edit'[q].fresh => edit[q].fresh /\ edit[q].id # i
             /\ edit[q].id # i => edit'[q] = edit[q]
  BY <1>0, WrittenStep
<1>3. ItemTypeOK'
  <2>1. edit' \in [Requests -> Edit]
    BY <1>2 DEF Written
  <2>2. item' \in [Items -> {NoItem} \cup ConsultantActionItem]
    BY <1>0
  <2> QED
    BY <1>0, <1>1, <2>1, <2>2 DEF ItemTypeOK
<1>4. i \in minted /\ (edit[r].copy.link # NoLink => Owned(edit[r].copy.link, edit[r].copy.consultant))
  BY DEF ItemIInv, IdsSound, EditsSound
<1>5. LinksOwnProspects'
  BY <1>1, <1>4 DEF ItemIInv, LinksOwnProspects, Owned
<1>6. \A q \in Requests : edit'[q] # NoEdit /\ edit[q].at = "creating" => edit[q].id # i
  BY <1>2 DEF ItemIInv, IdsSound
<1>7. \A q \in Requests : edit'[q] # NoEdit => edit[q].id \in Items
  BY <1>0, <1>2, EditType
<1>8. IdsSound'
  <2>1. \A j \in Items : item'[j] # NoItem => j \in minted'
    BY <1>1, <1>4 DEF ItemIInv, IdsSound
  <2>2. ASSUME NEW q \in Requests, edit'[q] # NoEdit
        PROVE  /\ edit'[q].id \in minted'
               /\ edit'[q].at = "creating" =>
                    /\ edit'[q].fresh /\ item'[edit'[q].id] = NoItem
                    /\ \A o \in Requests : o # q /\ edit'[o] # NoEdit => edit'[o].id # edit'[q].id
    <3>1. edit[q] # NoEdit /\ edit'[q].id = edit[q].id /\ edit'[q].at = edit[q].at
      BY <1>2, <2>2
    <3>2. CASE edit[q].at = "creating"
      <4>1. edit[q].id # i /\ edit'[q] = edit[q] /\ edit[q].id \in Items
        BY <1>2, <1>6, <1>7, <2>2, <3>2
      <4>2. item'[edit[q].id] = item[edit[q].id]
        BY <1>1, <4>1
      <4> QED
        BY <1>1, <1>2, <3>1, <3>2, <4>1, <4>2 DEF ItemIInv, IdsSound
    <3>3. CASE edit[q].at # "creating"
      BY <1>1, <3>1, <3>3 DEF ItemIInv, IdsSound
    <3> QED
      BY <3>2, <3>3
  <2> QED
    BY <2>1, <2>2 DEF IdsSound
<1>9. EditsSound'
  <2> SUFFICES ASSUME NEW q \in Requests, edit'[q] # NoEdit
               PROVE  /\ edit'[q].copy.link # NoLink =>
                           /\ row'[edit'[q].copy.link] # NoRow
                           /\ row'[edit'[q].copy.link].consultant = edit'[q].copy.consultant
                      /\ item'[edit'[q].id] # NoItem =>
                           /\ item'[edit'[q].id].consultant = edit'[q].copy.consultant
                           /\ item'[edit'[q].id].link = edit'[q].copy.link
                      /\ edit'[q].fresh /\ edit'[q].at # "creating" =>
                           /\ item'[edit'[q].id] # NoItem
                           /\ Differing(item'[edit'[q].id], edit'[q].copy) \subseteq edit'[q].asked
                      /\ \A o \in Requests : edit'[o] # NoEdit /\ edit'[o].id = edit'[q].id =>
                           /\ edit'[o].copy.consultant = edit'[q].copy.consultant
                           /\ edit'[o].copy.link = edit'[q].copy.link
    BY DEF EditsSound, Owned
  <2>1. /\ edit[q] # NoEdit /\ edit'[q].at = edit[q].at /\ edit'[q].id = edit[q].id
        /\ edit'[q].copy = edit[q].copy /\ edit'[q].asked = edit[q].asked
        /\ edit'[q].fresh => edit[q].fresh /\ edit[q].id # i
        /\ edit[q].id \in Items
    BY <1>2, <1>7
  <2>2. edit'[q].copy.link # NoLink => /\ row'[edit'[q].copy.link] # NoRow
                                       /\ row'[edit'[q].copy.link].consultant = edit'[q].copy.consultant
    BY <1>1, <2>1 DEF ItemIInv, EditsSound, Owned
  <2>3. \A o \in Requests : edit'[o] # NoEdit /\ edit'[o].id = edit'[q].id =>
          /\ edit'[o].copy.consultant = edit'[q].copy.consultant
          /\ edit'[o].copy.link = edit'[q].copy.link
    BY <1>2, <2>1 DEF ItemIInv, EditsSound
  <2>4. CASE edit[q].id = i
    <3>1. edit[q].copy.consultant = edit[r].copy.consultant /\ edit[q].copy.link = edit[r].copy.link
      BY <2>1, <2>4 DEF ItemIInv, EditsSound
    <3> QED
      BY <1>1, <2>1, <2>2, <2>3, <2>4, <3>1
  <2>5. CASE edit[q].id # i
    <3>1. item'[edit[q].id] = item[edit[q].id]
      BY <1>1, <2>1, <2>5
    <3>2. /\ item[edit[q].id] # NoItem =>
               /\ item[edit[q].id].consultant = edit[q].copy.consultant
               /\ item[edit[q].id].link = edit[q].copy.link
          /\ edit[q].fresh /\ edit[q].at # "creating" =>
               /\ item[edit[q].id] # NoItem
               /\ Differing(item[edit[q].id], edit[q].copy) \subseteq edit[q].asked
      BY <2>1 DEF ItemIInv, EditsSound
    <3> QED
      BY <2>1, <2>2, <2>3, <3>1, <3>2
  <2> QED
    BY <2>4, <2>5
<1> QED
  BY <1>3, <1>5, <1>8, <1>9 DEF ItemIInv

\* The upsert of a PATCH or a POST writes exactly the copy.
LEMMA SaveItemStep ==
  ASSUME ItemIInv, NEW r \in Requests, SaveItem(r)
  PROVE  /\ edit[r] # NoEdit
         /\ item' = [item EXCEPT ![edit[r].id] = edit[r].copy]
         /\ Written(r) /\ minted' = minted
<1>1. edit[r] # NoEdit
  BY DEF SaveItem, NoEdit
<1>2. edit[r].copy \in ConsultantActionItem /\ edit[r].id \in Items
  BY <1>1, EditType DEF ItemIInv
<1>3. item[edit[r].id] # NoItem => item[edit[r].id].consultant = edit[r].copy.consultant
  BY <1>1 DEF ItemIInv, EditsSound
<1>4. Upsert(item[edit[r].id], edit[r].copy) = edit[r].copy
  BY <1>2, <1>3 DEF Upsert, ConsultantActionItem
<1> QED
  BY <1>1, <1>4 DEF SaveItem

LEMMA RemoveItemStep ==
  ASSUME ItemIInv, NEW r \in Requests, RemoveItem(r)
  PROVE  /\ edit[r] # NoEdit /\ edit[r].at = "deleting"
         /\ item' = [item EXCEPT ![edit[r].id] = NoItem]
         /\ Written(r) /\ minted' = minted
  BY DEF RemoveItem, NoEdit

LEMMA DropKeeps ==
  ASSUME ItemIInv, NEW r \in Requests, DropEdit(r), row' = row
  PROVE  ItemIInv'
<1>1. /\ item' = item /\ minted' = minted
      /\ \A q \in Requests : edit'[q] \in {edit[q], NoEdit}
      /\ edit' \in [Requests -> Edit]
  BY DEF DropEdit, ItemIInv, ItemTypeOK, Edit
<1>2. ItemTypeOK' /\ LinksOwnProspects'
  BY <1>1 DEF ItemIInv, ItemTypeOK, LinksOwnProspects, Owned
<1>3. IdsSound'
  BY <1>1 DEF ItemIInv, IdsSound
<1>4. EditsSound'
  BY <1>1 DEF ItemIInv, EditsSound, Owned
<1> QED
  BY <1>2, <1>3, <1>4 DEF ItemIInv

LEMMA ItemStepKeeps == IInv /\ ItemIInv /\ [ItemNext]_allVars => ItemIInv'
<1> SUFFICES ASSUME IInv, ItemIInv, [ItemNext]_allVars PROVE ItemIInv'
  OBVIOUS
<1>1. CASE ProspectStep
  BY <1>1, ProspectKeeps DEF ProspectStep
<1>2. ASSUME NEW r \in Requests, ItemStep(r), UNCHANGED vars PROVE ItemIInv'
  <2>0. row' = row
    BY <1>2 DEF vars
  <2>1. ASSUME SaveItem(r) PROVE ItemIInv'
    <3>1. /\ edit[r] # NoEdit /\ item' = [item EXCEPT ![edit[r].id] = edit[r].copy]
          /\ Written(r) /\ minted' = minted
      BY <2>1, SaveItemStep
    <3>2. edit[r].copy # NoItem
      BY <3>1, EditType DEF ItemIInv, ConsultantActionItem, NoItem
    <3> QED
      BY <2>0, <3>1, <3>2, WriteKeeps
  <2>2. ASSUME RemoveItem(r) PROVE ItemIInv'
    <3>1. /\ edit[r] # NoEdit /\ edit[r].at = "deleting"
          /\ item' = [item EXCEPT ![edit[r].id] = NoItem]
          /\ Written(r) /\ minted' = minted
      BY <2>2, RemoveItemStep
    <3> QED
      BY <2>0, <3>1, WriteKeeps
  <2> QED
    BY <1>2, <2>0, <2>1, <2>2, CreateStarts, PatchStarts, DeleteStarts, DropKeeps DEF ItemStep
<1>3. CASE UNCHANGED allVars
  BY <1>3, ProspectKeeps DEF allVars, itemVars, vars
<1> QED
  BY <1>1, <1>2, <1>3 DEF ItemNext

LEMMA ItemsInitially == ItemInit => ItemIInv
  BY DEF ItemInit, ItemIInv, ItemTypeOK, IdsSound, EditsSound, LinksOwnProspects, Edit

\* Items, the ids handed out and the copies under way agree, whatever requests
\* overlap.
THEOREM ItemInvariance == ItemSpec => []ItemIInv
  BY ItemsInitially, ItemStepKeeps, ProspectsStillSound, PTL DEF ItemSpec

\* validate_linked_prospect is enough: no item ever links another's prospect.
THEOREM LinksOwned == ItemSpec => []LinksOwnProspects
<1>1. ItemIInv => LinksOwnProspects
  BY DEF ItemIInv
<1> QED
  BY <1>1, ItemInvariance, PTL

\* An item changes as its owner asked, in every step, unless it was overtaken.
THEOREM AsAsked == ItemSpec => ItemAsAsked
<1> DEFINE Step == \A i \in Items : item'[i] # item[i] =>
         /\ item[i] # NoItem /\ item'[i] # NoItem =>
                item'[i].consultant = item[i].consultant /\ item'[i].link = item[i].link
         /\ \E r \in Requests :
                /\ edit[r] # NoEdit /\ edit[r].id = i /\ edit'[r] = NoEdit
                /\ item[i] # NoItem => edit[r].copy.consultant = item[i].consultant
                /\ edit[r].fresh =>
                     CASE item'[i] = NoItem  -> edit[r].at = "deleting"
                       [] item[i] = NoItem   -> edit[r].at = "creating"
                       [] OTHER              -> /\ edit[r].at = "patching"
                                                /\ Differing(item[i], item'[i]) \subseteq edit[r].asked
<1>1. ItemIInv /\ [ItemNext]_allVars => Step
  <2> SUFFICES ASSUME ItemIInv, [ItemNext]_allVars, NEW i \in Items, item'[i] # item[i]
               PROVE  /\ item[i] # NoItem /\ item'[i] # NoItem =>
                            item'[i].consultant = item[i].consultant /\ item'[i].link = item[i].link
                      /\ \E r \in Requests :
                            /\ edit[r] # NoEdit /\ edit[r].id = i /\ edit'[r] = NoEdit
                            /\ item[i] # NoItem => edit[r].copy.consultant = item[i].consultant
                            /\ edit[r].fresh =>
                                 /\ item'[i] = NoItem => edit[r].at = "deleting"
                                 /\ item'[i] # NoItem /\ item[i] = NoItem => edit[r].at = "creating"
                                 /\ item'[i] # NoItem /\ item[i] # NoItem =>
                                      /\ edit[r].at = "patching"
                                      /\ Differing(item[i], item'[i]) \subseteq edit[r].asked
    OBVIOUS
  <2>0. /\ ItemTypeOK
        /\ \A r \in Requests : edit[r] # NoEdit =>
             /\ edit[r].copy \in ConsultantActionItem /\ edit[r].id \in Items
             /\ edit[r].at \in {"creating", "patching", "deleting"}
    BY EditType DEF ItemIInv
  <2>1. PICK r \in Requests : SaveItem(r) \/ RemoveItem(r)
    BY DEF ItemNext, allVars, ProspectStep, itemVars, ItemStep, CreateActionItem, NewItem, PatchActionItem,
           DeleteActionItem, DropEdit
  <2>2. CASE SaveItem(r)
    <3>1. /\ edit[r] # NoEdit /\ item' = [item EXCEPT ![edit[r].id] = edit[r].copy] /\ Written(r)
          /\ edit[r].at \in {"creating", "patching"}
      BY <2>2, SaveItemStep DEF SaveItem
    <3>2. edit[r].id = i /\ item'[i] = edit[r].copy /\ item'[i] # NoItem
      BY <2>0, <3>1 DEF ItemTypeOK, ConsultantActionItem, NoItem
    <3>3. edit'[r] = NoEdit
      BY <2>0, <3>1, WrittenStep
    <3>4. /\ item[i] # NoItem => /\ item[i].consultant = edit[r].copy.consultant
                                 /\ item[i].link = edit[r].copy.link
          /\ edit[r].fresh /\ edit[r].at # "creating" =>
               item[i] # NoItem /\ Differing(item[i], edit[r].copy) \subseteq edit[r].asked
          /\ edit[r].at = "creating" => item[i] = NoItem
      BY <3>1, <3>2 DEF ItemIInv, EditsSound, IdsSound
    <3> QED
      BY <3>1, <3>2, <3>3, <3>4
  <2>3. CASE RemoveItem(r)
    <3>1. /\ edit[r] # NoEdit /\ item' = [item EXCEPT ![edit[r].id] = NoItem] /\ Written(r)
          /\ edit[r].at = "deleting"
      BY <2>3, RemoveItemStep
    <3>2. edit[r].id = i /\ item'[i] = NoItem /\ item[i] # NoItem
      BY <2>0, <3>1 DEF ItemTypeOK
    <3>3. edit'[r] = NoEdit
      BY <2>0, <3>1, WrittenStep
    <3>4. item[i].consultant = edit[r].copy.consultant
      BY <3>1, <3>2 DEF ItemIInv, EditsSound
    <3> QED
      BY <3>1, <3>2, <3>3, <3>4
  <2> QED
    BY <2>1, <2>2, <2>3
<1> QED
  BY <1>1, ItemInvariance, PTL DEF ItemSpec, ItemAsAsked

=============================================================================
