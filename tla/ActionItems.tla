------------------------------ MODULE ActionItems ------------------------------
(***************************************************************************)
(* A consultant's own checklist, beside the prospects its items may link.  *)
(*                                                                         *)
(* Creating an item looks its prospect up first and saves afterwards;       *)
(* patching and deleting load the item, check whose it is, and then write  *)
(* by id alone.  The save is an upsert, so a PATCH that loaded an item      *)
(* before its delete puts it back.  Requests of both kinds share the        *)
(* places a request runs in.                                               *)
(*                                                                         *)
(* The title and the optional notes are one text; a blank one is a 400 with *)
(* nothing done, and is left out.                                          *)
(*                                                                         *)
(* Source: crates/bff-api/src/action_items.rs,                             *)
(* crates/bff-core/src/consultant_action_item.rs,                          *)
(* crates/persistence/src/consultant_action_item_repository.rs.            *)
(***************************************************************************)
EXTENDS ProspectPipeline

CONSTANTS
    Items,      \* consultant_action_items.id
    Texts

VARIABLES
    item,       \* consultant_action_items, by id
    minted,     \* the ids handed out so far
    edit        \* what each request does to an item

itemVars == <<item, minted, edit>>
allVars == <<row, notes, been, req, item, minted, edit>>

NoItem == [text |-> "none"]
NoEdit == [at |-> "idle"]
NoLink == [prospect |-> "none"]
Links == Prospects \cup {NoLink}
Fields == {"text", "done"}

ConsultantActionItem == [consultant : Consultants, text : Texts, done : BOOLEAN, link : Links]

\* A request's copy of the item, and the fields it was asked to change.  fresh
\* is for the properties: nobody has written the item since it was loaded.
Edit == {NoEdit} \cup
    [at : {"creating", "patching", "deleting"}, id : Items, copy : ConsultantActionItem,
     asked : SUBSET Fields, fresh : BOOLEAN]

ItemTypeOK ==
    /\ item \in [Items -> {NoItem} \cup ConsultantActionItem]
    /\ minted \in SUBSET Items
    /\ edit \in [Requests -> Edit]

ItemInit ==
    /\ Init
    /\ item = [i \in Items |-> NoItem]
    /\ minted = {}
    /\ edit = [r \in Requests |-> NoEdit]

Free(r) == req[r] = Idle /\ edit[r] = NoEdit

-----------------------------------------------------------------------------
\* validate_linked_prospect: no link, or a prospect of the caller's.
AnyLink(link, c) == link # NoLink => AnyRow(link, c)
ValidateLinkedProspect(link, c) == link # NoLink => Owned(link, c)

NewItem(c, text, link) == [consultant |-> c, text |-> text, done |-> FALSE, link |-> link]

\* create_action_item up to the save: a new id, not done.  A link that fails
\* is a 400 with nothing done.
CreateActionItem(r, c, i, text, link) ==
    /\ Free(r)
    /\ i \notin minted
    /\ ValidateLinkedProspect(link, c)
    /\ minted' = minted \cup {i}
    /\ edit' = [edit EXCEPT ![r] =
         [at |-> "creating", id |-> i, asked |-> Fields, fresh |-> TRUE,
          copy |-> NewItem(c, text, link)]]
    /\ UNCHANGED item

\* load_owned_item; anything else is a 404.
OwnedItem(i, c) == item[i] # NoItem /\ item[i].consultant = c

\* patch_action_item up to the save: the fields of the body over the loaded
\* ones.  The link stays the loaded one.
PatchedWhole(old, asked, text, done) == [old EXCEPT !.text = text, !.done = done]
Patched(old, asked, text, done) ==
    [old EXCEPT !.text = IF "text" \in asked THEN text ELSE old.text,
                !.done = IF "done" \in asked THEN done ELSE old.done]

PatchActionItem(r, c, i, asked, text, done) ==
    /\ Free(r)
    /\ OwnedItem(i, c)
    /\ edit' = [edit EXCEPT ![r] =
         [at |-> "patching", id |-> i, asked |-> asked, fresh |-> TRUE,
          copy |-> Patched(item[i], asked, text, done)]]
    /\ UNCHANGED <<item, minted>>

\* delete_action_item up to the DELETE.
DeleteActionItem(r, c, i) ==
    /\ Free(r)
    /\ OwnedItem(i, c)
    /\ edit' = [edit EXCEPT ![r] =
         [at |-> "deleting", id |-> i, asked |-> {}, fresh |-> TRUE, copy |-> item[i]]]
    /\ UNCHANGED <<item, minted>>

\* Request r is done with its item, and everyone else's copy of it is old.
Written(r) ==
    edit' = [q \in Requests |->
               IF q = r THEN NoEdit
               ELSE IF edit[q] # NoEdit /\ edit[q].id = edit[r].id THEN [edit[q] EXCEPT !.fresh = FALSE]
               ELSE edit[q]]

\* ConsultantActionItemRepository::save: an insert, or an update of everything
\* but the consultant.
Upsert(old, new) == IF old = NoItem THEN new ELSE [new EXCEPT !.consultant = old.consultant]

SaveItem(r) ==
    /\ edit[r].at \in {"creating", "patching"}
    /\ item' = [item EXCEPT ![edit[r].id] = Upsert(item[edit[r].id], edit[r].copy)]
    /\ Written(r)
    /\ UNCHANGED minted

\* ConsultantActionItemRepository::delete: not an error if it is gone.
RemoveItem(r) ==
    /\ edit[r].at = "deleting"
    /\ item' = [item EXCEPT ![edit[r].id] = NoItem]
    /\ Written(r)
    /\ UNCHANGED minted

\* The write fails and is answered with a 500, or the request is dropped.
DropEdit(r) ==
    /\ edit[r] # NoEdit
    /\ edit' = [edit EXCEPT ![r] = NoEdit]
    /\ UNCHANGED <<item, minted>>

ItemStep(r) ==
    \/ \E c \in Consultants, i \in Items, text \in Texts, link \in Links :
           CreateActionItem(r, c, i, text, link)
    \/ \E c \in Consultants, i \in Items, asked \in SUBSET Fields, text \in Texts, done \in BOOLEAN :
           PatchActionItem(r, c, i, asked, text, done)
    \/ \E c \in Consultants, i \in Items : DeleteActionItem(r, c, i)
    \/ SaveItem(r)
    \/ RemoveItem(r)
    \/ DropEdit(r)

\* The prospect routes run beside them, in the places no item request holds.
ProspectStep ==
    /\ Next
    /\ \A r \in Requests : edit[r] # NoEdit => req'[r] = req[r]
    /\ UNCHANGED itemVars

ItemNext ==
    \/ ProspectStep
    \/ \E r \in Requests : ItemStep(r) /\ UNCHANGED vars

ItemSpec == ItemInit /\ [][ItemNext]_allVars

-----------------------------------------------------------------------------
(* Properties.                                                             *)

\* Whatever was saved or is about to be: an item only ever links a prospect of
\* its own consultant, although the look-up and the save are apart and a PATCH
\* writes back the link it loaded.
LinksOwnProspects ==
    \A i \in Items :
        item[i] # NoItem /\ item[i].link # NoLink =>
            Owned(item[i].link, item[i].consultant)

\* The fields in which two states of an item differ.
Differing(old, new) == {f \in Fields : old[f] # new[f]}

\* An item never changes hands or links, and it changes as somebody asked: in
\* the fields a PATCH named, by its owner's DELETE, or by a POST, unless the
\* request was overtaken by another write of the item.  In particular a
\* deleted item comes back only by a PATCH that the DELETE overtook.
ItemAsAsked ==
    [][\A i \in Items : item'[i] # item[i] =>
         /\ item[i] # NoItem /\ item'[i] # NoItem =>
                item'[i].consultant = item[i].consultant /\ item'[i].link = item[i].link
         /\ \E r \in Requests :
                /\ edit[r] # NoEdit /\ edit[r].id = i /\ edit'[r] = NoEdit
                /\ item[i] # NoItem => edit[r].copy.consultant = item[i].consultant
                /\ edit[r].fresh =>
                     CASE item'[i] = NoItem  -> edit[r].at = "deleting"
                       [] item[i] = NoItem   -> edit[r].at = "creating"
                       [] OTHER              -> /\ edit[r].at = "patching"
                                                /\ Differing(item[i], item'[i]) \subseteq edit[r].asked
      ]_allVars

-----------------------------------------------------------------------------
(* The inductive invariant behind them.                                    *)

\* Only minted ids have rows or requests, and a POST's id is nobody else's.
IdsSound ==
    /\ \A i \in Items : item[i] # NoItem => i \in minted
    /\ \A r \in Requests : edit[r] # NoEdit =>
         /\ edit[r].id \in minted
         /\ edit[r].at = "creating" =>
              /\ edit[r].fresh /\ item[edit[r].id] = NoItem
              /\ \A q \in Requests : q # r /\ edit[q] # NoEdit => edit[q].id # edit[r].id

\* A copy links a prospect of its consultant; it agrees on the owner and the
\* link with its item while that is there, and with the other copies, any of
\* which may be the next to put it back; and a fresh one differs as asked.
EditsSound ==
    \A r \in Requests : edit[r] # NoEdit =>
        LET old == item[edit[r].id]
            new == edit[r].copy IN
        /\ new.link # NoLink => Owned(new.link, new.consultant)
        /\ old # NoItem => old.consultant = new.consultant /\ old.link = new.link
        /\ edit[r].fresh /\ edit[r].at # "creating" =>
             old # NoItem /\ Differing(old, new) \subseteq edit[r].asked
        /\ \A q \in Requests : edit[q] # NoEdit /\ edit[q].id = edit[r].id =>
             edit[q].copy.consultant = new.consultant /\ edit[q].copy.link = new.link

ItemIInv == ItemTypeOK /\ IdsSound /\ EditsSound /\ LinksOwnProspects

=============================================================================
