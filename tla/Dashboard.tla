------------------------------- MODULE Dashboard -------------------------------
(***************************************************************************)
(* One consultant's dashboard, read and replaced by requests that have     *)
(* asked the permission cache what the consultant may do.                  *)
(*                                                                         *)
(* A PUT checks every card against the assertions it was given and then     *)
(* replaces the stored cards in a transaction: an upsert of the            *)
(* configuration's row, a delete of the cards it sees, an insert of its     *)
(* own, a commit.  The database runs READ COMMITTED: each statement sees    *)
(* what was committed when it started, and only the upserted row keeps     *)
(* overlapping saves apart.  A GET reads the row and then the cards, and   *)
(* shows those its own assertions still permit.                            *)
(*                                                                         *)
(* The order of cards in a response is left out.                           *)
(*                                                                         *)
(* Source: crates/bff-api/src/dashboard.rs,                                *)
(* crates/bff-core/src/dashboard_configuration.rs,                         *)
(* crates/persistence/src/dashboard_configuration_repository.rs.           *)
(***************************************************************************)
EXTENDS PermissionCache, Sequences, FiniteSets

CONSTANTS
    Positions,
    DEFAULT_CARD_MODULE_IDS,    \* a sequence of modules
    MaxCards                    \* bound on the cards of a PUT

VARIABLES
    config,     \* the consultant has a row in dashboard_configurations
    cards,      \* card_placements
    holder,     \* {r} while the transaction of r has that row, or {}
    job,        \* what each request does with the dashboard
    laid        \* the cards of the PUT that committed last, for the properties

dashboardVars == <<config, cards, holder, job, laid>>
allVars == <<now, granted, cache, req, lastGranted, changes, config, cards, holder, job, laid>>

ASSUME DashboardAssumption ==
    /\ Positions \subseteq Nat
    /\ DEFAULT_CARD_MODULE_IDS \in Seq(Modules)
    /\ MaxCards \in Nat

NoJob  == [at |-> "none"]
Cards  == [module : Modules, position : Nat]

\* A PUT with its body and the cards its DELETE took; a GET that knows whether
\* there is a row; what a GET shows.
IsJob(j) ==
    \/ j = NoJob
    \/ j.at \in {"valid", "locked", "cleared"} /\ j.body \subseteq Cards /\ j.old \subseteq Cards
    \/ j.at = "found" /\ j.row \in BOOLEAN
    \/ j.at = "shown" /\ j.cards \subseteq Cards

DashboardTypeOK ==
    /\ config \in BOOLEAN
    /\ cards \subseteq Cards
    /\ holder \subseteq Requests
    /\ DOMAIN job = Requests /\ \A r \in Requests : IsJob(job[r])
    /\ laid \subseteq Cards

DashboardInit ==
    /\ Init
    /\ config = FALSE
    /\ cards = {}
    /\ holder = {}
    /\ job = [r \in Requests |-> NoJob]
    /\ laid = {}

-----------------------------------------------------------------------------
\* is_permitted of both handlers, over what assertions_for gave the request.
May(r, module) == Permits(req[r].assertions, module)

\* Request r has its assertions and now comes to the dashboard.
Arrives(r) == req[r].at = "decided" /\ job[r] = NoJob

\* DashboardConfiguration::add_card, for all of a body: each module permitted
\* and each position new.  Any other body is a 422 with nothing done.
UniquePositions(layout) == \A x, y \in layout : x.position = y.position => x = y
AddPermitted(r, body) == \A card \in body : May(r, card.module)
AddCards(r, body) ==
    /\ \A card \in body : May(r, card.module)
    /\ UniquePositions(body)

PutDashboard(r, body) ==
    /\ Arrives(r)
    /\ Cardinality(body) <= MaxCards
    /\ AddCards(r, body)
    /\ job' = [job EXCEPT ![r] = [at |-> "valid", body |-> body, old |-> {}]]
    /\ UNCHANGED <<config, cards, holder, laid>>

\* save: INSERT ... ON CONFLICT DO UPDATE waits for the row and keeps it.
InsertOrNothing(r) ==
    /\ job[r].at = "valid"
    /\ job' = [job EXCEPT ![r] = [@ EXCEPT !.at = "locked"]]
    /\ UNCHANGED <<config, cards, holder, laid>>
UpsertRow(r) ==
    /\ job[r].at = "valid"
    /\ holder = {}
    /\ holder' = {r}
    /\ job' = [job EXCEPT ![r] = [@ EXCEPT !.at = "locked"]]
    /\ UNCHANGED <<config, cards, laid>>

\* save: the DELETE takes the cards committed by now.
DeleteCards(r) ==
    /\ job[r].at = "locked"
    /\ job' = [job EXCEPT ![r] = [@ EXCEPT !.at = "cleared", !.old = cards]]
    /\ UNCHANGED <<config, cards, holder, laid>>

Release(r) == holder' = holder \ {r}

\* save: the inserts and the commit.
Commit(r) ==
    /\ job[r].at = "cleared"
    /\ config' = TRUE
    /\ cards' = (cards \ job[r].old) \cup job[r].body
    /\ laid' = job[r].body
    /\ Release(r)
    /\ job' = [job EXCEPT ![r] = NoJob]

\* find_by_consultant_id: the row, then the cards.
FindRow(r) ==
    /\ Arrives(r)
    /\ job' = [job EXCEPT ![r] = [at |-> "found", row |-> config]]
    /\ UNCHANGED <<config, cards, holder, laid>>

\* DashboardConfiguration::new: the permitted defaults, one after the other.
Defaults(r) ==
    LET permitted == {i \in DOMAIN DEFAULT_CARD_MODULE_IDS : May(r, DEFAULT_CARD_MODULE_IDS[i])} IN
    {[module |-> DEFAULT_CARD_MODULE_IDS[i], position |-> Cardinality({k \in permitted : k < i})] :
        i \in permitted}

\* get_dashboard: the filter is over the stored cards and the defaults alike.
ShowStored(r, stored) == stored
ShowPermitted(r, stored) == {card \in stored : May(r, card.module)}

GetDashboard(r) ==
    /\ job[r].at = "found"
    /\ LET stored == IF job[r].row THEN cards ELSE Defaults(r) IN
       job' = [job EXCEPT ![r] = [at |-> "shown", cards |-> ShowPermitted(r, stored)]]
    /\ UNCHANGED <<config, cards, holder, laid>>

\* The response is sent, a statement fails and the save is rolled back, or the
\* request is dropped.
EndJob(r) ==
    /\ job[r] # NoJob
    /\ job' = [job EXCEPT ![r] = NoJob]
    /\ Release(r)
    /\ UNCHANGED <<config, cards, laid>>

JobStep(r) ==
    \/ \E body \in SUBSET [module : Modules, position : Positions] : PutDashboard(r, body)
    \/ UpsertRow(r)
    \/ DeleteCards(r)
    \/ FindRow(r)
    \/ GetDashboard(r)

\* A request that is at the dashboard is done with the cache.
GateStep ==
    /\ Next
    /\ \A r \in Requests : job[r] # NoJob => req'[r] = req[r]
    /\ UNCHANGED dashboardVars

DashboardNext ==
    \/ GateStep
    \/ \E r \in Requests : JobStep(r) /\ UNCHANGED vars
    \/ \E r \in Requests : (Commit(r) \/ EndJob(r)) /\ Leave(r)

DashboardSpec == DashboardInit /\ [][DashboardNext]_allVars

-----------------------------------------------------------------------------
(* Properties.                                                             *)

\* What is stored is one accepted PUT's body, the last to commit, and never a
\* mix of two: the rows are replaced by statements that each see a different
\* moment, and only the upserted row keeps them together.
StoredIsOneLayout ==
    cards = (IF config THEN laid ELSE {}) /\ UniquePositions(cards)

\* However old the stored cards are, and whatever was granted and taken back
\* since: a card is only shown to a consultant whom Armor had granted its
\* module within an assertion's lifetime before the request.
ShownIsHeld ==
    \A r \in Requests : job[r].at = "shown" =>
        \A card \in job[r].cards :
            \E c \in Capabilities :
                /\ FamilyOf[c] = card.module
                /\ lastGranted[c] >= 0
                /\ lastGranted[c] + LifetimeOf[c] > req[r].since

-----------------------------------------------------------------------------
(* The inductive invariant behind them.                                    *)

\* Who is between the upsert and the commit holds the row, so the cards its
\* DELETE took are all there are.
SavesAlone ==
    /\ \A r \in Requests : job[r].at \in {"locked", "cleared"} => holder = {r}
    /\ \A r \in Requests : job[r].at = "cleared" => job[r].old = cards

\* A job is of a request that has its assertions; what it puts has a place for
\* each card, and what it shows is permitted by them.
JobsSound ==
    \A r \in Requests :
        /\ job[r] # NoJob => req[r].at = "decided"
        /\ job[r].at \in {"valid", "locked", "cleared"} => UniquePositions(job[r].body)
        /\ job[r].at = "shown" => \A card \in job[r].cards : May(r, card.module)

DashboardIInv == DashboardTypeOK /\ SavesAlone /\ JobsSound /\ StoredIsOneLayout

=============================================================================
