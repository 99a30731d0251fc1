-------------------------- MODULE CapabilityRoutes --------------------------
(***************************************************************************)
(* How the capability routes are wired: each handler, the permission it    *)
(* asks for, the gateway method it calls, and the transport stack the      *)
(* gateway instance it was given sends through.                            *)
(*                                                                         *)
(* A gateway has one trait for its queries and its commands, and two       *)
(* instances of it that differ in nothing but their stack: which of them a *)
(* handler takes decides whether a command is ever sent twice, and no type *)
(* tells them apart.                                                       *)
(***************************************************************************)
EXTENDS Naturals

CONSTANTS
    DEFAULT_MAX_RETRIES,
    AGGRESSIVE_MAX_RETRIES

ASSUME RetriesAssumption ==
    DEFAULT_MAX_RETRIES \in Nat /\ AGGRESSIVE_MAX_RETRIES \in Nat

-----------------------------------------------------------------------------
(* Transport stacks, by how often a failed attempt is sent again.           *)

\* A RetryingTransport over a TimeoutTransport, and a TimeoutTransport alone.
Retrying(max_retries) == max_retries
TimeoutOnly == 0

SalesQueryTransport == Retrying(DEFAULT_MAX_RETRIES)
SalesCommandTransport == TimeoutOnly
CommitQueryTransport == Retrying(DEFAULT_MAX_RETRIES)
CommitCommandTransport == TimeoutOnly
EduTransport == Retrying(DEFAULT_MAX_RETRIES)
CapacityQueryTransport == Retrying(DEFAULT_MAX_RETRIES)
CapacityCommandTransport == TimeoutOnly
CustomerTransport == Retrying(DEFAULT_MAX_RETRIES)
ExecutionQueryTransport == Retrying(DEFAULT_MAX_RETRIES)
ExecutionCommandTransport == TimeoutOnly
ProductsTransport == Retrying(AGGRESSIVE_MAX_RETRIES)
LandscapeQueryTransport == Retrying(DEFAULT_MAX_RETRIES)
LandscapeCommandTransport == TimeoutOnly
LegalTransport == Retrying(DEFAULT_MAX_RETRIES)

-----------------------------------------------------------------------------
(* Gateway methods: the repository that answers, whether the call changes   *)
(* anything there, and whether the answer has a shape it can fail to have.  *)

Query(target) == [target |-> target, effect |-> "query", shaped |-> TRUE]
Command(target) == [target |-> target, effect |-> "command", shaped |-> TRUE]
CommandAck(target) == [target |-> target, effect |-> "command", shaped |-> FALSE]

SalesGateway ==
    [check_account_claim |-> Query("sales"),
     request_collaboration |-> CommandAck("sales"),
     submit_referral |-> CommandAck("sales")]

CommitGateway ==
    [create_proposal |-> Command("commit"),
     list_proposals |-> Query("commit"),
     request_proposal_action |-> CommandAck("commit")]

EduGateway == [request_learning_catalog |-> Query("edu")]

CapacityGateway ==
    [update_own_profile |-> Command("capacity"),
     get_own_profile |-> Query("capacity")]

CustomerGateway == [request_assigned_customer_context |-> Query("customer")]

ExecutionGateway ==
    [request_assigned_engagements |-> Query("execution"),
     confirm_task_completion |-> CommandAck("execution")]

ProductsGateway == [request_product_catalog |-> Query("products")]

LandscapeGateway ==
    [request_intelligence_digest |-> Query("landscape"),
     submit_field_observation |-> CommandAck("landscape")]

LegalGateway == [request_approved_clauses |-> Query("legal")]

-----------------------------------------------------------------------------
(* Handlers: permission first, then the call.                               *)

\* `context` says that the query string must name a proposal or a topic.
Route(name, gate, method, retries) ==
    [name |-> name, gate |-> gate, target |-> method.target, effect |-> method.effect,
     shaped |-> method.shaped, retries |-> retries, context |-> FALSE]

SalesRoutes ==
    {Route("lead_conflict_check", "sales", SalesGateway.check_account_claim, SalesQueryTransport),
     Route("request_collaboration", "sales", SalesGateway.request_collaboration, SalesCommandTransport),
     Route("submit_referral", "sales", SalesGateway.submit_referral, SalesCommandTransport)}

CommitRoutes ==
    {Route("list_proposals", "commit", CommitGateway.list_proposals, CommitQueryTransport),
     Route("request_proposal_action", "commit",
           CommitGateway.request_proposal_action, CommitCommandTransport)}

EduRoutes == {Route("edu_catalog", "edu", EduGateway.request_learning_catalog, EduTransport)}

CapacityRoutes ==
    {Route("get_profile", "capacity", CapacityGateway.get_own_profile, CapacityQueryTransport),
     Route("update_profile", "capacity", CapacityGateway.update_own_profile, CapacityCommandTransport)}

CustomerRoutes ==
    {Route("list_assigned_customers", "customer",
           CustomerGateway.request_assigned_customer_context, CustomerTransport)}

\* A defect: the completion is handed to the instance that serves the list.
ExecutionRoutesOverQuery ==
    {Route("list_assigned_engagements", "execution",
           ExecutionGateway.request_assigned_engagements, ExecutionQueryTransport),
     Route("complete_task", "execution",
           ExecutionGateway.confirm_task_completion, ExecutionQueryTransport)}

ExecutionRoutes ==
    {Route("list_assigned_engagements", "execution",
           ExecutionGateway.request_assigned_engagements, ExecutionQueryTransport),
     Route("complete_task", "execution",
           ExecutionGateway.confirm_task_completion, ExecutionCommandTransport)}

ProductsRoutes ==
    {Route("products_catalog", "products", ProductsGateway.request_product_catalog, ProductsTransport)}

LandscapeRoutes ==
    {Route("get_intelligence_digest", "landscape",
           LandscapeGateway.request_intelligence_digest, LandscapeQueryTransport),
     Route("submit_observation", "landscape",
           LandscapeGateway.submit_field_observation, LandscapeCommandTransport)}

\* A defect: a handler copied from another asks for the other's permission.
LegalRoutesAskingCommit ==
    {[Route("get_approved_clauses", "commit", LegalGateway.request_approved_clauses, LegalTransport)
         EXCEPT !.context = TRUE]}

LegalRoutes ==
    {[Route("get_approved_clauses", "legal", LegalGateway.request_approved_clauses, LegalTransport)
         EXCEPT !.context = TRUE]}

\* create_proposal, the one handler that does more, is ProposalHandoff's.
Routes ==
    SalesRoutes \union CommitRoutes \union EduRoutes \union CapacityRoutes
    \union CustomerRoutes \union ExecutionRoutes \union ProductsRoutes
    \union LandscapeRoutes \union LegalRoutes

=============================================================================
