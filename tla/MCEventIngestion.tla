-------------------------- MODULE MCEventIngestion --------------------------
(***************************************************************************)
(* A small nexus feed for TLC: one task, its confirmation, a notification  *)
(* and a legal clause update, or a part of them.                           *)
(***************************************************************************)
EXTENDS EventIngestion

CONSTANTS task, done, news, clause

MCTypeOf ==
    [e \in Events |-> CASE e = task   -> "task_assigned"
                        [] e = done   -> "task_completed"
                        [] e = news   -> "product_catalog_updated"
                        [] e = clause -> "legal_clause_updated"]

MCRelatedOf == [e \in Events |-> IF e = done THEN task ELSE NoEvent]

=============================================================================
