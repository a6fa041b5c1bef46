------------------------------ MODULE MCOutbox ------------------------------
(* Outbox on small instances: one owner with a JobOps node (1) that        *)
(* publishes the snapshots and one or two LivingCV nodes (2, 3).           *)
EXTENDS Outbox

MCBackoffs == <<1, 2>>

MCOwner == [n \in Nodes |-> "owner"]

MCLivingCV == Nodes \ {1}

MCEndpoint == [n \in Nodes |-> IF n = 1 THEN "" ELSE "ok"]

\* The newest LivingCV node was registered with an endpoint_url that
\* net/url cannot parse.
MCMalformed == [n \in Nodes |-> IF n = 1 THEN "" ELSE "malformed"]
=============================================================================
