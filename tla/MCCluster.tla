----------------------------- MODULE MCCluster -----------------------------
(* Constants for model-checking ClusterController. *)
EXTENDS ClusterController

Host(e, c) == [endpoint |-> e, cp |-> c]

\* One host, the other one, both, and a pool listing one endpoint twice.
MCPools == { <<Host(1, TRUE)>>,
             <<Host(2, FALSE)>>,
             <<Host(1, TRUE), Host(2, TRUE)>>,
             <<Host(2, TRUE), Host(2, FALSE)>> }

\* Updates as the webhook admits them.
AsAdmitted == Pools \cup {NoPool}
=============================================================================
