---------------------------- MODULE MCMembership ----------------------------
(* Small instances of Membership.                                          *)
EXTENDS Membership

(* A token without a node ID may enrol any node.                           *)
MCNodesOf == [t \in Tokens |-> Nodes]

(* The delivery of assignments, among nodes that nobody drains and with    *)
(* tokens that stay valid until they are used up: the steps of Next but    *)
(* for DrainNode and the expiry of a token.                                *)
Delivery ==
  \/ /\ TokensNext /\ \A t \in Tokens : ~tokens'[t].expired
     /\ UNCHANGED <<coreVars, queueVars, clockVars, histVars>>
  \/ \E n \in Nodes, t \in Tokens : EnrollBegin(n, t)
  \/ EnrollFail
  \/ EnrollCommit
  \/ \E n \in Nodes : ProcessHeartbeat(n)
  \/ \E n \in Nodes : ReceiveResponse(n)
  \/ \E n \in Nodes : LoseResponse(n)
  \/ \E n \in Nodes : QueueAssignment(n)
  \/ \E n \in Nodes : UncordonNode(n)
  \/ CheckNodeHealth
  \/ RemoveExpiredNodes
  \/ TakeSnapshot
  \/ Tick
  \/ Crash
  \/ Stop
DeliverySpec == Init /\ [][Delivery]_vars
=============================================================================
