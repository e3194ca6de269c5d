-------------------------- MODULE MembershipProofs --------------------------
(***************************************************************************)
(* Proofs, for every set of nodes and tokens and every value of the time   *)
(* constants, of the safety properties of Membership.                      *)
(***************************************************************************)
EXTENDS Membership, StorageManager, TLAPS

(* The enrolments a token has admitted are at most the uses recorded while *)
(* it is in the table, and an enrolment under way still has a use to take. *)
TokenAccounting ==
  \A t \in Tokens :
    /\ tokens[t].useCount <= tokens[t].maxUses
    /\ enrolCount[t] <= tokens[t].maxUses
    /\ tokens[t].status = "ungenerated" => enrolCount[t] = 0
    /\ tokens[t].status = "stored" => enrolCount[t] <= tokens[t].useCount
    /\ enrolling # NoEnrolment /\ enrolling.token = t =>
         enrolCount[t] < tokens[t].maxUses /\ tokens[t].status # "ungenerated"

(* The silence of a schedulable node is bounded by the time since the last *)
(* check as well.                                                          *)
SilenceBound ==
  checked /\ ~wedged =>
    \A n \in Nodes : nodes[n].state \in {"enrolling", "ready"} =>
      nodes[n].silence <= HeartbeatTimeout + sinceCheck

IInv == TypeOK /\ TokenAccounting /\ SilenceBound /\ EnrolmentTargetIdle /\ DrainTaintKept

(* Type correctness is inductive: every handler leaves the manager's state *)
(* well formed.                                                            *)
LEMMA TypeInit == Init => TypeOK
  <1> SUFFICES ASSUME Init PROVE TypeOK
    BY Zenon
  <1>1. tokens \in [Tokens -> TokenRec]
    BY MaxUsesAssumption DEF Init, TokensInit, NoToken, TokenRec, TokenStatus
  <1>2. CoreTypeOK
    <2>1. wedged \in BOOLEAN
      BY Zenon DEF Init
    <2>2. nodes \in [Nodes -> NodeRec]
      BY TimeAssumption DEF Init, NodeRec, NoNode, States, MaxSilence
    <2>3. stored \in [Nodes -> StoredRec] /\ snapshot \in [Nodes -> StoredRec]
      BY Zenon DEF Init, StoredRec, NoRecord, States
    <2> QED BY Zenon, <2>1, <2>2, <2>3 DEF Init, CoreTypeOK
  <1>3. QueueTypeOK
    BY DEF Init, QueueTypeOK, NoResponse
  <1>4. ClockTypeOK
    <2>1. checked \in BOOLEAN
      BY Zenon DEF Init
    <2>2. sinceCheck \in 0..CheckInterval /\ restarts \in 0..MaxRestarts
      BY TimeAssumption, BoundAssumption DEF Init
    <2> QED BY Zenon, <2>1, <2>2 DEF ClockTypeOK
  <1>5. enrolCount \in [Tokens -> Nat] /\ drained \in SUBSET Nodes
    BY Zenon DEF Init
  <1> QED BY Zenon, <1>1, <1>2, <1>3, <1>4, <1>5 DEF TypeOK

(* A step of the token table keeps the types.                              *)
LEMMA TokensType ==
  ASSUME TypeOK, TokensNext PROVE tokens' \in [Tokens -> TokenRec]
  <1> USE MaxUsesAssumption DEF TypeOK, TokenRec, TokenStatus
  <1>1. ASSUME NEW t \in Tokens, NEW uses \in 0..MaxUses, GenerateToken(t, uses)
        PROVE  tokens' \in [Tokens -> TokenRec]
    BY <1>1 DEF GenerateToken
  <1>2. ASSUME NEW t \in Tokens, ExpireToken(t) PROVE tokens' \in [Tokens -> TokenRec]
    BY Zenon, <1>2 DEF ExpireToken
  <1>3. ASSUME NEW t \in Tokens, RevokeToken(t) PROVE tokens' \in [Tokens -> TokenRec]
    BY <1>3 DEF RevokeToken
  <1>4. ASSUME CleanupExpiredTokens PROVE tokens' \in [Tokens -> TokenRec]
    BY <1>4 DEF CleanupExpiredTokens
  <1> QED BY Zenon, <1>1, <1>2, <1>3, <1>4 DEF TokensNext

(* saveNode writes a well-formed record or nothing.                        *)
LEMMA SaveType ==
  ASSUME TypeOK, NEW n \in Nodes, NEW ok \in BOOLEAN, nodes' \in [Nodes -> NodeRec],
         SaveNode(n, ok)
  PROVE  stored' \in [Nodes -> StoredRec]
  <1>1. Record(nodes'[n]) \in StoredRec
    BY Zenon DEF Record, NodeRec, StoredRec
  <1>2. stored' = [stored EXCEPT ![n] = Record(nodes'[n])] \/ stored' = stored
    BY Zenon DEF SaveNode
  <1> QED BY Zenon, <1>1, <1>2 DEF TypeOK, CoreTypeOK

(* What an action that touches neither queues nor clocks keeps of the      *)
(* types.                                                                  *)
LEMMA QueueTypeStutter == QueueTypeOK /\ UNCHANGED queueVars => QueueTypeOK'
  BY Zenon DEF QueueTypeOK, queueVars

(* The types of the clocks survive a step that leaves them alone.          *)
LEMMA ClockTypeStutter == ClockTypeOK /\ UNCHANGED clockVars => ClockTypeOK'
  <1> SUFFICES ASSUME ClockTypeOK, UNCHANGED clockVars PROVE ClockTypeOK'
    BY Zenon
  <1>1. checked' \in BOOLEAN
    BY Zenon DEF ClockTypeOK, clockVars
  <1> QED BY Zenon, <1>1 DEF ClockTypeOK, clockVars

(* The types of the node records survive a step that leaves them alone.    *)
LEMMA CoreTypeStutter == CoreTypeOK /\ UNCHANGED coreVars => CoreTypeOK'
  <1> SUFFICES ASSUME CoreTypeOK, UNCHANGED coreVars PROVE CoreTypeOK'
    BY Zenon
  <1>1. wedged' \in BOOLEAN
    BY Zenon DEF CoreTypeOK, coreVars
  <1> QED BY Zenon, <1>1 DEF CoreTypeOK, coreVars

(* Every step of the manager keeps the types.                              *)
LEMMA TypeStep == TypeOK /\ [Next]_vars => TypeOK'
  <1> SUFFICES ASSUME TypeOK, [Next]_vars PROVE TypeOK'
    BY Zenon
  <1> USE TimeAssumption, BoundAssumption
  <1>0. CASE UNCHANGED vars
    BY Zenon, <1>0, QueueTypeStutter, ClockTypeStutter, CoreTypeStutter DEF TypeOK, vars, histVars
  <1>1. CASE TokensNext /\ UNCHANGED <<coreVars, queueVars, clockVars, histVars>>
    BY Zenon, <1>1, TokensType, QueueTypeStutter, ClockTypeStutter, CoreTypeStutter
    DEF TypeOK, histVars
  <1>2. ASSUME NEW n \in Nodes, NEW t \in Tokens, EnrollBegin(n, t) PROVE TypeOK'
    <2>1. wedged' \in BOOLEAN
      BY <1>2, Zenon DEF EnrollBegin, TypeOK, CoreTypeOK
    <2>2. CoreTypeOK'
      BY Zenon, <1>2, <2>1 DEF EnrollBegin, TypeOK, CoreTypeOK
    <2> QED
      BY Zenon, <1>2, <2>2, QueueTypeStutter, ClockTypeStutter DEF EnrollBegin, TypeOK, histVars
  <1>3. CASE EnrollFail
    <2>1. wedged' \in BOOLEAN
      BY <1>3, Zenon DEF EnrollFail, TypeOK, CoreTypeOK
    <2>2. CoreTypeOK'
      BY Zenon, <1>3, <2>1 DEF EnrollFail, TypeOK, CoreTypeOK
    <2> QED
      BY Zenon, <1>3, <2>2, QueueTypeStutter, ClockTypeStutter DEF EnrollFail, TypeOK, histVars
  <1>4. CASE EnrollCommit
    <2> DEFINE n == enrolling.node
               t == enrolling.token
    <2>1. n \in Nodes /\ t \in Tokens
      BY Zenon, <1>4 DEF EnrollCommit, TypeOK, CoreTypeOK
    <2>2. nodes' \in [Nodes -> NodeRec]
      BY <1>4, <2>1 DEF EnrollCommit, TypeOK, CoreTypeOK, NodeRec, States, MaxSilence
    <2>3. SaveNode(n, FALSE)
      BY Zenon, <1>4 DEF EnrollCommit
    <2>4. stored' \in [Nodes -> StoredRec]
      BY Zenon, <2>1, <2>2, <2>3, SaveType
    <2>5. wedged' \in BOOLEAN
      BY <1>4, Zenon DEF EnrollCommit, TypeOK, CoreTypeOK
    <2>6. CoreTypeOK'
      BY Zenon, <1>4, <2>2, <2>4, <2>5 DEF EnrollCommit, TypeOK, CoreTypeOK
    <2>7. tokens' \in [Tokens -> TokenRec]
      <3>1. tokens' = UseToken(t)
        BY Zenon, <1>4 DEF EnrollCommit
      <3> QED BY <2>1, <3>1, MaxUsesAssumption DEF UseToken, Exhausted, TypeOK, TokenRec
    <2>8. enrolCount' \in [Tokens -> Nat] /\ drained' \in SUBSET Nodes
      BY <1>4, <2>1 DEF EnrollCommit, TypeOK
    <2> QED
      BY Zenon, <1>4, <2>6, <2>7, <2>8, QueueTypeStutter, ClockTypeStutter DEF EnrollCommit,
         TypeOK
  <1>5. ASSUME NEW n \in Nodes, ProcessHeartbeat(n) PROVE TypeOK'
    <2>1. nodes' \in [Nodes -> NodeRec]
      <3>1. Heard(nodes[n]) \in NodeRec
        BY DEF Heard, TypeOK, CoreTypeOK, NodeRec, States, MaxSilence
      <3> QED BY Zenon, <1>5, <3>1 DEF ProcessHeartbeat, TypeOK, CoreTypeOK
    <2>2. stored' \in [Nodes -> StoredRec]
      BY Zenon, <1>5, <2>1, SaveType DEF ProcessHeartbeat
    <2>3. wedged' \in BOOLEAN
      BY <1>5, Zenon DEF ProcessHeartbeat, TypeOK, CoreTypeOK
    <2>4. CoreTypeOK'
      BY Zenon, <1>5, <2>1, <2>2, <2>3 DEF ProcessHeartbeat, TypeOK, CoreTypeOK
    <2>5. QueueTypeOK'
      <3> DEFINE r == [sent |-> TRUE, assignments |-> pending[n],
                       drain |-> nodes'[n].state = "draining"]
      <3>1. r \in [sent : BOOLEAN, assignments : Seq(Nat), drain : BOOLEAN]
        BY Zenon DEF TypeOK, QueueTypeOK
      <3>2. response' = [response EXCEPT ![n] = r]
        BY Zenon, <1>5 DEF ProcessHeartbeat
      <3> HIDE DEF r
      <3> QED BY <1>5, <3>1, <3>2 DEF ProcessHeartbeat, TypeOK, QueueTypeOK
    <2> QED
      BY Zenon, <1>5, <2>4, <2>5, ClockTypeStutter DEF ProcessHeartbeat, TypeOK, histVars
  <1>6. ASSUME NEW n \in Nodes, ReceiveResponse(n) PROVE TypeOK'
    <2>1. QueueTypeOK'
      <3>1. received[n] \o response[n].assignments \in Seq(Nat)
        BY DEF TypeOK, QueueTypeOK
      <3> QED BY <1>6, <3>1 DEF ReceiveResponse, TypeOK, QueueTypeOK, NoResponse
    <2> QED
      BY Zenon, <1>6, <2>1, CoreTypeStutter, ClockTypeStutter DEF ReceiveResponse, TypeOK,
         histVars
  <1>7. ASSUME NEW n \in Nodes, LoseResponse(n) PROVE TypeOK'
    <2>1. QueueTypeOK'
      BY <1>7 DEF LoseResponse, TypeOK, QueueTypeOK, NoResponse
    <2> QED
      BY Zenon, <1>7, <2>1, CoreTypeStutter, ClockTypeStutter DEF LoseResponse, TypeOK, histVars
  <1>8. ASSUME NEW n \in Nodes, QueueAssignment(n) PROVE TypeOK'
    <2>1. QueueTypeOK'
      BY <1>8 DEF QueueAssignment, TypeOK, QueueTypeOK
    <2> QED
      BY Zenon, <1>8, <2>1, CoreTypeStutter, ClockTypeStutter DEF QueueAssignment, TypeOK,
         histVars
  <1>9. ASSUME NEW n \in Nodes, NEW saved \in BOOLEAN, DrainNode(n, saved) PROVE TypeOK'
    <2>1. nodes' \in [Nodes -> NodeRec]
      BY ZenonT(60), <1>9 DEF DrainNode, TypeOK, CoreTypeOK, NodeRec, States
    <2>2. stored' \in [Nodes -> StoredRec]
      BY Zenon, <1>9, <2>1, SaveType DEF DrainNode
    <2>3. wedged' \in BOOLEAN
      BY <1>9, Zenon DEF DrainNode
    <2>4. CoreTypeOK'
      BY Zenon, <1>9, <2>1, <2>2, <2>3 DEF DrainNode, TypeOK, CoreTypeOK
    <2> QED
      BY Zenon, <1>9, <2>4, QueueTypeStutter, ClockTypeStutter DEF DrainNode, TypeOK
  <1>10. ASSUME NEW n \in Nodes, UncordonNode(n) PROVE TypeOK'
    <2>1. nodes' \in [Nodes -> NodeRec]
      BY Zenon, <1>10 DEF UncordonNode, TypeOK, CoreTypeOK, NodeRec, States
    <2>2. stored' \in [Nodes -> StoredRec]
      BY Zenon, <1>10, <2>1, SaveType DEF UncordonNode
    <2>3. wedged' \in BOOLEAN
      BY <1>10, Zenon DEF UncordonNode, TypeOK, CoreTypeOK
    <2>4. CoreTypeOK'
      BY Zenon, <1>10, <2>1, <2>2, <2>3 DEF UncordonNode, TypeOK, CoreTypeOK
    <2> QED
      BY Zenon, <1>10, <2>4, QueueTypeStutter, ClockTypeStutter DEF UncordonNode, TypeOK
  <1>11. CASE CheckNodeHealth
    <2>1. nodes' \in [Nodes -> NodeRec]
      BY Zenon, <1>11 DEF CheckNodeHealth, TypeOK, CoreTypeOK, NodeRec, States
    <2>2. wedged' \in BOOLEAN /\ checked' \in BOOLEAN
      BY <1>11, Zenon DEF CheckNodeHealth, TypeOK, CoreTypeOK
    <2>3. CoreTypeOK'
      BY Zenon, <1>11, <2>1, <2>2 DEF CheckNodeHealth, TypeOK, CoreTypeOK
    <2>4. ClockTypeOK'
      BY <1>11, <2>2 DEF CheckNodeHealth, TypeOK, ClockTypeOK
    <2> QED
      BY Zenon, <1>11, <2>3, <2>4, QueueTypeStutter DEF CheckNodeHealth, TypeOK, histVars
  <1>12. CASE RemoveExpiredNodes
    <2>1. nodes' \in [Nodes -> NodeRec]
      BY <1>12 DEF RemoveExpiredNodes, TypeOK, CoreTypeOK, NodeRec, NoNode, States, MaxSilence
    <2>2. stored' \in [Nodes -> StoredRec]
      BY <1>12 DEF RemoveExpiredNodes, TypeOK, CoreTypeOK, StoredRec, NoRecord, States
    <2>3. wedged' \in BOOLEAN
      BY <1>12, Zenon DEF RemoveExpiredNodes, TypeOK, CoreTypeOK
    <2>4. CoreTypeOK'
      BY Zenon, <1>12, <2>1, <2>2, <2>3 DEF RemoveExpiredNodes, TypeOK, CoreTypeOK
    <2> QED
      BY Zenon, <1>12, <2>4, QueueTypeStutter, ClockTypeStutter DEF RemoveExpiredNodes, TypeOK
  <1>13. CASE TakeSnapshot
    <2>1. wedged' \in BOOLEAN
      BY <1>13, Zenon DEF TakeSnapshot, TypeOK, CoreTypeOK
    <2>2. CoreTypeOK'
      BY Zenon, <1>13, <2>1 DEF TakeSnapshot, TypeOK, CoreTypeOK
    <2> QED
      BY Zenon, <1>13, <2>2, QueueTypeStutter, ClockTypeStutter DEF TakeSnapshot, TypeOK, histVars
  <1>14. CASE Tick
    <2>1. nodes' \in [Nodes -> NodeRec]
      BY <1>14 DEF Tick, TypeOK, CoreTypeOK, NodeRec, MaxSilence
    <2>2. wedged' \in BOOLEAN /\ checked' \in BOOLEAN
      BY <1>14, Zenon DEF Tick, TypeOK, CoreTypeOK, ClockTypeOK
    <2>3. CoreTypeOK'
      BY Zenon, <1>14, <2>1, <2>2 DEF Tick, TypeOK, CoreTypeOK
    <2>4. ClockTypeOK'
      BY <1>14, <2>2 DEF Tick, TypeOK, ClockTypeOK
    <2> QED
      BY Zenon, <1>14, <2>3, <2>4, QueueTypeStutter DEF Tick, TypeOK, histVars
  <1>15. ASSUME stored' \in [Nodes -> StoredRec], Restart PROVE TypeOK'
    <2>1. nodes' \in [Nodes -> NodeRec]
      <3>1. PICK replayed \in SUBSET Nodes, silence \in [Nodes -> 0..MaxSilence] :
              nodes' = [n \in Nodes |->
                LET rec == IF n \in replayed THEN stored'[n] ELSE snapshot[n] IN
                  IF rec.state = "absent" THEN NoNode
                  ELSE [state |-> rec.state, silence |-> silence[n], tainted |-> rec.tainted]]
        BY <1>15, Zenon DEF Restart, LoadNodes
      <3>2. ASSUME NEW n \in Nodes, NEW rec \in StoredRec
            PROVE  [state |-> rec.state, silence |-> silence[n], tainted |-> rec.tainted]
                     \in NodeRec
        BY Zenon DEF StoredRec, NodeRec
      <3>3. NoNode \in NodeRec
        BY DEF NoNode, NodeRec, States, MaxSilence
      <3> QED BY Zenon, <1>15, <3>1, <3>2, <3>3 DEF TypeOK, CoreTypeOK
    <2>2. wedged' \in BOOLEAN /\ checked' \in BOOLEAN
      BY <1>15, Zenon DEF Restart
    <2>3. CoreTypeOK'
      BY Zenon, <1>15, <2>1, <2>2 DEF Restart, TypeOK, CoreTypeOK
    <2>4. QueueTypeOK'
      BY <1>15 DEF Restart, TypeOK, QueueTypeOK, NoResponse
    <2>5. ClockTypeOK'
      BY <1>15, <2>2 DEF Restart, TypeOK, ClockTypeOK
    <2>6. tokens' \in [Tokens -> TokenRec]
      BY ZenonT(60), <1>15 DEF Restart, ForgetTokens, TypeOK, TokenRec, TokenStatus
    <2> QED
      BY Zenon, <1>15, <2>3, <2>4, <2>5, <2>6 DEF Restart, TypeOK
  <1>16. CASE Crash
    BY Zenon, <1>15, <1>16 DEF Crash, TypeOK, CoreTypeOK
  <1>17. CASE Stop
    <2>1. ASSUME NEW n \in Nodes PROVE Record(nodes[n]) \in StoredRec
      BY Zenon DEF TypeOK, CoreTypeOK, Record, NodeRec, StoredRec
    <2>2. stored' \in [Nodes -> StoredRec]
      BY Zenon, <1>17, <2>1 DEF Stop, TypeOK, CoreTypeOK
    <2> QED BY Zenon, <1>15, <1>17, <2>2 DEF Stop
  <1> QED
    BY Zenon, <1>0, <1>1, <1>2, <1>3, <1>4, <1>5, <1>6, <1>7, <1>8, <1>9, <1>10, <1>11, <1>12,
       <1>13, <1>14, <1>16, <1>17 DEF Next

-----------------------------------------------------------------------------
(* The token accounting is inductive on its own.                           *)
LEMMA AccountingInit == Init => TokenAccounting
  <1> SUFFICES ASSUME Init PROVE TokenAccounting
    BY Zenon
  <1>1. /\ tokens = [t \in Tokens |-> NoToken] /\ enrolling = NoEnrolment
        /\ enrolCount = [t \in Tokens |-> 0]
    BY Zenon DEF Init, TokensInit
  <1>2. \A t \in Tokens : /\ tokens[t].useCount = 0 /\ tokens[t].maxUses = 1
                          /\ tokens[t].status = "ungenerated" /\ enrolCount[t] = 0
    BY Zenon, <1>1 DEF NoToken
  <1>3. enrolling = NoEnrolment
    BY Zenon, <1>1
  <1>4. ASSUME NEW t \in Tokens
        PROVE  /\ tokens[t].useCount <= tokens[t].maxUses
               /\ enrolCount[t] <= tokens[t].maxUses
               /\ tokens[t].status = "ungenerated" => enrolCount[t] = 0
               /\ tokens[t].status = "stored" => enrolCount[t] <= tokens[t].useCount
    BY <1>2
  <1> QED BY <1>3, <1>4, Zenon DEF TokenAccounting

(* Every step keeps the accounts of the tokens.                            *)
LEMMA AccountingStep ==
  TypeOK /\ TokenAccounting /\ [Next]_vars => TokenAccounting'
  <1> SUFFICES ASSUME TypeOK, TokenAccounting, [Next]_vars PROVE TokenAccounting'
    BY Zenon
  <1> USE MaxUsesAssumption, NoEnrolmentAssumption
  <1>a. CASE UNCHANGED <<tokens, enrolling, enrolCount>>
    BY ZenonT(60), <1>a DEF TokenAccounting
  <1>1. CASE TokensNext /\ UNCHANGED <<enrolling, enrolCount>>
    <2> USE <1>1 DEF TypeOK, TokenRec, TokenAccounting
    <2>1. ASSUME NEW t \in Tokens, NEW uses \in 0..MaxUses, GenerateToken(t, uses)
          PROVE  TokenAccounting'
      BY <2>1 DEF GenerateToken
    <2>2. ASSUME NEW t \in Tokens, ExpireToken(t) PROVE TokenAccounting'
      BY Zenon, <2>2 DEF ExpireToken
    <2>3. ASSUME NEW t \in Tokens, RevokeToken(t) PROVE TokenAccounting'
      BY <2>3 DEF RevokeToken
    <2>4. ASSUME CleanupExpiredTokens PROVE TokenAccounting'
      BY <2>4 DEF CleanupExpiredTokens
    <2> QED BY Zenon, <2>1, <2>2, <2>3, <2>4 DEF TokensNext
  <1>2. ASSUME NEW n \in Nodes, NEW t \in Tokens, EnrollBegin(n, t) PROVE TokenAccounting'
    BY <1>2 DEF EnrollBegin, ValidateToken, Exhausted, histVars, TokenAccounting, TypeOK, TokenRec
  <1>3. CASE EnrollFail
    BY Zenon, <1>3 DEF EnrollFail, histVars, TokenAccounting
  <1>4. CASE EnrollCommit
    <2>1. PICK t \in Tokens : t = enrolling.token
      BY Zenon, <1>4 DEF EnrollCommit, TypeOK, CoreTypeOK
    <2>2. /\ enrolling # NoEnrolment /\ enrolling' = NoEnrolment
          /\ tokens' = UseToken(t)
          /\ enrolCount' = [enrolCount EXCEPT ![t] = @ + 1]
      BY Zenon, <1>4, <2>1 DEF EnrollCommit
    <2> QED BY <2>1, <2>2 DEF UseToken, Exhausted, TokenAccounting, TypeOK, TokenRec
  <1>5. CASE Restart
    BY Zenon, <1>5 DEF Restart, ForgetTokens, TokenAccounting, TypeOK, TokenRec
  <1> QED
    BY Zenon, <1>a, <1>1, <1>2, <1>3, <1>4, <1>5
    DEF Next, vars, coreVars, histVars, ProcessHeartbeat, ReceiveResponse, LoseResponse,
        QueueAssignment, DrainNode, UncordonNode, CheckNodeHealth, RemoveExpiredNodes,
        TakeSnapshot, Tick, Crash, Stop

-----------------------------------------------------------------------------
(* A schedulable node's silence stays within the bound: a tick adds one to *)
(* the silence and one to the time since the last check, and a check takes *)
(* every node beyond the timeout out of service.                           *)
LEMMA SilenceStep == TypeOK /\ SilenceBound /\ [Next]_vars => SilenceBound'
  <1> SUFFICES ASSUME TypeOK, SilenceBound, [Next]_vars,
                      checked' /\ ~wedged',
                      NEW m \in Nodes, nodes'[m].state \in {"enrolling", "ready"}
               PROVE  nodes'[m].silence <= HeartbeatTimeout + sinceCheck'
    BY Zenon DEF SilenceBound
  <1> USE TimeAssumption DEF TypeOK, CoreTypeOK, ClockTypeOK, NodeRec
  <1>a. CASE UNCHANGED <<nodes, sinceCheck, checked, wedged>>
    BY Zenon, <1>a DEF SilenceBound
  <1>1. CASE EnrollCommit
    BY <1>1 DEF EnrollCommit, SilenceBound, clockVars
  <1>2. ASSUME NEW n \in Nodes, ProcessHeartbeat(n)
        PROVE  nodes'[m].silence <= HeartbeatTimeout + sinceCheck'
    BY <1>2 DEF ProcessHeartbeat, Heard, SilenceBound, clockVars
  <1>3. ASSUME NEW n \in Nodes, NEW saved \in BOOLEAN, DrainNode(n, saved)
        PROVE  nodes'[m].silence <= HeartbeatTimeout + sinceCheck'
    BY Zenon, <1>3 DEF DrainNode, muFree, SilenceBound, clockVars
  <1>4. ASSUME NEW n \in Nodes, UncordonNode(n)
        PROVE  nodes'[m].silence <= HeartbeatTimeout + sinceCheck'
    BY Zenon, <1>4 DEF UncordonNode, SilenceBound, clockVars
  <1>5. CASE CheckNodeHealth
    BY <1>5 DEF CheckNodeHealth, Live
  <1>6. CASE RemoveExpiredNodes
    BY Zenon, <1>6 DEF RemoveExpiredNodes, NoNode, SilenceBound, clockVars
  <1>7. CASE Tick
    BY <1>7 DEF Tick, Present, SilenceBound
  <1>8. CASE Restart
    BY Zenon, <1>8 DEF Restart
  <1> QED
    BY Zenon, <1>a, <1>1, <1>2, <1>3, <1>4, <1>5, <1>6, <1>7, <1>8
    DEF Next, vars, coreVars, clockVars, EnrollBegin, EnrollFail, ReceiveResponse,
        LoseResponse, QueueAssignment, TakeSnapshot, Crash, Stop

(* The node under enrolment stays idle, because EnrollNode holds m.mu      *)
(* between its check and its store.                                        *)
LEMMA IdleStep == TypeOK /\ EnrolmentTargetIdle /\ [Next]_vars => EnrolmentTargetIdle'
  <1> SUFFICES ASSUME TypeOK, EnrolmentTargetIdle, [Next]_vars, enrolling' # NoEnrolment
               PROVE  ~Live(enrolling.node)'
    BY Zenon DEF EnrolmentTargetIdle
  <1>a. CASE UNCHANGED <<nodes, enrolling>>
    BY Zenon, <1>a DEF EnrolmentTargetIdle, Live
  <1>1. ASSUME NEW n \in Nodes, NEW t \in Tokens, EnrollBegin(n, t)
        PROVE  ~Live(enrolling.node)'
    BY Zenon, <1>1 DEF EnrollBegin, Live
  <1> QED
    BY Zenon, <1>a, <1>1
    DEF Next, vars, coreVars, muFree, EnrollFail, EnrollCommit, ProcessHeartbeat,
        ReceiveResponse, LoseResponse, QueueAssignment, DrainNode, UncordonNode,
        CheckNodeHealth, RemoveExpiredNodes, TakeSnapshot, Tick, Crash, Stop, Restart

(* Only uncordoning, a new enrolment or a restart removes the drain taint. *)
LEMMA TaintStep == TypeOK /\ DrainTaintKept /\ [Next]_vars => DrainTaintKept'
  <1> SUFFICES ASSUME TypeOK, DrainTaintKept, [Next]_vars,
                      NEW m \in drained', Present(m)'
               PROVE  nodes'[m].tainted
    BY Zenon DEF DrainTaintKept
  <1> USE DEF TypeOK, CoreTypeOK, NodeRec, Present, DrainTaintKept
  <1>a. CASE UNCHANGED <<nodes, drained>>
    BY Zenon, <1>a
  <1>1. CASE EnrollCommit
    BY Zenon, <1>1 DEF EnrollCommit
  <1>2. ASSUME NEW n \in Nodes, ProcessHeartbeat(n) PROVE nodes'[m].tainted
    BY Zenon, <1>2 DEF ProcessHeartbeat, Heard, histVars
  <1>3. ASSUME NEW n \in Nodes, NEW saved \in BOOLEAN, DrainNode(n, saved)
        PROVE  nodes'[m].tainted
    BY Zenon, <1>3 DEF DrainNode
  <1>4. ASSUME NEW n \in Nodes, UncordonNode(n) PROVE nodes'[m].tainted
    BY Zenon, <1>4 DEF UncordonNode
  <1>5. CASE CheckNodeHealth
    BY Zenon, <1>5 DEF CheckNodeHealth, Live, histVars
  <1>6. CASE RemoveExpiredNodes
    BY Zenon, <1>6 DEF RemoveExpiredNodes
  <1>7. CASE Tick
    BY Zenon, <1>7 DEF Tick, histVars
  <1>8. CASE Restart
    BY Zenon, <1>8 DEF Restart
  <1> QED
    BY Zenon, <1>a, <1>1, <1>2, <1>3, <1>4, <1>5, <1>6, <1>7, <1>8
    DEF Next, vars, coreVars, histVars, EnrollBegin, EnrollFail, ReceiveResponse,
        LoseResponse, QueueAssignment, TakeSnapshot, Crash, Stop

(* The invariant holds when the coordinator starts.                        *)
LEMMA InvInit == Init => IInv
  BY TypeInit, AccountingInit, Zenon
  DEF IInv, Init, SilenceBound, EnrolmentTargetIdle, DrainTaintKept

(* Every step keeps the invariant.                                         *)
LEMMA InvStep == IInv /\ [Next]_vars => IInv'
  BY Zenon, TypeStep, AccountingStep, SilenceStep, IdleStep, TaintStep DEF IInv

(* The invariant holds in every reachable state.                           *)
LEMMA Invariance == Spec => []IInv
  BY InvInit, InvStep, PTL DEF Spec

(* Every reachable state of the manager is well typed.                     *)
THEOREM TypeCorrect == Spec => []TypeOK
  BY Invariance, PTL DEF IInv

(* A bootstrap token enrols at most MaxUses nodes, whatever is revoked,    *)
(* expires, is cleaned up or restarts while EnrollNode runs.               *)
THEOREM TokenLimitHolds == Spec => []EnrolmentsWithinLimit
  <1>1. IInv => EnrolmentsWithinLimit
    BY Zenon DEF IInv, TokenAccounting, EnrolmentsWithinLimit
  <1> QED BY <1>1, Invariance, PTL

(* EnrollNode never replaces the record of a live node.                    *)
THEOREM EnrolmentIsSafe == Spec => []EnrolmentTargetIdle
  BY Invariance, PTL DEF IInv

(* Leave convergence: a silent node leaves service within the timeout plus *)
(* one check interval, for every timeout and interval.                     *)
THEOREM LeaveConverges == Spec => []DetectionLatency
  <1>1. IInv => DetectionLatency
    BY TimeAssumption
    DEF IInv, TypeOK, CoreTypeOK, ClockTypeOK, NodeRec, SilenceBound, DetectionLatency
  <1> QED BY <1>1, Invariance, PTL

(* A drained node keeps its NoSchedule taint.                              *)
THEOREM TaintIsKept == Spec => []DrainTaintKept
  BY Invariance, PTL DEF IInv

-----------------------------------------------------------------------------
(* Sequences of assignments in the order they were queued.                 *)
Increasing(s) == \A i, j \in 1 .. Len(s) : i < j => s[i] < s[j]
Before(s, t) == \A i \in 1 .. Len(s), j \in 1 .. Len(t) : s[i] < t[j]
Below(s, k) == \A i \in 1 .. Len(s) : s[i] < k

(* What an agent has, what is on its way and what is queued follow one     *)
(* another, and all are older than the next assignment.                    *)
InOrder(r, a, p, k) ==
  /\ Increasing(r) /\ Increasing(a) /\ Increasing(p)
  /\ Before(r, a) /\ Before(r, p) /\ Before(a, p)
  /\ Below(r, k) /\ Below(a, k) /\ Below(p, k)

QueuesInOrder ==
  \A n \in Nodes :
    /\ InOrder(received[n], response[n].assignments, pending[n], nextId)
    /\ ~response[n].sent => response[n].assignments = << >>

(* A concatenation is in order when its parts are.                         *)
LEMMA Concatenated ==
  ASSUME NEW s \in Seq(Nat), NEW t \in Seq(Nat)
  PROVE  /\ s \o t \in Seq(Nat)
         /\ Increasing(s) /\ Increasing(t) /\ Before(s, t) => Increasing(s \o t)
         /\ \A u \in Seq(Nat) : Before(s, u) /\ Before(t, u) => Before(s \o t, u)
         /\ \A k \in Nat : Below(s, k) /\ Below(t, k) => Below(s \o t, k)
<1>1. /\ s \o t \in Seq(Nat) /\ Len(s \o t) = Len(s) + Len(t)
      /\ \A i \in 1 .. Len(s \o t) : (s \o t)[i] = IF i <= Len(s) THEN s[i] ELSE t[i - Len(s)]
  OBVIOUS
<1>2. ASSUME Increasing(s), Increasing(t), Before(s, t) PROVE Increasing(s \o t)
  <2> SUFFICES ASSUME NEW i \in 1 .. Len(s \o t), NEW j \in 1 .. Len(s \o t), i < j
               PROVE  (s \o t)[i] < (s \o t)[j]
    BY Zenon DEF Increasing
  <2>1. CASE j <= Len(s)
    BY <1>1, <1>2, <2>1 DEF Increasing
  <2>2. CASE i <= Len(s) /\ ~(j <= Len(s))
    <3>1. i \in 1 .. Len(s) /\ j - Len(s) \in 1 .. Len(t)
      BY <1>1, <2>2
    <3> QED
      BY Zenon, <1>1, <1>2, <2>2, <3>1 DEF Before
  <2>3. CASE ~(i <= Len(s)) /\ ~(j <= Len(s))
    <3>1. i - Len(s) \in 1 .. Len(t) /\ j - Len(s) \in 1 .. Len(t) /\ i - Len(s) < j - Len(s)
      BY <1>1, <2>3
    <3> QED
      BY Zenon, <1>1, <1>2, <2>3, <3>1 DEF Increasing
  <2> QED
    BY Zenon, <1>1, <2>1, <2>2, <2>3
<1>3. ASSUME NEW u \in Seq(Nat), Before(s, u), Before(t, u) PROVE Before(s \o t, u)
  <2> SUFFICES ASSUME NEW i \in 1 .. Len(s \o t), NEW j \in 1 .. Len(u) PROVE (s \o t)[i] < u[j]
    BY Zenon DEF Before
  <2>1. i \in 1 .. Len(s) \/ (i - Len(s) \in 1 .. Len(t) /\ ~(i <= Len(s)))
    BY <1>1
  <2>2. CASE i \in 1 .. Len(s)
    BY <1>1, <1>3, <2>2 DEF Before
  <2>3. CASE i - Len(s) \in 1 .. Len(t) /\ ~(i <= Len(s))
    BY Zenon, <1>1, <1>3, <2>3 DEF Before
  <2> QED
    BY Zenon, <2>1, <2>2, <2>3
<1>4. ASSUME NEW k \in Nat, Below(s, k), Below(t, k) PROVE Below(s \o t, k)
  BY <1>1, <1>4 DEF Below
<1> QED
  BY Zenon, <1>1, <1>2, <1>3, <1>4

(* Each of the moves of assignments keeps the order: taken, received, lost *)
(* and queued.                                                             *)
LEMMA MovesKeepOrder ==
  ASSUME NEW r \in Seq(Nat), NEW a \in Seq(Nat), NEW p \in Seq(Nat), NEW k \in Nat, InOrder(r, a, p, k)
  PROVE  /\ a = << >> => InOrder(r, p, << >>, k)
         /\ InOrder(r \o a, << >>, p, k)
         /\ InOrder(r, << >>, p, k) /\ InOrder(r, << >>, << >>, k)
         /\ InOrder(r, a, Append(p, k), k + 1)
         /\ Increasing(r \o a \o p)
<1>1. << >> \in Seq(Nat) /\ Len(<< >>) = 0
  OBVIOUS
<1>2. InOrder(r, << >>, p, k) /\ InOrder(r, << >>, << >>, k) /\ (a = << >> => InOrder(r, p, << >>, k))
  BY <1>1 DEF InOrder, Increasing, Before, Below
<1>3. Increasing(r \o a) /\ Before(r \o a, p) /\ Below(r \o a, k) /\ r \o a \in Seq(Nat)
  BY Zenon, Concatenated DEF InOrder
<1>4. InOrder(r \o a, << >>, p, k)
  BY SMTT(30), <1>1, <1>3 DEF InOrder, Increasing, Before, Below
<1>5. Increasing(r \o a \o p)
  BY Zenon, <1>3, Concatenated DEF InOrder
<1>6. InOrder(r, a, Append(p, k), k + 1)
  <2>1. Append(p, k) \in Seq(Nat) /\ Len(Append(p, k)) = Len(p) + 1
    OBVIOUS
  <2>2. \A i \in 1 .. Len(p) + 1 : Append(p, k)[i] = IF i = Len(p) + 1 THEN k ELSE p[i]
    OBVIOUS
  <2>3. \A s \in Seq(Nat) : Below(s, k) => Below(s, k + 1)
    BY DEF Below
  <2>4. Increasing(Append(p, k)) /\ Below(Append(p, k), k + 1)
    <3>1. Increasing(p) /\ Below(p, k) /\ \A i \in 1 .. Len(p) : p[i] \in Nat
      BY DEF InOrder
    <3>2. Below(Append(p, k), k + 1)
      BY <2>1, <2>2, <3>1 DEF Below
    <3>3. ASSUME NEW i \in 1 .. Len(p) + 1, NEW j \in 1 .. Len(p) + 1, i < j
          PROVE  Append(p, k)[i] < Append(p, k)[j]
      <4>1. i \in 1 .. Len(p) /\ (j = Len(p) + 1 \/ j \in 1 .. Len(p))
        <5>1. Len(p) \in Nat
          OBVIOUS
        <5>2. ASSUME NEW l \in Nat, NEW x \in 1 .. l + 1, NEW y \in 1 .. l + 1, x < y
              PROVE  x \in 1 .. l /\ (y = l + 1 \/ y \in 1 .. l)
          BY <5>2
        <5> QED
          BY Zenon, <3>3, <5>1, <5>2
      <4> QED
        BY <2>2, <3>1, <3>3, <4>1 DEF Increasing, Below
    <3> QED
      BY Zenon, <2>1, <3>2, <3>3 DEF Increasing
  <2>5. ASSUME NEW s \in Seq(Nat), Before(s, p), Below(s, k) PROVE Before(s, Append(p, k))
    <3>1. ASSUME NEW i \in 1 .. Len(s), NEW j \in 1 .. Len(p) + 1 PROVE s[i] < Append(p, k)[j]
      <4>1. j = Len(p) + 1 \/ j \in 1 .. Len(p)
        BY <3>1
      <4> QED
        BY Zenon, <2>2, <2>5, <4>1 DEF Before, Below
    <3> QED
      BY Zenon, <2>1, <3>1 DEF Before
  <2> QED
    BY Zenon, <2>3, <2>4, <2>5 DEF InOrder
<1> QED
  BY Zenon, <1>2, <1>4, <1>5, <1>6

(* The empty queues are in order.                                          *)
LEMMA QueuesInit == Init => QueuesInOrder
<1> SUFFICES ASSUME Init, NEW n \in Nodes
             PROVE  InOrder(received[n], response[n].assignments, pending[n], nextId) /\ response[n].assignments = << >>
  BY Zenon DEF QueuesInOrder
<1>1. /\ received[n] = << >> /\ response[n].assignments = << >> /\ pending[n] = << >> /\ nextId = 1
      /\ Len(<< >>) = 0
  BY ZenonT(60) DEF Init, NoResponse
<1> QED
  BY <1>1 DEF InOrder, Increasing, Before, Below

(* Every step keeps the queues, the answers and what was received in       *)
(* order.                                                                  *)
LEMMA QueuesStep == TypeOK /\ QueuesInOrder /\ [Next]_vars => QueuesInOrder'
<1> SUFFICES ASSUME TypeOK, QueuesInOrder, [Next]_vars, NEW m \in Nodes
             PROVE  (/\ InOrder(received[m], response[m].assignments, pending[m], nextId)
                     /\ ~response[m].sent => response[m].assignments = << >>)'
  BY ZenonT(60) DEF QueuesInOrder
<1> DEFINE Goal == (/\ InOrder(received[m], response[m].assignments, pending[m], nextId)
                    /\ ~response[m].sent => response[m].assignments = << >>)'
<1>1. /\ InOrder(received[m], response[m].assignments, pending[m], nextId)
      /\ ~response[m].sent => response[m].assignments = << >>
      /\ received[m] \in Seq(Nat) /\ response[m].assignments \in Seq(Nat) /\ pending[m] \in Seq(Nat) /\ nextId \in Nat
  BY Zenon DEF QueuesInOrder, TypeOK, QueueTypeOK
<1>2. ASSUME UNCHANGED queueVars PROVE Goal
  BY Zenon, <1>1, <1>2 DEF queueVars
<1>3. ASSUME NEW n \in Nodes, ProcessHeartbeat(n) PROVE Goal
  <2>1. received' = received /\ nextId' = nextId
    BY Zenon, <1>3 DEF ProcessHeartbeat
  <2>2. CASE m = n
    <3>1. /\ response'[m].assignments = pending[m] /\ response'[m].sent /\ pending'[m] = << >>
          /\ response[m].assignments = << >>
      BY ZenonT(60), <1>1, <1>3, <2>2 DEF ProcessHeartbeat, TypeOK, QueueTypeOK
    <3> QED
      BY Zenon, <1>1, <2>1, <3>1, MovesKeepOrder
  <2>3. CASE m # n
    <3>1. response'[m] = response[m] /\ pending'[m] = pending[m]
      BY ZenonT(60), <1>3, <2>3 DEF ProcessHeartbeat, TypeOK, QueueTypeOK
    <3> QED
      BY ZenonT(60), <1>1, <2>1, <3>1
  <2> QED
    BY Zenon, <2>2, <2>3
<1>4. ASSUME NEW n \in Nodes, ReceiveResponse(n) PROVE Goal
  <2>1. pending' = pending /\ nextId' = nextId
    BY Zenon, <1>4 DEF ReceiveResponse
  <2>2. CASE m = n
    <3>1. response'[m].assignments = << >> /\ received'[m] = received[m] \o response[m].assignments
      BY ZenonT(60), <1>4, <2>2 DEF ReceiveResponse, NoResponse, TypeOK, QueueTypeOK
    <3> QED
      BY Zenon, <1>1, <2>1, <3>1, MovesKeepOrder
  <2>3. CASE m # n
    <3>1. response'[m] = response[m] /\ received'[m] = received[m]
      BY Zenon, <1>4, <2>3 DEF ReceiveResponse, TypeOK, QueueTypeOK
    <3> QED
      BY Zenon, <1>1, <2>1, <3>1
  <2> QED
    BY Zenon, <2>2, <2>3
<1>5. ASSUME NEW n \in Nodes, LoseResponse(n) PROVE Goal
  <2>1. pending' = pending /\ received' = received /\ nextId' = nextId
    BY Zenon, <1>5 DEF LoseResponse
  <2>2. response'[m] = response[m] \/ response'[m].assignments = << >>
    BY ZenonT(60), <1>5 DEF LoseResponse, NoResponse, TypeOK, QueueTypeOK
  <2> QED
    BY Zenon, <1>1, <2>1, <2>2, MovesKeepOrder
<1>6. ASSUME NEW n \in Nodes, QueueAssignment(n) PROVE Goal
  <2>1. response' = response /\ received' = received /\ nextId' = nextId + 1
    BY ZenonT(60), <1>6 DEF QueueAssignment
  <2>2. CASE m = n
    <3>1. pending'[m] = Append(pending[m], nextId)
      BY ZenonT(60), <1>6, <2>2 DEF QueueAssignment, TypeOK, QueueTypeOK
    <3> QED
      BY Zenon, <1>1, <2>1, <3>1, MovesKeepOrder
  <2>3. CASE m # n
    <3>1. pending'[m] = pending[m]
      BY ZenonT(60), <1>6, <2>3 DEF QueueAssignment, TypeOK, QueueTypeOK
    <3>2. /\ Below(received[m], nextId + 1) /\ Below(response[m].assignments, nextId + 1)
          /\ Below(pending[m], nextId + 1)
      <4>1. ASSUME NEW s \in Seq(Nat), Below(s, nextId) PROVE Below(s, nextId + 1)
        BY SMTT(30), <1>1, <4>1 DEF Below
      <4> QED
        BY Zenon, <1>1, <4>1 DEF InOrder
    <3> QED
      BY Zenon, <1>1, <2>1, <3>1, <3>2 DEF InOrder
  <2> QED
    BY Zenon, <2>2, <2>3
<1>7. ASSUME Restart PROVE Goal
  <2>1. /\ pending'[m] = << >> /\ response'[m].assignments = << >>
        /\ received' = received /\ nextId' = nextId
    BY Zenon, <1>7 DEF Restart, NoResponse
  <2> QED
    BY Zenon, <1>1, <2>1, MovesKeepOrder
<1>8. \/ UNCHANGED queueVars \/ Restart
      \/ \E n \in Nodes : ProcessHeartbeat(n) \/ ReceiveResponse(n) \/ LoseResponse(n) \/ QueueAssignment(n)
  BY Zenon DEF Next, vars, EnrollBegin, EnrollFail, EnrollCommit, DrainNode, UncordonNode,
     CheckNodeHealth,
         RemoveExpiredNodes, TakeSnapshot, Tick, Crash, Stop
<1> QED
  BY ZenonT(60), <1>2, <1>3, <1>4, <1>5, <1>6, <1>7, <1>8

(* An agent gets its assignments in the order they were queued and none    *)
(* twice, whatever answers are lost, whichever nodes enrol again and       *)
(* however often the process restarts: the ones it has, the ones under way *)
(* and the queued ones follow one another (manager.go:509-515, :1019).     *)
THEOREM DeliveryIsOrdered == Spec => []OrderedDelivery
<1>1. TypeOK /\ QueuesInOrder => OrderedDelivery
  <2> SUFFICES ASSUME TypeOK, QueuesInOrder, NEW n \in Nodes
               PROVE  Increasing(received[n] \o response[n].assignments \o pending[n])
    BY Zenon DEF OrderedDelivery, Increasing
  <2>1. /\ InOrder(received[n], response[n].assignments, pending[n], nextId)
        /\ received[n] \in Seq(Nat) /\ response[n].assignments \in Seq(Nat) /\ pending[n] \in Seq(Nat) /\ nextId \in Nat
    BY Zenon DEF QueuesInOrder, TypeOK, QueueTypeOK
  <2> QED
    BY ZenonT(60), <2>1, MovesKeepOrder
<1>2. Spec => []QueuesInOrder
  BY QueuesInit, QueuesStep, TypeCorrect, PTL DEF Spec
<1> QED
  BY <1>1, <1>2, TypeCorrect, PTL

-----------------------------------------------------------------------------
(* The storage manager.                                                    *)

Active(g) == rebalance[g] \in {"running", "done"}

(* The goroutine that found the flag down has raised it, and is the only   *)
(* one past the test until it takes the flag down.                         *)
ManagerInv ==
  /\ rebalance \in [Rebalancers -> {"idle", "called", "running", "done"}]
  /\ \A g \in Rebalancers : Active(g) =>
       rebalancingActive /\ \A h \in Rebalancers \ {g} : ~Active(h)

(* Every step keeps the flag with the pass that raised it.                 *)
LEMMA ManagerStep == ManagerInv /\ [ManagerNext]_managerVars => ManagerInv'
<1> SUFFICES ASSUME ManagerInv, [ManagerNext]_managerVars PROVE ManagerInv'
  BY Zenon
<1> USE DEF ManagerInv, Active
<1>1. ASSUME UNCHANGED <<rebalancingActive, rebalance>> PROVE ManagerInv'
  BY Zenon, <1>1
<1>2. CASE UNCHANGED managerVars
  BY Zenon, <1>1, <1>2 DEF managerVars
<1>3. CASE BeginRegister \/ RegisterNode \/ BeginUnregister \/ UnregisterNode \/ StatsAge \/ MonitorStep
  BY Zenon, <1>1, <1>3 DEF BeginRegister, RegisterNode, BeginUnregister, UnregisterNode, StatsAge,
    MonitorStep, performHealthChecks, CheckNode, MarkNode
<1>4. CASE \E u \in Updates : UpdateStep(u)
  BY Zenon, <1>1, <1>4 DEF UpdateStep, UpdateNodeStats, LoadNode, UpdateNodeCapacity
<1>5. ASSUME NEW g \in Rebalancers, TriggerRebalancing(g) PROVE ManagerInv'
  BY Zenon, <1>5 DEF TriggerRebalancing
<1>6. ASSUME NEW g \in Rebalancers, executeRebalancing(g) PROVE ManagerInv'
  BY Zenon, <1>6 DEF executeRebalancing
<1>7. ASSUME NEW g \in Rebalancers, RebalanceExecute(g) PROVE ManagerInv'
  BY Zenon, <1>7 DEF RebalanceExecute
<1>8. ASSUME NEW g \in Rebalancers, RebalanceDone(g) PROVE ManagerInv'
  BY Zenon, <1>8 DEF RebalanceDone
<1> QED
  BY Zenon, <1>2, <1>3, <1>4, <1>5, <1>6, <1>7, <1>8 DEF ManagerNext, RebalanceStep

(* At most one rebalancing pass runs, for any number of goroutines that    *)
(* TriggerRebalancing and the ticker start: executeRebalancing tests and   *)
(* sets rebalancingActive under one lock, and takes it down only at its    *)
(* own end.                                                                *)
THEOREM RebalancingRunsAlone == ManagerSpec => []OneRebalancing
<1>1. ManagerInit => ManagerInv
  BY Zenon DEF ManagerInit, ManagerInv, Active
<1>2. ManagerInv => OneRebalancing
  BY Zenon DEF ManagerInv, Active, OneRebalancing
<1> QED
  BY <1>1, <1>2, ManagerStep, PTL DEF ManagerSpec
=============================================================================
