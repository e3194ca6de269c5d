----------------------------- MODULE Membership -----------------------------
(***************************************************************************)
(* The membership manager of one coordinator                               *)
(* (pkg/coordinator/membership/manager.go): enrolment with bootstrap       *)
(* tokens, heartbeats, the 2s health check, drain and uncordon, removal of *)
(* nodes offline for a day, the per-node queues of workload assignments    *)
(* the heartbeat answers carry, and the process's crash and restart on top *)
(* of the RAFT store.                                                      *)
(*                                                                         *)
(* Every handler runs under m.mu and is one action, except EnrollNode,     *)
(* whose calls to the token manager are separate critical sections of      *)
(* tm.mu: it is EnrollBegin, then EnrollCommit or EnrollFail, and it holds *)
(* m.mu in between.  The two locks m.mu and m.assignmentMu themselves, and *)
(* the deadlocks they allow, are the subject of MembershipLocks.           *)
(*                                                                         *)
(* DrainNode calls triggerWorkloadMigration, whose first statement         *)
(* read-locks m.mu, while DrainNode still holds it: when the save succeeds *)
(* the call never returns and m.mu is never released ("wedged").           *)
(*                                                                         *)
(* NewManager loads the nodes before the RAFT log is replayed, so a        *)
(* restarted manager knows, of each node, what the last snapshot held or   *)
(* what replay has already brought back.                                   *)
(***************************************************************************)
EXTENDS BootstrapTokens, Sequences, FiniteSets

CONSTANTS
  Nodes,             \* node IDs
  NodesOf,           \* [Tokens -> SUBSET Nodes]: the IDs a token may enrol
  HeartbeatTimeout,  \* silence, in clock ticks, after which a node is offline
  CheckInterval,     \* ticks between two runs of checkNodeHealth
  OfflineExpiry,     \* silence after which an offline node is removed
  MaxAssignments,    \* bound: assignments queued in a behaviour
  MaxRestarts,       \* bound: restarts in a behaviour
  NoEnrolment        \* no EnrollNode call holds m.mu

ASSUME TimeAssumption ==
  /\ HeartbeatTimeout \in Nat
  /\ CheckInterval \in Nat \ {0}
  /\ OfflineExpiry \in Nat /\ OfflineExpiry > HeartbeatTimeout + CheckInterval
ASSUME BoundAssumption == MaxAssignments \in Nat /\ MaxRestarts \in Nat
ASSUME NodesOfAssumption == NodesOf \in [Tokens -> SUBSET Nodes]
ASSUME NoEnrolmentAssumption == NoEnrolment \notin [node : Nodes, token : Tokens]

VARIABLES
  nodes,       \* m.nodes
  stored,      \* the node records in the RAFT store
  snapshot,    \* the node records in the store's last snapshot
  enrolling,   \* the EnrollNode call that holds m.mu, or NoEnrolment
  wedged,      \* a DrainNode call holds m.mu and waits for it
  pending,     \* m.pendingAssignments
  response,    \* the heartbeat answers on their way to the agents
  received,    \* the assignments each agent has received, in order
  nextId,      \* the next assignment's identity
  sinceCheck,  \* ticks since checkNodeHealth last ran, or since Start
  checked,     \* checkNodeHealth has run since the last Start
  restarts,
  enrolCount,  \* [Tokens -> Nat]: enrolments completed with each token
  drained      \* nodes drained since they enrolled and not uncordoned

coreVars  == <<nodes, stored, snapshot, enrolling, wedged>>
queueVars == <<pending, response, received, nextId>>
clockVars == <<sinceCheck, checked, restarts>>
histVars  == <<enrolCount, drained>>
vars == <<tokens, coreVars, queueVars, clockVars, histVars>>

(* "failed" and "cordoned" are constants of the code that nothing assigns. *)
States == {"absent", "enrolling", "ready", "draining", "offline"}

(* LastHeartbeat is kept as the silence since it, saturated above every    *)
(* duration the code compares it with.                                     *)
MaxSilence == OfflineExpiry + 1
NodeRec == [state : States, silence : 0..MaxSilence, tainted : BOOLEAN]
NoNode == [state |-> "absent", silence |-> 0, tainted |-> FALSE]

(* A record in the store.  Its LastHeartbeat is no later than the one in   *)
(* memory; the silence it amounts to is chosen when it is loaded.          *)
StoredRec == [state : States, tainted : BOOLEAN]
NoRecord == [state |-> "absent", tainted |-> FALSE]
Record(node) == [state |-> node.state, tainted |-> node.tainted]

Present(n) == nodes[n].state # "absent"

(* Mutant of Live: a node that has never sent a heartbeat does not count.  *)
LiveOnceHeard(n) == nodes[n].state \in {"ready", "draining"}

Live(n) == nodes[n].state \in {"enrolling", "ready", "draining"}

(* Mutant of muFree: EnrollNode releases m.mu while it makes the           *)
(* certificate.                                                            *)
muFreeInEnrol == ~wedged

muFree == enrolling = NoEnrolment /\ ~wedged

NoResponse == [sent |-> FALSE, assignments |-> << >>, drain |-> FALSE]

Init ==
  /\ TokensInit
  /\ nodes = [n \in Nodes |-> NoNode]
  /\ stored = [n \in Nodes |-> NoRecord] /\ snapshot = stored
  /\ enrolling = NoEnrolment /\ wedged = FALSE
  /\ pending = [n \in Nodes |-> << >>]
  /\ response = [n \in Nodes |-> NoResponse]
  /\ received = [n \in Nodes |-> << >>]
  /\ nextId = 1
  /\ sinceCheck = 0 /\ checked = FALSE /\ restarts = 0
  /\ enrolCount = [t \in Tokens |-> 0]
  /\ drained = {}

-----------------------------------------------------------------------------
(* saveNode.  An error may come from a store that is not the leader, and   *)
(* writes nothing, or from a leadership lost after the entry was written.  *)
SaveNode(n, ok) ==
  \/ stored' = [stored EXCEPT ![n] = Record(nodes'[n])]
  \/ ~ok /\ stored' = stored

(* EnrollNode up to the certificate: the token is valid and the node is    *)
(* unknown or offline.                                                     *)
EnrollBegin(n, t) ==
  /\ muFree
  /\ ValidateToken(t) /\ n \in NodesOf[t]
  /\ ~Live(n)
  /\ enrolling' = [node |-> n, token |-> t]
  /\ UNCHANGED <<tokens, nodes, stored, snapshot, wedged, queueVars, clockVars, histVars>>

(* GenerateNodeCertificate fails.                                          *)
EnrollFail ==
  /\ enrolling # NoEnrolment
  /\ enrolling' = NoEnrolment
  /\ UNCHANGED <<tokens, nodes, stored, snapshot, wedged, queueVars, clockVars, histVars>>

(* The record is replaced, the token used (an error is only logged), the   *)
(* record saved (an error is only logged).  The queues are left alone.     *)
EnrollCommit ==
  /\ enrolling # NoEnrolment
  /\ LET n == enrolling.node  t == enrolling.token IN
       /\ nodes' = [nodes EXCEPT ![n] =
            [state |-> "enrolling", silence |-> 0, tainted |-> FALSE]]
       /\ tokens' = UseToken(t)
       /\ SaveNode(n, FALSE)
       /\ enrolCount' = [enrolCount EXCEPT ![t] = @ + 1]
       /\ drained' = drained \ {n}
  /\ enrolling' = NoEnrolment
  /\ UNCHANGED <<snapshot, wedged, queueVars, clockVars>>

(* Mutant of Heard: a node that comes back loses its taints.               *)
HeardUntainted(node) ==
  [state |-> IF node.state \in {"enrolling", "offline"} THEN "ready" ELSE node.state,
   silence |-> 0, tainted |-> FALSE]

Heard(node) ==
  [state |-> IF node.state \in {"enrolling", "offline"} THEN "ready" ELSE node.state,
   silence |-> 0, tainted |-> node.tainted]

(* Mutant of ProcessHeartbeat: the pending assignments are not deleted.    *)
ProcessHeartbeatKeeping(n) ==
  /\ muFree /\ Present(n) /\ ~response[n].sent
  /\ nodes' = [nodes EXCEPT ![n] = Heard(@)]
  /\ SaveNode(n, FALSE)
  /\ response' = [response EXCEPT ![n] =
       [sent |-> TRUE, assignments |-> pending[n], drain |-> nodes'[n].state = "draining"]]
  /\ UNCHANGED <<tokens, snapshot, enrolling, wedged, pending, received, nextId, clockVars, histVars>>

(* An enrolling or offline node becomes ready; the pending assignments are *)
(* taken and deleted whether or not the answer arrives.  An agent waits    *)
(* for the answer to one heartbeat before it sends the next.               *)
ProcessHeartbeat(n) ==
  /\ muFree /\ Present(n) /\ ~response[n].sent
  /\ nodes' = [nodes EXCEPT ![n] = Heard(@)]
  /\ SaveNode(n, FALSE)
  /\ response' = [response EXCEPT ![n] =
       [sent |-> TRUE, assignments |-> pending[n], drain |-> nodes'[n].state = "draining"]]
  /\ pending' = [pending EXCEPT ![n] = << >>]
  /\ UNCHANGED <<tokens, snapshot, enrolling, wedged, received, nextId, clockVars, histVars>>

(* The answer reaches the agent, or the call fails or times out.           *)
ReceiveResponse(n) ==
  /\ response[n].sent
  /\ received' = [received EXCEPT ![n] = @ \o response[n].assignments]
  /\ response' = [response EXCEPT ![n] = NoResponse]
  /\ UNCHANGED <<tokens, coreVars, pending, nextId, clockVars, histVars>>

LoseResponse(n) ==
  /\ response[n].sent
  /\ response' = [response EXCEPT ![n] = NoResponse]
  /\ UNCHANGED <<tokens, coreVars, pending, received, nextId, clockVars, histVars>>

(* QueueAssignment asks only that the node be known.                       *)
QueueAssignment(n) ==
  /\ muFree /\ Present(n)
  /\ nextId <= MaxAssignments
  /\ pending' = [pending EXCEPT ![n] = Append(@, nextId)]
  /\ nextId' = nextId + 1
  /\ UNCHANGED <<tokens, coreVars, response, received, clockVars, histVars>>

(* A failed save returns the error and releases m.mu; the record in memory *)
(* is draining all the same.  A save that succeeds goes on to              *)
(* triggerWorkloadMigration, which waits for m.mu for ever.                *)
DrainNode(n, saved) ==
  /\ muFree /\ Present(n) /\ nodes[n].state # "draining"
  /\ nodes' = [nodes EXCEPT ![n].state = "draining", ![n].tainted = TRUE]
  /\ SaveNode(n, saved)
  /\ wedged' = saved
  /\ drained' = drained \cup {n}
  /\ UNCHANGED <<tokens, snapshot, enrolling, queueVars, clockVars, enrolCount>>

(* The taints go; the state would change only from "cordoned".             *)
UncordonNode(n) ==
  /\ muFree /\ Present(n)
  /\ nodes' = [nodes EXCEPT ![n].tainted = FALSE]
  /\ SaveNode(n, FALSE)
  /\ drained' = drained \ {n}
  /\ UNCHANGED <<tokens, snapshot, enrolling, wedged, queueVars, clockVars, enrolCount>>

(* The whole pass: every live node silent for too long goes offline.       *)
(* Nothing is saved.                                                       *)
CheckNodeHealth ==
  /\ muFree /\ sinceCheck = CheckInterval
  /\ nodes' = [n \in Nodes |->
       IF Live(n) /\ nodes[n].silence > HeartbeatTimeout
       THEN [nodes[n] EXCEPT !.state = "offline"] ELSE nodes[n]]
  /\ sinceCheck' = 0 /\ checked' = TRUE
  /\ UNCHANGED <<tokens, stored, snapshot, enrolling, wedged, queueVars, restarts, histVars>>

Expired == {n \in Nodes : nodes[n].state = "offline" /\ nodes[n].silence > OfflineExpiry}

(* The result of store.Delete is ignored; the queues are left alone.       *)
RemoveExpiredNodes ==
  /\ muFree /\ Expired # {}
  /\ nodes' = [n \in Nodes |-> IF n \in Expired THEN NoNode ELSE nodes[n]]
  /\ \E deleted \in SUBSET Expired :
       stored' = [n \in Nodes |-> IF n \in deleted THEN NoRecord ELSE stored[n]]
  /\ drained' = drained \ Expired
  /\ UNCHANGED <<tokens, snapshot, enrolling, wedged, queueVars, clockVars, enrolCount>>

(* RAFT compacts its log; explored while a restart can still read it.      *)
TakeSnapshot ==
  /\ restarts < MaxRestarts
  /\ snapshot # stored /\ snapshot' = stored
  /\ UNCHANGED <<tokens, nodes, stored, enrolling, wedged, queueVars, clockVars, histVars>>

(* One clock tick.  The health-check ticker fires when it is due unless    *)
(* m.mu is held; EnrollNode is short against a tick.                       *)
Tick ==
  /\ enrolling = NoEnrolment
  /\ wedged \/ sinceCheck < CheckInterval
  /\ nodes' = [n \in Nodes |-> IF Present(n) /\ nodes[n].silence < MaxSilence
                              THEN [nodes[n] EXCEPT !.silence = @ + 1] ELSE nodes[n]]
  /\ sinceCheck' = IF sinceCheck < CheckInterval THEN sinceCheck + 1 ELSE sinceCheck
  /\ UNCHANGED <<tokens, stored, snapshot, enrolling, wedged, queueVars, checked, restarts,
                 histVars>>

(* loadNodes: of each node, the record of the snapshot or of the replayed  *)
(* log, with a heartbeat no later than the last one.                       *)
LoadNodes ==
  \E replayed \in SUBSET Nodes, silence \in [Nodes -> 0..MaxSilence] :
    /\ \A n \in Nodes : silence[n] >= nodes[n].silence
    /\ nodes' = [n \in Nodes |->
         LET rec == IF n \in replayed THEN stored'[n] ELSE snapshot[n] IN
           IF rec.state = "absent" THEN NoNode
           ELSE [state |-> rec.state, silence |-> silence[n], tainted |-> rec.tainted]]

(* The process ends and a new one starts: New creates the manager, which   *)
(* loads the nodes, and an empty token table; Start starts the tickers.    *)
Restart ==
  /\ restarts < MaxRestarts
  /\ restarts' = restarts + 1
  /\ LoadNodes
  /\ tokens' = ForgetTokens
  /\ enrolling' = NoEnrolment /\ wedged' = FALSE
  /\ pending' = [n \in Nodes |-> << >>]
  /\ response' = [n \in Nodes |-> NoResponse]
  /\ sinceCheck' = 0 /\ checked' = FALSE
  /\ drained' = {}
  /\ UNCHANGED <<snapshot, received, nextId, enrolCount>>

Crash == stored' = stored /\ Restart

(* Stop saves every node, without m.mu and whatever each save returns,     *)
(* before the process ends.                                                *)
Stop ==
  /\ \E saved \in SUBSET {n \in Nodes : Present(n)} :
       stored' = [n \in Nodes |-> IF n \in saved THEN Record(nodes[n]) ELSE stored[n]]
  /\ Restart

Next ==
  \/ TokensNext /\ UNCHANGED <<coreVars, queueVars, clockVars, histVars>>
  \/ \E n \in Nodes, t \in Tokens : EnrollBegin(n, t)
  \/ EnrollFail
  \/ EnrollCommit
  \/ \E n \in Nodes : ProcessHeartbeat(n)
  \/ \E n \in Nodes : ReceiveResponse(n)
  \/ \E n \in Nodes : LoseResponse(n)
  \/ \E n \in Nodes : QueueAssignment(n)
  \/ \E n \in Nodes, saved \in BOOLEAN : DrainNode(n, saved)
  \/ \E n \in Nodes : UncordonNode(n)
  \/ CheckNodeHealth
  \/ RemoveExpiredNodes
  \/ TakeSnapshot
  \/ Tick
  \/ Crash
  \/ Stop

Spec == Init /\ [][Next]_vars
-----------------------------------------------------------------------------
(* Type correctness of the manager's state (manager.go:54-101).            *)
CoreTypeOK ==
  /\ nodes \in [Nodes -> NodeRec]
  /\ stored \in [Nodes -> StoredRec] /\ snapshot \in [Nodes -> StoredRec]
  /\ enrolling \in [node : Nodes, token : Tokens] \cup {NoEnrolment}
  /\ wedged \in BOOLEAN

QueueTypeOK ==
  /\ pending \in [Nodes -> Seq(Nat)] /\ received \in [Nodes -> Seq(Nat)]
  /\ response \in [Nodes -> [sent : BOOLEAN, assignments : Seq(Nat), drain : BOOLEAN]]
  /\ nextId \in Nat

ClockTypeOK ==
  sinceCheck \in 0..CheckInterval /\ checked \in BOOLEAN /\ restarts \in 0..MaxRestarts

TypeOK ==
  /\ tokens \in [Tokens -> TokenRec]
  /\ CoreTypeOK /\ QueueTypeOK /\ ClockTypeOK
  /\ enrolCount \in [Tokens -> Nat] /\ drained \in SUBSET Nodes

(* A bootstrap token enrols at most MaxUses nodes, although EnrollNode     *)
(* validates it and uses it in two critical sections of the token manager, *)
(* ignores an error of the second, and the token can be revoked, expire or *)
(* be cleaned up in between (manager.go:267, :353).                        *)
EnrolmentsWithinLimit ==
  \A t \in Tokens : enrolCount[t] <= tokens[t].maxUses

(* EnrollNode never replaces the record of a node that is alive: what it   *)
(* checked before it made the certificate still holds when it stores the   *)
(* new record (manager.go:279-283, :349).                                  *)
EnrolmentTargetIdle ==
  enrolling # NoEnrolment => ~Live(enrolling.node)

(* Leave convergence: a ready (or enrolling) node that stops heartbeating  *)
(* has left that state at most HeartbeatTimeout + CheckInterval later, the *)
(* latency monitorHealth's comment states (manager.go:757), once the first *)
(* check after a start has run and unless a DrainNode call has wedged the  *)
(* manager.                                                                *)
DetectionLatency ==
  checked /\ ~wedged =>
    \A n \in Nodes : nodes[n].state \in {"enrolling", "ready"} =>
      nodes[n].silence <= HeartbeatTimeout + CheckInterval

(* An agent gets its assignments in the order they were queued and none    *)
(* twice, across lost answers, re-enrolments and restarts                  *)
(* (manager.go:509-515, :1019).                                            *)
OrderedDelivery ==
  \A n \in Nodes :
    LET all == received[n] \o response[n].assignments \o pending[n] IN
      \A i, j \in 1..Len(all) : i < j => all[i] < all[j]

(* A drained node keeps the NoSchedule taint until it is uncordoned or     *)
(* enrols anew, also when it goes offline and comes back as "ready"        *)
(* (manager.go:415-417, :678-682).                                         *)
DrainTaintKept ==
  \A n \in drained : Present(n) => nodes[n].tainted

-----------------------------------------------------------------------------
(* Fairness.  The clock advances; a goroutine waiting for m.mu gets it     *)
(* (Go's mutexes hand over to a waiter that has starved for 1ms), so the   *)
(* tickers' passes are strongly fair; a handler that holds m.mu finishes.  *)
Fairness ==
  /\ SF_vars(Tick)
  /\ SF_vars(CheckNodeHealth)
  /\ SF_vars(RemoveExpiredNodes)
  /\ WF_vars(EnrollCommit \/ EnrollFail)

FairSpec == Spec /\ Fairness

(* The agents keep sending heartbeats and reading the answers.             *)
AgentFairness ==
  \A n \in Nodes : SF_vars(ProcessHeartbeat(n)) /\ WF_vars(ReceiveResponse(n))

AgentFairSpec == FairSpec /\ AgentFairness

(* A node that falls silent is heard again, or taken for offline and in    *)
(* the end removed: no silent node stays in the inventory for ever, unless *)
(* a DrainNode call has wedged the manager (manager.go:745-776, :853-895). *)
SilentNodeLeaves ==
  \A n \in Nodes :
    (Present(n) /\ nodes[n].silence > HeartbeatTimeout)
      ~> (~Present(n) \/ nodes[n].silence <= HeartbeatTimeout \/ wedged)

(* What the code's comment promises of DrainNode: "the drain command will  *)
(* be sent on next heartbeat" (manager.go:702).                            *)
DrainCommandSent ==
  \A n \in Nodes :
    nodes[n].state = "draining" ~> (response[n].drain \/ nodes[n].state # "draining")
=============================================================================
