--------------------------- MODULE AgentWorkloads ---------------------------
(***************************************************************************)
(* The containers of one agent and the four parties that act on them at    *)
(* once: the goroutines that carry out the assignments of a heartbeat      *)
(* answer (pkg/agent/agent.go: runWorkload, updateWorkload, stopWorkload,  *)
(* and the stop-and-delete of ContainersToStop), the probe worker that     *)
(* writes probe results (pkg/runtime/health.go), the health monitor that   *)
(* reads them and restarts containers within a rate limit                  *)
(* (pkg/agent/health_monitor.go), and the containers, which may exit.      *)
(*                                                                         *)
(* A container ID is made of a workload and a fragment ID, so an update    *)
(* stops a container and makes a new one under the same ID.  No lock is    *)
(* held across two calls of the runtime.                                   *)
(***************************************************************************)
EXTENDS Integers, Sequences

CONSTANTS
  Containers,        \* container IDs
  Workers,           \* goroutines that carry out assignments
  Assignments,       \* what the coordinator asks for: a subset of Ops
  ProbeTypes,        \* the probes the workload's spec has: "liveness", "readiness"
  FailureThreshold,  \* consecutive liveness failures before a restart
  MaxRestarts,       \* restarts allowed in a restart window
  RestartWindow,     \* its length, in clock ticks
  MaxClock,          \* bound: the last clock tick
  NoContainer        \* no container

Ops == {"run", "stop", "update", "kill"}

ASSUME ConfigAssumption ==
  /\ Assignments \subseteq Ops
  /\ ProbeTypes \subseteq {"liveness", "readiness"}
  /\ FailureThreshold \in Nat \ {0} /\ MaxRestarts \in Nat \ {0}
  /\ RestartWindow \in Nat /\ MaxClock \in Nat
ASSUME NoContainerAssumption == NoContainer \notin Containers

VARIABLES
  container,   \* [Containers -> RuntimeStates]: what containerd knows of each
  worker,      \* [Workers -> WorkerRec]
  probing,     \* containers with periodic probe goroutines
  probe,       \* the probe the worker executes: container, type, previous failures
  results,     \* [Containers -> [liveness, readiness -> consecutive failures]]
  registered,  \* hm.containers
  monitor,     \* the pass of checkProbeHealth: what is left, where it is
  attempts,    \* hm.restartAttempts
  lastRestart, \* hm.lastRestartTime, or Never
  previousReadiness,  \* hm.previousReadiness
  healthLive, healthReady,  \* the two flags of a.containerHealth
  now,         \* the clock
  restartLog   \* history: the time of every restart of each container

workerVars  == <<container, worker>>
probeVars   == <<probing, probe, results>>
limitVars   == <<attempts, lastRestart, restartLog>>
reportVars  == <<previousReadiness, healthLive, healthReady>>
vars == <<workerVars, probeVars, registered, monitor, limitVars, reportVars, now>>

(* A container without a task, with a running task, with an exited task.   *)
RuntimeStates == {"absent", "created", "running", "exited"}

WorkerPCs == {"create", "start", "probe", "register",
              "find", "unregister", "clear", "stop", "delete"}
WorkerRec == [op : Ops \cup {"idle"}, pc : WorkerPCs, c : Containers \cup {NoContainer}]
Idle == [op |-> "idle", pc |-> "create", c |-> NoContainer]

NoResult == -1
Never == -1
Types == {"liveness", "readiness"}
NoProbe == [c |-> NoContainer, type |-> "liveness", failures |-> 0]
NoPass == [todo |-> {}, c |-> NoContainer, pc |-> "idle"]
Flag == {"none", "yes", "no"}

Init ==
  /\ container = [c \in Containers |-> "absent"]
  /\ worker = [w \in Workers |-> Idle]
  /\ probing = {} /\ probe = NoProbe
  /\ results = [c \in Containers |-> [p \in Types |-> NoResult]]
  /\ registered = {} /\ monitor = NoPass
  /\ attempts = [c \in Containers |-> 0]
  /\ lastRestart = [c \in Containers |-> Never]
  /\ previousReadiness = [c \in Containers |-> "none"]
  /\ healthLive = [c \in Containers |-> "none"] /\ healthReady = healthLive
  /\ now = 0
  /\ restartLog = [c \in Containers |-> << >>]

-----------------------------------------------------------------------------
(* The runtime's calls: what a success does, and what a failure may have   *)
(* done before it.  An ID is free to create, a container without a task    *)
(* can be started, and StopContainer of a container without a task is a    *)
(* success.  A stop that fails may have ended the process.                 *)
CreateContainer(c, ok) ==
  /\ ok => container[c] = "absent"
  /\ container' = [container EXCEPT ![c] = IF ok THEN "created" ELSE @]

StartContainer(c, ok) ==
  /\ ok => container[c] = "created"
  /\ container' = [container EXCEPT ![c] = IF ok THEN "running" ELSE @]

(* Mutant of StopContainer: a container without a task is an error.        *)
StopContainerWithTask(c, ok) ==
  /\ ok => container[c] \in {"running", "exited"}
  /\ \/ container' = [container EXCEPT ![c] = IF ok THEN "created" ELSE @]
     \/ ~ok /\ container' = [container EXCEPT ![c] = IF @ = "running" THEN "exited" ELSE @]

StopContainer(c, ok) ==
  /\ ok => container[c] # "absent"
  /\ \/ container' = [container EXCEPT ![c] = IF ok THEN "created" ELSE @]
     \/ ~ok /\ container' = [container EXCEPT ![c] = IF @ = "running" THEN "exited" ELSE @]

(* DeleteContainer kills the task first, whatever that returns.            *)
DeleteContainer(c, ok) ==
  /\ ok => container[c] # "absent"
  /\ \/ container' = [container EXCEPT ![c] = IF ok THEN "absent" ELSE @]
     \/ ~ok /\ container' = [container EXCEPT ![c] = IF @ = "absent" THEN @ ELSE "created"]

(* The container's process ends by itself.                                 *)
Exit(c) ==
  /\ container[c] = "running"
  /\ container' = [container EXCEPT ![c] = "exited"]
  /\ UNCHANGED <<worker, probeVars, registered, monitor, limitVars, reportVars, now>>

-----------------------------------------------------------------------------
(* Assignments.  processHeartbeatResponse starts a goroutine for each, so  *)
(* any number run at once and in any order.                                *)
FirstStep(op) == IF op = "run" THEN "create" ELSE IF op = "kill" THEN "stop" ELSE "find"

Assign(w, op, c) ==
  /\ worker[w] = Idle
  /\ worker' = [worker EXCEPT ![w] = [op |-> op, pc |-> FirstStep(op), c |-> c]]
  /\ UNCHANGED <<container, probeVars, registered, monitor, limitVars, reportVars, now>>

At(w, pc) == worker[w].op # "idle" /\ worker[w].pc = pc
Goto(w, pc) == worker' = [worker EXCEPT ![w].pc = pc]
Return(w) == worker' = [worker EXCEPT ![w] = Idle]

(* stopWorkload returns, with or without an error: updateWorkload goes on  *)
(* to runWorkload.                                                         *)
ReturnStop(w) == IF worker[w].op = "update" THEN Goto(w, "create") ELSE Return(w)

(* runWorkload.                                                            *)
RunCreate(w, ok) ==
  /\ At(w, "create")
  /\ CreateContainer(worker[w].c, ok)
  /\ IF ok THEN Goto(w, "start") ELSE Return(w)
  /\ UNCHANGED <<probeVars, registered, monitor, limitVars, reportVars, now>>

(* Without probes, or without the container's IP, there is no more to do.  *)
RunStart(w, ok, ip) ==
  /\ At(w, "start")
  /\ StartContainer(worker[w].c, ok)
  /\ IF ok /\ ip /\ ProbeTypes # {} THEN Goto(w, "probe") ELSE Return(w)
  /\ UNCHANGED <<probeVars, registered, monitor, limitVars, reportVars, now>>

(* StartProbing: goroutines that run until the agent stops.                *)
RunProbe(w) ==
  /\ At(w, "probe")
  /\ probing' = probing \cup {worker[w].c}
  /\ Goto(w, "register")
  /\ UNCHANGED <<container, probe, results, registered, monitor, limitVars, reportVars, now>>

RegisterContainer(w) ==
  /\ At(w, "register")
  /\ registered' = registered \cup {worker[w].c}
  /\ Return(w)
  /\ UNCHANGED <<container, probeVars, monitor, limitVars, reportVars, now>>

(* stopWorkload: a container with the labels of the workload, or nothing;  *)
(* ListContainers may fail.                                                *)
StopFind(w, ok) ==
  /\ At(w, "find")
  /\ IF ok /\ container[worker[w].c] # "absent" THEN Goto(w, "unregister") ELSE ReturnStop(w)
  /\ UNCHANGED <<container, probeVars, registered, monitor, limitVars, reportVars, now>>

UnregisterContainer(w) ==
  /\ At(w, "unregister")
  /\ registered' = registered \ {worker[w].c}
  /\ previousReadiness' = [previousReadiness EXCEPT ![worker[w].c] = "none"]
  /\ Goto(w, "clear")
  /\ UNCHANGED <<container, probeVars, monitor, limitVars, healthLive, healthReady, now>>

ClearProbeResults(w) ==
  /\ At(w, "clear")
  /\ results' = [results EXCEPT ![worker[w].c] = [p \in Types |-> NoResult]]
  /\ Goto(w, "stop")
  /\ UNCHANGED <<container, probing, probe, registered, monitor, limitVars, reportVars, now>>

(* The stop and the delete of stopWorkload, and of ContainersToStop.       *)
WorkerStop(w, ok) ==
  /\ At(w, "stop")
  /\ StopContainer(worker[w].c, ok)
  /\ IF ok THEN Goto(w, "delete") ELSE ReturnStop(w)
  /\ UNCHANGED <<probeVars, registered, monitor, limitVars, reportVars, now>>

WorkerDelete(w, ok) ==
  /\ At(w, "delete")
  /\ DeleteContainer(worker[w].c, ok)
  /\ ReturnStop(w)
  /\ UNCHANGED <<probeVars, registered, monitor, limitVars, reportVars, now>>

-----------------------------------------------------------------------------
(* The probe worker runs one probe at a time: it reads the previous result *)
(* and stores the next one when the probe has answered.                    *)
ProbeBegin(c, p) ==
  /\ probe = NoProbe /\ c \in probing /\ p \in ProbeTypes
  /\ probe' = [c |-> c, type |-> p,
               failures |-> IF results[c][p] = NoResult THEN 0 ELSE results[c][p]]
  /\ UNCHANGED <<workerVars, probing, results, registered, monitor, limitVars, reportVars, now>>

(* ConsecutiveFailures, which nothing tells apart above the threshold; a   *)
(* container whose process does not run fails its probes.                  *)
ProbeEnd(success) ==
  /\ probe # NoProbe
  /\ success => container[probe.c] = "running"
  /\ results' = [results EXCEPT ![probe.c][probe.type] =
       IF success THEN 0
       ELSE IF probe.failures < FailureThreshold THEN probe.failures + 1 ELSE probe.failures]
  /\ probe' = NoProbe
  /\ UNCHANGED <<workerVars, probing, registered, monitor, limitVars, reportVars, now>>

-----------------------------------------------------------------------------
(* The health monitor.  A pass works on a copy of the registered           *)
(* containers, made once.                                                  *)
BeginPass ==
  /\ monitor = NoPass /\ registered # {}
  /\ \E c \in registered : monitor' = [todo |-> registered, c |-> c, pc |-> "liveness"]
  /\ UNCHANGED <<workerVars, probeVars, registered, limitVars, reportVars, now>>

OutsideWindow(c) == lastRestart[c] = Never \/ now - lastRestart[c] > RestartWindow

(* Mutant of shouldRestart: off by one.                                    *)
shouldRestartOnceMore(c) == OutsideWindow(c) \/ attempts[c] <= MaxRestarts

shouldRestart(c) == OutsideWindow(c) \/ attempts[c] < MaxRestarts

Failing(c) == results[c]["liveness"] >= FailureThreshold

(* The liveness callback of the agent.                                     *)
reportLiveness(c) ==
  /\ healthLive' = [healthLive EXCEPT ![c] = "no"]
  /\ healthReady' = [healthReady EXCEPT ![c] = IF @ = "none" THEN "no" ELSE @]

(* handleLivenessResult up to the restart: nothing to do, a restart, or    *)
(* the limit is exceeded and only reported.                                *)
CheckLiveness ==
  /\ monitor.pc = "liveness"
  /\ LET c == monitor.c IN
       \/ /\ ~Failing(c)
          /\ monitor' = [monitor EXCEPT !.pc = "readiness"]
          /\ UNCHANGED <<healthLive, healthReady>>
       \/ /\ Failing(c) /\ shouldRestart(c)
          /\ monitor' = [monitor EXCEPT !.pc = "stop"]
          /\ UNCHANGED <<healthLive, healthReady>>
       \/ /\ Failing(c) /\ ~shouldRestart(c)
          /\ monitor' = [monitor EXCEPT !.pc = "readiness"]
          /\ reportLiveness(c)
  /\ UNCHANGED <<workerVars, probeVars, registered, limitVars, previousReadiness, now>>

(* restartContainer stops the container and starts it; an error of either  *)
(* is logged and the restart not counted.                                  *)
RestartStop(ok) ==
  /\ monitor.pc = "stop"
  /\ StopContainer(monitor.c, ok)
  /\ monitor' = [monitor EXCEPT !.pc = IF ok THEN "start" ELSE "readiness"]
  /\ UNCHANGED <<worker, probeVars, registered, limitVars, reportVars, now>>

recordRestart(c) ==
  /\ attempts' = [attempts EXCEPT ![c] = IF OutsideWindow(c) THEN 1 ELSE @ + 1]
  /\ lastRestart' = [lastRestart EXCEPT ![c] = now]
  /\ restartLog' = [restartLog EXCEPT ![c] = Append(@, now)]

RestartStart(ok) ==
  /\ monitor.pc = "start"
  /\ StartContainer(monitor.c, ok)
  /\ IF ok THEN recordRestart(monitor.c) /\ reportLiveness(monitor.c)
           ELSE UNCHANGED <<limitVars, healthLive, healthReady>>
  /\ monitor' = [monitor EXCEPT !.pc = "readiness"]
  /\ UNCHANGED <<worker, probeVars, registered, previousReadiness, now>>

(* The next container of the pass, in the order of a map, or the end.      *)
NextContainer ==
  LET left == monitor.todo \ {monitor.c} IN
    \/ left = {} /\ monitor' = NoPass
    \/ \E c \in left : monitor' = [todo |-> left, c |-> c, pc |-> "liveness"]

Ready(result) == IF result = 0 THEN "yes" ELSE "no"

(* Mutant of readinessChanged: the first result is no change.              *)
readinessChangedOnce(c, ready) == previousReadiness[c] \notin {"none", ready}

readinessChanged(c, ready) == previousReadiness[c] # ready

(* The readiness callback of the agent.                                    *)
reportReadiness(c, ready) ==
  /\ healthReady' = [healthReady EXCEPT ![c] = ready]
  /\ healthLive' = [healthLive EXCEPT ![c] = IF @ = "none" THEN "no" ELSE @]

(* handleReadinessResult, and the readiness callback of the agent if the   *)
(* readiness has changed or is new.  (UnregisterContainer may fall between *)
(* the two; they touch different state.)                                   *)
CheckReadiness ==
  /\ monitor.pc = "readiness"
  /\ LET c == monitor.c  result == results[c]["readiness"]  ready == Ready(result) IN
       \/ /\ result = NoResult
          /\ UNCHANGED reportVars
       \/ /\ result # NoResult
          /\ previousReadiness' = [previousReadiness EXCEPT ![c] = ready]
          /\ IF readinessChanged(c, ready) THEN reportReadiness(c, ready)
             ELSE UNCHANGED <<healthLive, healthReady>>
  /\ NextContainer
  /\ UNCHANGED <<workerVars, probeVars, registered, limitVars, now>>

Tick ==
  /\ now < MaxClock
  /\ now' = now + 1
  /\ UNCHANGED <<workerVars, probeVars, registered, monitor, limitVars, reportVars>>

Next ==
  \/ \E c \in Containers : Exit(c)
  \/ \E w \in Workers, op \in Assignments, c \in Containers : Assign(w, op, c)
  \/ \E w \in Workers, ok \in BOOLEAN : RunCreate(w, ok)
  \/ \E w \in Workers, ok, ip \in BOOLEAN : RunStart(w, ok, ip)
  \/ \E w \in Workers : RunProbe(w)
  \/ \E w \in Workers : RegisterContainer(w)
  \/ \E w \in Workers, ok \in BOOLEAN : StopFind(w, ok)
  \/ \E w \in Workers : UnregisterContainer(w)
  \/ \E w \in Workers : ClearProbeResults(w)
  \/ \E w \in Workers, ok \in BOOLEAN : WorkerStop(w, ok)
  \/ \E w \in Workers, ok \in BOOLEAN : WorkerDelete(w, ok)
  \/ \E c \in Containers, p \in ProbeTypes : ProbeBegin(c, p)
  \/ \E success \in BOOLEAN : ProbeEnd(success)
  \/ BeginPass
  \/ CheckLiveness
  \/ \E ok \in BOOLEAN : RestartStop(ok)
  \/ \E ok \in BOOLEAN : RestartStart(ok)
  \/ CheckReadiness
  \/ Tick

Spec == Init /\ [][Next]_vars
-----------------------------------------------------------------------------
(* Type correctness of the agent's state (agent.go:100-120,                *)
(* health_monitor.go:24-46, health.go:60-83).                              *)
WorkerTypeOK ==
  /\ container \in [Containers -> RuntimeStates]
  /\ worker \in [Workers -> WorkerRec]
  /\ \A w \in Workers : worker[w].op # "idle" => worker[w].c \in Containers

ProbeTypeOK ==
  /\ probing \subseteq Containers
  /\ probe \in [c : Containers, type : Types, failures : 0..FailureThreshold] \cup {NoProbe}
  /\ results \in [Containers -> [Types -> NoResult..FailureThreshold]]

MonitorTypeOK ==
  /\ registered \subseteq Containers
  /\ \/ monitor = NoPass
     \/ monitor \in [todo : SUBSET Containers, c : Containers,
                     pc : {"liveness", "stop", "start", "readiness"}]
  /\ attempts \in [Containers -> 0..MaxRestarts]
  /\ lastRestart \in [Containers -> Nat \cup {Never}]
  /\ restartLog \in [Containers -> Seq(Nat)]
  /\ now \in Nat

ReportTypeOK ==
  /\ previousReadiness \in [Containers -> Flag]
  /\ healthLive \in [Containers -> Flag] /\ healthReady \in [Containers -> Flag]

TypeOK == WorkerTypeOK /\ ProbeTypeOK /\ MonitorTypeOK /\ ReportTypeOK

(* The restart limit: "Max 5 restarts per 5-minute window"                 *)
(* (health_monitor.go:152-154).  Any MaxRestarts + 1 restarts of one       *)
(* container that follow each other take longer than the window, although  *)
(* the code keeps one counter and one time per container, decides before   *)
(* the stop and the start and counts after them, and never forgets the     *)
(* counter of a container that is stopped and run again.                   *)
RestartRate ==
  \A c \in Containers : \A i \in 1..(Len(restartLog[c]) - MaxRestarts) :
    restartLog[c][i + MaxRestarts] - restartLog[c][i] > RestartWindow

(* What the heartbeat tells the coordinator of a container's readiness is  *)
(* what the monitor last saw: the change detection loses no change, also   *)
(* when the container is stopped and run again between two passes or       *)
(* unregistered in the middle of one (health_monitor.go:225-257).          *)
ReadinessReported ==
  \A c \in Containers : previousReadiness[c] # "none" => healthReady[c] = previousReadiness[c]

(* The monitor's ticker and its calls, the probes and a call to the        *)
(* runtime go on; a stop and a start that are tried again and again        *)
(* succeed some time.                                                      *)
Fairness ==
  /\ WF_vars(BeginPass) /\ WF_vars(CheckLiveness) /\ WF_vars(CheckReadiness)
  /\ WF_vars(\E ok \in BOOLEAN : RestartStop(ok)) /\ SF_vars(RestartStop(TRUE))
  /\ WF_vars(\E ok \in BOOLEAN : RestartStart(ok)) /\ SF_vars(RestartStart(TRUE))
  /\ \A c \in Containers, p \in ProbeTypes : SF_vars(ProbeBegin(c, p))
  /\ WF_vars(\E success \in BOOLEAN : ProbeEnd(success))

FairSpec == Spec /\ Fairness

(* The monitor does not leave a container down that it has stopped: a      *)
(* restart whose start fails is tried again until the container runs,      *)
(* unless it is stopped by an assignment.  The limit does not get in the   *)
(* way, as only completed restarts count, and the probes of the stopped    *)
(* container keep failing (health_monitor.go:184-190, :328-337).           *)
RestartRetried ==
  \A c \in Containers :
    (monitor.c = c /\ monitor.pc = "start")
      ~> (container[c] \in {"running", "absent"} \/ c \notin registered)
=============================================================================
