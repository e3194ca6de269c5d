------------------------------ MODULE Rollout -------------------------------
(***************************************************************************)
(* Rollout plans (pkg/scheduler/rollout.go): PlanRollout turns the current *)
(* and the desired replica counts and a rollout strategy into a list of    *)
(* phases, and the executor carries them out one after the other.  The     *)
(* repository has no executor; what one does is taken from the comments on *)
(* the phases: a stop takes old replicas while there are any, a start adds *)
(* new ones, and a wait lasts until the new ones are ready.                *)
(***************************************************************************)
EXTENDS Integers, Sequences

CONSTANTS
  MaxReplicas,  \* bound: replica counts and the limits of a strategy
  Strategies    \* what RolloutStrategy.Strategy may hold

ASSUME RolloutAssumption == MaxReplicas \in Nat \ {0}

VARIABLES
  current, desired,  \* Replicas of the two specs
  strategy,          \* the RolloutStrategy
  plan,              \* the phases left to carry out
  planned,           \* whether there is a plan
  old, starting, ready  \* old replicas, new ones not yet and already ready

rolloutVars == <<current, desired, strategy, plan, planned, old, starting, ready>>

Counts == 0..MaxReplicas
StrategyRec == [Strategy : Strategies, MinAvailable : Counts, MaxUnavailable : Counts,
                MaxSurge : Counts, Pause : BOOLEAN]

min(a, b) == IF a < b THEN a ELSE b
max(a, b) == IF a > b THEN a ELSE b

-----------------------------------------------------------------------------
(* minAvailable, with its defaults, clamped to the desired replicas.       *)
MinAvailable(want, s) ==
  LET asked == IF s.MinAvailable # 0 THEN s.MinAvailable
               ELSE IF s.MaxUnavailable > 0 THEN want - s.MaxUnavailable
               ELSE max(1, want - 1)
  IN  max(0, min(asked, want))

Phase(action, count) == [action |-> action, count |-> count]
Wait == Phase("wait", 0)

(* Mutant of BatchSize: minAvailable is not looked at.                     *)
BatchSizeUnchecked(have, minAvailable, s) ==
  max(1, IF s.MaxUnavailable = 0 THEN 1 ELSE min(s.MaxUnavailable, have))

BatchSize(have, minAvailable, s) ==
  max(1, min(IF s.MaxUnavailable = 0 THEN 1 ELSE s.MaxUnavailable, have - minAvailable))

StopCount(have, batch, i) == min(batch, have - i * batch)

(* Mutant of Batches: no batch for the rest.                               *)
BatchesWhole(have, batch) == have \div batch

Batches(have, batch) == (have + batch - 1) \div batch

ScaleUp(have, want, s) == min(want - have, IF s.MaxSurge = 0 THEN 1 ELSE s.MaxSurge)

planRollingUpdate(have, want, minAvailable, s) ==
  LET batch == BatchSize(have, minAvailable, s)
      up == IF want > have THEN <<Phase("start", ScaleUp(have, want, s)), Wait>> ELSE << >>
      update == [k \in 1..(3 * Batches(have, batch)) |->
                   LET count == StopCount(have, batch, (k - 1) \div 3)
                   IN  CASE k % 3 = 1 -> Phase("stop", count)
                         [] k % 3 = 2 -> Phase("start", count)
                         [] OTHER -> Wait]
      down == IF want < have THEN <<Phase("stop", have - want)>> ELSE << >>
  IN  up \o (IF have > 0 THEN update ELSE << >>) \o down

planRecreate(have, want) ==
  (IF have > 0 THEN <<Phase("stop", have), Wait>> ELSE << >>) \o <<Phase("start", want), Wait>>

planBlueGreen(have, want, s) ==
  <<Phase("start", want), Wait>>
    \o (IF s.Pause THEN <<Wait>> ELSE << >>)
    \o (IF have > 0 THEN <<Phase("stop", have)>> ELSE << >>)

PhasesOf(have, want, s) ==
  CASE s.Strategy = "RollingUpdate" -> planRollingUpdate(have, want, MinAvailable(want, s), s)
    [] s.Strategy = "Recreate" -> planRecreate(have, want)
    [] s.Strategy = "BlueGreen" -> planBlueGreen(have, want, s)

(* What an operator may ask before and after a phase.                      *)
ValidateRollout(readyNow, s) == s.MinAvailable = 0 \/ readyNow >= s.MinAvailable

CalculateMaxReplicasToStop(totalReplicas, readyNow, minAvailable) ==
  IF minAvailable = 0 THEN totalReplicas ELSE max(0, readyNow - minAvailable)

-----------------------------------------------------------------------------
RolloutInit ==
  /\ current \in Counts /\ desired \in Counts /\ strategy \in StrategyRec
  /\ plan = << >> /\ planned = FALSE
  /\ old = current /\ starting = 0 /\ ready = 0

(* An unknown strategy is an error and there is no plan.                   *)
PlanRollout ==
  /\ ~planned /\ strategy.Strategy \in {"RollingUpdate", "Recreate", "BlueGreen"}
  /\ planned' = TRUE
  /\ plan' = PhasesOf(current, desired, strategy)
  /\ UNCHANGED <<current, desired, strategy, old, starting, ready>>

Carry(action) ==
  /\ plan # << >> /\ Head(plan).action = action
  /\ plan' = Tail(plan)
  /\ UNCHANGED <<current, desired, strategy, planned>>

Start ==
  /\ Carry("start")
  /\ starting' = starting + Head(plan).count
  /\ UNCHANGED <<old, ready>>

Stop ==
  /\ Carry("stop")
  /\ LET n == Head(plan).count IN
       /\ old' = max(0, old - n)
       /\ ready' = max(0, ready - max(0, n - old))
  /\ UNCHANGED starting

WaitReady ==
  /\ Carry("wait")
  /\ ready' = ready + starting /\ starting' = 0
  /\ UNCHANGED old

RolloutNext == PlanRollout \/ Start \/ Stop \/ WaitReady

RolloutSpec == RolloutInit /\ [][RolloutNext]_rolloutVars
-----------------------------------------------------------------------------
AvailableReplicas == old + ready
RunningReplicas == old + ready + starting
Done == planned /\ plan = << >>

(* A rollout ends with no replica of the old version and none that is not  *)
(* ready, whatever the batches: their sizes add up to the replicas there   *)
(* were, the last one included, and a scale-down leaves the desired number *)
(* (rollout.go:160-197).  Only a rolling scale-up may end short.           *)
OldReplaced ==
  Done => /\ old = 0 /\ starting = 0
          /\ ready = desired
               \/ (strategy.Strategy = "RollingUpdate" /\ current < ready /\ ready < desired)

(* A rolling update with replicas to spare keeps minAvailable of them      *)
(* serving in every state, through the scale-up, every batch and the       *)
(* scale-down, and no phase stops more of them than                        *)
(* CalculateMaxReplicasToStop allows, so that ValidateRollout accepts the  *)
(* state unless the strategy asks for more than the desired replicas; a    *)
(* blue-green one keeps all it had (rollout.go:154-158, :296-325).         *)
SpareReplicasSuffice ==
  /\ (strategy.Strategy = "RollingUpdate" /\ current > MinAvailable(desired, strategy)) =>
       /\ AvailableReplicas >= MinAvailable(desired, strategy)
       /\ strategy.MinAvailable <= desired => ValidateRollout(AvailableReplicas, strategy)
       /\ (plan # << >> /\ Head(plan).action = "stop") =>
            Head(plan).count
              <= CalculateMaxReplicasToStop(RunningReplicas, AvailableReplicas,
                                            MinAvailable(desired, strategy))
  /\ strategy.Strategy = "BlueGreen" => AvailableReplicas >= min(current, desired)

(* What the comment on the batch size says: "Ensure we never go below      *)
(* minAvailable" (rollout.go:154).  A rolling update that has minAvailable *)
(* replicas serving does not fall below.                                   *)
NeverBelowMinAvailable ==
  [][(strategy.Strategy = "RollingUpdate" /\ AvailableReplicas >= MinAvailable(desired, strategy))
       => AvailableReplicas' >= MinAvailable(desired, strategy)]_rolloutVars
=============================================================================
