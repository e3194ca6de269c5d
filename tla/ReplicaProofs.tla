--------------------------- MODULE ReplicaProofs ---------------------------
(***************************************************************************)
(* Proofs about replicas: a rollout that runs to its end has replaced the  *)
(* old replicas and keeps a workload with spare replicas available, and a  *)
(* chunk whose replication was acknowledged has the replica records that   *)
(* were counted.                                                           *)
(***************************************************************************)
EXTENDS Rollout, ChunkReplicas, TLAPS

-----------------------------------------------------------------------------
(* The rollouts.                                                           *)

(* The phases of a plan.                                                   *)
Phases == [action : {"start", "stop", "wait"}, count : Nat]

-----------------------------------------------------------------------------
(* What follows from the rounding up in Batches: the batches before the    *)
(* last stop fewer replicas than there are, all of them together as many.  *)
LEMMA BatchesCover ==
  ASSUME NEW have \in Nat, NEW batch \in Nat \ {0}
  PROVE  /\ Batches(have, batch) \in Nat
         /\ Batches(have, batch) * batch >= have
         /\ \A i \in 0..(Batches(have, batch) - 1) : i * batch < have
<1> DEFINE n == Batches(have, batch)
<1>1. n \in Nat /\ n * batch <= have + batch - 1 /\ have + batch - 1 < n * batch + batch
  BY DEF Batches
<1>2. ASSUME NEW i \in 0..(n - 1) PROVE i * batch < have
  <2> DEFINE k == n - 1 - i
  <2>1. k \in Nat /\ i \in Nat /\ n = i + k + 1
    BY <1>1
  <2>2. k * batch \in Nat
    BY <2>1
  <2>3. n * batch = i * batch + k * batch + batch
    BY <2>1
  <2> HIDE DEF n, k
  <2> QED
    BY <1>1, <2>1, <2>2, <2>3
<1> QED
  BY <1>1, <1>2

(* The replicas stopped by the first i batches.                            *)
Stopped(have, batch, i) == min(have, i * batch)

(* What StopCount takes is what the batch adds to the replicas stopped.    *)
LEMMA StopCountIs ==
  ASSUME NEW have \in Nat, NEW batch \in Nat \ {0}, NEW i \in Nat, i * batch < have
  PROVE  /\ StopCount(have, batch, i) \in Nat /\ StopCount(have, batch, i) <= batch
         /\ Stopped(have, batch, i) \in 0..have /\ Stopped(have, batch, i + 1) \in 0..have
         /\ Stopped(have, batch, i) + StopCount(have, batch, i) = Stopped(have, batch, i + 1)
<1>1. (i + 1) * batch = i * batch + batch /\ i * batch \in Nat
  OBVIOUS
<1> QED
  BY <1>1 DEF StopCount, Stopped, min

-----------------------------------------------------------------------------

-----------------------------------------------------------------------------
(* The strategies, whatever the bound on their limits.                     *)
AnyStrategy == [Strategy : Strategies, MinAvailable : Nat, MaxUnavailable : Nat,
                MaxSurge : Nat, Pause : BOOLEAN]

batchOf(have, want, s) == BatchSize(have, MinAvailable(want, s), s)
batchesOf(have, want, s) == Batches(have, batchOf(have, want, s))
Rolling(have, want, s) == planRollingUpdate(have, want, MinAvailable(want, s), s)

(* The replicas that a scale-up starts first, and its phases.              *)
Added(have, want, s) == IF want > have THEN ScaleUp(have, want, s) ELSE 0
AddPhases(have, want) == IF want > have THEN 2 ELSE 0

(* The defaults that the planner puts in place of missing limits.          *)
LEMMA Limits ==
  ASSUME NEW have \in Nat, NEW want \in Nat, NEW s \in AnyStrategy
  PROVE  /\ MinAvailable(want, s) \in 0..want
         /\ batchOf(have, want, s) \in Nat \ {0}
         /\ have > MinAvailable(want, s) =>
              batchOf(have, want, s) <= have - MinAvailable(want, s)
         /\ Added(have, want, s) \in Nat
         /\ want > have => /\ Added(have, want, s) > 0
                           /\ have + Added(have, want, s) <= want
         /\ want <= have => Added(have, want, s) = 0
  BY DEF AnyStrategy, MinAvailable, batchOf, BatchSize, Added, ScaleUp, min, max

(* The phases of a rolling update, by their place in the plan.             *)
LEMMA RollingPlan ==
  ASSUME NEW have \in Nat, NEW want \in Nat, NEW s \in AnyStrategy
  PROVE  LET b == batchOf(have, want, s)
             n == batchesOf(have, want, s)
             u == AddPhases(have, want)
             P == Rolling(have, want, s)
         IN  /\ P \in Seq(Phases)
             /\ Len(P) = u + 3 * n + (IF want < have THEN 1 ELSE 0)
             /\ want > have => P[1] = Phase("start", Added(have, want, s)) /\ P[2] = Wait
             /\ \A i \in 0..(n - 1) :
                  /\ P[u + 3 * i + 1] = Phase("stop", StopCount(have, b, i))
                  /\ P[u + 3 * i + 2] = Phase("start", StopCount(have, b, i))
                  /\ P[u + 3 * i + 3] = Wait
             /\ want < have => P[u + 3 * n + 1] = Phase("stop", have - want)
<1> DEFINE b == batchOf(have, want, s)
           n == batchesOf(have, want, s)
           u == AddPhases(have, want)
           P == Rolling(have, want, s)
           up == IF want > have THEN <<Phase("start", ScaleUp(have, want, s)), Wait>> ELSE << >>
           update == [k \in 1..(3 * n) |->
                        LET count == StopCount(have, b, (k - 1) \div 3)
                        IN  CASE k % 3 = 1 -> Phase("stop", count)
                              [] k % 3 = 2 -> Phase("start", count)
                              [] OTHER -> Wait]
           middle == IF have > 0 THEN update ELSE << >>
           down == IF want < have THEN <<Phase("stop", have - want)>> ELSE << >>
<1>1. P = up \o middle \o down
  BY Zenon DEF Rolling, planRollingUpdate, batchesOf, batchOf
<1>2. /\ b \in Nat \ {0} /\ n \in Nat /\ (have = 0 => n = 0) /\ Added(have, want, s) \in Nat
      /\ \A i \in 0..(n - 1) : i * b < have
  <2>1. b \in Nat \ {0} /\ Added(have, want, s) \in Nat
    BY Zenon, Limits
  <2>2. n \in Nat /\ \A i \in 0..(n - 1) : i * b < have
    BY Zenon, <2>1, BatchesCover DEF batchesOf
  <2>3. ASSUME have = 0 PROVE n = 0
    <3>1. SUFFICES ASSUME n # 0 PROVE FALSE
      BY Zenon
    <3>2. 0 \in 0..(n - 1)
      BY <2>2, <3>1
    <3> QED
      BY <2>1, <2>2, <2>3, <3>2
  <2> QED
    BY Zenon, <2>1, <2>2, <2>3
<1> HIDE DEF b, n
<1>3. ASSUME NEW k \in 1..(3 * n)
      PROVE  /\ StopCount(have, b, (k - 1) \div 3) \in Nat
             /\ (k - 1) \div 3 \in 0..(n - 1)
  <2>1. (k - 1) \div 3 \in 0..(n - 1)
    BY <1>2
  <2>2. (k - 1) \div 3 \in Nat /\ ((k - 1) \div 3) * b < have
    BY <2>1, <1>2
  <2> QED
    BY Zenon, <2>1, <2>2, <1>2, StopCountIs
<1>4. /\ middle \in Seq(Phases) /\ Len(middle) = 3 * n
      /\ \A k \in 1..(3 * n) : middle[k] = update[k]
  <2>1. ASSUME NEW k \in 1..(3 * n) PROVE update[k] \in Phases
    BY Zenon, <1>3 DEF Phases, Phase, Wait
  <2>2. update \in [1..(3 * n) -> Phases] /\ 3 * n \in Nat
    BY <2>1, <1>2
  <2>3. update \in Seq(Phases) /\ Len(update) = 3 * n
    BY <2>2
  <2> HIDE DEF update
  <2>4. CASE have > 0
    BY Zenon, <2>3, <2>4
  <2>5. CASE have = 0
    BY <2>5, <1>2
  <2> QED
    BY <2>4, <2>5
<1> HIDE DEF middle
<1>5. ASSUME NEW i \in 0..(n - 1)
      PROVE  /\ 3 * i + 1 \in 1..(3 * n) /\ 3 * i + 2 \in 1..(3 * n) /\ 3 * i + 3 \in 1..(3 * n)
             /\ middle[3 * i + 1] = Phase("stop", StopCount(have, b, i))
             /\ middle[3 * i + 2] = Phase("start", StopCount(have, b, i))
             /\ middle[3 * i + 3] = Wait
  <2> DEFINE k1 == 3 * i + 1
             k2 == 3 * i + 2
             k3 == 3 * i + 3
  <2>1. /\ k1 % 3 = 1 /\ k2 % 3 = 2 /\ k3 % 3 = 0
        /\ (k1 - 1) \div 3 = i /\ (k2 - 1) \div 3 = i
        /\ k1 \in 1..(3 * n) /\ k2 \in 1..(3 * n) /\ k3 \in 1..(3 * n)
    BY <1>2
  <2> HIDE DEF k1, k2, k3
  <2>2. middle[k1] = update[k1] /\ middle[k2] = update[k2] /\ middle[k3] = update[k3]
    BY <2>1, <1>4, Zenon
  <2>3. /\ update[k1] = Phase("stop", StopCount(have, b, i))
        /\ update[k2] = Phase("start", StopCount(have, b, i))
        /\ update[k3] = Wait
    BY <2>1
  <2> QED
    BY <2>1, <2>2, <2>3, Zenon DEF k1, k2, k3
<1>6. /\ up \in Seq(Phases) /\ Len(up) = u
      /\ want > have => up[1] = Phase("start", Added(have, want, s)) /\ up[2] = Wait
  <2>1. Phase("start", Added(have, want, s)) \in Phases /\ Wait \in Phases
    BY Zenon, <1>2 DEF Phases, Phase, Wait
  <2>2. CASE want > have
    <3>1. up = <<Phase("start", Added(have, want, s)), Wait>> /\ u = 2
      BY Zenon, <2>2 DEF Added, AddPhases
    <3> QED
      BY <2>1, <3>1
  <2>3. CASE ~(want > have)
    BY <2>3 DEF AddPhases
  <2> QED
    BY Zenon, <2>2, <2>3
<1>7. /\ down \in Seq(Phases) /\ Len(down) = (IF want < have THEN 1 ELSE 0)
      /\ want < have => down[1] = Phase("stop", have - want)
  <2>1. CASE want < have
    <3>1. Phase("stop", have - want) \in Phases
      BY <2>1 DEF Phases, Phase
    <3> QED
      BY <2>1, <3>1
  <2>2. CASE ~(want < have)
    BY <2>2
  <2> QED
    BY Zenon, <2>1, <2>2
<1>8. u \in Nat /\ (want > have => u = 2)
  BY Zenon DEF AddPhases
<1> HIDE DEF up, down, u, P
<1>9. /\ P \in Seq(Phases) /\ Len(P) = u + 3 * n + Len(down)
      /\ \A i \in 1..u : P[i] = up[i]
      /\ \A i \in 1..(3 * n) : P[u + i] = middle[i]
      /\ \A i \in 1..Len(down) : P[u + 3 * n + i] = down[i]
  <2>1. /\ up \o middle \o down \in Seq(Phases)
        /\ Len(up \o middle \o down) = Len(up) + Len(middle) + Len(down)
        /\ \A i \in 1..Len(up) : (up \o middle \o down)[i] = up[i]
        /\ \A i \in 1..Len(middle) : (up \o middle \o down)[Len(up) + i] = middle[i]
        /\ \A i \in 1..Len(down) : (up \o middle \o down)[Len(up) + Len(middle) + i] = down[i]
    <3>1. up \in Seq(Phases) /\ middle \in Seq(Phases) /\ down \in Seq(Phases)
      BY <1>4, <1>6, <1>7, Zenon
    <3> QED
      BY <3>1
  <2> QED
    BY <2>1, <1>1, <1>4, <1>6, Zenon
<1>10. want > have => P[1] = Phase("start", Added(have, want, s)) /\ P[2] = Wait
  BY <1>9, <1>8, <1>6
<1>11. want < have => P[u + 3 * n + 1] = Phase("stop", have - want)
  BY <1>9, <1>7
<1>12. ASSUME NEW i \in 0..(n - 1)
       PROVE  /\ P[u + 3 * i + 1] = Phase("stop", StopCount(have, b, i))
              /\ P[u + 3 * i + 2] = Phase("start", StopCount(have, b, i))
              /\ P[u + 3 * i + 3] = Wait
  <2>1. /\ u + 3 * i + 1 = u + (3 * i + 1) /\ u + 3 * i + 2 = u + (3 * i + 2)
        /\ u + 3 * i + 3 = u + (3 * i + 3)
    BY <1>8
  <2>2. /\ P[u + (3 * i + 1)] = middle[3 * i + 1] /\ P[u + (3 * i + 2)] = middle[3 * i + 2]
        /\ P[u + (3 * i + 3)] = middle[3 * i + 3]
    BY <1>5, <1>9, Zenon
  <2> QED
    BY Zenon, <2>1, <2>2, <1>5
<1> QED
  BY Zenon, <1>7, <1>9, <1>10, <1>11, <1>12 DEF u, P, n, b

-----------------------------------------------------------------------------
(* What carrying out a phase does to the replicas.                         *)
Does(phase, o, st, rd, o2, st2, rd2) ==
  \/ phase.action = "start" /\ o2 = o /\ st2 = st + phase.count /\ rd2 = rd
  \/ /\ phase.action = "stop" /\ st2 = st
     /\ o2 = max(0, o - phase.count) /\ rd2 = max(0, rd - max(0, phase.count - o))
  \/ phase.action = "wait" /\ o2 = o /\ st2 = 0 /\ rd2 = rd + st

(* The old, the starting and the ready replicas after p phases of a        *)
(* rolling update.                                                         *)
RollingAt(have, want, s, p, o, st, rd) ==
  LET b == batchOf(have, want, s)
      n == batchesOf(have, want, s)
      u == AddPhases(have, want)
      a == Added(have, want, s)
  IN  \/ p = 0 /\ u = 2 /\ o = have /\ st = 0 /\ rd = 0
      \/ p = 1 /\ u = 2 /\ o = have /\ st = a /\ rd = 0
      \/ \E i \in 0..n : /\ p = u + 3 * i /\ o = have - Stopped(have, b, i)
                         /\ st = 0 /\ rd = a + Stopped(have, b, i)
      \/ \E i \in 0..(n - 1) : /\ p = u + 3 * i + 1 /\ o = have - Stopped(have, b, i + 1)
                               /\ st = 0 /\ rd = a + Stopped(have, b, i)
      \/ \E i \in 0..(n - 1) : /\ p = u + 3 * i + 2 /\ o = have - Stopped(have, b, i + 1)
                               /\ st = StopCount(have, b, i) /\ rd = a + Stopped(have, b, i)
      \/ p = u + 3 * n + 1 /\ want < have /\ o = 0 /\ st = 0 /\ rd = want

(* What is ready after a batch has stopped c of the old replicas.          *)
LEMMA StopArithmetic ==
  ASSUME NEW have \in Nat, NEW a \in Nat, NEW x \in Nat, NEW y \in Nat, NEW c \in Nat,
         x + c = y, y <= have
  PROVE  /\ max(0, (have - x) - c) = have - y
         /\ max(0, (a + x) - max(0, c - (have - x))) = a + x
         /\ (a + x) + c = a + y
  BY DEF max

(* The batches of a rolling update, and the replicas they have stopped.    *)
LEMMA RollingBatches ==
  ASSUME NEW have \in Nat, NEW want \in Nat, NEW s \in AnyStrategy
  PROVE  LET b == batchOf(have, want, s)
             n == batchesOf(have, want, s)
         IN  /\ b \in Nat \ {0} /\ n \in Nat
             /\ Stopped(have, b, 0) = 0 /\ Stopped(have, b, n) = have
             /\ \A i \in 0..n : Stopped(have, b, i) \in 0..have
             /\ \A i \in 0..(n - 1) :
                  /\ StopCount(have, b, i) \in 0..b
                  /\ Stopped(have, b, i + 1) \in 0..have
                  /\ Stopped(have, b, i) + StopCount(have, b, i) = Stopped(have, b, i + 1)
<1> DEFINE b == batchOf(have, want, s)
           n == batchesOf(have, want, s)
<1>1. b \in Nat \ {0}
  BY Zenon, Limits
<1>2. n \in Nat /\ n * b >= have /\ \A i \in 0..(n - 1) : i * b < have
  BY Zenon, <1>1, BatchesCover DEF batchesOf
<1> HIDE DEF b, n
<1>3. Stopped(have, b, 0) = 0
  BY <1>1 DEF Stopped, min
<1>4. Stopped(have, b, n) = have
  <2>1. n * b \in Nat
    BY <1>1, <1>2
  <2> QED
    BY <2>1, <1>2 DEF Stopped, min
<1>5. ASSUME NEW i \in 0..n PROVE Stopped(have, b, i) \in 0..have
  <2>1. i * b \in Nat
    BY <1>1, <1>2
  <2> QED
    BY <2>1 DEF Stopped, min
<1>6. ASSUME NEW i \in 0..(n - 1)
      PROVE  /\ StopCount(have, b, i) \in 0..b
             /\ Stopped(have, b, i + 1) \in 0..have
             /\ Stopped(have, b, i) + StopCount(have, b, i) = Stopped(have, b, i + 1)
  <2>1. i \in Nat /\ i * b < have
    BY <1>2
  <2> QED
    BY <2>1, <1>1, StopCountIs
<1> QED
  BY Zenon, <1>1, <1>2, <1>3, <1>4, <1>5, <1>6 DEF b, n

(* Every phase of a rolling update takes the replicas to the next place.   *)
LEMMA RollingStep ==
  ASSUME NEW have \in Nat, NEW want \in Nat, NEW s \in AnyStrategy,
         NEW p \in 0..(Len(Rolling(have, want, s)) - 1),
         NEW o, NEW st, NEW rd, NEW o2, NEW st2, NEW rd2,
         RollingAt(have, want, s, p, o, st, rd),
         Does(Rolling(have, want, s)[p + 1], o, st, rd, o2, st2, rd2)
  PROVE  RollingAt(have, want, s, p + 1, o2, st2, rd2)
<1> DEFINE b == batchOf(have, want, s)
           n == batchesOf(have, want, s)
           u == AddPhases(have, want)
           a == Added(have, want, s)
           P == Rolling(have, want, s)
           R(i) == Stopped(have, b, i)
           C(i) == StopCount(have, b, i)
<1>1. /\ Len(P) = u + 3 * n + (IF want < have THEN 1 ELSE 0)
      /\ want > have => P[1] = Phase("start", a) /\ P[2] = Wait
      /\ \A i \in 0..(n - 1) :
           /\ P[u + 3 * i + 1] = Phase("stop", C(i))
           /\ P[u + 3 * i + 2] = Phase("start", C(i))
           /\ P[u + 3 * i + 3] = Wait
      /\ want < have => P[u + 3 * n + 1] = Phase("stop", have - want)
  BY RollingPlan, Zenon
<1>2. /\ b \in Nat \ {0} /\ n \in Nat /\ R(0) = 0 /\ R(n) = have
      /\ \A i \in 0..n : R(i) \in 0..have
      /\ \A i \in 0..(n - 1) :
           C(i) \in 0..b /\ R(i + 1) \in 0..have /\ R(i) + C(i) = R(i + 1)
  <2>1. b \in Nat \ {0} /\ n \in Nat /\ R(0) = 0 /\ R(n) = have
    BY RollingBatches, SMT
  <2>2. \A i \in 0..n : R(i) \in 0..have
    BY RollingBatches, Zenon
  <2>3. \A i \in 0..(n - 1) :
           C(i) \in 0..b /\ R(i + 1) \in 0..have /\ R(i) + C(i) = R(i + 1)
    BY RollingBatches, SMT
  <2> QED
    BY <2>1, <2>2, <2>3, Zenon
<1>3. a \in Nat /\ (want <= have => a = 0) /\ u \in {0, 2} /\ (u = 2 <=> want > have)
  BY Limits DEF AddPhases
<1>4. \/ p = 0 /\ u = 2 /\ o = have /\ st = 0 /\ rd = 0
      \/ p = 1 /\ u = 2 /\ o = have /\ st = a /\ rd = 0
      \/ \E i \in 0..n : p = u + 3 * i /\ o = have - R(i) /\ st = 0 /\ rd = a + R(i)
      \/ \E i \in 0..(n - 1) : p = u + 3 * i + 1 /\ o = have - R(i + 1) /\ st = 0 /\ rd = a + R(i)
      \/ \E i \in 0..(n - 1) : p = u + 3 * i + 2 /\ o = have - R(i + 1) /\ st = C(i) /\ rd = a + R(i)
      \/ p = u + 3 * n + 1 /\ want < have /\ o = 0 /\ st = 0 /\ rd = want
  BY Zenon DEF RollingAt
<1> DEFINE Goal == 
      \/ p + 1 = 0 /\ u = 2 /\ o2 = have /\ st2 = 0 /\ rd2 = 0
      \/ p + 1 = 1 /\ u = 2 /\ o2 = have /\ st2 = a /\ rd2 = 0
      \/ \E i \in 0..n : p + 1 = u + 3 * i /\ o2 = have - R(i) /\ st2 = 0 /\ rd2 = a + R(i)
      \/ \E i \in 0..(n - 1) : p + 1 = u + 3 * i + 1 /\ o2 = have - R(i + 1) /\ st2 = 0 /\ rd2 = a + R(i)
      \/ \E i \in 0..(n - 1) :
           p + 1 = u + 3 * i + 2 /\ o2 = have - R(i + 1) /\ st2 = C(i) /\ rd2 = a + R(i)
      \/ p + 1 = u + 3 * n + 1 /\ want < have /\ o2 = 0 /\ st2 = 0 /\ rd2 = want
<1>5. SUFFICES Goal
  BY Zenon DEF RollingAt
<1> HIDE DEF b, n, u, a, P, R, C
<1>6. Does(P[p + 1], o, st, rd, o2, st2, rd2) /\ p \in Nat /\ p < Len(P)
  BY <1>1, <1>2, <1>3 DEF P
<1>7. CASE p = 0 /\ u = 2 /\ o = have /\ st = 0 /\ rd = 0
  <2>1. P[p + 1] = Phase("start", a)
    BY <1>7, <1>1, <1>3
  <2> QED
    BY <2>1, <1>6, <1>7, <1>3 DEF Does, Phase
<1>8. CASE p = 1 /\ u = 2 /\ o = have /\ st = a /\ rd = 0
  <2>1. P[p + 1] = Wait
    BY <1>8, <1>1, <1>3
  <2>2. p + 1 = u + 3 * 0 /\ 0 \in 0..n /\ o2 = have - R(0) /\ st2 = 0 /\ rd2 = a + R(0)
    BY <2>1, <1>6, <1>8, <1>3, <1>2 DEF Does, Phase, Wait
  <2> QED
    BY Zenon, <2>2
<1>9. ASSUME NEW i \in 0..n, p = u + 3 * i, o = have - R(i), st = 0, rd = a + R(i)
      PROVE  Goal
  <2>1. CASE i = n
    <3>1. want < have /\ P[p + 1] = Phase("stop", have - want) /\ o = 0 /\ rd = have
      <4>1. Len(P) = u + 3 * n + (IF want < have THEN 1 ELSE 0) /\ n \in Nat /\ u \in {0, 2}
        BY Zenon, <1>1, <1>2, <1>3
      <4>2. want < have /\ p + 1 = u + 3 * n + 1
        BY <4>1, <1>6, <1>9, <2>1
      <4>3. P[p + 1] = Phase("stop", have - want)
        BY Zenon, <4>2, <1>1
      <4>4. R(i) = have /\ a = 0
        BY <2>1, <4>2, <1>2, <1>3
      <4>5. o = 0 /\ rd = have
        BY <4>4, <1>9
      <4> QED
        BY Zenon, <4>2, <4>3, <4>5
    <3> QED
      BY <3>1, <1>9, <2>1, <1>6 DEF Does, Phase, max
  <2>2. CASE i # n
    <3>0. i \in 0..(n - 1) /\ p + 1 = u + 3 * i + 1
      BY <1>9, <2>2, <1>2, <1>3
    <3>1. P[p + 1] = Phase("stop", C(i))
      BY <3>0, <1>1, Zenon
    <3>2. C(i) \in Nat /\ R(i) \in 0..have /\ R(i + 1) \in 0..have /\ R(i) + C(i) = R(i + 1)
      BY <3>0, <1>2
    <3>4. P[p + 1].action = "stop" /\ P[p + 1].count = C(i)
      BY <3>1 DEF Phase
    <3>5. st2 = st /\ o2 = max(0, o - C(i)) /\ rd2 = max(0, rd - max(0, C(i) - o))
      BY Zenon, <3>4, <1>6 DEF Does
    <3>3. o2 = have - R(i + 1) /\ st2 = 0 /\ rd2 = a + R(i)
      <4>1. /\ R(i) \in Nat /\ R(i + 1) \in Nat /\ C(i) \in Nat /\ a \in Nat
            /\ R(i + 1) <= have /\ R(i) + C(i) = R(i + 1)
        BY <3>2, <1>3
      <4> DEFINE x == R(i)
                 y == R(i + 1)
                 c == C(i)
      <4> HIDE DEF x, y, c
      <4>2. /\ x \in Nat /\ y \in Nat /\ c \in Nat /\ a \in Nat /\ y <= have /\ x + c = y
            /\ o = have - x /\ rd = a + x /\ o2 = max(0, o - c) /\ rd2 = max(0, rd - max(0, c - o))
        BY <4>1, <3>5, <1>9, Zenon DEF x, y, c
      <4>3. o2 = have - y /\ rd2 = a + x
        BY <4>2 DEF max
      <4> QED
        BY <4>3, <3>5, <1>9, Zenon DEF x, y
    <3> QED
      BY Zenon, <3>0, <3>3
  <2> QED
    BY Zenon, <2>1, <2>2
<1>10. ASSUME NEW i \in 0..(n - 1), p = u + 3 * i + 1, o = have - R(i + 1), st = 0, rd = a + R(i)
       PROVE  Goal
  <2>0. p + 1 = u + 3 * i + 2
    BY <1>10, <1>2, <1>3
  <2>1. P[p + 1] = Phase("start", C(i)) /\ C(i) \in Nat
    <3>1. P[p + 1] = Phase("start", C(i))
      BY <2>0, <1>1, Zenon
    <3> QED
      BY <3>1, <1>2
  <2>2. o2 = have - R(i + 1) /\ st2 = C(i) /\ rd2 = a + R(i)
    BY <2>1, <1>6, <1>10 DEF Does, Phase
  <2> QED
    BY <2>2, <1>10, <1>3
<1>11. ASSUME NEW i \in 0..(n - 1), p = u + 3 * i + 2, o = have - R(i + 1), st = C(i), rd = a + R(i)
       PROVE  Goal
  <2>0. p + 1 = u + 3 * i + 3
    BY <1>11, <1>2, <1>3
  <2>1. P[p + 1] = Wait
    BY <2>0, <1>1, Zenon
  <2>2. C(i) \in Nat /\ R(i) \in 0..have /\ R(i + 1) \in 0..have /\ R(i) + C(i) = R(i + 1)
    BY <1>2
  <2>3. o2 = have - R(i + 1) /\ st2 = 0 /\ rd2 = a + R(i + 1)
    <3>1. P[p + 1].action = "wait"
      BY <2>1 DEF Phase, Wait
    <3>2. o2 = o /\ st2 = 0 /\ rd2 = rd + st
      BY Zenon, <3>1, <1>6 DEF Does
    <3> QED
      <4>1. R(i) \in Nat /\ R(i + 1) \in Nat /\ R(i + 1) <= have
        BY <2>2
      <4>2. (a + R(i)) + C(i) = a + R(i + 1)
        BY <4>1, <2>2, <1>3, StopArithmetic
      <4> QED
        BY <4>2, <3>2, <1>11, Zenon
  <2>4. i + 1 \in 0..n /\ p + 1 = u + 3 * (i + 1)
    BY <1>11, <1>2, <1>3
  <2> QED
    BY Zenon, <2>3, <2>4
<1>12. CASE p = u + 3 * n + 1 /\ want < have /\ o = 0 /\ st = 0 /\ rd = want
  BY <1>12, <1>1, <1>2, <1>3, <1>6
<1> QED
  BY Zenon, <1>4, <1>7, <1>8, <1>9, <1>10, <1>11, <1>12

(* What a rolling update has reached at its end, and what it keeps         *)
(* available on the way.                                                   *)
LEMMA RollingKeeps ==
  ASSUME NEW have \in Nat, NEW want \in Nat, NEW s \in AnyStrategy,
         NEW p \in 0..Len(Rolling(have, want, s)),
         NEW o, NEW st, NEW rd,
         RollingAt(have, want, s, p, o, st, rd)
  PROVE  LET m == MinAvailable(want, s)
             P == Rolling(have, want, s)
         IN  /\ p = Len(P) => o = 0 /\ st = 0 /\ (rd = want \/ (have < rd /\ rd < want))
             /\ have > m => o + rd >= m /\ o \in Nat /\ st \in Nat /\ rd \in Nat
             /\ have > m /\ p < Len(P) /\ P[p + 1].action = "stop" =>
                  P[p + 1].count <= CalculateMaxReplicasToStop(o + rd + st, o + rd, m)
<1> DEFINE b == batchOf(have, want, s)
           n == batchesOf(have, want, s)
           u == AddPhases(have, want)
           a == Added(have, want, s)
           P == Rolling(have, want, s)
           L == Len(P)
           m == MinAvailable(want, s)
           R(i) == Stopped(have, b, i)
           C(i) == StopCount(have, b, i)
           Safe == have > m /\ p < L /\ P[p + 1].action = "stop" =>
                     P[p + 1].count <= CalculateMaxReplicasToStop(o + rd + st, o + rd, m)
           Ends == p = L => o = 0 /\ st = 0 /\ (rd = want \/ (have < rd /\ rd < want))
           Serves == have > m => o + rd >= m /\ o \in Nat /\ st \in Nat /\ rd \in Nat
<1> SUFFICES Ends /\ Serves /\ Safe
  BY Zenon
<1>1. /\ Len(P) = u + 3 * n + (IF want < have THEN 1 ELSE 0)
      /\ want > have => P[1] = Phase("start", a) /\ P[2] = Wait
      /\ \A i \in 0..(n - 1) :
           /\ P[u + 3 * i + 1] = Phase("stop", C(i))
           /\ P[u + 3 * i + 2] = Phase("start", C(i))
           /\ P[u + 3 * i + 3] = Wait
      /\ want < have => P[u + 3 * n + 1] = Phase("stop", have - want)
  BY RollingPlan, Zenon
<1>2. /\ b \in Nat \ {0} /\ n \in Nat /\ R(0) = 0 /\ R(n) = have
      /\ \A i \in 0..n : R(i) \in 0..have
      /\ \A i \in 0..(n - 1) :
           C(i) \in 0..b /\ R(i + 1) \in 0..have /\ R(i) + C(i) = R(i + 1)
  <2>1. b \in Nat \ {0} /\ n \in Nat /\ R(0) = 0 /\ R(n) = have
    BY RollingBatches, SMT
  <2>2. \A i \in 0..n : R(i) \in 0..have
    BY RollingBatches, Zenon
  <2>3. \A i \in 0..(n - 1) :
           C(i) \in 0..b /\ R(i + 1) \in 0..have /\ R(i) + C(i) = R(i + 1)
    BY RollingBatches, SMT
  <2> QED
    BY <2>1, <2>2, <2>3, Zenon
<1>3. /\ a \in Nat /\ (want <= have => a = 0) /\ u \in {0, 2} /\ (u = 2 <=> want > have)
      /\ m \in 0..want /\ (have > m => b <= have - m)
      /\ want > have => a > 0 /\ have + a <= want
  BY Limits DEF AddPhases
<1>4. \/ p = 0 /\ u = 2 /\ o = have /\ st = 0 /\ rd = 0
      \/ p = 1 /\ u = 2 /\ o = have /\ st = a /\ rd = 0
      \/ \E i \in 0..n : p = u + 3 * i /\ o = have - R(i) /\ st = 0 /\ rd = a + R(i)
      \/ \E i \in 0..(n - 1) : p = u + 3 * i + 1 /\ o = have - R(i + 1) /\ st = 0 /\ rd = a + R(i)
      \/ \E i \in 0..(n - 1) : p = u + 3 * i + 2 /\ o = have - R(i + 1) /\ st = C(i) /\ rd = a + R(i)
      \/ p = u + 3 * n + 1 /\ want < have /\ o = 0 /\ st = 0 /\ rd = want
  BY Zenon DEF RollingAt
<1> HIDE DEF b, n, u, a, P, R, C, m
<1>5. /\ want < have => L = u + 3 * n + 1
      /\ ~(want < have) => L = u + 3 * n
      /\ n \in Nat /\ u \in {0, 2} /\ (u = 2 <=> want > have)
  <2>1. L = u + 3 * n + (IF want < have THEN 1 ELSE 0)
    BY <1>1, Zenon
  <2>2. n \in Nat /\ u \in {0, 2} /\ (u = 2 <=> want > have)
    BY <1>2, <1>3, Zenon
  <2> HIDE DEF L
  <2> QED
    BY <2>1, <2>2
<1>6. L \in Nat /\ p \in 0..L
  BY <1>5 DEF P
<1> HIDE DEF L
<1>7. CASE p = 0 /\ u = 2 /\ o = have /\ st = 0 /\ rd = 0
  <2>0. want > have /\ p + 1 = 1 /\ p < L
    BY <1>7, <1>5
  <2>1. P[p + 1] = Phase("start", a)
    BY <2>0, <1>1, Zenon
  <2> QED
    BY <2>0, <2>1, <1>7, <1>3 DEF Phase
<1>8. CASE p = 1 /\ u = 2 /\ o = have /\ st = a /\ rd = 0
  <2>0. want > have /\ p + 1 = 2 /\ p < L
    BY <1>8, <1>5
  <2>1. P[p + 1] = Wait
    BY <2>0, <1>1, Zenon
  <2> QED
    BY <2>0, <2>1, <1>8, <1>3 DEF Phase, Wait
<1>9. ASSUME NEW i \in 0..n, p = u + 3 * i, o = have - R(i), st = 0, rd = a + R(i)
      PROVE  Ends /\ Serves /\ Safe
  <2> DEFINE x == R(i)
  <2>0. x \in 0..have /\ o = have - x /\ rd = a + x
    BY <1>9, <1>2, Zenon
  <2>1. CASE i = n
    <3>1. o = 0 /\ rd = a + have /\ p = u + 3 * n
      BY <1>9, <2>1, <1>2
    <3>2. want < have => P[p + 1] = Phase("stop", have - want)
      BY Zenon, <3>1, <1>1, <1>2, <1>3
    <3>3. Ends
      <4>1. a \in Nat /\ (want <= have => a = 0) /\ (want > have => a > 0 /\ have + a <= want)
        BY Zenon, <1>3
      <4>2. p = L => ~(want < have)
        BY <3>1, <1>5
      <4> QED
        BY <3>1, <1>9, <4>1, <4>2
    <3>5. Serves
      BY <3>1, <1>9, <1>3
    <3>4. Safe
      <4>1. SUFFICES ASSUME have > m, p < L
                     PROVE  P[p + 1].count <= CalculateMaxReplicasToStop(o + rd + st, o + rd, m)
        BY Zenon
      <4>2. want < have
        BY <4>1, <3>1, <1>5
      <4>3. P[p + 1].count = have - want /\ o = 0 /\ rd = have /\ st = 0 /\ m \in 0..want
        BY <4>2, <3>1, <3>2, <1>3, <1>9 DEF Phase
      <4> QED
        BY <4>2, <4>3 DEF CalculateMaxReplicasToStop, max
    <3> QED
      BY Zenon, <3>3, <3>4, <3>5
  <2>2. CASE i # n
    <3>1. i \in 0..(n - 1) /\ p + 1 = u + 3 * i + 1 /\ p # L
      BY <1>9, <2>2, <1>5
    <3>2. P[p + 1] = Phase("stop", C(i))
      BY <3>1, <1>1, Zenon
    <3> DEFINE c == C(i)
               y == R(i + 1)
    <3>3. P[p + 1].count = c /\ c \in 0..b /\ y \in 0..have /\ x + c = y
      <4>1. P[p + 1].count = C(i)
        BY <3>2 DEF Phase
      <4>2. C(i) \in 0..b /\ R(i + 1) \in 0..have /\ R(i) + C(i) = R(i + 1)
        BY <3>1, <1>2, Zenon
      <4> QED
        BY <4>1, <4>2, Zenon
    <3> HIDE DEF c, x, y
    <3>4. Serves
      BY <2>0, <1>9, <1>3
    <3>5. Safe
      <4>1. b \in Nat /\ a \in Nat /\ m \in Nat /\ (have > m => b <= have - m)
        BY <1>2, <1>3
      <4>2. c <= b /\ o + rd = have + a /\ o + rd + st = have + a
        BY <2>0, <3>3, <4>1, <1>9
      <4>3. c <= have
        BY <2>0, <3>3, <4>1
      <4> QED
        BY SMTT(30), <3>3, <4>1, <4>2, <4>3 DEF CalculateMaxReplicasToStop, max
    <3> QED
      BY Zenon, <3>1, <3>4, <3>5
  <2> QED
    BY Zenon, <2>1, <2>2
<1>10. ASSUME NEW i \in 0..(n - 1), p = u + 3 * i + 1, o = have - R(i + 1), st = 0, rd = a + R(i)
       PROVE  Ends /\ Serves /\ Safe
  <2>0. p + 1 = u + 3 * i + 2 /\ p # L
    BY <1>10, <1>5
  <2>1. P[p + 1] = Phase("start", C(i))
    BY <2>0, <1>1, Zenon
  <2> DEFINE c == C(i)
             x == R(i)
             y == R(i + 1)
  <2>2. /\ c \in 0..b /\ x \in 0..have /\ y \in 0..have /\ x + c = y
        /\ o = have - y /\ rd = a + x
    <3>1. i \in 0..n
      BY <1>2
    <3> QED
      BY Zenon, <3>1, <1>10, <1>2
  <2> HIDE DEF c, x, y
  <2>3. Serves
    <3>1. b \in Nat /\ a \in Nat /\ m \in Nat /\ (have > m => b <= have - m)
      BY <1>2, <1>3
    <3> QED
      BY <2>2, <3>1, <1>10
  <2> QED
    BY <2>0, <2>1, <2>3 DEF Phase
<1>11. ASSUME NEW i \in 0..(n - 1), p = u + 3 * i + 2, o = have - R(i + 1), st = C(i), rd = a + R(i)
       PROVE  Ends /\ Serves /\ Safe
  <2>0. p + 1 = u + 3 * i + 3 /\ p # L
    BY <1>11, <1>5
  <2>1. P[p + 1] = Wait
    BY <2>0, <1>1, Zenon
  <2> DEFINE c == C(i)
             x == R(i)
             y == R(i + 1)
  <2>2. /\ c \in 0..b /\ x \in 0..have /\ y \in 0..have /\ x + c = y
        /\ o = have - y /\ rd = a + x /\ st = c
    <3>1. i \in 0..n
      BY <1>2
    <3> QED
      BY Zenon, <3>1, <1>11, <1>2
  <2> HIDE DEF c, x, y
  <2>3. Serves
    <3>1. b \in Nat /\ a \in Nat /\ m \in Nat /\ (have > m => b <= have - m)
      BY <1>2, <1>3
    <3> QED
      BY <2>2, <3>1
  <2> QED
    BY <2>0, <2>1, <2>3 DEF Phase, Wait
<1>12. CASE p = u + 3 * n + 1 /\ want < have /\ o = 0 /\ st = 0 /\ rd = want
  BY <1>12, <1>2, <1>3, <1>5, <1>6
<1> QED
  BY Zenon, <1>4, <1>7, <1>8, <1>9, <1>10, <1>11, <1>12

-----------------------------------------------------------------------------
(* The same of the other two strategies, whose plans are short.            *)
StopPhases(have) == IF have > 0 THEN 2 ELSE 0

RecreateAt(have, want, p, o, st, rd) ==
  LET u == StopPhases(have)
  IN  \/ p = 0 /\ u = 2 /\ o = have /\ st = 0 /\ rd = 0
      \/ p = 1 /\ u = 2 /\ o = 0 /\ st = 0 /\ rd = 0
      \/ p = u /\ o = 0 /\ st = 0 /\ rd = 0
      \/ p = u + 1 /\ o = 0 /\ st = want /\ rd = 0
      \/ p = u + 2 /\ o = 0 /\ st = 0 /\ rd = want

(* The phases of a recreation, by their place in the plan.                 *)
LEMMA RecreatePlan ==
  ASSUME NEW have \in Nat, NEW want \in Nat
  PROVE  LET u == StopPhases(have)
             P == planRecreate(have, want)
         IN  /\ P \in Seq(Phases) /\ Len(P) = u + 2 /\ u \in {0, 2} /\ (u = 2 <=> have > 0)
             /\ have > 0 => P[1] = Phase("stop", have) /\ P[2] = Wait
             /\ P[u + 1] = Phase("start", want) /\ P[u + 2] = Wait
<1>1. Phase("stop", have) \in Phases /\ Phase("start", want) \in Phases /\ Wait \in Phases
  BY Zenon DEF Phase, Phases, Wait
<1>2. CASE have > 0
  <2>1. planRecreate(have, want) = <<Phase("stop", have), Wait>> \o <<Phase("start", want), Wait>>
    BY Zenon, <1>2 DEF planRecreate
  <2>2. StopPhases(have) = 2
    BY Zenon, <1>2 DEF StopPhases
  <2> QED
    BY <1>1, <1>2, <2>1, <2>2
<1>3. CASE ~(have > 0)
  <2>1. planRecreate(have, want) = << >> \o <<Phase("start", want), Wait>>
    BY Zenon, <1>3 DEF planRecreate
  <2>2. StopPhases(have) = 0
    BY Zenon, <1>3 DEF StopPhases
  <2> QED
    BY <1>1, <1>3, <2>1, <2>2
<1> QED
  BY Zenon, <1>2, <1>3

(* Every phase of a recreation takes the replicas to the next place.       *)
LEMMA RecreateStep ==
  ASSUME NEW have \in Nat, NEW want \in Nat,
         NEW p \in 0..(Len(planRecreate(have, want)) - 1),
         NEW o, NEW st, NEW rd, NEW o2, NEW st2, NEW rd2,
         RecreateAt(have, want, p, o, st, rd),
         Does(planRecreate(have, want)[p + 1], o, st, rd, o2, st2, rd2)
  PROVE  RecreateAt(have, want, p + 1, o2, st2, rd2)
<1> DEFINE u == StopPhases(have)
           P == planRecreate(have, want)
<1>1. /\ Len(P) = u + 2 /\ u \in {0, 2} /\ (u = 2 <=> have > 0)
      /\ have > 0 => P[1] = Phase("stop", have) /\ P[2] = Wait
      /\ P[u + 1] = Phase("start", want) /\ P[u + 2] = Wait
  BY Zenon, RecreatePlan
<1>2. \/ p = 0 /\ u = 2 /\ o = have /\ st = 0 /\ rd = 0
      \/ p = 1 /\ u = 2 /\ o = 0 /\ st = 0 /\ rd = 0
      \/ p = u /\ o = 0 /\ st = 0 /\ rd = 0
      \/ p = u + 1 /\ o = 0 /\ st = want /\ rd = 0
      \/ p = u + 2 /\ o = 0 /\ st = 0 /\ rd = want
  BY Zenon DEF RecreateAt
<1> DEFINE Goal ==
      \/ p + 1 = 0 /\ u = 2 /\ o2 = have /\ st2 = 0 /\ rd2 = 0
      \/ p + 1 = 1 /\ u = 2 /\ o2 = 0 /\ st2 = 0 /\ rd2 = 0
      \/ p + 1 = u /\ o2 = 0 /\ st2 = 0 /\ rd2 = 0
      \/ p + 1 = u + 1 /\ o2 = 0 /\ st2 = want /\ rd2 = 0
      \/ p + 1 = u + 2 /\ o2 = 0 /\ st2 = 0 /\ rd2 = want
<1>3. SUFFICES Goal
  BY Zenon DEF RecreateAt
<1> HIDE DEF u, P
<1>4. Does(P[p + 1], o, st, rd, o2, st2, rd2) /\ p \in 0..(Len(P) - 1)
  BY Zenon DEF P
<1>5. CASE p = 0 /\ u = 2 /\ o = have /\ st = 0 /\ rd = 0
  <2>1. P[p + 1] = Phase("stop", have)
    BY <1>5, <1>1
  <2> QED
    BY <2>1, <1>4, <1>5 DEF Does, Phase, max
<1>6. CASE p = 1 /\ u = 2 /\ o = 0 /\ st = 0 /\ rd = 0
  <2>1. P[p + 1] = Wait
    BY SMTT(30), <1>6, <1>1
  <2> QED
    BY <2>1, <1>4, <1>6 DEF Does, Phase, Wait
<1>7. CASE p = u /\ o = 0 /\ st = 0 /\ rd = 0
  <2>1. P[p + 1] = Phase("start", want)
    BY Zenon, <1>7, <1>1
  <2> QED
    BY <2>1, <1>1, <1>4, <1>7 DEF Does, Phase
<1>8. CASE p = u + 1 /\ o = 0 /\ st = want /\ rd = 0
  <2>1. P[p + 1] = Wait
    BY <1>8, <1>1
  <2> QED
    BY <2>1, <1>1, <1>4, <1>8 DEF Does, Phase, Wait
<1>9. CASE p = u + 2
  BY <1>9, <1>1, <1>4
<1> QED
  BY Zenon, <1>2, <1>5, <1>6, <1>7, <1>8, <1>9

PausePhases(s) == IF s.Pause THEN 3 ELSE 2

BlueGreenAt(have, want, s, p, o, st, rd) ==
  LET w == PausePhases(s)
  IN  \/ p = 0 /\ o = have /\ st = 0 /\ rd = 0
      \/ p = 1 /\ o = have /\ st = want /\ rd = 0
      \/ p \in 2..w /\ o = have /\ st = 0 /\ rd = want
      \/ p = w + 1 /\ have > 0 /\ o = 0 /\ st = 0 /\ rd = want

(* The phases of a blue-green rollout, by their place in the plan.         *)
LEMMA BlueGreenPlan ==
  ASSUME NEW have \in Nat, NEW want \in Nat, NEW s \in AnyStrategy
  PROVE  LET w == PausePhases(s)
             P == planBlueGreen(have, want, s)
         IN  /\ P \in Seq(Phases) /\ w \in {2, 3}
             /\ Len(P) = w + (IF have > 0 THEN 1 ELSE 0)
             /\ P[1] = Phase("start", want) /\ P[2] = Wait
             /\ w = 3 => P[3] = Wait
             /\ have > 0 => P[w + 1] = Phase("stop", have)
<1> DEFINE w == PausePhases(s)
           P == planBlueGreen(have, want, s)
           first == <<Phase("start", want), Wait>>
           pause == IF s.Pause THEN <<Wait>> ELSE << >>
           last == IF have > 0 THEN <<Phase("stop", have)>> ELSE << >>
<1>1. Phase("stop", have) \in Phases /\ Phase("start", want) \in Phases /\ Wait \in Phases
  BY Zenon DEF Phase, Phases, Wait
<1>2. P = first \o pause \o last
  BY Zenon DEF planBlueGreen
<1>3. first \in Seq(Phases) /\ Len(first) = 2 /\ first[1] = Phase("start", want) /\ first[2] = Wait
  BY <1>1
<1>4. pause \in Seq(Phases) /\ Len(pause) = w - 2 /\ w \in {2, 3} /\ (w = 3 => pause[1] = Wait)
  <2>1. CASE s.Pause
    <3>1. pause = <<Wait>> /\ w = 3
      BY Zenon, <2>1 DEF PausePhases
    <3> QED
      BY <3>1, <1>1
  <2>2. CASE ~s.Pause
    <3>1. pause = << >> /\ w = 2
      BY Zenon, <2>2 DEF PausePhases
    <3> QED
      BY <3>1
  <2> QED
    BY Zenon, <2>1, <2>2
<1>5. /\ last \in Seq(Phases) /\ Len(last) = (IF have > 0 THEN 1 ELSE 0)
      /\ have > 0 => last[1] = Phase("stop", have)
  <2>1. CASE have > 0
    <3>1. last = <<Phase("stop", have)>>
      BY Zenon, <2>1
    <3> QED
      BY <3>1, <1>1
  <2>2. CASE ~(have > 0)
    BY <2>2
  <2> QED
    BY Zenon, <2>1, <2>2
<1> HIDE DEF w, P, first, pause, last
<1>6. /\ P \in Seq(Phases) /\ Len(P) = Len(first) + Len(pause) + Len(last)
      /\ \A i \in 1..Len(first) : P[i] = first[i]
      /\ \A i \in 1..Len(pause) : P[Len(first) + i] = pause[i]
      /\ \A i \in 1..Len(last) : P[Len(first) + Len(pause) + i] = last[i]
  <2>1. /\ first \o pause \o last \in Seq(Phases)
        /\ Len(first \o pause \o last) = Len(first) + Len(pause) + Len(last)
        /\ \A i \in 1..Len(first) : (first \o pause \o last)[i] = first[i]
        /\ \A i \in 1..Len(pause) : (first \o pause \o last)[Len(first) + i] = pause[i]
        /\ \A i \in 1..Len(last) : (first \o pause \o last)[Len(first) + Len(pause) + i] = last[i]
    <3>1. first \in Seq(Phases) /\ pause \in Seq(Phases) /\ last \in Seq(Phases)
      BY <1>3, <1>4, <1>5, Zenon
    <3> QED
      BY <3>1
  <2> QED
    BY <2>1, <1>2, Zenon
<1>7. Len(P) = w + Len(last) /\ P[1] = first[1] /\ P[2] = first[2]
  BY <1>3, <1>4, <1>5, <1>6
<1>8. w = 3 => P[3] = pause[1]
  BY <1>3, <1>4, <1>6
<1>9. have > 0 => P[w + 1] = last[1]
  BY <1>3, <1>4, <1>5, <1>6
<1> QED
  BY Zenon, <1>3, <1>4, <1>5, <1>6, <1>7, <1>8, <1>9 DEF w, P

(* Every phase of a blue-green rollout takes the replicas to the next      *)
(* place.                                                                  *)
LEMMA BlueGreenStep ==
  ASSUME NEW have \in Nat, NEW want \in Nat, NEW s \in AnyStrategy,
         NEW p \in 0..(Len(planBlueGreen(have, want, s)) - 1),
         NEW o, NEW st, NEW rd, NEW o2, NEW st2, NEW rd2,
         BlueGreenAt(have, want, s, p, o, st, rd),
         Does(planBlueGreen(have, want, s)[p + 1], o, st, rd, o2, st2, rd2)
  PROVE  BlueGreenAt(have, want, s, p + 1, o2, st2, rd2)
<1> DEFINE w == PausePhases(s)
           P == planBlueGreen(have, want, s)
<1>1. /\ w \in {2, 3} /\ Len(P) = w + (IF have > 0 THEN 1 ELSE 0)
      /\ P[1] = Phase("start", want) /\ P[2] = Wait
      /\ w = 3 => P[3] = Wait
      /\ have > 0 => P[w + 1] = Phase("stop", have)
  BY Zenon, BlueGreenPlan
<1>2. \/ p = 0 /\ o = have /\ st = 0 /\ rd = 0
      \/ p = 1 /\ o = have /\ st = want /\ rd = 0
      \/ p \in 2..w /\ o = have /\ st = 0 /\ rd = want
      \/ p = w + 1 /\ have > 0 /\ o = 0 /\ st = 0 /\ rd = want
  BY Zenon DEF BlueGreenAt
<1> DEFINE Goal ==
      \/ p + 1 = 0 /\ o2 = have /\ st2 = 0 /\ rd2 = 0
      \/ p + 1 = 1 /\ o2 = have /\ st2 = want /\ rd2 = 0
      \/ p + 1 \in 2..w /\ o2 = have /\ st2 = 0 /\ rd2 = want
      \/ p + 1 = w + 1 /\ have > 0 /\ o2 = 0 /\ st2 = 0 /\ rd2 = want
<1>3. SUFFICES Goal
  BY Zenon DEF BlueGreenAt
<1> HIDE DEF w, P
<1>4. Does(P[p + 1], o, st, rd, o2, st2, rd2) /\ p \in 0..(Len(P) - 1)
  BY Zenon DEF P
<1>5. CASE p = 0 /\ o = have /\ st = 0 /\ rd = 0
  <2>1. P[p + 1] = Phase("start", want)
    BY SMTT(30), <1>5, <1>1
  <2> QED
    BY <2>1, <1>4, <1>5 DEF Does, Phase
<1>6. CASE p = 1 /\ o = have /\ st = want /\ rd = 0
  <2>1. P[p + 1] = Wait
    BY <1>6, <1>1
  <2> QED
    BY <2>1, <1>1, <1>4, <1>6 DEF Does, Phase, Wait
<1>7. CASE p \in 2..w /\ o = have /\ st = 0 /\ rd = want
  <2>1. CASE p = w
    <3>1. have > 0 /\ P[p + 1] = Phase("stop", have)
      BY SMTT(30), <1>7, <2>1, <1>1, <1>4
    <3>2. P[p + 1].action = "stop" /\ P[p + 1].count = have
      BY SMTT(30), <3>1 DEF Phase
    <3>3. st2 = 0 /\ o2 = max(0, have - have) /\ rd2 = max(0, want - max(0, have - have))
      BY Zenon, <3>2, <1>4, <1>7 DEF Does
    <3>4. o2 = 0 /\ rd2 = want
      BY SMTT(30), <3>3 DEF max
    <3> QED
      BY Zenon, <2>1, <3>1, <3>3, <3>4
  <2>2. CASE p # w
    <3>1. p = 2 /\ w = 3 /\ P[p + 1] = Wait
      BY SMTT(30), <1>7, <2>2, <1>1, <1>4
    <3> QED
      BY SMTT(30), <3>1, <1>4, <1>7 DEF Does, Phase, Wait
  <2> QED
    BY Zenon, <2>1, <2>2
<1>8. CASE p = w + 1 /\ have > 0
  BY <1>8, <1>1, <1>4
<1> QED
  BY Zenon, <1>2, <1>5, <1>6, <1>7, <1>8

-----------------------------------------------------------------------------
Known == {"RollingUpdate", "Recreate", "BlueGreen"}

(* The replicas after p phases of a plan.                                  *)
ReplicasAt(have, want, s, p, o, st, rd) ==
  /\ s.Strategy = "RollingUpdate" => RollingAt(have, want, s, p, o, st, rd)
  /\ s.Strategy = "Recreate" => RecreateAt(have, want, p, o, st, rd)
  /\ s.Strategy = "BlueGreen" => BlueGreenAt(have, want, s, p, o, st, rd)

(* A plan is the one of its strategy.                                      *)
LEMMA PlanOfStrategy ==
  ASSUME NEW have, NEW want, NEW s
  PROVE  /\ s.Strategy = "RollingUpdate" => PhasesOf(have, want, s) = Rolling(have, want, s)
         /\ s.Strategy = "Recreate" => PhasesOf(have, want, s) = planRecreate(have, want)
         /\ s.Strategy = "BlueGreen" => PhasesOf(have, want, s) = planBlueGreen(have, want, s)
<1>1. ASSUME s.Strategy = "RollingUpdate" PROVE PhasesOf(have, want, s) = Rolling(have, want, s)
  BY Zenon, <1>1 DEF PhasesOf, Rolling
<1>2. ASSUME s.Strategy = "Recreate" PROVE PhasesOf(have, want, s) = planRecreate(have, want)
  BY Zenon, <1>2 DEF PhasesOf
<1>3. ASSUME s.Strategy = "BlueGreen" PROVE PhasesOf(have, want, s) = planBlueGreen(have, want, s)
  BY Zenon, <1>3 DEF PhasesOf
<1> QED
  BY <1>1, <1>2, <1>3, Zenon

(* A plan is a sequence of phases.                                         *)
LEMMA PlanIsPhases ==
  ASSUME NEW have \in Nat, NEW want \in Nat, NEW s \in AnyStrategy, s.Strategy \in Known
  PROVE  PhasesOf(have, want, s) \in Seq(Phases)
<1>1. Rolling(have, want, s) \in Seq(Phases)
  BY RollingPlan, Zenon
<1>2. planRecreate(have, want) \in Seq(Phases)
  BY RecreatePlan, Zenon
<1>3. planBlueGreen(have, want, s) \in Seq(Phases)
  BY BlueGreenPlan, Zenon
<1> QED
  BY <1>1, <1>2, <1>3, PlanOfStrategy, Zenon DEF Known

(* A plan begins with the old replicas.                                    *)
LEMMA PlanBegins ==
  ASSUME NEW have \in Nat, NEW want \in Nat, NEW s \in AnyStrategy
  PROVE  ReplicasAt(have, want, s, 0, have, 0, 0)
<1>1. RollingAt(have, want, s, 0, have, 0, 0)
  <2> DEFINE b == batchOf(have, want, s)
             n == batchesOf(have, want, s)
             u == AddPhases(have, want)
             a == Added(have, want, s)
  <2>1. n \in Nat /\ Stopped(have, b, 0) = 0
    BY RollingBatches, SMT
  <2>2. (u = 2 \/ u = 0) /\ (u = 0 => a = 0)
    BY Limits DEF AddPhases
  <2>3. \/ u = 2
        \/ \E i \in 0..n : /\ 0 = u + 3 * i /\ have = have - Stopped(have, b, i)
                           /\ 0 = 0 /\ 0 = a + Stopped(have, b, i)
    <3> HIDE DEF b, n, u, a
    <3>1. CASE u = 0
      <4>1. /\ 0 \in 0..n /\ 0 = u + 3 * 0 /\ have = have - Stopped(have, b, 0)
            /\ 0 = a + Stopped(have, b, 0)
        BY <3>1, <2>1, <2>2
      <4> QED
        BY <4>1, Zenon
    <3> QED
      BY <3>1, <2>2, Zenon
  <2> QED
    BY <2>3, Zenon DEF RollingAt
<1>2. RecreateAt(have, want, 0, have, 0, 0)
  BY DEF RecreateAt, StopPhases
<1>3. BlueGreenAt(have, want, s, 0, have, 0, 0)
  BY Zenon DEF BlueGreenAt
<1> QED
  BY <1>1, <1>2, <1>3, Zenon DEF ReplicasAt

(* Every phase takes the replicas to the next place of the plan.           *)
LEMMA PlanStep ==
  ASSUME NEW have \in Nat, NEW want \in Nat, NEW s \in AnyStrategy, s.Strategy \in Known,
         NEW p \in 0..(Len(PhasesOf(have, want, s)) - 1),
         NEW o, NEW st, NEW rd, NEW o2, NEW st2, NEW rd2,
         ReplicasAt(have, want, s, p, o, st, rd),
         Does(PhasesOf(have, want, s)[p + 1], o, st, rd, o2, st2, rd2)
  PROVE  ReplicasAt(have, want, s, p + 1, o2, st2, rd2)
<1>1. ASSUME s.Strategy = "RollingUpdate" PROVE RollingAt(have, want, s, p + 1, o2, st2, rd2)
  BY <1>1, PlanOfStrategy, RollingStep, Zenon DEF ReplicasAt
<1>2. ASSUME s.Strategy = "Recreate" PROVE RecreateAt(have, want, p + 1, o2, st2, rd2)
  BY <1>2, PlanOfStrategy, RecreateStep, Zenon DEF ReplicasAt
<1>3. ASSUME s.Strategy = "BlueGreen" PROVE BlueGreenAt(have, want, s, p + 1, o2, st2, rd2)
  BY <1>3, PlanOfStrategy, BlueGreenStep, Zenon DEF ReplicasAt
<1> QED
  BY <1>1, <1>2, <1>3, Zenon DEF ReplicasAt

-----------------------------------------------------------------------------
(* What is left of a plan after p of its phases.                           *)
Rest(whole, p) ==
  /\ p \in 0..Len(whole) /\ plan \in Seq(Phases) /\ Len(plan) = Len(whole) - p
  /\ \A i \in 1..Len(plan) : plan[i] = whole[p + i]

Underway(p) ==
  /\ Rest(PhasesOf(current, desired, strategy), p)
  /\ ReplicasAt(current, desired, strategy, p, old, starting, ready)

(* The invariant: the plan is a rest of PlanRollout's phases, and the      *)
(* replicas are those after the phases that were carried out.              *)
RolloutInv ==
  /\ current \in Nat /\ desired \in Nat /\ strategy \in AnyStrategy /\ planned \in BOOLEAN
  /\ ~planned => plan = << >> /\ old = current /\ starting = 0 /\ ready = 0
  /\ planned => strategy.Strategy \in Known /\ \E p \in Nat : Underway(p)

(* Carrying out a phase.                                                   *)
LEMMA CarryStep ==
  ASSUME RolloutInv, plan # << >>, plan' = Tail(plan),
         UNCHANGED <<current, desired, strategy, planned>>,
         Does(Head(plan), old, starting, ready, old', starting', ready')
  PROVE  RolloutInv'
<1> DEFINE whole == PhasesOf(current, desired, strategy)
<1>1. /\ current \in Nat /\ desired \in Nat /\ strategy \in AnyStrategy /\ planned = TRUE
      /\ strategy.Strategy \in Known
  BY Zenon DEF RolloutInv
<1>2. PICK p \in Nat : Underway(p)
  BY Zenon DEF RolloutInv
<1>3. whole \in Seq(Phases) /\ Rest(whole, p)
  BY <1>1, <1>2, PlanIsPhases, Zenon DEF Underway
<1> HIDE DEF whole
<1>4. /\ p \in 0..(Len(whole) - 1) /\ Head(plan) = whole[p + 1]
      /\ p + 1 \in 0..Len(whole) /\ Tail(plan) \in Seq(Phases)
      /\ Len(Tail(plan)) = Len(whole) - (p + 1)
      /\ \A i \in 1..Len(Tail(plan)) : Tail(plan)[i] = whole[(p + 1) + i]
  <2>1. /\ plan \in Seq(Phases) /\ Len(whole) \in Nat /\ Len(plan) = Len(whole) - p /\ p <= Len(whole)
        /\ \A i \in 1..Len(plan) : plan[i] = whole[p + i]
    BY <1>3 DEF Rest
  <2>2. Len(plan) \in Nat \ {0} /\ Len(Tail(plan)) = Len(plan) - 1
        /\ Head(plan) = plan[1] /\ Tail(plan) \in Seq(Phases)
        /\ \A i \in 1..Len(Tail(plan)) : Tail(plan)[i] = plan[i + 1]
    BY <2>1
  <2>3. Head(plan) = whole[p + 1]
    BY <2>1, <2>2
  <2>4. ASSUME NEW i \in 1..Len(Tail(plan)) PROVE Tail(plan)[i] = whole[(p + 1) + i]
    <3>1. i + 1 \in 1..Len(plan) /\ p + (i + 1) = (p + 1) + i
      BY <2>2
    <3> QED
      BY <3>1, <2>1, <2>2, Zenon
  <2>5. /\ p \in 0..(Len(whole) - 1) /\ p + 1 \in 0..Len(whole)
        /\ Len(Tail(plan)) = Len(whole) - (p + 1)
    BY <2>1, <2>2
  <2> QED
    BY Zenon, <2>2, <2>3, <2>4, <2>5
<1>5. ReplicasAt(current, desired, strategy, p + 1, old', starting', ready')
  BY <1>1, <1>2, <1>4, PlanStep, Zenon DEF Underway, whole
<1>6. Underway(p + 1)'
  BY <1>4, <1>5, Zenon DEF Underway, Rest, whole
<1>7. p + 1 \in Nat
  OBVIOUS
<1> QED
  BY <1>1, <1>6, <1>7, Zenon DEF RolloutInv

(* The invariant holds before the first plan.                              *)
LEMMA RolloutInitInv == RolloutInit => RolloutInv
<1> SUFFICES ASSUME RolloutInit PROVE RolloutInv
  BY Zenon
<1>1. current \in Nat /\ desired \in Nat /\ strategy \in AnyStrategy
  BY RolloutAssumption DEF RolloutInit, Counts, StrategyRec, AnyStrategy
<1> QED
  BY <1>1, Zenon DEF RolloutInit, RolloutInv

(* Every step keeps the invariant.                                         *)
LEMMA RolloutStep == RolloutInv /\ [RolloutNext]_rolloutVars => RolloutInv'
<1> SUFFICES ASSUME RolloutInv, [RolloutNext]_rolloutVars PROVE RolloutInv'
  BY Zenon
<1>1. CASE PlanRollout
  <2> DEFINE whole == PhasesOf(current, desired, strategy)
  <2>1. /\ current \in Nat /\ desired \in Nat /\ strategy \in AnyStrategy
        /\ strategy.Strategy \in Known /\ old = current /\ starting = 0 /\ ready = 0
    BY <1>1, Zenon DEF RolloutInv, PlanRollout, Known
  <2>2. whole \in Seq(Phases)
    BY <2>1, PlanIsPhases, Zenon
  <2>3. ReplicasAt(current, desired, strategy, 0, old, starting, ready)
    BY <2>1, PlanBegins, Zenon
  <2> HIDE DEF whole
  <2>4. /\ 0 \in 0..Len(whole) /\ Len(whole) = Len(whole) - 0
        /\ \A i \in 1..Len(whole) : whole[i] = whole[0 + i]
    BY <2>2
  <2>5. Underway(0)'
    BY <1>1, <2>2, <2>3, <2>4, Zenon DEF PlanRollout, Underway, Rest, whole
  <2> QED
    BY <1>1, <2>1, <2>5, Zenon DEF PlanRollout, RolloutInv
<1>2. CASE Start
  <2>1. Does(Head(plan), old, starting, ready, old', starting', ready')
    BY <1>2, Zenon DEF Start, Carry, Does
  <2> QED
    BY <1>2, <2>1, CarryStep, Zenon DEF Start, Carry
<1>3. CASE Stop
  <2>1. Does(Head(plan), old, starting, ready, old', starting', ready')
    BY <1>3, Zenon DEF Stop, Carry, Does
  <2> QED
    BY <1>3, <2>1, CarryStep, Zenon DEF Stop, Carry
<1>4. CASE WaitReady
  <2>1. Does(Head(plan), old, starting, ready, old', starting', ready')
    BY <1>4, Zenon DEF WaitReady, Carry, Does
  <2> QED
    BY <1>4, <2>1, CarryStep, Zenon DEF WaitReady, Carry
<1>5. CASE UNCHANGED rolloutVars
  BY <1>5, Zenon DEF rolloutVars, RolloutInv, Underway, Rest
<1> QED
  BY <1>1, <1>2, <1>3, <1>4, <1>5, Zenon DEF RolloutNext

(* The end of a rollout, and what it keeps.                                *)
LEMMA PlanKeeps ==
  ASSUME RolloutInv, planned
  PROVE  OldReplaced /\ SpareReplicasSuffice
<1> DEFINE whole == PhasesOf(current, desired, strategy)
           m == MinAvailable(desired, strategy)
<1>1. /\ current \in Nat /\ desired \in Nat /\ strategy \in AnyStrategy
      /\ strategy.Strategy \in Known
  BY Zenon DEF RolloutInv
<1>2. PICK p \in Nat : Underway(p)
  BY Zenon DEF RolloutInv
<1>3. whole \in Seq(Phases) /\ Rest(whole, p)
  BY <1>1, <1>2, PlanIsPhases, Zenon DEF Underway
<1> HIDE DEF whole
<1>4. /\ p \in 0..Len(whole)
      /\ plan = << >> => p = Len(whole)
      /\ plan # << >> => p < Len(whole) /\ Head(plan) = whole[p + 1]
  <2>1. /\ plan \in Seq(Phases) /\ Len(whole) \in Nat /\ Len(plan) = Len(whole) - p /\ p <= Len(whole)
        /\ \A i \in 1..Len(plan) : plan[i] = whole[p + i]
    BY <1>3 DEF Rest
  <2>2. plan # << >> => Len(plan) \in Nat \ {0} /\ Head(plan) = plan[1]
    BY <2>1
  <2> QED
    BY <2>1, <2>2
<1>5. m \in 0..desired
  BY Zenon, <1>1, Limits
<1>6. ValidateRollout(m, strategy) \/ strategy.MinAvailable > desired
  BY <1>1 DEF MinAvailable, ValidateRollout, AnyStrategy, min, max
<1>7. CASE strategy.Strategy = "RollingUpdate"
  <2>1. whole = Rolling(current, desired, strategy)
    BY <1>7, PlanOfStrategy, Zenon DEF whole
  <2>2. RollingAt(current, desired, strategy, p, old, starting, ready)
    BY <1>2, <1>7, Zenon DEF Underway, ReplicasAt
  <2>3. /\ p = Len(whole) => old = 0 /\ starting = 0
                             /\ (ready = desired \/ (current < ready /\ ready < desired))
        /\ current > m => old + ready >= m /\ old \in Nat /\ starting \in Nat /\ ready \in Nat
        /\ current > m /\ p < Len(whole) /\ whole[p + 1].action = "stop" =>
             whole[p + 1].count <= CalculateMaxReplicasToStop(old + ready + starting, old + ready, m)
    <3> DEFINE P == Rolling(current, desired, strategy)
    <3>1. p \in 0..Len(P)
      BY <1>4, <2>1, Zenon
    <3>2. /\ p = Len(P) => old = 0 /\ starting = 0
                           /\ (ready = desired \/ (current < ready /\ ready < desired))
          /\ current > m => old + ready >= m /\ old \in Nat /\ starting \in Nat /\ ready \in Nat
          /\ current > m /\ p < Len(P) /\ P[p + 1].action = "stop" =>
               P[p + 1].count <= CalculateMaxReplicasToStop(old + ready + starting, old + ready, m)
      BY Zenon, <1>1, <2>2, <3>1, RollingKeeps
    <3> QED
      BY <2>1, <3>2, Zenon
  <2>4. OldReplaced
    BY <1>4, <1>7, <2>3, Zenon DEF OldReplaced, Done
  <2>5. current > m /\ strategy.MinAvailable <= desired => ValidateRollout(AvailableReplicas, strategy)
    BY <1>1, <1>5, <1>6, <2>3 DEF ValidateRollout, AvailableReplicas, AnyStrategy
  <2>6. SpareReplicasSuffice
    BY <1>4, <1>7, <2>3, <2>5, Zenon DEF SpareReplicasSuffice, AvailableReplicas, RunningReplicas
  <2> QED
    BY Zenon, <2>4, <2>6
<1>8. CASE strategy.Strategy = "Recreate"
  <2>1. Len(whole) = StopPhases(current) + 2 /\ StopPhases(current) \in {0, 2}
    <3>1. whole = planRecreate(current, desired)
      BY <1>8, PlanOfStrategy, Zenon DEF whole
    <3>2. /\ Len(planRecreate(current, desired)) = StopPhases(current) + 2
          /\ StopPhases(current) \in {0, 2}
      BY Zenon, <1>1, RecreatePlan
    <3> QED
      BY <3>1, <3>2, Zenon
  <2>2. RecreateAt(current, desired, p, old, starting, ready)
    BY <1>2, <1>8, Zenon DEF Underway, ReplicasAt
  <2>3. p = Len(whole) => old = 0 /\ starting = 0 /\ ready = desired
    BY <2>1, <2>2 DEF RecreateAt
  <2> QED
    BY <1>4, <1>8, <2>3, Zenon DEF OldReplaced, Done, SpareReplicasSuffice
<1>9. CASE strategy.Strategy = "BlueGreen"
  <2> DEFINE w == PausePhases(strategy)
  <2>1. /\ Len(whole) = w + (IF current > 0 THEN 1 ELSE 0)
        /\ w \in {2, 3}
    <3>1. whole = planBlueGreen(current, desired, strategy)
      BY <1>9, PlanOfStrategy, Zenon DEF whole
    <3>2. /\ Len(planBlueGreen(current, desired, strategy)) = w + (IF current > 0 THEN 1 ELSE 0)
          /\ w \in {2, 3}
      BY Zenon, <1>1, BlueGreenPlan
    <3> QED
      BY <3>1, <3>2, Zenon
  <2>2. \/ p = 0 /\ old = current /\ starting = 0 /\ ready = 0
        \/ p = 1 /\ old = current /\ starting = desired /\ ready = 0
        \/ p \in 2..w /\ old = current /\ starting = 0 /\ ready = desired
        \/ p = w + 1 /\ current > 0 /\ old = 0 /\ starting = 0 /\ ready = desired
    BY <1>2, <1>9, Zenon DEF Underway, ReplicasAt, BlueGreenAt
  <2> HIDE DEF w
  <2>3. p = Len(whole) => old = 0 /\ starting = 0 /\ ready = desired
    BY <1>1, <2>1, <2>2
  <2>4. old + ready >= min(current, desired)
    BY <1>1, <2>2 DEF min
  <2> QED
    BY <1>4, <1>9, <2>3, <2>4, Zenon DEF OldReplaced, Done, SpareReplicasSuffice,
       AvailableReplicas
<1> QED
  BY <1>1, <1>7, <1>8, <1>9, Zenon DEF Known

(* Before there is a plan all the old replicas serve.                      *)
LEMMA UnplannedKeeps ==
  ASSUME RolloutInv, ~planned
  PROVE  OldReplaced /\ SpareReplicasSuffice
<1>1. /\ current \in Nat /\ desired \in Nat /\ strategy \in AnyStrategy
      /\ plan = << >> /\ AvailableReplicas = current + 0
  BY Zenon DEF RolloutInv, AvailableReplicas
<1>2. MinAvailable(desired, strategy) \in 0..desired
  BY Zenon, <1>1, Limits
<1>3. current > MinAvailable(desired, strategy) =>
        /\ AvailableReplicas >= MinAvailable(desired, strategy)
        /\ strategy.MinAvailable <= desired => ValidateRollout(AvailableReplicas, strategy)
  BY <1>1, <1>2 DEF MinAvailable, ValidateRollout, AnyStrategy, min, max
<1>4. AvailableReplicas >= min(current, desired)
  BY <1>1 DEF min
<1> QED
  BY <1>1, <1>3, <1>4, Zenon DEF OldReplaced, Done, SpareReplicasSuffice

-----------------------------------------------------------------------------
(* The invariant holds throughout.                                         *)
LEMMA RolloutInvariance == RolloutSpec => []RolloutInv
  BY RolloutInitInv, RolloutStep, PTL DEF RolloutSpec

(* A rollout ends with no old replica and none that is not ready, and with *)
(* the desired number unless a rolling scale-up ended short, for every     *)
(* number of replicas and every strategy.                                  *)
THEOREM RolloutsReplaceOld == RolloutSpec => []OldReplaced
<1>1. RolloutInv => OldReplaced
  BY PlanKeeps, UnplannedKeeps, Zenon
<1> QED
  BY <1>1, RolloutInvariance, PTL

(* A rolling update with replicas to spare keeps minAvailable serving, and *)
(* a blue-green one what it had up to the desired number, for every number *)
(* of replicas and every strategy.                                         *)
THEOREM SpareReplicasKeepServing == RolloutSpec => []SpareReplicasSuffice
<1>1. RolloutInv => SpareReplicasSuffice
  BY PlanKeeps, UnplannedKeeps, Zenon
<1> QED
  BY <1>1, RolloutInvariance, PTL

-----------------------------------------------------------------------------
(* The replicas of a chunk.                                                *)

(* What the variables hold before the first report.                        *)
Targets == ReplicaNodes \cup {NewNode}
Replica == [node : Targets, status : {"none", "healthy", "stale", "corrupted"}]
Copying == [kind : {"source", "append"}, node : Targets, status : {"healthy"}]
Missing == [type : {"missing"}, node : {NewNode}]

(* Before the first report every operation copies, every task is about a   *)
(* missing replica and every record is healthy.                            *)
CopyType ==
  /\ list \in Seq(RecordIds) /\ rec \in [RecordIds -> Replica]
  /\ todo \in [Actors -> Seq(Copying)] /\ held \in [Actors -> Seq(Seq(RecordIds))]
  /\ queue \in Seq(Missing)

(* Every record of a slice is healthy.                                     *)
AllHealthy(s) == \A i \in DOMAIN s : rec[s[i]].status = "healthy"

(* An operation that has loaded the slice is about to append to it.        *)
Loaded(a) ==
  held[a] # NotLoaded =>
    todo[a] # <<>> /\ Head(todo[a]).kind = "append" /\ AllHealthy(slice(a))

(* Without overlaps the loaded slice is the list, which then has a record  *)
(* for each goroutine that succeeded; with them it still has one record.   *)
Recorded ==
  /\ acks > 0 => list # <<>>
  /\ ~overlapped => acks <= Len(list)
  /\ ~overlapped => \A a \in Actors : held[a] # NotLoaded =>
                      slice(a) = list /\ \A b \in Actors : held[b] # NotLoaded => b = a

(* The inductive invariant: the quorum was counted before the call         *)
(* returned, and before the first report the list holds what was counted.  *)
CopyInv ==
  /\ acks \in Nat /\ faults \in Nat /\ (put = "acked" => acks >= Quorum)
  /\ faults = 0 => CopyType /\ AllHealthy(list) /\ (\A a \in Actors : Loaded(a)) /\ Recorded

(* The invariant holds in an empty list.                                   *)
LEMMA CopyInit == ReplicaInit => CopyInv
<1> SUFFICES ASSUME ReplicaInit PROVE CopyInv
  BY Zenon
<1>1. CopyType
  <2>1. NoReplica \in Replica
    BY Zenon DEF NoReplica, Replica, Targets
  <2> QED
    BY <2>1 DEF ReplicaInit, CopyType, NotLoaded
<1>2. AllHealthy(list) /\ Recorded /\ \A a \in Actors : Loaded(a)
  BY DEF ReplicaInit, AllHealthy, Recorded, Loaded, NotLoaded
<1> QED
  BY Zenon, <1>1, <1>2 DEF ReplicaInit, CopyInv

(* A step that leaves the list, its records and what operations hold.      *)
LEMMA IdleStep ==
  ASSUME CopyInv, UNCHANGED <<list, rec, todo, held, acks, faults, overlapped>>,
         put' = "acked" => acks >= Quorum,
         faults = 0 => queue' \in Seq(Missing)
  PROVE  CopyInv'
BY Zenon DEF CopyInv, CopyType, AllHealthy, Loaded, Recorded, slice

(* The operations of a copy.                                               *)
LEMMA OpsCopy ==
  /\ Source \in Copying /\ \A n \in Targets : AppendTo(n) \in Copying
  /\ Source.kind = "source" /\ \A n \in Targets : AppendTo(n).kind = "append"
  BY Zenon DEF Source, AppendTo, Op, Copying, Targets

(* ReplicateChunk gives each of its goroutines one copy to do.             *)
LEMMA ReplicateChunkStep ==
  ASSUME CopyInv, ReplicateChunk PROVE CopyInv'
<1>1. PICK targets : todo' = [a \in Actors |-> IF a \in targets THEN <<AppendTo(a)>> ELSE todo[a]]
                     /\ targets \in SUBSET ReplicaNodes
  BY Zenon DEF ReplicateChunk, kSubset
<1>2. UNCHANGED <<list, rec, held, acks, queue, faults, overlapped>> /\ put' = "running"
  BY Zenon DEF ReplicateChunk, repairVars
<1>3. ASSUME faults = 0, NEW a \in Actors PROVE todo'[a] \in Seq(Copying) /\ Loaded(a)'
  <2>0. CopyType /\ Loaded(a)
    BY Zenon, <1>3 DEF CopyInv
  <2>1. CASE a \in targets
    <3>1. todo'[a] = <<AppendTo(a)>> /\ AppendTo(a) \in Copying /\ AppendTo(a).kind = "append"
      BY Zenon, <1>1, <2>1, OpsCopy DEF Targets
    <3>2. todo'[a] \in Seq(Copying) /\ todo'[a] # <<>> /\ Head(todo'[a]).kind = "append"
      BY <3>1
    <3> QED
      BY Zenon, <2>0, <3>2, <1>2 DEF Loaded, AllHealthy, slice
  <2>2. CASE a \notin targets
    <3>1. todo'[a] = todo[a]
      BY Zenon, <1>1, <2>2
    <3> QED
      BY Zenon, <2>0, <3>1, <1>2 DEF Loaded, AllHealthy, slice, CopyType
  <2> QED
    BY Zenon, <2>1, <2>2
<1>4. faults = 0 => todo' \in [Actors -> Seq(Copying)]
  BY Zenon, <1>1, <1>3
<1> QED
  BY Zenon, <1>2, <1>3, <1>4 DEF CopyInv, CopyType, AllHealthy, Recorded, slice

(* From the first report on only the quorum counts.                        *)
LEMMA ReportStep ==
  ASSUME CopyInv, NEW n, NEW op, Report(n, op) PROVE CopyInv'
<1>1. faults' = faults + 1 /\ acks' = acks /\ put' = put
  BY Zenon DEF Report
<1>2. faults' \in Nat /\ faults' # 0
  BY <1>1 DEF CopyInv
<1> QED
  BY Zenon, <1>1, <1>2 DEF CopyInv, Quorum

(* A read repairs stale records only: there are none before the first      *)
(* report.                                                                 *)
LEMMA ReadRepairStep ==
  ASSUME CopyInv, ReadRepair PROVE CopyInv'
<1>1. acks' = acks /\ put' = put /\ faults' = faults
  BY Zenon DEF ReadRepair
<1>2. faults # 0
  <2>1. SUFFICES ASSUME faults = 0 PROVE FALSE
    BY Zenon
  <2>2. \E i \in DOMAIN list : rec[list[i]].status = "stale"
    BY Zenon DEF ReadRepair
  <2> QED
    BY Zenon, <2>1, <2>2 DEF CopyInv, AllHealthy
<1> QED
  BY Zenon, <1>1, <1>2 DEF CopyInv, Quorum

(* The source of a copy is looked for.                                     *)
LEMMA SelectPrimaryReplicaStep ==
  ASSUME CopyInv, NEW a \in Actors, SelectPrimaryReplica(a) PROVE CopyInv'
<1>1. UNCHANGED <<list, rec, held, put, acks, queue, faults, overlapped>>
  BY Zenon DEF SelectPrimaryReplica, repairVars
<1>2. /\ todo[a] # <<>> /\ Head(todo[a]).kind = "source"
      /\ todo' = [todo EXCEPT ![a] = IF Healthy = {} THEN <<>> ELSE Tail(todo[a])]
  BY Zenon DEF SelectPrimaryReplica
<1>3. ASSUME faults = 0
      PROVE  /\ todo' \in [Actors -> Seq(Copying)] /\ held[a] = NotLoaded
             /\ \A b \in Actors \ {a} : todo'[b] = todo[b]
  <2>1. todo \in [Actors -> Seq(Copying)] /\ Loaded(a)
    BY Zenon, <1>3 DEF CopyInv, CopyType
  <2>2. Tail(todo[a]) \in Seq(Copying) /\ <<>> \in Seq(Copying)
    BY <2>1, <1>2
  <2>3. held[a] = NotLoaded
    BY Zenon, <2>1, <1>2 DEF Loaded
  <2> QED
    BY Zenon, <1>2, <2>1, <2>2, <2>3
<1>4. ASSUME faults = 0, NEW b \in Actors PROVE Loaded(b)'
  BY Zenon, <1>1, <1>3, <1>4 DEF CopyInv, Loaded, AllHealthy, slice
<1> QED
  BY Zenon, <1>1, <1>3, <1>4 DEF CopyInv, CopyType, AllHealthy, Recorded, slice, Quorum

(* A copy loads a healthy slice, and notes the operations under way.       *)
LEMMA LoadReplicasStep ==
  ASSUME CopyInv, NEW a \in Actors, LoadReplicas(a) PROVE CopyInv'
<1>1. UNCHANGED <<list, rec, todo, put, acks, queue, faults>>
  BY Zenon DEF LoadReplicas, repairVars
<1>2. /\ todo[a] # <<>> /\ Head(todo[a]).kind # "source" /\ held[a] = NotLoaded
      /\ held' = [held EXCEPT ![a] = <<list>>]
      /\ overlapped' = (overlapped \/ \E b \in Actors : held[b] # NotLoaded)
  BY Zenon DEF LoadReplicas
<1>3. ASSUME faults = 0
      PROVE  /\ held' \in [Actors -> Seq(Seq(RecordIds))] /\ held'[a] # NotLoaded /\ held'[a][1] = list
             /\ \A b \in Actors \ {a} : held'[b] = held[b]
             /\ Head(todo[a]).kind = "append"
  <2>1. /\ held \in [Actors -> Seq(Seq(RecordIds))] /\ list \in Seq(RecordIds)
        /\ todo[a] \in Seq(Copying)
    BY Zenon, <1>3 DEF CopyInv, CopyType
  <2>2. <<list>> \in Seq(Seq(RecordIds)) /\ <<list>> # <<>> /\ <<list>>[1] = list
    BY <2>1
  <2>3. Head(todo[a]) \in Copying
    BY <1>2, <2>1
  <2>4. Head(todo[a]).kind = "append"
    BY Zenon, <1>2, <2>3 DEF Copying
  <2> QED
    BY Zenon, <1>2, <2>1, <2>2, <2>4 DEF NotLoaded
<1>4. ASSUME faults = 0, NEW b \in Actors PROVE Loaded(b)'
  BY Zenon, <1>1, <1>2, <1>3, <1>4 DEF CopyInv, Loaded, AllHealthy, slice
<1>5. faults = 0 => Recorded'
  BY Zenon, <1>1, <1>2, <1>3 DEF CopyInv, Recorded, slice
<1> QED
  BY Zenon, <1>1, <1>3, <1>4, <1>5 DEF CopyInv, CopyType, AllHealthy, Quorum

(* A copy that has succeeded is one healthy record more than the slice     *)
(* that it has loaded.                                                     *)
LEMMA StoreReplicasStep ==
  ASSUME CopyInv, NEW a \in Actors, StoreReplicas(a) PROVE CopyInv'
<1>1. /\ UNCHANGED <<put, queue, faults, overlapped>> /\ held[a] # NotLoaded
      /\ todo' = [todo EXCEPT ![a] = Tail(todo[a])] /\ held' = [held EXCEPT ![a] = NotLoaded]
      /\ acks' = IF a \in Putters THEN acks + 1 ELSE acks
  BY Zenon DEF StoreReplicas, repairVars
<1>2. acks' \in Nat /\ acks' >= acks /\ acks' <= acks + 1
  BY <1>1 DEF CopyInv
<1>3. put' = "acked" => acks' >= Quorum
  <2>1. Quorum \in Nat
    BY ReplicaAssumption DEF Quorum
  <2> QED
    BY <2>1, <1>1, <1>2 DEF CopyInv
<1>4. ASSUME faults = 0
      PROVE  CopyType' /\ AllHealthy(list)' /\ (\A b \in Actors : Loaded(b)') /\ Recorded'
  <2> DEFINE op == Head(todo[a])
             loaded == slice(a)
             r == newRecord
  <2>1. /\ CopyType /\ AllHealthy(list) /\ (\A b \in Actors : Loaded(b)) /\ Recorded
    BY Zenon, <1>4 DEF CopyInv
  <2>2. /\ todo[a] \in Seq(Copying) /\ todo[a] # <<>> /\ op.kind = "append" /\ AllHealthy(loaded)
        /\ held[a] \in Seq(Seq(RecordIds)) /\ held[a] # <<>>
    BY Zenon, <1>1, <2>1 DEF CopyType, Loaded, NotLoaded
  <2>3. loaded \in Seq(RecordIds)
    BY <2>2 DEF slice
  <2>4. op \in Copying /\ Tail(todo[a]) \in Seq(Copying)
    BY <2>2
  <2>5. op.node \in Targets
    BY Zenon, <2>4 DEF Copying
  <2>6. AppendReplica(a, op.node)
    BY Zenon, <2>2 DEF StoreReplicas
  <2>7. /\ r \in RecordIds
        /\ rec' = [rec EXCEPT ![r] = [node |-> op.node, status |-> "healthy"]]
        /\ list' = Append(loaded, r)
    BY Zenon, <2>6 DEF AppendReplica, newRecord, Unused
  <2> HIDE DEF op, loaded, r
  <2>8. /\ rec' \in [RecordIds -> Replica] /\ rec'[r].status = "healthy"
        /\ \A q \in RecordIds : rec[q].status = "healthy" => rec'[q].status = "healthy"
    <3>1. [node |-> op.node, status |-> "healthy"] \in Replica
      BY Zenon, <2>5 DEF Replica
    <3>2. rec \in [RecordIds -> Replica]
      BY Zenon, <2>1 DEF CopyType
    <3>3. /\ rec' \in [RecordIds -> Replica] /\ rec'[r] = [node |-> op.node, status |-> "healthy"]
          /\ \A q \in RecordIds : q # r => rec'[q] = rec[q]
      BY Zenon, <3>1, <3>2, <2>7
    <3>4. [node |-> op.node, status |-> "healthy"].status = "healthy"
      BY Zenon
    <3> QED
      BY Zenon, <3>3, <3>4
  <2>9. /\ list' \in Seq(RecordIds) /\ Len(list') = Len(loaded) + 1 /\ list' # <<>>
        /\ \A i \in DOMAIN list' : (i \in DOMAIN loaded /\ list'[i] = loaded[i]) \/ list'[i] = r
    BY <2>3, <2>7
  <2>10. AllHealthy(list)'
    <3> SUFFICES ASSUME NEW i \in DOMAIN list' PROVE rec'[list'[i]].status = "healthy"
      BY Zenon DEF AllHealthy
    <3>1. ASSUME i \in DOMAIN loaded, list'[i] = loaded[i] PROVE rec'[list'[i]].status = "healthy"
      <4>1. loaded[i] \in RecordIds
        BY <2>3, <3>1
      <4>2. rec[loaded[i]].status = "healthy"
        BY Zenon, <2>2, <3>1 DEF AllHealthy, loaded
      <4> QED
        BY Zenon, <4>1, <4>2, <2>8, <3>1
    <3> QED
      BY Zenon, <3>1, <2>8, <2>9
  <2>11. /\ todo' \in [Actors -> Seq(Copying)] /\ held' \in [Actors -> Seq(Seq(RecordIds))]
         /\ held'[a] = NotLoaded
         /\ \A b \in Actors \ {a} : held'[b] = held[b] /\ todo'[b] = todo[b]
    <3>1. <<>> \in Seq(Seq(RecordIds))
      OBVIOUS
    <3>2. todo \in [Actors -> Seq(Copying)] /\ held \in [Actors -> Seq(Seq(RecordIds))]
      BY Zenon, <2>1 DEF CopyType
    <3> QED
      BY Zenon, <3>1, <3>2, <2>4, <1>1 DEF NotLoaded
  <2>12. CopyType'
    BY Zenon, <1>1, <2>1, <2>8, <2>9, <2>11 DEF CopyType
  <2>13. ASSUME NEW b \in Actors PROVE Loaded(b)'
    <3>1. SUFFICES ASSUME b # a, held[b] # NotLoaded
                   PROVE  todo[b] # <<>> /\ Head(todo[b]).kind = "append" /\ AllHealthy(held[b][1])'
      BY Zenon, <2>11 DEF Loaded, slice, AllHealthy
    <3>2. todo[b] # <<>> /\ Head(todo[b]).kind = "append" /\ AllHealthy(slice(b))
      BY Zenon, <2>1, <3>1 DEF Loaded
    <3>3. slice(b) \in Seq(RecordIds)
      BY <2>1, <3>1 DEF CopyType, NotLoaded, slice
    <3>4. ASSUME NEW i \in DOMAIN slice(b) PROVE rec'[slice(b)[i]].status = "healthy"
      <4>1. slice(b)[i] \in RecordIds
        BY <3>3
      <4> QED
        BY Zenon, <4>1, <3>2, <2>8 DEF AllHealthy
    <3>5. held[b]' = held[b]
      BY Zenon, <2>11, <3>1
    <3> QED
      BY Zenon, <3>2, <3>4, <3>5 DEF AllHealthy, slice
  <2>14. Recorded'
    <3>1. ASSUME ~overlapped PROVE acks' <= Len(list')
      <4>1. loaded = list /\ acks <= Len(list)
        BY Zenon, <2>1, <1>1, <3>1 DEF Recorded, loaded
      <4>2. Len(loaded) \in Nat
        BY <2>3
      <4> QED
        BY <4>1, <4>2, <2>9, <1>2 DEF CopyInv
    <3>2. ASSUME ~overlapped, NEW b \in Actors PROVE held'[b] = NotLoaded
      <4>1. b # a => held[b] = NotLoaded
        BY Zenon, <2>1, <1>1, <3>2 DEF Recorded
      <4> QED
        BY Zenon, <4>1, <2>11
    <3> QED
      BY Zenon, <1>1, <2>9, <3>1, <3>2 DEF Recorded
  <2> QED
    BY Zenon, <2>10, <2>12, <2>13, <2>14
<1> QED
  BY Zenon, <1>1, <1>2, <1>3, <1>4 DEF CopyInv

(* The loop of the anti-entropy check finds only missing replicas.         *)
LEMMA SendStep ==
  ASSUME queue \in Seq(Missing), NEW tasks \in Seq(Missing), Send(tasks)
  PROVE  queue' \in Seq(Missing)
<1> DEFINE k == Min({Len(queue) + Len(tasks), QueueCap})
<1>1. k \in Nat /\ k <= Len(queue) + Len(tasks)
  <2>1. Len(queue) + Len(tasks) \in Nat /\ QueueCap \in Nat
    BY ReplicaAssumption
  <2>2. k \in {Len(queue) + Len(tasks), QueueCap} /\ k <= Len(queue) + Len(tasks)
    <3> DEFINE S == {Len(queue) + Len(tasks), QueueCap}
    <3>1. \E x \in S : \A y \in S : x =< y
      BY <2>1
    <3> QED
      BY Zenon, <3>1 DEF Min
  <2> QED
    BY Zenon, <2>1, <2>2
<1> HIDE DEF k
<1>2. queue' = SubSeq(queue \o tasks, 1, k)
  BY Zenon DEF Send, k
<1>3. queue \o tasks \in Seq(Missing) /\ Len(queue \o tasks) = Len(queue) + Len(tasks)
  OBVIOUS
<1> QED
  BY <1>1, <1>2, <1>3

(* A step of the anti-entropy loop queues missing replicas only.           *)
LEMMA LoopStepStep ==
  ASSUME CopyInv, LoopStep \/ LoopExit PROVE CopyInv'
<1>1. CASE Tick \/ LoopExit
  BY Zenon, <1>1, IdleStep DEF Tick, LoopExit, CopyInv, CopyType
<1>2. CASE CheckReplicationHealth
  <2>1. faults = 0 => queue' \in Seq(Missing)
    <3>1. [type |-> "missing", node |-> NewNode] \in Missing
      BY Zenon DEF Missing
    <3>2. <<>> \in Seq(Missing) /\ <<[type |-> "missing", node |-> NewNode]>> \in Seq(Missing)
      BY <3>1
    <3> QED
      BY Zenon, <1>2, <3>2, SendStep DEF CheckReplicationHealth, CopyInv, CopyType
  <2> QED
    BY Zenon, <1>2, <2>1, IdleStep DEF CheckReplicationHealth, CopyInv
<1>3. CASE ScanReplicas
  <2>1. faults = 0 => queue' \in Seq(Missing)
    <3>1. SUFFICES ASSUME faults = 0 PROVE queue' = queue
      BY Zenon DEF CopyInv, CopyType
    <3>2. Healthy = DOMAIN list
      BY Zenon, <3>1 DEF CopyInv, AllHealthy, Healthy
    <3> QED
      BY Zenon, <1>3, <3>2 DEF ScanReplicas
  <2> QED
    BY Zenon, <1>3, <2>1, IdleStep DEF ScanReplicas, CopyInv
<1> QED
  BY Zenon, <1>1, <1>2, <1>3 DEF LoopStep

(* A worker that takes a task has a copy to do.                            *)
LEMMA TakeTaskStep ==
  ASSUME CopyInv, NEW w \in Workers, TakeTask(w) PROVE CopyInv'
<1>1. /\ UNCHANGED <<list, rec, held, put, acks, faults, overlapped>>
      /\ todo[w] = <<>> /\ queue # <<>> /\ w \in Actors
      /\ todo' = [todo EXCEPT ![w] = RepairOps(Head(queue))] /\ queue' = Tail(queue)
  BY Zenon DEF TakeTask, Actors
<1>2. ASSUME faults = 0
      PROVE  /\ todo' \in [Actors -> Seq(Copying)] /\ queue' \in Seq(Missing) /\ held[w] = NotLoaded
             /\ \A b \in Actors \ {w} : todo'[b] = todo[b]
  <2>1. /\ todo \in [Actors -> Seq(Copying)] /\ queue \in Seq(Missing) /\ Loaded(w)
    BY Zenon, <1>1, <1>2 DEF CopyInv, CopyType
  <2>2. Head(queue) \in Missing /\ Tail(queue) \in Seq(Missing)
    BY <2>1, <1>1
  <2>3. RepairOps(Head(queue)) = <<Source, AppendTo(NewNode)>>
    BY Zenon, <2>2 DEF RepairOps, Missing
  <2>4. RepairOps(Head(queue)) \in Seq(Copying)
    <3>1. Source \in Copying /\ AppendTo(NewNode) \in Copying
      BY Zenon, OpsCopy DEF Targets
    <3>2. \A x, y \in Copying : <<x, y>> \in Seq(Copying)
      OBVIOUS
    <3> QED
      BY Zenon, <2>3, <3>1, <3>2
  <2>5. held[w] = NotLoaded
    BY Zenon, <2>1, <1>1 DEF Loaded
  <2> QED
    BY Zenon, <1>1, <2>1, <2>2, <2>4, <2>5
<1>3. ASSUME faults = 0, NEW b \in Actors PROVE Loaded(b)'
  BY Zenon, <1>1, <1>2, <1>3 DEF CopyInv, Loaded, AllHealthy, slice
<1> QED
  BY Zenon, <1>1, <1>2, <1>3 DEF CopyInv, CopyType, AllHealthy, Recorded, slice

(* Every step keeps the invariant.                                         *)
LEMMA CopyStep == CopyInv /\ [ReplicaNext]_replicaVars => CopyInv'
<1> SUFFICES ASSUME CopyInv, [ReplicaNext]_replicaVars PROVE CopyInv'
  BY Zenon
<1>1. CASE ReplicateChunk
  BY Zenon, <1>1, ReplicateChunkStep
<1>2. CASE Acknowledge
  BY Zenon, <1>2, IdleStep DEF Acknowledge, repairVars, CopyInv, CopyType
<1>3. CASE ReadRepair
  BY Zenon, <1>3, ReadRepairStep
<1>4. ASSUME NEW n \in ReplicaNodes, NEW op, Report(n, op) PROVE CopyInv'
  BY Zenon, <1>4, ReportStep
<1>5. ASSUME NEW a \in Actors, OperationStep(a) PROVE CopyInv'
  BY Zenon, <1>5, SelectPrimaryReplicaStep, LoadReplicasStep, StoreReplicasStep DEF OperationStep
<1>6. CASE LoopStep \/ LoopExit
  BY Zenon, <1>6, LoopStepStep
<1>7. CASE StopEngine
  BY Zenon, <1>7, IdleStep DEF StopEngine, CopyInv, CopyType
<1>8. ASSUME NEW w \in Workers, TakeTask(w) PROVE CopyInv'
  BY Zenon, <1>8, TakeTaskStep
<1>9. ASSUME NEW w \in Workers, WorkerExit(w) PROVE CopyInv'
  BY Zenon, <1>9, IdleStep DEF WorkerExit, CopyInv, CopyType
<1>10. CASE UNCHANGED replicaVars
  BY Zenon, <1>10, IdleStep DEF replicaVars, CopyInv, CopyType
<1> QED
  BY Zenon, <1>1, <1>2, <1>3, <1>4, <1>5, <1>6, <1>7, <1>8, <1>9, <1>10 DEF ReplicaNext

INSTANCE FiniteSetTheorems

(* A healthy list has as many healthy records as it is long.               *)
LEMMA HealthyCounted ==
  ASSUME list \in Seq(RecordIds), AllHealthy(list)
  PROVE  Cardinality(Healthy) = Len(list) /\ Len(list) \in Nat
<1>1. Healthy = 1..Len(list) /\ Len(list) \in Nat
  BY DEF Healthy, AllHealthy
<1>2. \A n \in Nat : Cardinality(1..n) = n
  <2> TAKE n \in Nat
  <2>1. Cardinality(1..n) = IF 1 > n THEN 0 ELSE n - 1 + 1
    BY FS_Interval
  <2> QED
    BY <2>1
<1> QED
  BY Zenon, <1>1, <1>2

(* A ReplicateChunk that returned has recorded a quorum of healthy         *)
(* replicas, or one when operations on the list have overlapped.           *)
THEOREM AcksAreRecorded == ReplicaSpec => []AckedIsRecorded
<1>1. CopyInv => AckedIsRecorded
  <2> SUFFICES ASSUME CopyInv, put = "acked", faults = 0
               PROVE  Cardinality(Healthy) >= IF overlapped THEN 1 ELSE Quorum
    BY Zenon DEF AckedIsRecorded
  <2>1. Cardinality(Healthy) = Len(list) /\ Len(list) \in Nat
    BY Zenon, HealthyCounted DEF CopyInv, CopyType
  <2>2. Quorum \in Nat \ {0}
    BY ReplicaAssumption DEF Quorum
  <2>3. list # <<>> /\ (~overlapped => acks <= Len(list)) /\ acks >= Quorum /\ acks \in Nat
    BY <2>2 DEF CopyInv, Recorded
  <2>4. Len(list) >= 1
    BY <2>3 DEF CopyInv, CopyType
  <2> HIDE DEF Quorum
  <2> QED
    BY <2>1, <2>2, <2>3, <2>4
<1> QED
  BY <1>1, CopyInit, CopyStep, PTL DEF ReplicaSpec
=============================================================================
