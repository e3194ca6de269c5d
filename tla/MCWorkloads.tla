---------------------------- MODULE MCWorkloads ----------------------------
(* WorkloadState with two calls at a time on two records; or with one call *)
(* at a time on three records, with replicas and a restart.  A behaviour   *)
(* starts with a choice of one of the two, and ends when neither property  *)
(* says anything of what follows.                                          *)
EXTENDS WorkloadState, TLC

VARIABLE focus  \* what the behaviour explores

Calls ==
  /\ focus = "calls" /\ Next
  /\ allocated' <= 2
  /\ snapshot' = snapshot /\ restarts' = restarts /\ fragments' = 0

Restarts ==
  /\ focus = "restart" /\ Next
  /\ Cardinality({t \in Threads : thread'[t].op # "idle"}) <= 1
  /\ Cardinality(used') <= 1

MCInit == focus \in {"calls", "restart"} /\ Init
MCNext == ~stale /\ ~(failed /\ forked) /\ (Calls \/ Restarts) /\ focus' = focus
MCSpec == MCInit /\ [][MCNext]_<<focus, vars>>

Symmetry == Permutations(Threads) \cup Permutations(Edits)
=============================================================================
