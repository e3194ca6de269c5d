--------------------------- MODULE ReplicatedMap ---------------------------
(***************************************************************************)
(* What the replicated store promises: one sequence of maps, each made of  *)
(* the one before by an atomic command, and servers that at any time show  *)
(* one of these maps, entire.                                              *)
(***************************************************************************)
EXTENDS Naturals, Sequences

CONSTANTS MapServers, MapKeys, MapValues, Absent

Maps == [MapKeys -> MapValues \cup {Absent}]
EmptyMap == [k \in MapKeys |-> Absent]

VARIABLES
  history,  \* the maps, in the order in which they were agreed
  shown     \* [MapServers -> Maps]: what each server answers reads from

mapVars == <<history, shown>>

MapInit ==
  /\ history = <<EmptyMap>>
  /\ shown = [s \in MapServers |-> EmptyMap]

(* One command is agreed: it changes any number of keys at once.           *)
Agree ==
  /\ \E m \in Maps : history' = Append(history, m)
  /\ UNCHANGED shown

(* A server moves to another of the agreed maps: forward as it applies     *)
(* commands, backward when it restarts from a snapshot.                    *)
Show(s) ==
  /\ \E i \in DOMAIN history : shown' = [shown EXCEPT ![s] = history[i]]
  /\ UNCHANGED history

MapNext == Agree \/ \E s \in MapServers : Show(s)

MapSpec == MapInit /\ [][MapNext]_mapVars
=============================================================================
