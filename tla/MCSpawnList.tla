---------------------------- MODULE MCSpawnList ----------------------------
(* Instance of SpawnList for TLC: the actors are interchangeable. *)
EXTENDS SpawnList, TLC

ActorSymmetry == Permutations(Actors)
=============================================================================
