--------------------------------- MODULE MCSpawn -------------------------------
(* Model-checking instance of Spawn. *)
EXTENDS Spawn
================================================================================
