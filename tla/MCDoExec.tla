------------------------------- MODULE MCDoExec --------------------------------
(* Model-checking instance of DoExec. *)
EXTENDS DoExec
================================================================================
