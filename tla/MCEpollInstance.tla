---------------------------- MODULE MCEpollInstance ----------------------------
(* Model-checking instance of EpollInstance. *)
EXTENDS EpollInstance
================================================================================
