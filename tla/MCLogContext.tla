------------------------------ MODULE MCLogContext -----------------------------
(* Model-checking instance of LogContext. *)
EXTENDS LogContext
================================================================================
