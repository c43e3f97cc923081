------------------------------ MODULE MCLogStream ------------------------------
(* Model-checking instance of LogStream. *)
EXTENDS LogStream
================================================================================
