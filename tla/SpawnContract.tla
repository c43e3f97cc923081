----------------------------- MODULE SpawnContract -----------------------------
(***************************************************************************)
(* What callers of os_services::proc_mgmt::spawn rely on, without the      *)
(* handshake that provides it: a call succeeds only once its program runs, *)
(* a call that throws leaves no process, and the process does not outlive  *)
(* its handle.                                                             *)
(***************************************************************************)
CONSTANTS Callers,      \* one call by each
          MayBeKilled,  \* processes may be killed before their program runs
          MayBeLost     \* a call may throw and forget its process

VARIABLES outcome,    \* "none" as long as the call is on
          process,    \* "none", "held" back before its program, "running", "dead", "gone"
          launched    \* the callers whose program was executed

vars == <<outcome, process, launched>>

Init == /\ outcome = [c \in Callers |-> "none"]
        /\ process = [c \in Callers |-> "none"]
        /\ launched = {}

Becomes(c, state) == process' = [process EXCEPT ![c] = state]
Ends(c, result) == /\ outcome[c] = "none"
                   /\ outcome' = [outcome EXCEPT ![c] = result]

Create(c) == /\ outcome[c] = "none" /\ process[c] = "none"
             /\ Becomes(c, "held")
             /\ UNCHANGED <<outcome, launched>>

\* The program starts while the call is on, at most once.
Launch(c) == /\ outcome[c] = "none" /\ process[c] = "held"
             /\ Becomes(c, "running")
             /\ launched' = launched \cup {c}
             /\ UNCHANGED outcome

Die(c) == /\ process[c] \in {"held", "running"}
          /\ Becomes(c, "dead")
          /\ UNCHANGED <<outcome, launched>>

Succeed(c) == /\ Ends(c, "ok")
              /\ c \in launched \/ (MayBeKilled /\ process[c] = "dead")
              /\ UNCHANGED <<process, launched>>

\* The program could not be executed; the process was waited for.
FailToLaunch(c) == /\ Ends(c, "launch_error")
                   /\ process[c] = "dead" /\ c \notin launched
                   /\ Becomes(c, "gone")
                   /\ UNCHANGED launched

\* Nothing was started yet, or the process is left to itself.
Fail(c) == /\ Ends(c, "error")
           /\ process[c] = "none" \/ (MayBeLost /\ c \notin launched)
           /\ UNCHANGED <<process, launched>>

\* proc_mgmt::wait.
Wait(c) == /\ outcome[c] = "ok" /\ process[c] = "dead"
           /\ Becomes(c, "gone")
           /\ UNCHANGED <<outcome, launched>>

\* The end of the handle.
Release(c) == /\ outcome[c] = "ok"
              /\ outcome' = [outcome EXCEPT ![c] = "released"]
              /\ Becomes(c, "gone")
              /\ UNCHANGED launched

Next == \E c \in Callers : \/ Create(c) \/ Launch(c) \/ Die(c) \/ Succeed(c)
                           \/ FailToLaunch(c) \/ Fail(c) \/ Wait(c) \/ Release(c)

Spec == Init /\ [][Next]_vars
================================================================================
