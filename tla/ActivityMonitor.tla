---------------------------- MODULE ActivityMonitor ----------------------------
(***************************************************************************)
(* What the users of an activity monitor rely on                           *)
(* (os_services/fd/activity_monitor.hpp and the comments of                *)
(* os_services/io_multiplexer/epoll_instance.hpp), without any of the      *)
(* machinery that provides it: listeners are admitted under ids that were  *)
(* never used before, handlers run one at a time, those that are due are   *)
(* current listeners and only a current listener is served.  The price is  *)
(* a rule for callers: a listener that is due, or being served, must not   *)
(* be removed.  Who does so may find the monitor broken.                   *)
(***************************************************************************)
CONSTANTS Ids,   \* event_handler_id values
          None   \* "no handler is running"

VARIABLES used,     \* the ids handed out so far
          active,   \* the ids of the current listeners
          due,      \* those whose handlers are to be called in this round
          serving,  \* the id of the running handler, or None
          broken    \* the monitor has used a listener that was removed

vars == <<used, active, due, serving, broken>>

Init == /\ used = {} /\ active = {} /\ due = {}
        /\ serving = None /\ broken = FALSE

\* add() returns a fresh id; a failed add() spends the id without a listener.
Admit(i) == /\ i \notin used
            /\ used' = used \cup {i}
            /\ active' \in {active, active \cup {i}}
            /\ UNCHANGED <<due, serving, broken>>

\* remove(), of any listener, by a handler or between rounds.
Remove(i) == /\ serving # None \/ due = {}
             /\ active' = active \ {i}
             /\ UNCHANGED <<used, due, serving, broken>>

\* The rollback of a transaction: never a listener that is due or being served.
Retire(S) == /\ S \cap (due \cup {serving}) = {}
             /\ active' = active \ S
             /\ UNCHANGED <<used, due, serving, broken>>

\* A round begins.
Report(S) == /\ serving = None /\ due = {}
             /\ S \subseteq active
             /\ due' = S
             /\ UNCHANGED <<used, active, serving, broken>>

\* The handler of a current listener is called; handlers do not nest.
Serve(i) == /\ serving = None
            /\ i \in due \cap active
            /\ serving' = i /\ due' = due \ {i}
            /\ UNCHANGED <<used, active, broken>>

\* The handler returns, having asked for stop_listening() or not, or throws,
\* which ends the round.
Finish == /\ serving # None
          /\ active' \in {active, active \ {serving}}
          /\ due' \in {due, {}}
          /\ serving' = None
          /\ UNCHANGED <<used, broken>>

\* A listener that was due, or was being served, has been removed.
Break == /\ ~(due \cup ({serving} \ {None}) \subseteq active)
         /\ broken' = TRUE
         /\ UNCHANGED <<used, active, due, serving>>

Next == /\ ~broken
        /\ \/ \E i \in Ids : Admit(i) \/ Remove(i) \/ Serve(i)
           \/ \E S \in SUBSET Ids : Retire(S) \/ Report(S)
           \/ Finish
           \/ Break

Spec == Init /\ [][Next]_vars
================================================================================
