--------------------------------- MODULE Spawn ---------------------------------
(***************************************************************************)
(* os_services::proc_mgmt::spawn, called by several threads of one host    *)
(* process, and the life of the pidfd it returns.  Every call forks a      *)
(* child that waits on an eventfd until its pidfd exists, then executes    *)
(* the program or sends errno through a pipe that the parent reads to the  *)
(* end.  Threads share the descriptor table of the host, so a fork also    *)
(* inherits what other calls have open at that moment.                     *)
(***************************************************************************)
EXTENDS FiniteSets

CONSTANTS Threads,   \* one call of spawn() by each; t also names its child
          Faults     \* what may go wrong: a subset of FaultKinds

FaultKinds == {"eventfd", "fork", "pidfd_open", "exec", "killed"}

ASSUME FaultsAssumption == Faults \subseteq FaultKinds

VARIABLES
    pc,          \* where each call is
    outcome,     \* how it ended
    hostFds,     \* what it has open in the host: subsets of HostFds
    writers,     \* the children that hold the write end of its exec_err_pipe
    errno,       \* its pipe holds the errno of the child
    signalled,   \* its eventfd has been written to
    child,       \* the state of its child
    ran          \* the threads whose program was executed

callVars == <<pc, outcome, hostFds>>
kernelVars == <<writers, errno, signalled, child, ran>>
vars == <<callVars, kernelVars>>

HostFds == {"read_end", "write_end", "parent_ready_fd", "pidfd"}
Steps == {"start", "piped", "prepared", "forked", "write_end_closed", "has_pidfd",
          "reading", "failing", "returned"}
Outcomes == {"none", "ok", "launch_error", "error", "released"}
ChildStates == {"none", "waiting", "ready", "running", "failed", "zombie", "reaped"}

\* Types; of the children only those between fork and exec hold write ends.
TypeOK == /\ pc \in [Threads -> Steps]
          /\ outcome \in [Threads -> Outcomes]
          /\ hostFds \in [Threads -> SUBSET HostFds]
          /\ writers \in [Threads -> SUBSET Threads]
          /\ errno \in [Threads -> BOOLEAN]
          /\ signalled \in [Threads -> BOOLEAN]
          /\ child \in [Threads -> ChildStates]
          /\ ran \subseteq Threads
          /\ \A t \in Threads : \A c \in writers[t] : child[c] \in {"waiting", "ready", "failed"}

Init == /\ pc = [t \in Threads |-> "start"]
        /\ outcome = [t \in Threads |-> "none"]
        /\ hostFds = [t \in Threads |-> {}]
        /\ writers = [t \in Threads |-> {}]
        /\ errno = [t \in Threads |-> FALSE]
        /\ signalled = [t \in Threads |-> FALSE]
        /\ child = [t \in Threads |-> "none"]
        /\ ran = {}

Return(t, result) == /\ pc' = [pc EXCEPT ![t] = "returned"]
                     /\ outcome' = [outcome EXCEPT ![t] = result]

Goto(t, step) == /\ pc' = [pc EXCEPT ![t] = step]
                 /\ UNCHANGED outcome

Opens(t, fds) == hostFds' = [hostFds EXCEPT ![t] = @ \cup fds]
ClosesFds(t, fds) == hostFds' = [hostFds EXCEPT ![t] = @ \ fds]

--------------------------------------------------------------------------------
(* The parent.                                                               *)

\* The pipe; close_read_end_on_exec() sets FD_CLOEXEC and gives up ownership:
\* from here on nothing closes the read end but an explicit close. If pipe() or
\* fcntl() fails, the call throws and leaves nothing behind, as if it never began.
MakePipe(t) == /\ pc[t] = "start"
               /\ Goto(t, "piped")
               /\ Opens(t, {"read_end", "write_end"})
               /\ UNCHANGED kernelVars

MakeEventfd(t) == /\ pc[t] = "piped"
                  /\ Goto(t, "prepared")
                  /\ Opens(t, {"parent_ready_fd"})
                  /\ UNCHANGED kernelVars

\* make_eventfd() or fork() fails: unwinding closes what is still owned.
SetupFails(t) == /\ \/ pc[t] = "piped" /\ "eventfd" \in Faults
                    \/ pc[t] = "prepared" /\ "fork" \in Faults
                 /\ Return(t, "error")
                 /\ ClosesFds(t, {"write_end", "parent_ready_fd"})
                 /\ UNCHANGED kernelVars

\* The child inherits every descriptor of the host, those of other calls too.
Fork(t) == /\ pc[t] = "prepared"
           /\ Goto(t, "forked")
           /\ child' = [child EXCEPT ![t] = "waiting"]
           /\ writers' = [u \in Threads |->
                            IF "write_end" \in hostFds[u] THEN writers[u] \cup {t} ELSE writers[u]]
           /\ UNCHANGED <<hostFds, errno, signalled, ran>>

CloseWriteEnd(t) == /\ pc[t] = "forked"
                    /\ Goto(t, "write_end_closed")
                    /\ ClosesFds(t, {"write_end"})
                    /\ UNCHANGED kernelVars

PidfdOpen(t) == /\ pc[t] = "write_end_closed"
                /\ Goto(t, "has_pidfd")
                /\ Opens(t, {"pidfd"})
                /\ UNCHANGED kernelVars

\* pidfd_open() fails.  The call kill(fork_res, SIGKILL) finds the kill() of
\* namespace proc_mgmt, which takes a pidfd: the process id is used as the
\* number of a descriptor that does not exist, kill() throws, and neither the
\* signal nor waitpid() happens.
PidfdOpenFails(t) == /\ pc[t] = "write_end_closed" /\ "pidfd_open" \in Faults
                     /\ Return(t, "error")
                     /\ ClosesFds(t, {"parent_ready_fd"})
                     /\ UNCHANGED kernelVars

Signal(t) == /\ pc[t] = "has_pidfd"
             /\ Goto(t, "reading")
             /\ signalled' = [signalled EXCEPT ![t] = TRUE]
             /\ UNCHANGED <<hostFds, writers, errno, child, ran>>

\* read() of the pipe returns the errno of the child ...
ReadErrno(t) == /\ pc[t] = "reading" /\ errno[t]
                /\ Goto(t, "failing")
                /\ ClosesFds(t, {"read_end"})
                /\ UNCHANGED kernelVars

\* Mutated form of ReadEof: the raw handle of the read end is forgotten.
ReadEof_KeepsReadEnd(t) == /\ pc[t] = "reading" /\ ~errno[t]
                           /\ "write_end" \notin hostFds[t] /\ writers[t] = {}
                           /\ Return(t, "ok")
                           /\ ClosesFds(t, {"parent_ready_fd"})
                           /\ UNCHANGED kernelVars

\* ... or 0 bytes, once nobody holds the write end any more.
ReadEof(t) == /\ pc[t] = "reading" /\ ~errno[t]
              /\ "write_end" \notin hostFds[t] /\ writers[t] = {}
              /\ Return(t, "ok")
              /\ ClosesFds(t, {"read_end", "parent_ready_fd"})
              /\ UNCHANGED kernelVars

\* The failed child is reaped by wait().  When the exception destroys the
\* pidfd there is no process left to send a signal to, so it is not closed.
WaitAndThrow(t) == /\ pc[t] = "failing"
                   /\ child[t] = "zombie"
                   /\ child' = [child EXCEPT ![t] = "reaped"]
                   /\ Return(t, "launch_error")
                   /\ ClosesFds(t, {"parent_ready_fd"})
                   /\ UNCHANGED <<writers, errno, signalled, ran>>

Parent(t) == \/ MakePipe(t) \/ MakeEventfd(t) \/ SetupFails(t) \/ Fork(t)
             \/ CloseWriteEnd(t) \/ PidfdOpen(t) \/ PidfdOpenFails(t) \/ Signal(t)
             \/ ReadErrno(t) \/ ReadEof(t) \/ WaitAndThrow(t)

--------------------------------------------------------------------------------
(* The child.                                                                *)

\* A process that ends gives up every write end that it inherited.
DropWriters(t) == writers' = [u \in Threads |-> writers[u] \ {t}]

\* Mutated form of ChildReleased: the child does not wait for its parent.
ChildReleased_AtOnce(t) == /\ child[t] = "waiting"
                           /\ child' = [child EXCEPT ![t] = "ready"]
                           /\ UNCHANGED <<writers, errno, signalled, ran, callVars>>

\* The read of the eventfd returns.
ChildReleased(t) == /\ child[t] = "waiting" /\ signalled[t]
                    /\ child' = [child EXCEPT ![t] = "ready"]
                    /\ signalled' = [signalled EXCEPT ![t] = FALSE]
                    /\ UNCHANGED <<writers, errno, ran, callVars>>

\* Mutated form of Exec: close_range() has marked nothing close-on-exec.
Exec_KeepsFds(t) == /\ child[t] = "ready"
                    /\ child' = [child EXCEPT ![t] = "running"]
                    /\ ran' = ran \cup {t}
                    /\ UNCHANGED <<writers, errno, signalled, callVars>>

\* do_exec(): redirections, close_range(CLOSE_RANGE_CLOEXEC), execve.
Exec(t) == /\ child[t] = "ready"
           /\ child' = [child EXCEPT ![t] = "running"]
           /\ ran' = ran \cup {t}
           /\ DropWriters(t)
           /\ UNCHANGED <<errno, signalled, callVars>>

\* dup2() or execve() fails: errno is sent, the write end closed.
ExecFails(t) == /\ child[t] = "ready" /\ "exec" \in Faults
                /\ child' = [child EXCEPT ![t] = "failed"]
                /\ errno' = [errno EXCEPT ![t] = TRUE]
                /\ writers' = [writers EXCEPT ![t] = @ \ {t}]
                /\ UNCHANGED <<signalled, ran, callVars>>

\* _exit(127).
ChildExits(t) == /\ child[t] = "failed"
                 /\ child' = [child EXCEPT ![t] = "zombie"]
                 /\ DropWriters(t)
                 /\ UNCHANGED <<errno, signalled, ran, callVars>>

\* The program ends in its own time, or somebody kills the process.
ProcessEnds(t) == /\ \/ child[t] = "running"
                     \/ child[t] \in {"waiting", "ready", "failed"} /\ "killed" \in Faults
                  /\ child' = [child EXCEPT ![t] = "zombie"]
                  /\ DropWriters(t)
                  /\ UNCHANGED <<errno, signalled, ran, callVars>>

Child(t) == ChildReleased(t) \/ Exec(t) \/ ExecFails(t) \/ ChildExits(t)

--------------------------------------------------------------------------------
(* The owner of the pidfd that a successful call returned.                   *)

OwnerWaits(t) == /\ outcome[t] = "ok" /\ child[t] = "zombie"
                 /\ child' = [child EXCEPT ![t] = "reaped"]
                 /\ UNCHANGED <<writers, errno, signalled, ran, callVars>>

\* Mutated form of OwnerReleases: the process is killed but not waited for.
OwnerReleases_NoWait(t) ==
    /\ outcome[t] = "ok"
    /\ outcome' = [outcome EXCEPT ![t] = "released"]
    /\ child' = [child EXCEPT ![t] = IF child[t] = "reaped" THEN @ ELSE "zombie"]
    /\ ClosesFds(t, {"pidfd"})
    /\ DropWriters(t)
    /\ UNCHANGED <<pc, errno, signalled, ran>>

\* The deleter of the pidfd: kill, reap and close, or nothing at all when the
\* process was reaped before.
OwnerReleases(t) ==
    /\ outcome[t] = "ok"
    /\ outcome' = [outcome EXCEPT ![t] = "released"]
    /\ IF child[t] = "reaped"
       THEN UNCHANGED <<hostFds, child, writers>>
       ELSE /\ child' = [child EXCEPT ![t] = "reaped"]
            /\ ClosesFds(t, {"pidfd"})
            /\ DropWriters(t)
    /\ UNCHANGED <<pc, errno, signalled, ran>>

Owner(t) == OwnerWaits(t) \/ OwnerReleases(t)

Next == \E t \in Threads : Parent(t) \/ Child(t) \/ ProcessEnds(t) \/ Owner(t)

Spec == Init /\ [][Next]_vars

\* Threads and children are scheduled.  Nothing makes a program end, and
\* nobody has to wait for it or to release it.
Fairness == \A t \in Threads : WF_vars(Parent(t)) /\ WF_vars(Child(t))

FairSpec == Spec /\ Fairness

--------------------------------------------------------------------------------
\* A child gets no further than the eventfd before its pidfd exists: the parent
\* never holds a process id that it has no handle for while the program runs.
HandshakeOrder ==
    \A t \in Threads : child[t] \in {"ready", "running", "failed"} => "pidfd" \in hostFds[t]

\* A call that throws leaves no process behind, not even a zombie, and the
\* program was never executed.
ErrorLeavesNoChild ==
    \A t \in Threads : outcome[t] \in {"launch_error", "error"} =>
        child[t] \in {"none", "reaped"} /\ t \notin ran

\* After a successful call nothing of the handshake is open in the host or in
\* a child; the pidfd is, until its owner releases it.
HandshakeIsClosed ==
    \A t \in Threads : outcome[t] = "ok" => hostFds[t] = {"pidfd"} /\ writers[t] = {}

\* A child that a call left behind when it failed.
LeftBehind == {t \in Threads : outcome[t] = "error" /\ child[t] \notin {"none", "reaped"}}

\* Every call comes back, also when other calls fork at the worst moment and
\* their children hold this call's pipe; no program has to end for that. Only a
\* child that another call left behind for ever may hold it for ever.
SpawnReturns == \A t \in Threads : pc[t] = "start" ~> (pc[t] = "returned" \/ LeftBehind # {})

\* To its caller a call is one step of the contract: success means that the program
\* was executed, unless somebody killed the child before; a program starts at most
\* once and only while its call is on; after a launch error, and after the end of
\* the handle, there is no process, not even a zombie.
Seen == [none |-> "none", waiting |-> "held", ready |-> "held", failed |-> "held",
         running |-> "running", zombie |-> "dead", reaped |-> "gone"]
Contract == INSTANCE SpawnContract
                WITH Callers <- Threads, MayBeKilled <- "killed" \in Faults,
                     MayBeLost <- "pidfd_open" \in Faults, launched <- ran,
                     process <- [t \in Threads |-> Seen[child[t]]]
ContractSpec == Contract!Spec
================================================================================
