------------------------------ MODULE SpawnProofs ------------------------------
(***************************************************************************)
(* Proofs about Spawn for every set of threads.  ErrorLeavesNoChild needs  *)
(* pidfd_open to succeed; the run SpawnPidfdFails shows why.               *)
(***************************************************************************)
EXTENDS Spawn, TLAPS

\* Where a call is determines what it has open and what its child may do.
Progress(t) ==
    /\ pc[t] = "start" => hostFds[t] = {}
    /\ pc[t] = "piped" => hostFds[t] = {"read_end", "write_end"}
    /\ pc[t] \in {"prepared", "forked"} =>
          hostFds[t] = {"read_end", "write_end", "parent_ready_fd"}
    /\ pc[t] = "write_end_closed" => hostFds[t] = {"read_end", "parent_ready_fd"}
    /\ pc[t] \in {"has_pidfd", "reading"} =>
          hostFds[t] = {"read_end", "parent_ready_fd", "pidfd"}
    /\ pc[t] = "failing" => hostFds[t] = {"parent_ready_fd", "pidfd"}
    /\ pc[t] \in {"start", "piped", "prepared"} => child[t] = "none"
    /\ pc[t] \in {"forked", "write_end_closed", "has_pidfd"} => child[t] \in {"waiting", "zombie"}
    /\ pc[t] = "reading" => child[t] \in {"waiting", "ready", "running", "failed", "zombie"}
    /\ pc[t] = "failing" => child[t] \in {"failed", "zombie"} /\ errno[t]
    /\ pc[t] = "returned" <=> outcome[t] # "none"

\* What is known of the child after the call.
Ended(t) ==
    /\ outcome[t] = "ok" => /\ child[t] \in {"running", "zombie", "reaped"}
                            /\ hostFds[t] = {"pidfd"} /\ writers[t] = {}
    /\ outcome[t] \in {"launch_error", "released"} => child[t] = "reaped"
    /\ outcome[t] = "error" => child[t] \in {"none", "waiting", "zombie"}
    /\ outcome[t] = "error" /\ "pidfd_open" \notin Faults => child[t] = "none"
    /\ outcome[t] \in {"error", "launch_error"} => t \notin ran

\* The two channels: the eventfd is written once the pidfd exists, and the
\* pipe is held by the child until it runs, fails or ends.
Channels(t) ==
    /\ signalled[t] => pc[t] \notin {"start", "piped", "prepared", "forked",
                                     "write_end_closed", "has_pidfd"}
    /\ outcome[t] = "error" => ~signalled[t]
    /\ errno[t] => child[t] \in {"failed", "zombie", "reaped"} /\ t \notin ran
    /\ child[t] = "failed" => errno[t]
    /\ t \in ran => /\ child[t] \in {"running", "zombie", "reaped"}
                    /\ pc[t] \in {"reading", "returned"}
    /\ child[t] = "running" => t \in ran
    /\ child[t] \in {"waiting", "ready"} => t \in writers[t]
    /\ child[t] \in {"zombie", "reaped"} => t \in ran \/ errno[t] \/ "killed" \in Faults
    /\ pc[t] \notin {"start", "piped", "prepared", "forked"} => "write_end" \notin hostFds[t]
    /\ outcome[t] = "ok" => ~errno[t]

Local(t) == Progress(t) /\ Ended(t) /\ Channels(t)

IInv == TypeOK /\ \A t \in Threads : Local(t)

\* What a step of one call or its child leaves alone of every other one.
Frame(t) ==
    \A u \in Threads \ {t} :
        /\ pc'[u] = pc[u] /\ outcome'[u] = outcome[u] /\ hostFds'[u] = hostFds[u]
        /\ errno'[u] = errno[u] /\ signalled'[u] = signalled[u] /\ child'[u] = child[u]
        /\ u \in ran' <=> u \in ran
        /\ u \in writers[u] => u \in writers'[u]
        /\ outcome[u] = "ok" => writers'[u] \subseteq writers[u]

LEMMA FrameKeepsLocal ==
    ASSUME NEW t \in Threads, NEW u \in Threads \ {t}, Local(u), Frame(t)
    PROVE  Local(u)'
<1>1. /\ pc'[u] = pc[u] /\ outcome'[u] = outcome[u] /\ hostFds'[u] = hostFds[u]
      /\ errno'[u] = errno[u] /\ signalled'[u] = signalled[u] /\ child'[u] = child[u]
      /\ u \in ran' <=> u \in ran
      /\ u \in writers[u] => u \in writers'[u]
      /\ outcome[u] = "ok" => writers'[u] \subseteq writers[u]
  BY DEF Frame
<1>2. Progress(u)'
  BY <1>1 DEF Local, Progress
<1>3. Ended(u)'
  BY <1>1 DEF Local, Ended
<1>4. Channels(u)'
  BY <1>1 DEF Local, Channels
<1> QED
  BY <1>2, <1>3, <1>4 DEF Local

LEMMA InitIInv == Init => IInv
<1> SUFFICES ASSUME Init PROVE IInv
  OBVIOUS
<1>1. TypeOK
  BY DEF Init, TypeOK, Steps, Outcomes, HostFds, ChildStates
<1>2. \A t \in Threads : Local(t)
  BY DEF Init, Local, Progress, Ended, Channels
<1> QED
  BY <1>1, <1>2 DEF IInv

\* One lemma per action: types, the call that takes the step, and the frame.
LEMMA MakePipeStep ==
    ASSUME IInv, NEW t \in Threads, MakePipe(t)
    PROVE  TypeOK' /\ Local(t)' /\ Frame(t)
<1>1. TypeOK /\ Local(t) /\ \A u \in Threads : Local(u)
  BY DEF IInv
<1> USE DEF MakePipe, Goto, Return, Opens, ClosesFds, DropWriters, callVars, kernelVars
<1>2. TypeOK'
  BY <1>1 DEF TypeOK, Local, Progress, Ended, Channels, Steps, Outcomes, HostFds, ChildStates
<1>3. Progress(t)'
  BY <1>1 DEF TypeOK, Local, Progress, Ended, Channels
<1>4. Ended(t)'
  BY <1>1, FaultsAssumption DEF TypeOK, Local, Progress, Ended, Channels
<1>5. Channels(t)'
  BY <1>1 DEF TypeOK, Local, Progress, Ended, Channels
<1>6. Frame(t)
  BY <1>1 DEF TypeOK, Frame, Local, Ended
<1> QED
  BY <1>2, <1>3, <1>4, <1>5, <1>6 DEF Local

LEMMA MakeEventfdStep ==
    ASSUME IInv, NEW t \in Threads, MakeEventfd(t)
    PROVE  TypeOK' /\ Local(t)' /\ Frame(t)
<1>1. TypeOK /\ Local(t) /\ \A u \in Threads : Local(u)
  BY DEF IInv
<1> USE DEF MakeEventfd, Goto, Return, Opens, ClosesFds, DropWriters, callVars, kernelVars
<1>2. TypeOK'
  BY <1>1 DEF TypeOK, Local, Progress, Ended, Channels, Steps, Outcomes, HostFds, ChildStates
<1>3. Progress(t)'
  BY <1>1 DEF TypeOK, Local, Progress, Ended, Channels
<1>4. Ended(t)'
  BY <1>1, FaultsAssumption DEF TypeOK, Local, Progress, Ended, Channels
<1>5. Channels(t)'
  BY <1>1 DEF TypeOK, Local, Progress, Ended, Channels
<1>6. Frame(t)
  BY <1>1 DEF TypeOK, Frame, Local, Ended
<1> QED
  BY <1>2, <1>3, <1>4, <1>5, <1>6 DEF Local

LEMMA SetupFailsStep ==
    ASSUME IInv, NEW t \in Threads, SetupFails(t)
    PROVE  TypeOK' /\ Local(t)' /\ Frame(t)
<1>1. TypeOK /\ Local(t) /\ \A u \in Threads : Local(u)
  BY DEF IInv
<1> USE DEF SetupFails, Goto, Return, Opens, ClosesFds, DropWriters, callVars, kernelVars
<1>2. TypeOK'
  BY <1>1 DEF TypeOK, Local, Progress, Ended, Channels, Steps, Outcomes, HostFds, ChildStates
<1>3. Progress(t)'
  BY <1>1 DEF TypeOK, Local, Progress, Ended, Channels
<1>4. Ended(t)'
  BY <1>1, FaultsAssumption DEF TypeOK, Local, Progress, Ended, Channels
<1>5. Channels(t)'
  BY <1>1 DEF TypeOK, Local, Progress, Ended, Channels
<1>6. Frame(t)
  BY <1>1 DEF TypeOK, Frame, Local, Ended
<1> QED
  BY <1>2, <1>3, <1>4, <1>5, <1>6 DEF Local

LEMMA ForkStep ==
    ASSUME IInv, NEW t \in Threads, Fork(t)
    PROVE  TypeOK' /\ Local(t)' /\ Frame(t)
<1>1. TypeOK /\ Local(t) /\ \A u \in Threads : Local(u)
  BY DEF IInv
<1> USE DEF Fork, Goto, Return, Opens, ClosesFds, DropWriters, callVars, kernelVars
<1>2. TypeOK'
  BY <1>1 DEF TypeOK, Local, Progress, Ended, Channels, Steps, Outcomes, HostFds, ChildStates
<1>3. Progress(t)'
  BY <1>1 DEF TypeOK, Local, Progress, Ended, Channels
<1>4. Ended(t)'
  BY <1>1, FaultsAssumption DEF TypeOK, Local, Progress, Ended, Channels
<1>5. Channels(t)'
  BY <1>1 DEF TypeOK, Local, Progress, Ended, Channels
<1>6. Frame(t)
  BY <1>1 DEF TypeOK, Frame, Local, Ended
<1> QED
  BY <1>2, <1>3, <1>4, <1>5, <1>6 DEF Local

LEMMA CloseWriteEndStep ==
    ASSUME IInv, NEW t \in Threads, CloseWriteEnd(t)
    PROVE  TypeOK' /\ Local(t)' /\ Frame(t)
<1>1. TypeOK /\ Local(t) /\ \A u \in Threads : Local(u)
  BY DEF IInv
<1> USE DEF CloseWriteEnd, Goto, Return, Opens, ClosesFds, DropWriters, callVars, kernelVars
<1>2. TypeOK'
  BY <1>1 DEF TypeOK, Local, Progress, Ended, Channels, Steps, Outcomes, HostFds, ChildStates
<1>3. Progress(t)'
  BY <1>1 DEF TypeOK, Local, Progress, Ended, Channels
<1>4. Ended(t)'
  BY <1>1, FaultsAssumption DEF TypeOK, Local, Progress, Ended, Channels
<1>5. Channels(t)'
  BY <1>1 DEF TypeOK, Local, Progress, Ended, Channels
<1>6. Frame(t)
  BY <1>1 DEF TypeOK, Frame, Local, Ended
<1> QED
  BY <1>2, <1>3, <1>4, <1>5, <1>6 DEF Local

LEMMA PidfdOpenStep ==
    ASSUME IInv, NEW t \in Threads, PidfdOpen(t)
    PROVE  TypeOK' /\ Local(t)' /\ Frame(t)
<1>1. TypeOK /\ Local(t) /\ \A u \in Threads : Local(u)
  BY DEF IInv
<1> USE DEF PidfdOpen, Goto, Return, Opens, ClosesFds, DropWriters, callVars, kernelVars
<1>2. TypeOK'
  BY <1>1 DEF TypeOK, Local, Progress, Ended, Channels, Steps, Outcomes, HostFds, ChildStates
<1>3. Progress(t)'
  BY <1>1 DEF TypeOK, Local, Progress, Ended, Channels
<1>4. Ended(t)'
  BY <1>1, FaultsAssumption DEF TypeOK, Local, Progress, Ended, Channels
<1>5. Channels(t)'
  BY <1>1 DEF TypeOK, Local, Progress, Ended, Channels
<1>6. Frame(t)
  BY <1>1 DEF TypeOK, Frame, Local, Ended
<1> QED
  BY <1>2, <1>3, <1>4, <1>5, <1>6 DEF Local

LEMMA PidfdOpenFailsStep ==
    ASSUME IInv, NEW t \in Threads, PidfdOpenFails(t)
    PROVE  TypeOK' /\ Local(t)' /\ Frame(t)
<1>1. TypeOK /\ Local(t) /\ \A u \in Threads : Local(u)
  BY DEF IInv
<1> USE DEF PidfdOpenFails, Goto, Return, Opens, ClosesFds, DropWriters, callVars, kernelVars
<1>2. TypeOK'
  BY <1>1 DEF TypeOK, Local, Progress, Ended, Channels, Steps, Outcomes, HostFds, ChildStates
<1>3. Progress(t)'
  BY <1>1 DEF TypeOK, Local, Progress, Ended, Channels
<1>4. Ended(t)'
  BY <1>1, FaultsAssumption DEF TypeOK, Local, Progress, Ended, Channels
<1>5. Channels(t)'
  BY <1>1 DEF TypeOK, Local, Progress, Ended, Channels
<1>6. Frame(t)
  BY <1>1 DEF TypeOK, Frame, Local, Ended
<1> QED
  BY <1>2, <1>3, <1>4, <1>5, <1>6 DEF Local

LEMMA SignalStep ==
    ASSUME IInv, NEW t \in Threads, Signal(t)
    PROVE  TypeOK' /\ Local(t)' /\ Frame(t)
<1>1. TypeOK /\ Local(t) /\ \A u \in Threads : Local(u)
  BY DEF IInv
<1> USE DEF Signal, Goto, Return, Opens, ClosesFds, DropWriters, callVars, kernelVars
<1>2. TypeOK'
  BY <1>1 DEF TypeOK, Local, Progress, Ended, Channels, Steps, Outcomes, HostFds, ChildStates
<1>3. Progress(t)'
  BY <1>1 DEF TypeOK, Local, Progress, Ended, Channels
<1>4. Ended(t)'
  BY <1>1, FaultsAssumption DEF TypeOK, Local, Progress, Ended, Channels
<1>5. Channels(t)'
  BY <1>1 DEF TypeOK, Local, Progress, Ended, Channels
<1>6. Frame(t)
  BY <1>1 DEF TypeOK, Frame, Local, Ended
<1> QED
  BY <1>2, <1>3, <1>4, <1>5, <1>6 DEF Local

LEMMA ReadErrnoStep ==
    ASSUME IInv, NEW t \in Threads, ReadErrno(t)
    PROVE  TypeOK' /\ Local(t)' /\ Frame(t)
<1>1. TypeOK /\ Local(t) /\ \A u \in Threads : Local(u)
  BY DEF IInv
<1> USE DEF ReadErrno, Goto, Return, Opens, ClosesFds, DropWriters, callVars, kernelVars
<1>2. TypeOK'
  BY <1>1 DEF TypeOK, Local, Progress, Ended, Channels, Steps, Outcomes, HostFds, ChildStates
<1>3. Progress(t)'
  BY <1>1 DEF TypeOK, Local, Progress, Ended, Channels
<1>4. Ended(t)'
  BY <1>1, FaultsAssumption DEF TypeOK, Local, Progress, Ended, Channels
<1>5. Channels(t)'
  BY <1>1 DEF TypeOK, Local, Progress, Ended, Channels
<1>6. Frame(t)
  BY <1>1 DEF TypeOK, Frame, Local, Ended
<1> QED
  BY <1>2, <1>3, <1>4, <1>5, <1>6 DEF Local

LEMMA ReadEofStep ==
    ASSUME IInv, NEW t \in Threads, ReadEof(t)
    PROVE  TypeOK' /\ Local(t)' /\ Frame(t)
<1>1. TypeOK /\ Local(t) /\ \A u \in Threads : Local(u)
  BY DEF IInv
<1> USE DEF ReadEof, Goto, Return, Opens, ClosesFds, DropWriters, callVars, kernelVars
<1>2. TypeOK'
  BY <1>1 DEF TypeOK, Local, Progress, Ended, Channels, Steps, Outcomes, HostFds, ChildStates
<1>3. Progress(t)'
  BY <1>1 DEF TypeOK, Local, Progress, Ended, Channels
<1>4. Ended(t)'
  BY <1>1, FaultsAssumption DEF TypeOK, Local, Progress, Ended, Channels
<1>5. Channels(t)'
  BY <1>1 DEF TypeOK, Local, Progress, Ended, Channels
<1>6. Frame(t)
  BY <1>1 DEF TypeOK, Frame, Local, Ended
<1> QED
  BY <1>2, <1>3, <1>4, <1>5, <1>6 DEF Local

LEMMA WaitAndThrowStep ==
    ASSUME IInv, NEW t \in Threads, WaitAndThrow(t)
    PROVE  TypeOK' /\ Local(t)' /\ Frame(t)
<1>1. TypeOK /\ Local(t) /\ \A u \in Threads : Local(u)
  BY DEF IInv
<1> USE DEF WaitAndThrow, Goto, Return, Opens, ClosesFds, DropWriters, callVars, kernelVars
<1>2. TypeOK'
  BY <1>1 DEF TypeOK, Local, Progress, Ended, Channels, Steps, Outcomes, HostFds, ChildStates
<1>3. Progress(t)'
  BY <1>1 DEF TypeOK, Local, Progress, Ended, Channels
<1>4. Ended(t)'
  BY <1>1, FaultsAssumption DEF TypeOK, Local, Progress, Ended, Channels
<1>5. Channels(t)'
  BY <1>1 DEF TypeOK, Local, Progress, Ended, Channels
<1>6. Frame(t)
  BY <1>1 DEF TypeOK, Frame, Local, Ended
<1> QED
  BY <1>2, <1>3, <1>4, <1>5, <1>6 DEF Local

LEMMA ChildReleasedStep ==
    ASSUME IInv, NEW t \in Threads, ChildReleased(t)
    PROVE  TypeOK' /\ Local(t)' /\ Frame(t)
<1>1. TypeOK /\ Local(t) /\ \A u \in Threads : Local(u)
  BY DEF IInv
<1> USE DEF ChildReleased, Goto, Return, Opens, ClosesFds, DropWriters, callVars, kernelVars
<1>2. TypeOK'
  BY <1>1 DEF TypeOK, Local, Progress, Ended, Channels, Steps, Outcomes, HostFds, ChildStates
<1>3. Progress(t)'
  BY <1>1 DEF TypeOK, Local, Progress, Ended, Channels
<1>4. Ended(t)'
  BY <1>1, FaultsAssumption DEF TypeOK, Local, Progress, Ended, Channels
<1>5. Channels(t)'
  BY <1>1 DEF TypeOK, Local, Progress, Ended, Channels
<1>6. Frame(t)
  BY <1>1 DEF TypeOK, Frame, Local, Ended
<1> QED
  BY <1>2, <1>3, <1>4, <1>5, <1>6 DEF Local

LEMMA ExecStep ==
    ASSUME IInv, NEW t \in Threads, Exec(t)
    PROVE  TypeOK' /\ Local(t)' /\ Frame(t)
<1>1. TypeOK /\ Local(t) /\ \A u \in Threads : Local(u)
  BY DEF IInv
<1> USE DEF Exec, Goto, Return, Opens, ClosesFds, DropWriters, callVars, kernelVars
<1>2. TypeOK'
  BY <1>1 DEF TypeOK, Local, Progress, Ended, Channels, Steps, Outcomes, HostFds, ChildStates
<1>3. Progress(t)'
  BY <1>1 DEF TypeOK, Local, Progress, Ended, Channels
<1>4. Ended(t)'
  BY <1>1, FaultsAssumption DEF TypeOK, Local, Progress, Ended, Channels
<1>5. Channels(t)'
  BY <1>1 DEF TypeOK, Local, Progress, Ended, Channels, Steps, Outcomes
<1>6. Frame(t)
  BY <1>1 DEF TypeOK, Frame, Local, Ended
<1> QED
  BY <1>2, <1>3, <1>4, <1>5, <1>6 DEF Local

LEMMA ExecFailsStep ==
    ASSUME IInv, NEW t \in Threads, ExecFails(t)
    PROVE  TypeOK' /\ Local(t)' /\ Frame(t)
<1>1. TypeOK /\ Local(t) /\ \A u \in Threads : Local(u)
  BY DEF IInv
<1> USE DEF ExecFails, Goto, Return, Opens, ClosesFds, DropWriters, callVars, kernelVars
<1>2. TypeOK'
  BY <1>1 DEF TypeOK, Local, Progress, Ended, Channels, Steps, Outcomes, HostFds, ChildStates
<1>3. Progress(t)'
  BY <1>1 DEF TypeOK, Local, Progress, Ended, Channels
<1>4. Ended(t)'
  BY <1>1, FaultsAssumption DEF TypeOK, Local, Progress, Ended, Channels
<1>5. Channels(t)'
  BY <1>1 DEF TypeOK, Local, Progress, Ended, Channels
<1>6. Frame(t)
  BY <1>1 DEF TypeOK, Frame, Local, Ended
<1> QED
  BY <1>2, <1>3, <1>4, <1>5, <1>6 DEF Local

LEMMA ChildExitsStep ==
    ASSUME IInv, NEW t \in Threads, ChildExits(t)
    PROVE  TypeOK' /\ Local(t)' /\ Frame(t)
<1>1. TypeOK /\ Local(t) /\ \A u \in Threads : Local(u)
  BY DEF IInv
<1> USE DEF ChildExits, Goto, Return, Opens, ClosesFds, DropWriters, callVars, kernelVars
<1>2. TypeOK'
  BY <1>1 DEF TypeOK, Local, Progress, Ended, Channels, Steps, Outcomes, HostFds, ChildStates
<1>3. Progress(t)'
  BY <1>1 DEF TypeOK, Local, Progress, Ended, Channels
<1>4. Ended(t)'
  BY <1>1, FaultsAssumption DEF TypeOK, Local, Progress, Ended, Channels
<1>5. Channels(t)'
  BY <1>1 DEF TypeOK, Local, Progress, Ended, Channels
<1>6. Frame(t)
  BY <1>1 DEF TypeOK, Frame, Local, Ended
<1> QED
  BY <1>2, <1>3, <1>4, <1>5, <1>6 DEF Local

LEMMA ProcessEndsStep ==
    ASSUME IInv, NEW t \in Threads, ProcessEnds(t)
    PROVE  TypeOK' /\ Local(t)' /\ Frame(t)
<1>1. TypeOK /\ Local(t) /\ \A u \in Threads : Local(u)
  BY DEF IInv
<1> USE DEF ProcessEnds, Goto, Return, Opens, ClosesFds, DropWriters, callVars, kernelVars
<1>2. TypeOK'
  BY <1>1 DEF TypeOK, Local, Progress, Ended, Channels, Steps, Outcomes, HostFds, ChildStates
<1>3. Progress(t)'
  BY <1>1 DEF TypeOK, Local, Progress, Ended, Channels
<1>4. Ended(t)'
  BY <1>1, FaultsAssumption DEF TypeOK, Local, Progress, Ended, Channels
<1>5. Channels(t)'
  BY <1>1 DEF TypeOK, Local, Progress, Ended, Channels
<1>6. Frame(t)
  BY <1>1 DEF TypeOK, Frame, Local, Ended
<1> QED
  BY <1>2, <1>3, <1>4, <1>5, <1>6 DEF Local

LEMMA OwnerWaitsStep ==
    ASSUME IInv, NEW t \in Threads, OwnerWaits(t)
    PROVE  TypeOK' /\ Local(t)' /\ Frame(t)
<1>1. TypeOK /\ Local(t) /\ \A u \in Threads : Local(u)
  BY DEF IInv
<1> USE DEF OwnerWaits, Goto, Return, Opens, ClosesFds, DropWriters, callVars, kernelVars
<1>2. TypeOK'
  BY <1>1 DEF TypeOK, Local, Progress, Ended, Channels, Steps, Outcomes, HostFds, ChildStates
<1>3. Progress(t)'
  BY <1>1 DEF TypeOK, Local, Progress, Ended, Channels
<1>4. Ended(t)'
  BY <1>1, FaultsAssumption DEF TypeOK, Local, Progress, Ended, Channels
<1>5. Channels(t)'
  BY <1>1 DEF TypeOK, Local, Progress, Ended, Channels
<1>6. Frame(t)
  BY <1>1 DEF TypeOK, Frame, Local, Ended
<1> QED
  BY <1>2, <1>3, <1>4, <1>5, <1>6 DEF Local

LEMMA OwnerReleasesStep ==
    ASSUME IInv, NEW t \in Threads, OwnerReleases(t)
    PROVE  TypeOK' /\ Local(t)' /\ Frame(t)
<1>1. TypeOK /\ Local(t) /\ \A u \in Threads : Local(u)
  BY DEF IInv
<1> USE DEF OwnerReleases, Goto, Return, Opens, ClosesFds, DropWriters, callVars, kernelVars
<1>2. TypeOK'
  BY <1>1 DEF TypeOK, Local, Progress, Ended, Channels, Steps, Outcomes, HostFds, ChildStates
<1>3. Progress(t)'
  BY <1>1 DEF TypeOK, Local, Progress, Ended, Channels
<1>4. Ended(t)'
  BY <1>1, FaultsAssumption DEF TypeOK, Local, Progress, Ended, Channels
<1>5. Channels(t)'
  BY <1>1 DEF TypeOK, Local, Progress, Ended, Channels
<1>6. Frame(t)
  BY <1>1 DEF TypeOK, Frame, Local, Ended
<1> QED
  BY <1>2, <1>3, <1>4, <1>5, <1>6 DEF Local

LEMMA NextIInv == IInv /\ [Next]_vars => IInv'
<1> SUFFICES ASSUME IInv, [Next]_vars PROVE IInv'
  OBVIOUS
<1>1. ASSUME NEW t \in Threads, Parent(t) \/ Child(t) \/ ProcessEnds(t) \/ Owner(t)
      PROVE  IInv'
  <2>1. TypeOK' /\ Local(t)' /\ Frame(t)
    BY <1>1, MakePipeStep, MakeEventfdStep, SetupFailsStep, ForkStep, CloseWriteEndStep, PidfdOpenStep,
       PidfdOpenFailsStep, SignalStep, ReadErrnoStep, ReadEofStep, WaitAndThrowStep, ChildReleasedStep,
       ExecStep, ExecFailsStep, ChildExitsStep, ProcessEndsStep, OwnerWaitsStep, OwnerReleasesStep
    DEF Parent, Child, Owner
  <2>2. \A u \in Threads \ {t} : Local(u)'
    BY <2>1, FrameKeepsLocal DEF IInv
  <2> QED
    BY <2>1, <2>2 DEF IInv
<1>2. CASE UNCHANGED vars
  BY <1>2 DEF vars, callVars, kernelVars, IInv, TypeOK, Local, Progress, Ended, Channels
<1> QED
  BY <1>1, <1>2 DEF Next

THEOREM Invariance == Spec => []IInv
  BY InitIInv, NextIInv, PTL DEF Spec

\* Types, and write ends are held by children between fork and exec only.
THEOREM TypeCorrect == Spec => []TypeOK
<1>1. IInv => TypeOK
  BY DEF IInv
<1> QED
  BY <1>1, Invariance, PTL

\* The handshake of parent and child, for any number of concurrent calls: the
\* child does not go on before its parent holds the pidfd.
THEOREM Handshake == Spec => []HandshakeOrder
<1>1. IInv => HandshakeOrder
  BY DEF IInv, TypeOK, Steps, Outcomes, Local, Progress, Ended, HandshakeOrder
<1> QED
  BY <1>1, Invariance, PTL

\* Nothing of the handshake is left open in the host or a child after a success.
THEOREM HandshakeLeavesNothing == Spec => []HandshakeIsClosed
<1>1. IInv => HandshakeIsClosed
  BY DEF IInv, Local, Ended, HandshakeIsClosed
<1> QED
  BY <1>1, Invariance, PTL

\* No call that throws leaves a process, provided that pidfd_open succeeds.
THEOREM NoChildAfterError ==
    ASSUME "pidfd_open" \notin Faults PROVE Spec => []ErrorLeavesNoChild
<1>1. IInv => ErrorLeavesNoChild
  BY DEF IInv, Local, Ended, ErrorLeavesNoChild
<1> QED
  BY <1>1, Invariance, PTL

--------------------------------------------------------------------------------
(* The refinement of the contract.                                           *)

Process == [t \in Threads |-> Seen[child[t]]]

LEMMA ProcessChanges ==
    ASSUME TypeOK, NEW t \in Threads, NEW s \in ChildStates,
           child' = [child EXCEPT ![t] = s]
    PROVE  Process' = [Process EXCEPT ![t] = Seen[s]]
  BY DEF TypeOK, Process

\* Steps that the caller does not see.
LEMMA HiddenSteps ==
    ASSUME IInv, NEW t \in Threads,
           \/ MakePipe(t) \/ MakeEventfd(t) \/ CloseWriteEnd(t) \/ PidfdOpen(t)
           \/ Signal(t) \/ ReadErrno(t) \/ ChildReleased(t) \/ ExecFails(t)
    PROVE  UNCHANGED <<outcome, Process, ran>>
<1>1. UNCHANGED <<outcome, ran>>
  BY DEF MakePipe, MakeEventfd, CloseWriteEnd, PidfdOpen, Signal, ReadErrno, ChildReleased,
         ExecFails, Goto, kernelVars, callVars
<1>2. CASE ChildReleased(t)
  <2>1. Process' = [Process EXCEPT ![t] = Seen["ready"]]
    BY <1>2, ProcessChanges DEF ChildReleased, IInv, ChildStates
  <2>2. Process[t] = Seen["ready"]
    BY <1>2 DEF ChildReleased, Process, Seen
  <2> QED
    BY <1>1, <2>1, <2>2 DEF Process
<1>3. CASE ExecFails(t)
  <2>1. Process' = [Process EXCEPT ![t] = Seen["failed"]]
    BY <1>3, ProcessChanges DEF ExecFails, IInv, ChildStates
  <2>2. Process[t] = Seen["failed"]
    BY <1>3 DEF ExecFails, Process, Seen
  <2> QED
    BY <1>1, <2>1, <2>2 DEF Process
<1>4. CASE child' = child
  BY <1>1, <1>4 DEF Process
<1>5. ChildReleased(t) \/ ExecFails(t) \/ child' = child
  BY DEF MakePipe, MakeEventfd, CloseWriteEnd, PidfdOpen, Signal, ReadErrno, kernelVars
<1> QED
  BY <1>2, <1>3, <1>4, <1>5

\* The steps of the parent that its caller sees.
LEMMA ForkCreates ==
    ASSUME IInv, NEW t \in Threads, Fork(t) PROVE Contract!Create(t)
<1>1. Process' = [Process EXCEPT ![t] = "held"]
  BY ProcessChanges DEF Fork, IInv, ChildStates, Seen
<1>2. outcome[t] = "none" /\ Process[t] = "none"
  BY DEF Fork, IInv, TypeOK, Outcomes, Local, Progress, Process, Seen
<1>3. UNCHANGED <<outcome, ran>>
  BY DEF Fork, Goto
<1> QED
  BY <1>1, <1>2, <1>3 DEF Contract!Create, Contract!Becomes, Process

LEMMA FailuresFail ==
    ASSUME IInv, NEW t \in Threads, SetupFails(t) \/ PidfdOpenFails(t)
    PROVE  Contract!Fail(t)
<1>1. outcome[t] = "none" /\ outcome' = [outcome EXCEPT ![t] = "error"]
  BY DEF SetupFails, PidfdOpenFails, Return, IInv, TypeOK, Outcomes, Local, Progress
<1>2. Process' = Process /\ ran' = ran
  BY DEF SetupFails, PidfdOpenFails, kernelVars, Process
<1>3. Process[t] = "none" \/ ("pidfd_open" \in Faults /\ t \notin ran)
  <2>1. CASE SetupFails(t)
    BY <2>1 DEF SetupFails, IInv, Local, Progress, Process, Seen
  <2>2. CASE PidfdOpenFails(t)
    BY <2>2 DEF PidfdOpenFails, IInv, Local, Channels
  <2> QED
    BY <2>1, <2>2
<1> QED
  BY <1>1, <1>2, <1>3 DEF Contract!Fail, Contract!Ends, Process

LEMMA EofSucceeds ==
    ASSUME IInv, NEW t \in Threads, ReadEof(t) PROVE Contract!Succeed(t)
<1>1. outcome[t] = "none" /\ outcome' = [outcome EXCEPT ![t] = "ok"]
  BY DEF ReadEof, Return, IInv, TypeOK, Outcomes, Local, Progress
<1>2. Process' = Process /\ ran' = ran
  BY DEF ReadEof, kernelVars, Process
<1>3. child[t] \in {"running", "zombie"} /\ ~errno[t]
  BY DEF ReadEof, IInv, Local, Progress, Channels
<1>4. t \in ran \/ ("killed" \in Faults /\ Process[t] = "dead")
  BY <1>3 DEF IInv, Local, Channels, Process, Seen
<1> QED
  BY <1>1, <1>2, <1>4 DEF Contract!Succeed, Contract!Ends, Process

LEMMA ErrnoFailsToLaunch ==
    ASSUME IInv, NEW t \in Threads, WaitAndThrow(t) PROVE Contract!FailToLaunch(t)
<1>1. outcome[t] = "none" /\ outcome' = [outcome EXCEPT ![t] = "launch_error"]
  BY DEF WaitAndThrow, Return, IInv, TypeOK, Outcomes, Local, Progress
<1>2. Process' = [Process EXCEPT ![t] = "gone"]
  BY ProcessChanges DEF WaitAndThrow, IInv, ChildStates, Seen
<1>3. Process[t] = "dead" /\ t \notin ran
  BY DEF WaitAndThrow, IInv, Local, Progress, Channels, Process, Seen
<1> QED
  BY <1>1, <1>2, <1>3 DEF Contract!FailToLaunch, Contract!Ends, Contract!Becomes, WaitAndThrow,
                          Process

\* The steps of the child.
LEMMA ExecLaunches ==
    ASSUME IInv, NEW t \in Threads, Exec(t) PROVE Contract!Launch(t)
<1>1. Process' = [Process EXCEPT ![t] = "running"]
  BY ProcessChanges DEF Exec, IInv, ChildStates, Seen
<1>2. pc[t] = "reading"
  BY DEF Exec, IInv, TypeOK, Steps, Outcomes, Local, Progress, Ended
<1>3. outcome[t] = "none" /\ Process[t] = "held"
  BY <1>2 DEF Exec, IInv, TypeOK, Outcomes, Local, Progress, Process, Seen
<1> QED
  BY <1>1, <1>3 DEF Contract!Launch, Contract!Becomes, Exec, callVars, Process

LEMMA EndsDie ==
    ASSUME IInv, NEW t \in Threads, ChildExits(t) \/ ProcessEnds(t) PROVE Contract!Die(t)
<1>1. Process' = [Process EXCEPT ![t] = "dead"]
  BY ProcessChanges DEF ChildExits, ProcessEnds, IInv, ChildStates, Seen
<1>2. Process[t] \in {"held", "running"}
  BY DEF ChildExits, ProcessEnds, Process, Seen
<1>3. UNCHANGED <<outcome, ran>>
  BY DEF ChildExits, ProcessEnds, callVars
<1> QED
  BY <1>1, <1>2, <1>3 DEF Contract!Die, Contract!Becomes, Process

\* The steps of the owner.
LEMMA WaitsWait ==
    ASSUME IInv, NEW t \in Threads, OwnerWaits(t) PROVE Contract!Wait(t)
<1>1. Process' = [Process EXCEPT ![t] = "gone"]
  BY ProcessChanges DEF OwnerWaits, IInv, ChildStates, Seen
<1>2. Process[t] = "dead"
  BY DEF OwnerWaits, Process, Seen
<1> QED
  BY <1>1, <1>2 DEF Contract!Wait, Contract!Becomes, OwnerWaits, callVars, Process

LEMMA ReleasesRelease ==
    ASSUME IInv, NEW t \in Threads, OwnerReleases(t) PROVE Contract!Release(t)
<1>1. child' = [child EXCEPT ![t] = "reaped"]
  BY DEF OwnerReleases, IInv, TypeOK
<1>2. Process' = [Process EXCEPT ![t] = "gone"]
  BY <1>1, ProcessChanges DEF IInv, ChildStates, Seen
<1> QED
  BY <1>2 DEF Contract!Release, Contract!Becomes, OwnerReleases, Process

LEMMA InitMaps == Init => Contract!Init
  BY DEF Init, Contract!Init, Seen

LEMMA StepsMap == IInv /\ [Next]_vars => [Contract!Next]_(Contract!vars)
<1> SUFFICES ASSUME IInv, [Next]_vars PROVE [Contract!Next]_(Contract!vars)
  OBVIOUS
<1>1. ASSUME NEW t \in Threads, Parent(t) \/ Child(t) \/ ProcessEnds(t) \/ Owner(t)
      PROVE  [Contract!Next]_(Contract!vars)
  <2>1. CASE \/ MakePipe(t) \/ MakeEventfd(t) \/ CloseWriteEnd(t) \/ PidfdOpen(t)
             \/ Signal(t) \/ ReadErrno(t) \/ ChildReleased(t) \/ ExecFails(t)
    BY <2>1, HiddenSteps DEF Contract!vars, Process
  <2>2. CASE \/ Fork(t) \/ SetupFails(t) \/ PidfdOpenFails(t) \/ ReadEof(t) \/ WaitAndThrow(t)
    BY <2>2, ForkCreates, FailuresFail, EofSucceeds, ErrnoFailsToLaunch DEF Contract!Next
  <2>3. CASE Exec(t) \/ ChildExits(t) \/ ProcessEnds(t)
    BY <2>3, ExecLaunches, EndsDie DEF Contract!Next
  <2>4. CASE Owner(t)
    BY <2>4, WaitsWait, ReleasesRelease DEF Owner, Contract!Next
  <2> QED
    BY <1>1, <2>1, <2>2, <2>3, <2>4 DEF Parent, Child
<1>2. CASE UNCHANGED vars
  BY <1>2 DEF vars, callVars, kernelVars, Contract!vars
<1> QED
  BY <1>1, <1>2 DEF Next

\* Every call keeps the contract, whatever fails and however calls overlap.
THEOREM KeepsContract == Spec => ContractSpec
  BY InitMaps, StepsMap, Invariance, PTL DEF Spec, ContractSpec, Contract!Spec
================================================================================
