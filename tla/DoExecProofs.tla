----------------------------- MODULE DoExecProofs ------------------------------
(***************************************************************************)
(* Proofs about DoExec, for any number of descriptors and any size of the  *)
(* integer type. The steps that mark descriptors are those of              *)
(* DisjointSegments, so that its theorems hold here.                       *)
(***************************************************************************)
EXTENDS DoExec, DisjointSegmentsProofs

Above == {n \in Numbers : n > STDERR_FILENO}
Outside == {"fail", "failed", "running"}

\* The streams from here on have not been redirected yet.
Stage == IF at \in Streams THEN Number[at] ELSE 3

Given == /\ io_redir \in [Streams -> (InUse \ {errstream}) \cup {Closed}]
         /\ errstream \in InUse /\ errstream > STDERR_FILENO
         /\ forward \subseteq InUse \cup {NullFd} /\ errstream \notin forward
         /\ marked \subseteq InUse
         /\ boundaries = Segment(STDERR_FILENO + 1, Modulus - 1) /\ given = forward

StreamsSoFar ==
    at \notin {"fail", "failed"} =>
        \A s \in Streams :
            IF Number[s] >= Stage THEN files[Number[s]] = Number[s]
            ELSE ~Overwritten(s) =>
                     files[Number[s]] = IF io_redir[s] = Closed THEN Number[s] ELSE io_redir[s]

MarksSoFar ==
    at \notin Outside =>
        \A n \in Above : /\ files[n] = IF n \in InUse THEN n ELSE Closed
                         /\ n \in cloexec <=>
                                n \in InUse /\ (n \in marked \/ \E r \in called : Covers(r, n))

\* The error pipe has one number in the child.
ErrorPipe == /\ at # "running" => files[errstream] = errstream
             /\ \A n \in Numbers : files[n] = errstream => n = errstream

Progress == /\ at \in Streams => pc = "begin" /\ called = {}
            /\ at \in {"execve", "running"} => pc = "done"
            /\ pc = "begin" => called = {}

XInv == /\ ExecTypeOK /\ Given /\ StreamsSoFar /\ MarksSoFar /\ ErrorPipe /\ Progress
        /\ at = "running" => \A n \in Above : files[n] = IF n \in forward \ marked THEN n ELSE Closed
        /\ at = "running" => \A n \in cloexec : FALSE
        /\ at = "failed" => told = errstream
        /\ at \notin Outside => \A n \in cloexec : n > STDERR_FILENO

LEMMA Constants ==
    /\ Modulus \in Nat /\ NumberLimit \in Nat /\ 2 * NumberLimit <= Modulus
    /\ {0, 1, 2} \subseteq InUse /\ InUse \subseteq Numbers
    /\ NumberLimit >= 3 /\ Modulus >= 6 /\ NumberLimit < Modulus - 1
    /\ Numbers \subseteq Nat /\ Numbers \subseteq Values /\ Closed \notin InUse
    /\ NullFd \in Values /\ NullFd \notin Numbers
<1>1. /\ Modulus \in Nat \ {0} /\ NumberLimit \in Nat /\ 2 * NumberLimit <= Modulus
      /\ {0, 1, 2} \subseteq InUse /\ InUse \subseteq Numbers /\ Closed \notin Nat
  BY ModulusAssumption, NumbersAssumption DEF STDERR_FILENO
<1>2. 2 < NumberLimit
  BY <1>1 DEF Numbers
<1>3. NumberLimit >= 3 /\ Modulus >= 6 /\ NumberLimit < Modulus - 1
  BY <1>1, <1>2
<1>4. Numbers \subseteq Nat /\ Numbers \subseteq Values
  BY <1>1, <1>3 DEF Numbers, Values
<1>5. NullFd \in Values /\ NullFd \notin Numbers
  BY <1>1, <1>3 DEF Numbers, Values, NullFd
<1> QED
  BY <1>1, <1>3, <1>4, <1>5

\* Every step is a step of DisjointSegments or leaves it alone.
LEMMA StepsOfSegments == [ExecNext]_execVars => [Next]_vars
BY DEF ExecNext, execVars, Redirect, RedirectFails, MarkSegments, SegmentsDone, Execve,
       ExecveFails, WriteErrno

LEMMA StartsSegments == ExecInit => Init
<1> SUFFICES ASSUME ExecInit PROVE Init
  OBVIOUS
<1>1. boundaries = [start_at |-> 3, stop_at |-> Modulus - 1] /\ boundaries \in Ranges
  BY Constants DEF ExecInit, Segment, STDERR_FILENO, Ranges, Values
<1>2. given \in SUBSET Values
  BY Constants DEF ExecInit
<1> QED
  BY <1>1, <1>2 DEF ExecInit, Init

\* do_exec runs the loop of for_each_disjoint_segment.
THEOREM RunsSegments == ExecSpec => Spec
BY StartsSegments, StepsOfSegments, PTL DEF ExecSpec, Spec

LEMMA InitXInv == ExecInit => XInv
<1> SUFFICES ASSUME ExecInit PROVE XInv
  OBVIOUS
<1>1. Given
  BY Constants DEF ExecInit, Given, STDERR_FILENO, Segment
<1>2. ExecTypeOK
  <2>1. TypeOK
    BY StartsSegments, Initial DEF IInv
  <2> QED
    BY <1>1, <2>1, Constants DEF ExecInit, ExecTypeOK, Given, Streams
<1>3. StreamsSoFar
  BY Constants DEF ExecInit, StreamsSoFar, Stage, Streams, Number
<1>4. MarksSoFar
  BY Constants DEF ExecInit, MarksSoFar, Above
<1>5. ErrorPipe /\ Progress
  BY Constants DEF ExecInit, ErrorPipe, Progress, Streams
<1>6. \A n \in cloexec : n > STDERR_FILENO
  BY Constants DEF ExecInit, STDERR_FILENO
<1>7. at = "sysin"
  BY DEF ExecInit
<1> QED
  BY <1>1, <1>2, <1>3, <1>4, <1>5, <1>6, <1>7 DEF XInv

LEMMA RedirectStep ==
    ASSUME XInv, NEW s \in Streams, Redirect(s)
    PROVE  XInv'
<1>1. /\ ExecTypeOK /\ Given /\ StreamsSoFar /\ MarksSoFar /\ ErrorPipe /\ Progress
      /\ \A n \in cloexec : n > STDERR_FILENO
      /\ at = s /\ at' = After[s]
      /\ UNCHANGED <<vars, callVars, told>>
  BY DEF XInv, Redirect, Outside, Streams
<1>2. /\ at \in Streams /\ pc = "begin" /\ called = {} /\ at' \in {"sysout", "syserr", "segments"}
      /\ Number[s] \in {0, 1, 2} /\ Number[s] \in InUse
      /\ Stage = Number[s] /\ Stage' = Number[s] + 1
  BY <1>1, Constants DEF Progress, Stage, Streams, Number, After
<1> DEFINE from == io_redir[s]
           to == Number[s]
<1>3. \/ from = Closed /\ UNCHANGED <<files, cloexec>>
      \/ /\ from # Closed /\ from \in InUse \ {errstream}
         /\ files' = [files EXCEPT ![to] = files[from]]
         /\ cloexec' = IF from = to THEN cloexec ELSE cloexec \ {to}
  BY <1>1 DEF Redirect, dup2, Given
<1>4. \A n \in Above : files'[n] = files[n] /\ (n \in cloexec' <=> n \in cloexec)
  BY <1>1, <1>2, <1>3, Constants DEF Above, ExecTypeOK, STDERR_FILENO
<1>5. TypeOK' /\ Given' /\ Progress'
  BY <1>1, <1>2 DEF ExecTypeOK, TypeOK, Given, Progress, vars, callVars, Streams
<1>6. ExecTypeOK'
  <2>1. files' \in [Numbers -> InUse \cup {Closed}] /\ cloexec' \subseteq InUse
    <3>1. CASE from = Closed
      BY <1>1, <1>3, <3>1 DEF ExecTypeOK
    <3>2. CASE from # Closed
      <4>1. from \in Numbers /\ files[from] \in InUse \cup {Closed}
        BY <1>1, <1>3, <3>2, Constants DEF ExecTypeOK
      <4> QED
        BY <1>1, <1>3, <3>2, <4>1 DEF ExecTypeOK
    <3> QED
      BY <3>1, <3>2
  <2> QED
    BY <1>1, <1>2, <1>5, <2>1 DEF ExecTypeOK, callVars, Streams
<1>7. MarksSoFar'
  BY <1>1, <1>2, <1>4 DEF MarksSoFar, vars, callVars, Outside, Streams
<1>8. ErrorPipe'
  <2>1. errstream' = errstream /\ errstream \in Numbers /\ errstream # to /\ at # "running"
    BY <1>1, <1>2, Constants DEF callVars, Given, STDERR_FILENO, Streams
  <2>2. \A n \in Numbers : files'[n] = errstream => n = errstream
    <3>1. CASE from = Closed
      BY <1>1, <1>3, <3>1 DEF ErrorPipe
    <3>2. CASE from # Closed
      <4>1. files[from] # errstream
        BY <1>1, <1>3, <3>2, Constants DEF ErrorPipe
      <4> QED
        BY <1>1, <1>3, <3>2, <4>1 DEF ErrorPipe, ExecTypeOK
    <3> QED
      BY <3>1, <3>2
  <2>3. files'[errstream] = errstream
    BY <1>1, <1>3, <2>1 DEF ErrorPipe, ExecTypeOK
  <2> QED
    BY <2>1, <2>2, <2>3 DEF ErrorPipe
<1>9. StreamsSoFar'
  <2> SUFFICES ASSUME NEW u \in Streams
               PROVE  IF Number[u] >= Stage' THEN files'[Number[u]] = Number[u]
                      ELSE ~Overwritten(u)' =>
                        files'[Number[u]] = IF io_redir[u] = Closed THEN Number[u] ELSE io_redir[u]
    BY <1>1 DEF StreamsSoFar, callVars
  <2>1. Overwritten(u)' <=> Overwritten(u)
    BY <1>1 DEF Overwritten, callVars
  <2>2. IF Number[u] >= to THEN files[Number[u]] = Number[u]
        ELSE ~Overwritten(u) =>
                 files[Number[u]] = IF io_redir[u] = Closed THEN Number[u] ELSE io_redir[u]
    BY <1>1, <1>2 DEF StreamsSoFar, Streams
  <2>3. Number[u] \in {0, 1, 2} /\ (Number[u] = to => u = s)
    BY DEF Streams, Number
  <2>4. CASE u # s
    <3>1. files'[Number[u]] = files[Number[u]]
      BY <1>1, <1>3, <2>3, <2>4, Constants DEF ExecTypeOK
    <3>2. Number[u] >= Stage' <=> Number[u] >= to
      BY <1>2, <2>3, <2>4
    <3> QED
      BY <2>1, <2>2, <3>1, <3>2
  <2>5. CASE u = s
    <3>1. ~(Number[u] >= Stage')
      BY <1>2, <2>5
    <3>2. CASE from = Closed
      BY <1>2, <1>3, <2>2, <2>5, <3>1, <3>2
    <3>3. CASE from # Closed
      <4>1. files'[to] = files[from] /\ from \in InUse
        BY <1>1, <1>2, <1>3, <3>3, Constants DEF ExecTypeOK
      <4>2. CASE from \in Above
        BY <1>1, <1>2, <2>5, <3>1, <3>3, <4>1, <4>2 DEF MarksSoFar, Outside, Streams
      <4>3. CASE from \notin Above
        <5>1. PICK v \in Streams : Number[v] = from
          <6>1. from \in {0, 1, 2}
            <7>1. from \in Numbers /\ from \in Nat
              BY <4>1, Constants
            <7>2. ~(from > 2)
              BY <4>3, <7>1 DEF Above, STDERR_FILENO
            <7> QED
              BY <7>1, <7>2
          <6> QED
            BY <6>1 DEF Streams, Number
        <5>2. IF Number[v] >= to THEN files[from] = from
              ELSE ~Overwritten(v) =>
                       files[from] = IF io_redir[v] = Closed THEN from ELSE io_redir[v]
          BY <1>1, <1>2, <5>1 DEF StreamsSoFar, Streams
        <5>3. ASSUME ~Overwritten(s), Number[v] < to PROVE io_redir[v] = Closed
          BY <5>1, <5>3 DEF Overwritten
        <5>4. io_redir[v] = Closed => ~Overwritten(v)
          BY <5>1, Constants DEF Overwritten, Streams, Number
        <5>5. Number[v] \in {0, 1, 2}
          BY DEF Streams, Number
        <5> QED
          BY <1>2, <2>1, <2>5, <3>1, <3>3, <4>1, <5>2, <5>3, <5>4, <5>5
      <4> QED
        BY <4>2, <4>3
    <3> QED
      BY <3>2, <3>3
  <2> QED
    BY <2>4, <2>5
<1>10. \A n \in cloexec' : n > STDERR_FILENO
  BY <1>1, <1>3
<1> QED
  BY <1>2, <1>5, <1>6, <1>7, <1>8, <1>9, <1>10 DEF XInv

LEMMA MarkSegmentsStep ==
    ASSUME XInv, IInv', MarkSegments
    PROVE  XInv'
<1>1. /\ ExecTypeOK /\ Given /\ StreamsSoFar /\ MarksSoFar /\ ErrorPipe /\ Progress
      /\ \A n \in cloexec : n > STDERR_FILENO
      /\ at = "segments" /\ at' = "segments" /\ Next
      /\ UNCHANGED <<callVars, told>>
  BY DEF XInv, MarkSegments, Outside
<1>2. /\ boundaries' = boundaries /\ given' = given /\ called \subseteq called' /\ pc' # "begin"
  BY <1>1 DEF Next, Whole, Begin, Split, Finish, Progress
<1>3. TypeOK' /\ CalledForSegments'
  BY DEF IInv
<1>4. /\ files' = files
      /\ \A n \in Numbers : n \in cloexec' <=>
            n \in cloexec \/ (files[n] # Closed /\ \E r \in called' \ called : Covers(r, n))
      /\ cloexec' \subseteq Numbers
  <2>1. CASE called' = called
    BY <1>1, <2>1, Constants DEF MarkSegments, ExecTypeOK
  <2>2. CASE called' # called
    <3>1. PICK r \in called' \ called : CloseRange(r)
      BY <2>2 DEF MarkSegments
    <3>2. \A q \in called' \ called : q = r
      BY <1>1, <3>1 DEF Next, Whole, Begin, Split, Finish, Progress
    <3> QED
      BY <1>1, <3>1, <3>2, Constants DEF CloseRange, ExecTypeOK
  <2> QED
    BY <2>1, <2>2
<1>5. \A r \in called' : \A n \in Numbers : Covers(r, n) => n > STDERR_FILENO
  <2> SUFFICES ASSUME NEW r \in called', NEW n \in Numbers, Covers(r, n)
               PROVE  n > STDERR_FILENO
    OBVIOUS
  <2>1. Covers(boundaries', r.start_at) /\ r \in Ranges
    BY <1>3 DEF CalledForSegments, IsSegment, TypeOK
  <2>2. r.start_at >= 3 /\ r.start_at \in Nat
    BY <1>1, <1>2, <2>1, Constants DEF Given, Covers, Segment, STDERR_FILENO, Ranges, Values
  <2> QED
    BY <2>2, Constants DEF Covers, STDERR_FILENO
<1>6. \A n \in cloexec' : n > STDERR_FILENO /\ n \in InUse
  <2> SUFFICES ASSUME NEW n \in cloexec', n \notin cloexec PROVE n > STDERR_FILENO /\ n \in InUse
    BY <1>1 DEF ExecTypeOK
  <2>1. n \in Numbers /\ files[n] # Closed /\ n > STDERR_FILENO
    BY <1>4, <1>5
  <2> QED
    BY <1>1, <2>1 DEF MarksSoFar, Outside, Above
<1>7. ExecTypeOK'
  BY <1>1, <1>3, <1>4, <1>6 DEF ExecTypeOK, callVars
<1>8. Given' /\ ErrorPipe' /\ Progress'
  BY <1>1, <1>2, <1>4 DEF Given, ErrorPipe, Progress, callVars, Streams
<1>9. StreamsSoFar'
  BY <1>1, <1>4 DEF StreamsSoFar, Stage, Overwritten, callVars
<1>10. MarksSoFar'
  <2> SUFFICES ASSUME NEW n \in Above
               PROVE  n \in cloexec' <=>
                          n \in InUse /\ (n \in marked \/ \E r \in called' : Covers(r, n))
    BY <1>1, <1>4 DEF MarksSoFar, callVars, Outside
  <2>1. /\ n \in Numbers /\ (files[n] # Closed <=> n \in InUse)
        /\ n \in cloexec <=> n \in InUse /\ (n \in marked \/ \E r \in called : Covers(r, n))
    BY <1>1, Constants DEF MarksSoFar, Outside, Above
  <2> QED
    BY <1>2, <1>4, <2>1
<1> QED
  BY <1>1, <1>6, <1>7, <1>8, <1>9, <1>10 DEF XInv

LEMMA ExecveStep ==
    ASSUME XInv, IInv, Execve
    PROVE  XInv'
<1>1. /\ ExecTypeOK /\ Given /\ StreamsSoFar /\ MarksSoFar /\ ErrorPipe /\ Progress
      /\ \A n \in cloexec : n > STDERR_FILENO
      /\ at = "execve" /\ at' = "running" /\ pc = "done" /\ cloexec' = {}
      /\ files' = [n \in Numbers |-> IF n \in cloexec THEN Closed ELSE files[n]]
      /\ UNCHANGED <<vars, callVars, told>>
  BY DEF XInv, Execve, Outside, Progress
<1>2. CalledForSegments /\ InnerValuesAreCovered
  BY DEF IInv
<1>3. \A n \in Above : files'[n] = IF n \in forward \ marked THEN n ELSE Closed
  <2> SUFFICES ASSUME NEW n \in Above
               PROVE  files'[n] = IF n \in forward \ marked THEN n ELSE Closed
    OBVIOUS
  <2>1. /\ n \in Numbers /\ n \in Values /\ n \in Nat /\ n >= 3 /\ n < Modulus - 1
        /\ files[n] = IF n \in InUse THEN n ELSE Closed
        /\ n \in cloexec <=> n \in InUse /\ (n \in marked \/ \E r \in called : Covers(r, n))
    BY <1>1, Constants DEF MarksSoFar, Outside, Above, STDERR_FILENO, Numbers
  <2>2. files'[n] = IF n \in cloexec THEN Closed ELSE files[n]
    BY <1>1, <2>1
  <2>3. CASE n \in forward
    <3>1. n \in InUse
      BY <1>1, <2>1, <2>3, Constants DEF Given
    <3>2. ~\E r \in called : Covers(r, n)
      BY <1>1, <1>2, <2>3 DEF CalledForSegments, IsSegment, Given
    <3> QED
      BY <2>1, <2>2, <2>3, <3>1, <3>2
  <2>4. CASE n \notin forward
    <3>1. Covers(boundaries, n) /\ n # boundaries.stop_at
      BY <1>1, <2>1, Constants DEF Covers, Given, Segment, STDERR_FILENO
    <3>2. \E r \in called : Covers(r, n)
      BY <1>1, <1>2, <2>1, <2>4, <3>1 DEF InnerValuesAreCovered, Given
    <3> QED
      BY <2>1, <2>2, <2>4, <3>2
  <2> QED
    BY <2>3, <2>4
<1>4. StreamsSoFar'
  <2>1. \A s \in Streams : Number[s] \in Numbers /\ files'[Number[s]] = files[Number[s]]
    BY <1>1, Constants DEF Streams, Number, STDERR_FILENO
  <2>2. Stage' = Stage
    BY <1>1 DEF Stage, Streams
  <2> QED
    BY <1>1, <2>1, <2>2 DEF StreamsSoFar, Overwritten, callVars
<1>5. ErrorPipe'
  BY <1>1, Constants DEF ErrorPipe, callVars, Given
<1>6. ExecTypeOK'
  BY <1>1 DEF ExecTypeOK, TypeOK, vars, callVars
<1>7. Given' /\ Progress'
  BY <1>1 DEF Given, Progress, vars, callVars, Streams
<1>8. MarksSoFar'
  BY <1>1 DEF MarksSoFar, Outside
<1> QED
  BY <1>1, <1>3, <1>4, <1>5, <1>6, <1>7, <1>8 DEF XInv, callVars, Outside

LEMMA OtherSteps ==
    ASSUME XInv,
           \/ \E s \in Streams : RedirectFails(s)
           \/ SegmentsDone \/ ExecveFails \/ WriteErrno \/ UNCHANGED execVars
    PROVE  XInv'
<1>1. /\ ExecTypeOK /\ Given /\ StreamsSoFar /\ MarksSoFar /\ ErrorPipe /\ Progress
      /\ UNCHANGED <<vars, callVars, files, cloexec>>
      /\ \/ at' = at /\ told' = told
         \/ at = "segments" /\ pc = "done" /\ at' = "execve" /\ told' = told
         \/ at \notin Outside /\ at' = "fail" /\ told' = told
         \/ at = "fail" /\ at' = "failed" /\ told' = files[errstream]
  BY DEF XInv, RedirectFails, SegmentsDone, ExecveFails, WriteErrno, execVars, childVars, Streams, Outside
<1>2. Stage' = Stage \/ at' \in {"fail", "failed"}
  BY <1>1 DEF Stage, Streams
<1>3. ExecTypeOK'
  BY <1>1 DEF ExecTypeOK, TypeOK, vars, callVars, ErrorPipe, Given
<1>4. Given' /\ ErrorPipe' /\ Progress'
  BY <1>1 DEF Given, ErrorPipe, Progress, vars, callVars, Streams, Outside
<1>5. StreamsSoFar'
  BY <1>1, <1>2 DEF StreamsSoFar, Overwritten, callVars
<1>6. MarksSoFar'
  BY <1>1 DEF MarksSoFar, Outside, vars, callVars
<1>7. at' = "failed" => told' = errstream'
  BY <1>1 DEF XInv, ErrorPipe, callVars
<1>8. /\ at' = "running" => \A n \in Above : files'[n] = IF n \in forward' \ marked' THEN n ELSE Closed
      /\ at' = "running" => \A n \in cloexec' : FALSE
      /\ at' \notin Outside => \A n \in cloexec' : n > STDERR_FILENO
  BY <1>1 DEF XInv, callVars, Outside
<1> QED
  BY <1>3, <1>4, <1>5, <1>6, <1>7, <1>8 DEF XInv

LEMMA SpecXInv == ExecSpec => []XInv
<1>1. XInv /\ IInv /\ IInv' /\ [ExecNext]_execVars => XInv'
  BY RedirectStep, MarkSegmentsStep, ExecveStep, OtherSteps DEF ExecNext
<1> QED
  BY <1>1, InitXInv, RunsSegments, Inductive, PTL DEF ExecSpec

\* Types, for any number of descriptors and any size of the integer type.
THEOREM ExecTypeCorrect == ExecSpec => []ExecTypeOK
<1>1. XInv => ExecTypeOK
  BY DEF XInv
<1> QED
  BY <1>1, SpecXInv, PTL

\* A program has the streams it was given (StreamsAreRedirected): dup2() reaches
\* the standard streams in an order that is harmless but for Overwritten ones.
THEOREM ProgramHasItsStreams == ExecSpec => []StreamsAreRedirected
<1>1. XInv => StreamsAreRedirected
  <2> SUFFICES ASSUME XInv, at = "running", NEW s \in Streams, ~Overwritten(s)
               PROVE  files[Number[s]] = IF io_redir[s] = Closed THEN Number[s] ELSE io_redir[s]
    BY DEF StreamsAreRedirected
  <2>1. Stage = 3 /\ ~(Number[s] >= 3)
    BY DEF Stage, Streams, Number
  <2> QED
    BY <2>1 DEF XInv, StreamsSoFar
<1> QED
  BY <1>1, SpecXInv, PTL

\* A program gets what was forwarded to it and nothing else (ForwardedSurvive),
\* since the segments hold everything else: the single last value that they may
\* leave out (InnerValuesAreCovered) is no number of a descriptor.
THEOREM ProgramGetsForwarded == ExecSpec => []ForwardedSurvive
<1>1. XInv => ForwardedSurvive
  BY DEF XInv, ForwardedSurvive, Above
<1> QED
  BY <1>1, SpecXInv, PTL

\* Errors get through, and a program that runs does not hold the error pipe
\* (ErrorPipeTells).
THEOREM ErrorsGetThrough == ExecSpec => []ErrorPipeTells
<1>1. XInv => ErrorPipeTells
  <2> SUFFICES ASSUME XInv, at = "running", NEW n \in Numbers, files[n] = errstream
               PROVE  FALSE
    BY DEF XInv, ErrorPipeTells
  <2>1. n = errstream /\ errstream \in Above /\ errstream \notin forward /\ errstream # Closed
    BY Constants DEF XInv, ErrorPipe, Given, Above
  <2> QED
    BY <2>1 DEF XInv
<1> QED
  BY <1>1, SpecXInv, PTL
================================================================================
