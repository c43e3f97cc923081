--------------------------------- MODULE DoExec --------------------------------
(***************************************************************************)
(* do_exec, in the child of spawn: the standard streams are redirected one *)
(* after the other, for_each_disjoint_segment (module DisjointSegments)    *)
(* marks what is not forwarded as close-on-exec, and execve runs the       *)
(* program or the error goes back through the error pipe. A descriptor is  *)
(* a number; the file behind it is named by the number it had at the fork. *)
(***************************************************************************)
EXTENDS DisjointSegments

CONSTANTS
    NumberLimit,   \* descriptor numbers are below this; they fit in an int
    InUse,         \* the numbers that are open in the child
    Closed         \* no file, or no redirection

STDERR_FILENO == 2
Numbers == 0 .. NumberLimit - 1
NullFd == Modulus - 1            \* -1, the number of an empty owner, as unsigned int

ASSUME NumbersAssumption == /\ NumberLimit \in Nat /\ 2 * NumberLimit <= Modulus
                            /\ 0 .. STDERR_FILENO \subseteq InUse /\ InUse \subseteq Numbers
                            /\ Closed \notin Nat

VARIABLES
    io_redir,    \* the descriptor for each stream, or Closed
    forward,     \* fds_to_forward; an empty owner is NullFd
    errstream,   \* the write end of the error pipe
    marked,      \* the descriptors that were close-on-exec at the fork
    files,       \* the file behind each number, or Closed
    cloexec,     \* the numbers that have FD_CLOEXEC
    at,          \* what do_exec does next
    told         \* the file that errno was written to, or Closed

callVars == <<io_redir, forward, errstream, marked>>
childVars == <<files, cloexec, at, told>>
execVars == <<vars, callVars, childVars>>

Streams == {"sysin", "sysout", "syserr"}
Number == [sysin |-> 0, sysout |-> 1, syserr |-> 2]
After == [sysin |-> "sysout", sysout |-> "syserr", syserr |-> "segments"]

ExecTypeOK == /\ TypeOK
              /\ io_redir \in [Streams -> InUse \cup {Closed}]
              /\ forward \subseteq InUse \cup {NullFd}
              /\ errstream \in InUse /\ marked \subseteq InUse
              /\ files \in [Numbers -> InUse \cup {Closed}] /\ cloexec \subseteq InUse
              /\ at \in Streams \cup {"segments", "execve", "fail", "failed", "running"}
              /\ told \in InUse \cup {Closed}

\* A redirection and a forwarded descriptor are owners: no number has two. The
\* standard streams of the host are open and are not close-on-exec, so that the
\* error pipe has a number above them.
ExecInit ==
    /\ errstream \in InUse \ 0 .. STDERR_FILENO
    /\ io_redir \in [Streams -> (InUse \ {errstream}) \cup {Closed}]
    /\ \A s, u \in Streams : s # u => io_redir[s] # io_redir[u] \/ io_redir[s] = Closed
    /\ LET others == (InUse \ 0 .. STDERR_FILENO) \ {errstream}
       IN  /\ forward \in SUBSET ({NullFd} \cup {n \in others : \A s \in Streams : io_redir[s] # n})
           /\ marked \in SUBSET others
    /\ files = [n \in Numbers |-> IF n \in InUse THEN n ELSE Closed]
    /\ cloexec = marked
    /\ at = "sysin" /\ told = Closed
    /\ boundaries = Segment(STDERR_FILENO + 1, Modulus - 1)
    /\ given = forward                                       \* fds_to_keep
    /\ left = {} /\ index_start = boundaries.start_at
    /\ called = {} /\ pc = "begin"

\* Mutated form of dup2: the descriptor is moved, not copied.
dup2_Moves(from, to) ==
    /\ files' = [files EXCEPT ![to] = files[from], ![from] = IF from = to THEN @ ELSE Closed]
    /\ cloexec' = cloexec \ {to}

\* The number to becomes another name of the file; what was open there is
\* closed. Nothing happens when the two are the same.
dup2(from, to) == /\ files' = [files EXCEPT ![to] = files[from]]
                  /\ cloexec' = IF from = to THEN cloexec ELSE cloexec \ {to}

Redirect(s) == /\ at = s
               /\ IF io_redir[s] = Closed THEN UNCHANGED <<files, cloexec>>
                  ELSE dup2(io_redir[s], Number[s])
               /\ at' = After[s]
               /\ UNCHANGED <<vars, callVars, told>>

RedirectFails(s) == /\ at = s /\ io_redir[s] # Closed
                    /\ at' = "fail"
                    /\ UNCHANGED <<vars, callVars, files, cloexec, told>>

\* Mutated forms of CloseRange: the range ends before its last number; the
\* descriptors are closed at once.
CloseRange_HalfOpen(r) ==
    /\ cloexec' = cloexec \cup {n \in Numbers : n < r.stop_at /\ Covers(r, n) /\ files[n] # Closed}
    /\ UNCHANGED files
CloseRange_AtOnce(r) ==
    /\ files' = [n \in Numbers |-> IF Covers(r, n) THEN Closed ELSE files[n]]
    /\ UNCHANGED cloexec

\* close_range with CLOSE_RANGE_CLOEXEC.
CloseRange(r) ==
    /\ cloexec' = cloexec \cup {n \in Numbers : Covers(r, n) /\ files[n] # Closed}
    /\ UNCHANGED files

\* A step of for_each_disjoint_segment, with the call of func in it.
MarkSegments == /\ at = "segments" /\ pc # "done"
                /\ Next
                /\ IF called' = called THEN UNCHANGED <<files, cloexec>>
                   ELSE \E r \in called' \ called : CloseRange(r)
                /\ UNCHANGED <<callVars, at, told>>

SegmentsDone == /\ at = "segments" /\ pc = "done"
                /\ at' = "execve"
                /\ UNCHANGED <<vars, callVars, files, cloexec, told>>

Execve == /\ at = "execve"
          /\ at' = "running"
          /\ files' = [n \in Numbers |-> IF n \in cloexec THEN Closed ELSE files[n]]
          /\ cloexec' = {}
          /\ UNCHANGED <<vars, callVars, told>>

ExecveFails == /\ at = "execve"
               /\ at' = "fail"
               /\ UNCHANGED <<vars, callVars, files, cloexec, told>>

\* errno is written to the error pipe.
WriteErrno == /\ at = "fail"
              /\ at' = "failed"
              /\ told' = files[errstream]
              /\ UNCHANGED <<vars, callVars, files, cloexec>>

ExecNext == \/ \E s \in Streams : Redirect(s) \/ RedirectFails(s)
            \/ MarkSegments \/ SegmentsDone
            \/ Execve \/ ExecveFails \/ WriteErrno

ExecSpec == ExecInit /\ [][ExecNext]_execVars

--------------------------------------------------------------------------------
\* A redirection whose descriptor is itself the number of a stream that was
\* redirected before: dup2() has replaced it by then.
Overwritten(s) == \E u \in Streams : /\ Number[u] < Number[s] /\ io_redir[s] = Number[u]
                                     /\ io_redir[u] # Closed

\* The program has the streams it was given, and inherits the others, with the
\* exception of redirections that are overwritten by those before them.
StreamsAreRedirected ==
    at = "running" =>
        \A s \in Streams : ~Overwritten(s) =>
            files[Number[s]] = IF io_redir[s] = Closed THEN Number[s] ELSE io_redir[s]

\* Besides its streams the program has the descriptors that were forwarded to it,
\* under their numbers, and no others. Forwarded ones that were close-on-exec at
\* the fork are left out: nothing clears that flag.
ForwardedSurvive ==
    at = "running" =>
        \A n \in Numbers : n > STDERR_FILENO =>
            /\ n \in forward \ marked => files[n] = n
            /\ n \notin forward => files[n] = Closed

\* The error pipe carries errors only: an error gets into it, wherever do_exec
\* fails, and a program that runs does not hold it, so that the parent reads
\* the end of the pipe.
ErrorPipeTells == /\ at = "failed" => told = errstream
                  /\ at = "running" => \A n \in Numbers : files[n] # errstream
================================================================================
