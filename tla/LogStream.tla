------------------------------- MODULE LogStream -------------------------------
(***************************************************************************)
(* The way of a log message: threads of a client call log::write_message,  *)
(* json_log::writer serializes the item chunk by chunk and writes the      *)
(* chunks to stderr under the mutex of the log, stderr is a bounded pipe   *)
(* (or a stream socket) of the host, and json_log::reader, a listener of   *)
(* the event loop, reads what is there into its buffer and parses it.      *)
(*                                                                         *)
(* A message is a pair <<thread, number>>; on the wire it is the pieces    *)
(* <<message, 1>> .. <<message, Pieces>>, where a piece is what no write   *)
(* and no read splits. Something else in the process may write to stderr,  *)
(* too: one piece of noise, which is no JSON. The read end is in           *)
(* non-blocking mode, as in the tests of the reader: its loop reads until  *)
(* a read would block.                                                     *)
(***************************************************************************)
EXTENDS Naturals, Sequences, FiniteSets, SequencesExt

CONSTANTS
    Threads, None,
    MaxMessages,    \* bound on the messages of a thread
    Pieces,         \* length of a serialized message
    WriteBuffer,    \* m_buffer_size of the writer, in pieces
    ReadBuffer,     \* m_buffer_size of the reader
    PipeCapacity,   \* what the pipe holds before write() blocks
    Transport,      \* "pipe" or "socket"
    Noisy           \* something else may write to stderr

ASSUME SizesAssumption ==
    /\ {MaxMessages, Pieces, WriteBuffer, ReadBuffer, PipeCapacity} \subseteq Nat \ {0}
    /\ Transport \in {"pipe", "socket"} /\ Noisy \in BOOLEAN /\ None \notin Threads

VARIABLES
    noise,       \* something else was written to stderr
    process,     \* the client: "running", "ended" (exited or killed), "aborted"
    lock,        \* the thread that holds log_mutex, or None
    logged,      \* messages in the order of their time stamps
    serialized,  \* pieces of the current message that the serializer produced
    chunk,       \* data_to_write: produced but not written yet
    pipe,        \* what is on the way
    listening,   \* the reader is in the event loop, its descriptor open
    handling,    \* handle_event of the reader is running
    partial,     \* pieces that the parser has taken of an incomplete message
    consumed,    \* messages passed to the receiver
    errors       \* errors reported to the receiver: "truncated", "syntax"

writerVars == <<noise, process, lock, logged, serialized, chunk>>
readerVars == <<listening, handling, partial, consumed, errors>>
vars == <<writerVars, pipe, readerVars>>

Messages == Threads \X (1 .. MaxMessages)
Noise == <<<<None, 1>>, 0>>
AllPieces == Messages \X (1 .. Pieces) \cup {Noise}

TypeOK == /\ noise \in BOOLEAN
          /\ process \in {"running", "ended", "aborted"}
          /\ lock \in Threads \cup {None}
          /\ logged \in Seq(Messages) /\ consumed \in Seq(Messages)
          /\ serialized \in 0 .. Pieces
          /\ chunk \in Seq(AllPieces) /\ Len(chunk) <= WriteBuffer
          /\ pipe \in Seq(AllPieces) /\ Len(pipe) <= PipeCapacity
          /\ partial \in Seq(AllPieces) /\ Len(partial) < Pieces
          /\ listening \in BOOLEAN /\ handling \in BOOLEAN
          /\ errors \subseteq {"truncated", "syntax"}

Init == /\ noise = FALSE /\ process = "running" /\ lock = None /\ logged = <<>>
        /\ serialized = 0 /\ chunk = <<>> /\ pipe = <<>>
        /\ listening = TRUE /\ handling = FALSE
        /\ partial = <<>> /\ consumed = <<>> /\ errors = {}

Least(a, b) == IF a < b THEN a ELSE b
Count(t) == Cardinality({k \in DOMAIN logged : logged[k][1] = t})
PiecesOf(m, from, to) == [k \in 1 .. to - from + 1 |-> <<m, from + k - 1>>]

--------------------------------------------------------------------------------
(* The client. *)

\* Mutated form of LogMessage: no lock is taken.
LogMessage_NoLock(t) == /\ process = "running"
                        /\ Count(t) < MaxMessages
                        /\ lock' = t
                        /\ logged' = Append(logged, <<t, Count(t) + 1>>)
                        /\ serialized' = 0 /\ chunk' = <<>>
                        /\ UNCHANGED <<noise, process, pipe, readerVars>>

\* write_message: lock_guard, then the time stamp of the item.
LogMessage(t) == /\ process = "running" /\ lock = None
                 /\ Count(t) < MaxMessages
                 /\ lock' = t
                 /\ logged' = Append(logged, <<t, Count(t) + 1>>)
                 /\ serialized' = 0
                 /\ UNCHANGED <<noise, process, chunk, pipe, readerVars>>

\* Mutated form of Serialize: the end of the message is not looked at.
Serialize_Overruns == /\ lock # None /\ chunk = <<>> /\ serialized < Pieces
                      /\ serialized' = serialized + WriteBuffer
                      /\ chunk' = PiecesOf(Last(logged), serialized + 1, serialized')
                      /\ UNCHANGED <<noise, process, lock, logged, pipe, readerVars>>

\* serializer.serialize(current_range) fills the output buffer.
Serialize == /\ lock # None /\ chunk = <<>> /\ serialized < Pieces
             /\ serialized' = Least(serialized + WriteBuffer, Pieces)
             /\ chunk' = PiecesOf(Last(logged), serialized + 1, serialized')
             /\ UNCHANGED <<noise, process, lock, logged, pipe, readerVars>>

\* write() takes some of the chunk, as there is room; until there is, it blocks
\* (or fails with EAGAIN and is called again at once).
Write == /\ lock # None /\ chunk # <<>> /\ listening
         /\ \E n \in 1 .. Least(Len(chunk), PipeCapacity - Len(pipe)) :
               /\ pipe' = pipe \o SubSeq(chunk, 1, n)
               /\ chunk' = SubSeq(chunk, n + 1, Len(chunk))
         /\ UNCHANGED <<noise, process, lock, logged, serialized, readerVars>>

EndWith(how) == /\ process' = how
                /\ lock' = None /\ chunk' = <<>> /\ serialized' = 0
                /\ UNCHANGED <<noise, logged, pipe, readerVars>>

\* The reader is gone: SIGPIPE, or an exception that ends in abort().
WriteFails == /\ lock # None /\ chunk # <<>> /\ ~listening
              /\ EndWith("aborted")

\* The message is complete, the lock is released.
Unlock == /\ lock # None /\ chunk = <<>> /\ serialized = Pieces
          /\ lock' = None /\ serialized' = 0
          /\ UNCHANGED <<noise, process, logged, chunk, pipe, readerVars>>

\* The client exits or is killed, in the middle of a message perhaps.
ClientEnds == process = "running" /\ EndWith("ended")

\* A library or the runtime writes a line to stderr, between two messages. Inside
\* of a message the effect would depend on the place: garbage in a text is text.
MakeNoise == /\ process = "running" /\ Noisy /\ ~noise /\ lock = None
             /\ listening /\ Len(pipe) < PipeCapacity
             /\ noise' = TRUE
             /\ pipe' = Append(pipe, Noise)
             /\ UNCHANGED <<process, lock, logged, serialized, chunk, readerVars>>

Client == (\E t \in Threads : LogMessage(t)) \/ Serialize \/ Write \/ WriteFails \/ Unlock

--------------------------------------------------------------------------------
(* The reader. *)

WritersGone == process # "running"

\* At the end of the stream epoll reports EPOLLIN for a socket, but for a pipe
\* only EPOLLHUP, which epoll_event_to_activity_status does not map.
CanRead == pipe # <<>> \/ (WritersGone /\ Transport = "socket")

\* Mutated form of BeginEvent: EPOLLHUP ends the listening at once.
BeginEvent_StopsOnHup == /\ listening /\ ~handling
                         /\ \/ WritersGone /\ listening' = FALSE /\ handling' = FALSE
                            \/ ~WritersGone /\ CanRead /\ handling' = TRUE /\ UNCHANGED listening
                         /\ UNCHANGED <<writerVars, pipe, partial, consumed, errors>>

\* handle_event with a status that can_read() accepts; with another one it
\* returns at once and nothing changes.
BeginEvent == /\ listening /\ ~handling /\ CanRead
              /\ handling' = TRUE
              /\ UNCHANGED <<writerVars, pipe, listening, partial, consumed, errors>>

\* The parser is at piece k of what it was given since the last complete message:
\* it opens a message or continues the current one.
Fits(text, k) == /\ text[k][2] = ((k - 1) % Pieces) + 1
                 /\ (k - 1) % Pieces # 0 => text[k][1] = text[k - 1][1]

\* It takes everything up to the first syntax error.
Accepted(text) == CHOOSE n \in 0 .. Len(text) : /\ \A k \in 1 .. n : Fits(text, k)
                                                /\ n < Len(text) => ~Fits(text, n + 1)

\* Mutated form of parse_buffer: it returns after the first complete message.
parse_buffer_FirstOnly(input) ==
    LET text == partial \o input
        n == Accepted(text)
    IN  IF n < Pieces THEN [items |-> <<>>, taken |-> SubSeq(text, 1, n), jammed |-> n < Len(text)]
        ELSE [items |-> <<text[Pieces][1]>>, taken |-> <<>>, jammed |-> FALSE]

\* Every complete message goes to the receiver, the rest is kept for the next read.
parse_buffer(input) ==
    LET text == partial \o input
        n == Accepted(text)
        complete == n \div Pieces
    IN  [items  |-> [k \in 1 .. complete |-> text[k * Pieces][1]],
         taken  |-> SubSeq(text, (complete * Pieces) + 1, n),
         jammed |-> n < Len(text)]

\* One round of the loop in handle_event: read() and parse_buffer().
ReadSome == /\ handling /\ pipe # <<>>
            /\ LET n == Least(ReadBuffer, Len(pipe))
                   parsed == parse_buffer(SubSeq(pipe, 1, n))
               IN  /\ pipe' = SubSeq(pipe, n + 1, Len(pipe))
                   /\ partial' = parsed.taken
                   /\ consumed' = consumed \o parsed.items
                   /\ errors' = IF parsed.jammed THEN errors \cup {"syntax"} ELSE errors
                   /\ listening' = ~parsed.jammed
                   /\ handling' = ~parsed.jammed
            /\ UNCHANGED writerVars

\* Mutated forms of ReadWouldBlock: taken for the end of the stream, or retried.
ReadWouldBlock_Stops == /\ handling /\ pipe = <<>> /\ ~WritersGone
                        /\ handling' = FALSE /\ listening' = FALSE
                        /\ UNCHANGED <<writerVars, pipe, partial, consumed, errors>>
ReadWouldBlock_Retries == /\ handling /\ pipe = <<>> /\ ~WritersGone
                          /\ UNCHANGED vars

ReadWouldBlock == /\ handling /\ pipe = <<>> /\ ~WritersGone
                  /\ handling' = FALSE
                  /\ UNCHANGED <<writerVars, pipe, listening, partial, consumed, errors>>

\* Mutated form of ReadEof: stop_listening() is forgotten.
ReadEof_KeepsListening ==
    /\ handling /\ pipe = <<>> /\ WritersGone
    /\ handling' = FALSE
    /\ errors' = IF partial # <<>> THEN errors \cup {"truncated"} ELSE errors
    /\ UNCHANGED <<writerVars, pipe, listening, partial, consumed>>

\* read() returns 0: an incomplete message is an error, the listening ends.
ReadEof == /\ handling /\ pipe = <<>> /\ WritersGone
           /\ handling' = FALSE /\ listening' = FALSE
           /\ errors' = IF partial # <<>> THEN errors \cup {"truncated"} ELSE errors
           /\ UNCHANGED <<writerVars, pipe, partial, consumed>>

Reader == BeginEvent \/ ReadSome \/ ReadWouldBlock \/ ReadEof

Next == Client \/ MakeNoise \/ ClientEnds \/ Reader

Spec == Init /\ [][Next]_vars

\* A thread inside write_message is scheduled and the event loop serves ready
\* listeners (EpollInstance!ReadyIsServed); nobody has to log or to end.
FairSpec == /\ Spec
            /\ WF_vars(Serialize \/ Write \/ WriteFails \/ Unlock)
            /\ WF_vars(Reader)

--------------------------------------------------------------------------------
AllOf(messages) == [n \in 1 .. Len(messages) * Pieces |->
                       <<messages[((n - 1) \div Pieces) + 1], ((n - 1) % Pieces) + 1>>]

\* Every piece is somewhere: consumed, in the parser, on the way, in the
\* output buffer, or not serialized yet.
NothingLost ==
    process = "running" /\ listening =>
        LET unserialized == IF lock = None THEN <<>>
                            ELSE PiecesOf(Last(logged), serialized + 1, Pieces)
            sent == RemoveFirst(pipe, Noise)
        IN  AllOf(consumed) \o partial \o sent \o chunk \o unserialized = AllOf(logged)

\* What the receiver gets is what was logged, in the order of the time stamps,
\* without a gap and without a duplicate, whichever thread logged it. It is told
\* of a syntax error only if something else wrote to stderr, and of a truncated
\* message only if the client ended in the middle of one.
Channel == INSTANCE LogChannel WITH sent <- logged, open <- listening
ChannelSpec == Channel!Spec

\* While the client runs, and nothing else writes to stderr, what it logs arrives;
\* no write fails.
LoggedIsDelivered ==
    \A m \in Messages :
        Contains(logged, m) ~> (Contains(consumed, m) \/ process = "ended" \/ noise)

\* A message that left the client completely before anything else was written to
\* stderr arrives, even if the client ends.
WrittenIsDelivered ==
    \A m \in Messages : Contains(pipe, <<m, Pieces>>) /\ ~noise ~> Contains(consumed, m)

\* The handler gives the event loop back, also while the client is silent.
HandlerReturns == handling ~> ~handling

\* After the end of the client the reader stops listening, so that the loop is
\* not woken for it over and over, and reports what was cut off.
EndIsNoticed == WritersGone ~> ~listening
================================================================================
