------------------------------ MODULE LogChannel -------------------------------
(***************************************************************************)
(* What the receiver of a json_log::reader may rely on, whatever happens   *)
(* on the way: it gets the messages of a client one after the other in the *)
(* order of their time stamps, none twice and none left out, and is told   *)
(* of an error only when there was a reason for it.                        *)
(***************************************************************************)
EXTENDS Naturals, Sequences

CONSTANT Messages

VARIABLES sent,      \* in the order of the time stamps
          consumed,  \* passed to the receiver
          errors,    \* reported to the receiver
          process,   \* the client: "running", "ended" or "aborted"
          noise,     \* the client has written something that is not a message
          open       \* the reader listens

vars == <<sent, consumed, errors, process, noise, open>>

Init == /\ sent = <<>> /\ consumed = <<>> /\ errors = {}
        /\ process = "running" /\ noise = FALSE /\ open = TRUE

Send(m) == /\ process = "running"
           /\ \A k \in 1 .. Len(sent) : sent[k] # m
           /\ sent' = Append(sent, m)
           /\ UNCHANGED <<consumed, errors, process, noise, open>>

MakeNoise == /\ process = "running" /\ open
             /\ noise' = TRUE
             /\ UNCHANGED <<sent, consumed, errors, process, open>>

\* The client goes of its own accord; it fails only when nobody listens any more.
End == /\ process = "running"
       /\ \/ process' = "ended"
          \/ ~open /\ process' = "aborted"
       /\ UNCHANGED <<sent, consumed, errors, noise, open>>

\* The receiver gets what comes next, as much as there is; noise ends that.
Receive == /\ open
           /\ \E n \in Len(consumed) .. Len(sent) : consumed' = SubSeq(sent, 1, n)
           /\ \/ UNCHANGED <<errors, open>>
              \/ noise /\ errors' = errors \cup {"syntax"} /\ open' = FALSE
           /\ UNCHANGED <<sent, process, noise>>

\* The end of the stream; a message is missing if the reader says so.
Stop == /\ open /\ process = "ended"
        /\ \/ UNCHANGED errors
           \/ Len(consumed) < Len(sent) /\ errors' = errors \cup {"truncated"}
        /\ open' = FALSE
        /\ UNCHANGED <<sent, consumed, process, noise>>

Next == (\E m \in Messages : Send(m)) \/ MakeNoise \/ End \/ Receive \/ Stop

Spec == Init /\ [][Next]_vars
================================================================================
