----------------------------- MODULE EpollInstance -----------------------------
(***************************************************************************)
(* os_services::io_multiplexer::epoll_instance: the single-threaded event  *)
(* loop of the host.  The model has both sides of the interface to the     *)
(* kernel: the C++ side (m_listeners, the batch of events that epoll_wait  *)
(* returned, the running handler, an open config_transaction) and the      *)
(* kernel side (the interest list, which fds are open, their readiness and *)
(* the processes behind pidfds).  The two are only kept in step by the     *)
(* code: the kernel hands back a raw pointer into m_listeners.  Where the  *)
(* code follows such a pointer to an entry that was erased, the program is *)
(* undefined and the model stops.                                          *)
(***************************************************************************)
EXTENDS Naturals, FiniteSets

CONSTANTS
    MaxAdds,         \* bound on the calls of add(); the code counts in 64 bits
    MaxEvents,       \* length of the array passed to epoll_wait (1024)
    None,            \* no handler is running
    PeerFlags,       \* the readiness that the other ends of descriptors cause
    Statuses,        \* the activity_status values that callers listen for
    HandlersThrow,   \* handlers may leave with an exception
    HandlersReap     \* handlers of a pidfd may call proc_mgmt::wait on it

Ids == 0 .. MaxAdds - 1
Flags == {"in", "out", "hup"}      \* EPOLLIN, EPOLLOUT, EPOLLHUP
activity_status == {"none", "read", "write", "read_or_write"}

ASSUME BoundAssumption == MaxAdds \in Nat /\ MaxEvents \in Nat \ {0}
ASSUME NoneAssumption == None \notin Nat
ASSUME UsageAssumption == PeerFlags \subseteq Flags /\ Statuses \subseteq activity_status
ASSUME SwitchAssumption == {HandlersThrow, HandlersReap} \subseteq BOOLEAN

\* Mutated form: EPOLLHUP asked for explicitly, which it never has to be.
to_epoll_event_WithHup(status) ==
    [none |-> {"hup"}, read |-> {"in", "hup"}, write |-> {"out", "hup"},
     read_or_write |-> {"in", "out", "hup"}][status]

to_epoll_event(status) ==
    [none |-> {}, read |-> {"in"}, write |-> {"out"},
     read_or_write |-> {"in", "out"}][status]

epoll_event_to_activity_status(event) ==
    CASE {"in", "out"} \subseteq event -> "read_or_write"
      [] "in" \in event /\ "out" \notin event -> "read"
      [] "out" \in event /\ "in" \notin event -> "write"
      [] OTHER -> "none"

VARIABLES
    nextId,      \* m_current_id
    listeners,   \* the keys of m_listeners
    batch,       \* ids whose entries the rest of the events array points to
    reported,    \* the flags of those events
    running,     \* the id whose handler runs, or None
    stop,        \* m_item_should_be_removed of the current epoll_fd_activity
    undefined,   \* an entry that was erased has been used
    tx,          \* config_transaction: "none", "open", or "failed" (unwinding)
    txOwner,     \* the handler in whose scope it lives; None: outside dispatch
    txIds,       \* m_added_ids
    registered,  \* kernel: ids in the interest list
    mask,        \* kernel: the events each id is registered for
    open,        \* kernel: ids whose file descriptor is open
    ready,       \* kernel: the current readiness of each descriptor
    child        \* kernel: state of the process behind a pidfd

loopVars   == <<batch, reported, running, stop, undefined>>
txVars     == <<tx, txOwner, txIds>>
kernelVars == <<registered, mask, open, ready, child>>
vars == <<nextId, listeners, loopVars, txVars, kernelVars>>

Children == {"not_a_pidfd", "alive", "zombie", "reaped"}

TypeOK == /\ nextId \in 0 .. MaxAdds
          /\ listeners \subseteq Ids
          /\ batch \subseteq Ids
          /\ reported \in [Ids -> SUBSET Flags]
          /\ running \in Ids \cup {None}
          /\ stop \in BOOLEAN /\ undefined \in BOOLEAN
          /\ tx \in {"none", "open", "failed"}
          /\ txOwner \in Ids \cup {None}
          /\ txIds \subseteq Ids
          /\ registered \subseteq Ids
          /\ mask \in [Ids -> SUBSET {"in", "out"}]
          /\ open \subseteq Ids
          /\ ready \in [Ids -> SUBSET Flags]
          /\ child \in [Ids -> Children]

Init == /\ nextId = 0
        /\ listeners = {} /\ registered = {} /\ open = {}
        /\ batch = {} /\ running = None /\ stop = FALSE /\ undefined = FALSE
        /\ tx = "none" /\ txOwner = None /\ txIds = {}
        /\ reported = [i \in Ids |-> {}]
        /\ mask = [i \in Ids |-> {}]
        /\ ready = [i \in Ids |-> {}]
        /\ child = [i \in Ids |-> "not_a_pidfd"]

--------------------------------------------------------------------------------
(* Who may call the monitor: code outside dispatch, or the running handler. *)

Idle == running = None /\ batch = {} /\ ~undefined
InHandler == running # None /\ ~undefined
CallerRuns == InHandler \/ Idle
InOwnTx == tx # "none" /\ txOwner = running

\* Mutated form of Closes: no close once the process has exited.
Closes_WhileRunning(i) == child[i] \notin {"zombie", "reaped"}

\* The entry's file_descriptor_deleter.  The generic one closes.  The one for
\* a pidfd kills and reaps the process first, and returns without closing
\* when the signal cannot be sent because the process was reaped already.
Closes(i) == child[i] # "reaped"

\* Mutated form of Destroy: every descriptor is just closed.
Destroy_CloseOnly(S, Detached) ==
    /\ listeners' = listeners \ S
    /\ open' = open \ S
    /\ registered' = registered \ S
    /\ ready' = [i \in Ids |-> IF i \in S THEN {} ELSE ready[i]]
    /\ mask' = [i \in Ids |-> IF i \in S THEN {} ELSE mask[i]]
    /\ UNCHANGED child

\* Destroying the entries of S in m_listeners.  Closing a descriptor takes it
\* out of the interest list; Detached are those taken out explicitly before.
Destroy(S, Detached) ==
    /\ listeners' = listeners \ S
    /\ open' = open \ {i \in S : Closes(i)}
    /\ registered' = (registered \ Detached) \ {i \in S : Closes(i)}
    /\ child' = [i \in Ids |-> IF i \in S /\ child[i] \in {"alive", "zombie"}
                               THEN "reaped" ELSE child[i]]
    /\ ready' = [i \in Ids |-> IF i \in S /\ Closes(i) THEN {} ELSE ready[i]]
    /\ mask' = [i \in Ids |-> IF i \in S /\ Closes(i) THEN {} ELSE mask[i]]

\* add(): emplace the entry, then EPOLL_CTL_ADD.
AddSucceeds(kind, status) ==
    /\ nextId < MaxAdds
    /\ nextId' = nextId + 1
    /\ listeners' = listeners \cup {nextId}
    /\ registered' = registered \cup {nextId}
    /\ open' = open \cup {nextId}
    /\ mask' = [mask EXCEPT ![nextId] = to_epoll_event(status)]
    /\ child' = [child EXCEPT ![nextId] = kind]
    /\ UNCHANGED <<ready, loopVars>>

\* Mutated form of AddFails: the entry stays in m_listeners.
AddFails_KeepsEntry(kind) ==
    /\ nextId < MaxAdds
    /\ nextId' = nextId + 1
    /\ listeners' = listeners \cup {nextId}
    /\ open' = open \cup {nextId}
    /\ child' = [child EXCEPT ![nextId] = kind]
    /\ UNCHANGED <<registered, mask, ready, loopVars>>

\* add() whose EPOLL_CTL_ADD fails: the id is spent, the entry is erased again
\* (its descriptor closed, the process of a pidfd killed) and add() throws.
AddFails(kind) ==
    /\ nextId < MaxAdds
    /\ nextId' = nextId + 1
    /\ child' = [child EXCEPT ![nextId] =
                    IF kind = "not_a_pidfd" THEN kind ELSE "reaped"]
    /\ UNCHANGED <<listeners, registered, mask, open, ready, loopVars>>

Kinds == {"not_a_pidfd", "alive"}

Add == /\ CallerRuns /\ ~InOwnTx
       /\ \E kind \in Kinds :
             \/ \E status \in Statuses : AddSucceeds(kind, status)
             \/ AddFails(kind)
       /\ UNCHANGED txVars

\* remove() of an id that is still present, by code outside dispatch or by the
\* running handler: of its own entry, of one whose event is still in the batch,
\* or of any other.
Remove(i) == /\ CallerRuns /\ tx # "failed"
             /\ i \in listeners
             /\ Destroy({i}, {i})
             /\ UNCHANGED <<nextId, loopVars, txVars>>

--------------------------------------------------------------------------------
(* config_transaction: at most one at a time; one made in a handler ends     *)
(* before that handler does, one made outside may outlive a dispatch.        *)

TxBegin == /\ CallerRuns /\ tx = "none"
           /\ tx' = "open" /\ txOwner' = running
           /\ UNCHANGED <<txIds, nextId, listeners, loopVars, kernelVars>>

TxAdd == /\ CallerRuns /\ InOwnTx /\ tx = "open"
         /\ \E kind \in Kinds :
               \/ /\ \E status \in Statuses : AddSucceeds(kind, status)
                  /\ txIds' = txIds \cup {nextId}
                  /\ UNCHANGED <<tx, txOwner>>
               \/ /\ AddFails(kind)
                  /\ tx' = "failed"
                  /\ UNCHANGED <<txOwner, txIds>>

TxEnd == tx' = "none" /\ txOwner' = None /\ txIds' = {}

\* commit() empties m_added_ids, so that the destructor has nothing to remove.
Commit == /\ CallerRuns /\ InOwnTx /\ tx = "open"
          /\ TxEnd
          /\ UNCHANGED <<nextId, listeners, loopVars, kernelVars>>

\* Mutated form of Rollback: the loop starts at the second id.
Rollback_SkipsFirst ==
    /\ CallerRuns /\ InOwnTx
    /\ LET later == {i \in txIds : \E j \in txIds : j < i}
       IN  Destroy(later \cap listeners, later \cap listeners)
    /\ TxEnd
    /\ UNCHANGED <<nextId, loopVars>>

\* ~config_transaction without commit(): remove() of every id added, those
\* that are gone already excepted.
Rollback == /\ CallerRuns /\ InOwnTx
            /\ Destroy(txIds \cap listeners, txIds \cap listeners)
            /\ TxEnd
            /\ UNCHANGED <<nextId, loopVars>>

--------------------------------------------------------------------------------
(* wait_for_and_distpatch_events                                             *)

Events(i) == (mask[i] \cup {"hup"}) \cap ready[i]
Reportable(i) == i \in registered /\ Events(i) # {}

\* Mutated form of Wait: always the descriptors with the lowest ids.
Wait_LowestFirst(S) ==
    /\ Idle /\ tx # "failed"
    /\ S # {} /\ Cardinality(S) <= MaxEvents
    /\ \A i \in S : Reportable(i) /\ \A j \in 0 .. i - 1 : Reportable(j) => j \in S
    /\ batch' = S
    /\ reported' = [i \in Ids |-> IF i \in S THEN Events(i) ELSE {}]
    /\ UNCHANGED <<running, stop, undefined, nextId, listeners, txVars, kernelVars>>

\* epoll_wait reports some of what is ready, at most MaxEvents of them.
Wait(S) == /\ Idle /\ tx # "failed"
           /\ S # {} /\ Cardinality(S) <= MaxEvents
           /\ \A i \in S : Reportable(i)
           /\ batch' = S
           /\ reported' = [i \in Ids |-> IF i \in S THEN Events(i) ELSE {}]
           /\ UNCHANGED <<running, stop, undefined, nextId, listeners, txVars, kernelVars>>

\* The program uses the memory of an erased entry: it may do anything now.
Undefined ==
    /\ undefined' = TRUE
    /\ UNCHANGED <<batch, reported, running, stop, nextId, listeners, txVars, kernelVars>>

\* Mutated form of BeginHandler: a handler re-enters the dispatch loop.
BeginHandler_Nested(i) ==
    /\ ~undefined /\ i \in batch
    /\ \/ i \notin listeners /\ Undefined
       \/ /\ i \in listeners
          /\ batch' = batch \ {i} /\ running' = i /\ stop' = FALSE
          /\ UNCHANGED <<reported, undefined, nextId, listeners, txVars, kernelVars>>

\* The loop follows the pointer of the next event.
BeginHandler(i) ==
    /\ running = None /\ ~undefined /\ i \in batch
    /\ \/ i \notin listeners /\ Undefined
       \/ /\ i \in listeners
          /\ batch' = batch \ {i} /\ running' = i /\ stop' = FALSE
          /\ UNCHANGED <<reported, undefined, nextId, listeners, txVars, kernelVars>>

\* It asks the entry for its descriptor; so does a handler that has removed its
\* own entry whenever it uses a member.
update_listening_status(status) ==
    /\ InHandler
    /\ \/ running \notin listeners /\ Undefined
       \/ /\ running \in listeners
          /\ mask' = [mask EXCEPT ![running] = to_epoll_event(status)]
          /\ UNCHANGED <<registered, open, ready, child, nextId, listeners, loopVars, txVars>>

\* Mutated form of stop_listening: the entry is erased at once.
stop_listening_AtOnce ==
    /\ InHandler /\ ~stop /\ running \in listeners
    /\ stop' = TRUE
    /\ Destroy({running}, {})
    /\ UNCHANGED <<batch, reported, running, undefined, nextId, txVars>>

stop_listening ==
    /\ InHandler /\ ~stop
    /\ stop' = TRUE
    /\ UNCHANGED <<batch, reported, running, undefined, nextId, listeners, txVars, kernelVars>>

\* Mutated form of HandlerReturns: process() returns a copy of the activity
\* that was made before the handler ran.
HandlerReturns_StaleCopy ==
    /\ InHandler /\ ~InOwnTx
    /\ running' = None /\ stop' = FALSE
    /\ reported' = [reported EXCEPT ![running] = {}]
    /\ UNCHANGED <<batch, undefined, nextId, listeners, txVars, kernelVars>>

\* process() returns and the entry is asked for its id, to be erased, when the
\* handler wanted that.  There is no EPOLL_CTL_DEL: the interest list is left to
\* the closing of the descriptor.  Otherwise the entry is not looked at again.
HandlerReturns ==
    /\ InHandler /\ ~InOwnTx
    /\ \/ stop /\ running \notin listeners /\ Undefined
       \/ /\ stop => running \in listeners
          /\ running' = None /\ stop' = FALSE
          /\ reported' = [reported EXCEPT ![running] = {}]
          /\ IF stop THEN Destroy({running}, {}) ELSE UNCHANGED <<listeners, kernelVars>>
          /\ UNCHANGED <<batch, undefined, nextId, txVars>>

\* An exception leaves wait_for_and_distpatch_events: the rest of the batch is
\* dropped, and so is the request to stop listening.
HandlerThrows ==
    /\ HandlersThrow
    /\ InHandler /\ ~InOwnTx
    /\ running' = None /\ stop' = FALSE
    /\ batch' = {}
    /\ reported' = [i \in Ids |-> {}]
    /\ UNCHANGED <<undefined, nextId, listeners, txVars, kernelVars>>

--------------------------------------------------------------------------------
(* What handlers do to their own descriptor, and what the world does.        *)

Consumes(flag) ==
    /\ InHandler
    /\ child[running] = "not_a_pidfd"
    /\ flag \in ready[running] \cap {"in", "out"}
    /\ ready' = [ready EXCEPT ![running] = @ \ {flag}]
    /\ UNCHANGED <<registered, mask, open, child, nextId, listeners, loopVars, txVars>>

\* proc_mgmt::wait on the pidfd: the process has exited and is reaped.
Reaps == /\ HandlersReap
         /\ InHandler
         /\ child[running] = "zombie"
         /\ child' = [child EXCEPT ![running] = "reaped"]
         /\ UNCHANGED <<registered, mask, open, ready, nextId, listeners, loopVars, txVars>>

PeerActs(i, flag) ==
    /\ i \in open /\ child[i] = "not_a_pidfd"
    /\ flag \notin ready[i]
    /\ ready' = [ready EXCEPT ![i] = @ \cup {flag}]
    /\ UNCHANGED <<registered, mask, open, child, nextId, listeners, loopVars, txVars>>

ChildExits(i) ==
    /\ i \in open /\ child[i] = "alive"
    /\ child' = [child EXCEPT ![i] = "zombie"]
    /\ ready' = [ready EXCEPT ![i] = @ \cup {"in"}]
    /\ UNCHANGED <<registered, mask, open, nextId, listeners, loopVars, txVars>>

Environment == /\ ~undefined
               /\ \E i \in Ids : \/ \E flag \in PeerFlags : PeerActs(i, flag)
                                 \/ ChildExits(i)

\* The model does not say how an undefined program goes on.
Unknown == undefined /\ UNCHANGED vars

Handler == \/ \E i \in Ids : BeginHandler(i)
           \/ \E status \in Statuses : update_listening_status(status)
           \/ stop_listening
           \/ \E flag \in Flags : Consumes(flag)
           \/ Reaps
           \/ HandlerReturns
           \/ HandlerThrows

Next == \/ Add \/ TxBegin \/ TxAdd \/ Commit \/ Rollback
        \/ \E i \in Ids : Remove(i)
        \/ \E S \in SUBSET Ids : Wait(S)
        \/ Handler
        \/ Environment
        \/ Unknown

Spec == Init /\ [][Next]_vars

\* The loop calls wait_for_and_distpatch_events again and again, a handler does
\* finitely much, scopes are left, and the kernel, which moves what it reported to
\* the end of its ready list, leaves no ready descriptor out for ever.
Fairness == /\ \A i \in Ids : /\ SF_vars(\E S \in SUBSET Ids : i \in S /\ Wait(S))
                              /\ WF_vars(BeginHandler(i))
            /\ SF_vars(HandlerReturns)
            /\ WF_vars(Commit \/ Rollback)

FairSpec == Spec /\ Fairness

--------------------------------------------------------------------------------
\* The pointers that dangle: events of the rest of the batch, and the running
\* handler, whose entries are gone.
Dangling == (batch \cup ({running} \ {None})) \ listeners

\* Nothing but remove(), called by a handler, makes a pointer dangle, and that
\* of the listener it names only.  Whatever else is erased while a batch is being
\* dispatched (by the loop, by a rollback, by an add() that fails) has no event
\* in it, and epoll_wait reports nothing that was erased before.
OnlyRemoveDangles ==
    [][\A i \in Dangling' \ Dangling : running # None /\ Remove(i)]_vars

\* The kernel's interest list and m_listeners agree: nothing is left in the
\* interest list of what was erased (its data.ptr would dangle at the next
\* wait) and no entry sits in m_listeners that can never be called.
InterestMatchesListeners == registered = listeners

\* The descriptors that came in through add() are open exactly as long as
\* their entries exist.
NoDescriptorLeak == open = listeners

\* A process whose pidfd was handed to the monitor is dead and reaped as soon
\* as its entry is gone, whichever way it went (remove, rollback, failed add,
\* stop_listening).
NoOrphans == \A i \in Ids : child[i] \in {"alive", "zombie"} => i \in listeners

\* Once an entry is gone its id never comes back: an id that a caller kept can
\* go stale but never names somebody else's listener.
IdsNeverReused ==
    [][\A i \in Ids : i < nextId /\ i \notin listeners => i \notin listeners']_vars

\* A transaction that ends with a rollback leaves nothing behind that it added,
\* in m_listeners, in the interest list or among the open descriptors, and
\* touches no listener that it did not add; one that ends with commit()
\* removes nothing.
TransactionIsAtomic ==
    [][tx # "none" /\ tx' = "none" =>
          \/ listeners' = listeners /\ tx = "open"
          \/ /\ txIds \cap (listeners' \cup registered' \cup open') = {}
             /\ listeners' = listeners \ txIds]_vars

\* Every listener with readiness that it asked for is called, unless the
\* readiness or the listener goes away first, also when there are more ready
\* descriptors than events fit in one call of epoll_wait.  A program that has
\* used an erased entry promises nothing.
ReadyIsServed ==
    \A i \in Ids : (i \in listeners /\ Events(i) # {})
                      ~> (running = i \/ i \notin listeners \/ Events(i) = {} \/ undefined)

\* stop_listening() takes effect: the entry goes away.
StopTakesEffect ==
    \A i \in Ids : (running = i /\ stop) ~> i \notin listeners

\* The monitor implements the abstract one: what it promises to callers, and the
\* one thing that ends the promise.
Abstract == INSTANCE ActivityMonitor
                WITH used <- 0 .. nextId - 1, active <- listeners, due <- batch,
                     serving <- running, broken <- undefined
AbstractSpec == Abstract!Spec
================================================================================
