---------------------------------- MODULE Host ---------------------------------
(***************************************************************************)
(* The host: client_process_repository::load starts a client and hands its *)
(* log pipe, its control socket and its pidfd to the event loop (module    *)
(* EpollInstance) in a transaction; server_activity_handler accepts        *)
(* connections. All of it runs in the thread of the loop: load outside     *)
(* dispatch, the rest in handlers. spawn does what SpawnContract says. The *)
(* handlers of a client are placeholders in the code: they do nothing.     *)
(***************************************************************************)
EXTENDS EpollInstance

CONSTANTS Clients,                \* the calls of load
          Connections,            \* that others make to the server socket
          MayBeKilled, MayBeLost  \* see SpawnContract

ASSUME HostAssumption == {"read", "write"} \subseteq Statuses /\ PeerFlags = Flags

VARIABLES
    outcome, process, launched,   \* of spawn, see SpawnContract
    at,         \* how far the load of each client is
    owned,      \* the descriptors that objects of load own in the host
    holds,      \* those that the process of the client has
    idOf,       \* the ids of a client's listeners, or None
    server,     \* the id of the server socket, or None
    accepted,   \* the running handler has accepted a connection
    connection  \* "kept" in m_clients, or "closed" by the host

contractVars == <<outcome, process, launched>>
loadVars == <<at, owned, holds, idOf>>
serverVars == <<server, accepted, connection>>
hostVars == <<vars, contractVars, loadVars, serverVars>>

Spawn == INSTANCE SpawnContract WITH Callers <- Clients

Listened == {"log_read", "socket_a", "process"}
ClientEnds == {"log_write", "socket_b"}
Phases == {"unloaded", "piped", "spawning", "config", "loaded", "failed"}

HostTypeOK ==
    /\ TypeOK
    /\ outcome \in [Clients -> {"none", "ok", "launch_error", "error", "released"}]
    /\ process \in [Clients -> {"none", "held", "running", "dead", "gone"}]
    /\ launched \subseteq Clients
    /\ at \in [Clients -> Phases]
    /\ owned \in [Clients -> SUBSET (Listened \cup ClientEnds)]
    /\ holds \in [Clients -> SUBSET (Listened \cup ClientEnds)]
    /\ idOf \in [Clients -> [Listened -> Ids \cup {None}]]
    /\ server \in Ids \cup {None} /\ accepted \in BOOLEAN
    /\ connection \in [Connections -> {"none", "pending", "kept", "closed"}]

HostInit == /\ Init /\ Spawn!Init
            /\ at = [c \in Clients |-> "unloaded"]
            /\ owned = [c \in Clients |-> {}] /\ holds = [c \in Clients |-> {}]
            /\ idOf = [c \in Clients |-> [e \in Listened |-> None]]
            /\ server = None /\ accepted = FALSE
            /\ connection = [k \in Connections |-> "none"]

Loading == \E c \in Clients : at[c] \in {"piped", "spawning", "config"}
Goto(c, phase) == at' = [at EXCEPT ![c] = phase]
Owns(c, ends) == owned' = [owned EXCEPT ![c] = ends]
Holds(c, ends) == holds' = [holds EXCEPT ![c] = ends]

--------------------------------------------------------------------------------
(* load                                                                      *)

\* When pipe() fails, load throws as if it had not been called.
MakePipe(c) == /\ at[c] = "unloaded" /\ ~Loading /\ Idle /\ tx = "none"
               /\ Goto(c, "piped")
               /\ Owns(c, {"log_read", "log_write"})
               /\ UNCHANGED <<vars, contractVars, holds, idOf, serverVars>>

\* The pair; the owner of socket_b moves on to fds_to_keep, which lives until
\* load ends, that of the write end to the temporary io_redirection.
MakeSockets(c) == /\ at[c] = "piped"
                  /\ Goto(c, "spawning")
                  /\ Owns(c, owned[c] \cup {"socket_a", "socket_b"})
                  /\ UNCHANGED <<vars, contractVars, holds, idOf, serverVars>>

SocketsFail(c) == /\ at[c] = "piped"
                  /\ Goto(c, "failed")
                  /\ Owns(c, {})
                  /\ UNCHANGED <<vars, contractVars, holds, idOf, serverVars>>

\* The process inherits everything; its program gets stderr and socket_b (DoExec).
SpawnRuns(c) == /\ at[c] = "spawning"
                /\ \/ Spawn!Create(c) /\ Holds(c, owned[c])
                   \/ Spawn!Launch(c) /\ Holds(c, owned[c] \cap ClientEnds)
                /\ UNCHANGED <<vars, at, owned, idOf, serverVars>>

\* The io_redirection goes away with its write end, the transaction begins.
SpawnReturns(c) == /\ at[c] = "spawning"
                   /\ Spawn!Succeed(c)
                   /\ TxBegin
                   /\ Goto(c, "config")
                   /\ Owns(c, (owned[c] \ {"log_write"}) \cup {"process"})
                   /\ UNCHANGED <<holds, idOf, serverVars>>

SpawnThrows(c) == /\ at[c] = "spawning"
                  /\ Spawn!FailToLaunch(c) \/ Spawn!Fail(c)
                  /\ Goto(c, "failed")
                  /\ Owns(c, {})
                  /\ UNCHANGED <<vars, holds, idOf, serverVars>>

\* The order of the calls of add(), and their arguments.
Before == [log_read |-> {}, socket_a |-> {"log_read"}, process |-> {"log_read", "socket_a"}]
IsNext(c, e) == e \in owned[c] /\ Before[e] \cap owned[c] = {}
Kind(e) == IF e = "process" THEN "alive" ELSE "not_a_pidfd"

\* Mutated form of StatusOf: that of the socket for the pidfd, too.
StatusOf_WritePidfd(e) == [log_read |-> "read", socket_a |-> "write", process |-> "write"][e]
StatusOf(e) == [log_read |-> "read", socket_a |-> "write", process |-> "read"][e]

\* The owner moves into the event loop.
AddSucceedsFor(c, e) == /\ at[c] = "config" /\ tx = "open" /\ IsNext(c, e)
                        /\ AddSucceeds(Kind(e), StatusOf(e))
                        /\ txIds' = txIds \cup {nextId}
                        /\ idOf' = [idOf EXCEPT ![c][e] = nextId]
                        /\ Owns(c, owned[c] \ {e})
                        /\ UNCHANGED <<tx, txOwner, contractVars, at, holds, serverVars>>

\* The end of the owner of a pidfd is the end of the process.
EndsWithHandle(c, e) == IF e = "process" THEN Spawn!Release(c) /\ Holds(c, {})
                        ELSE UNCHANGED <<contractVars, holds>>

AddFailsFor(c, e) == /\ at[c] = "config" /\ tx = "open" /\ IsNext(c, e)
                     /\ AddFails(Kind(e))
                     /\ tx' = "failed"
                     /\ Owns(c, owned[c] \ {e})
                     /\ EndsWithHandle(c, e)
                     /\ UNCHANGED <<txOwner, txIds, at, idOf, serverVars>>

\* Mutated form of LoadReturns: fds_to_keep gives up socket_b, as make_connection does.
LoadReturns_ReleasesSocket(c) ==
    /\ at[c] = "config" /\ owned[c] \cap Listened = {}
    /\ Commit
    /\ Goto(c, "loaded")
    /\ UNCHANGED <<contractVars, owned, holds, idOf, serverVars>>

\* The transaction is committed, fds_to_keep closes socket_b.
LoadReturns(c) == /\ at[c] = "config" /\ owned[c] \cap Listened = {}
                  /\ Commit
                  /\ Goto(c, "loaded")
                  /\ Owns(c, {})
                  /\ UNCHANGED <<contractVars, holds, idOf, serverVars>>

\* Mutated form of LoadThrows: the handle of the process is not destroyed.
LoadThrows_KeepsProcess(c) == /\ at[c] = "config" /\ tx = "failed"
                              /\ Rollback
                              /\ Goto(c, "failed")
                              /\ Owns(c, {})
                              /\ UNCHANGED <<contractVars, holds, idOf, serverVars>>

\* The transaction removes what it added, the locals end.
LoadThrows(c) == /\ at[c] = "config" /\ tx = "failed"
                 /\ Rollback
                 /\ Goto(c, "failed")
                 /\ Owns(c, {})
                 /\ EndsWithHandle(c, IF "process" \in owned[c] THEN "process" ELSE "log_read")
                 /\ UNCHANGED <<idOf, serverVars>>

Load(c) == \/ MakeSockets(c) \/ SocketsFail(c)
           \/ SpawnRuns(c) \/ SpawnReturns(c) \/ SpawnThrows(c)
           \/ \E e \in Listened : AddSucceedsFor(c, e) \/ AddFailsFor(c, e)
           \/ LoadReturns(c) \/ LoadThrows(c)

--------------------------------------------------------------------------------
(* The server socket; nothing in the host makes one yet.                     *)

\* make_server_socket, and an add() of its result. Listening begins before the
\* first client is loaded. If socket(), bind() or listen() fails, nothing that a
\* property looks at changes.
ServerStarts == /\ \A c \in Clients : at[c] = "unloaded"
                /\ server = None /\ Idle /\ tx = "none"
                /\ AddSucceeds("not_a_pidfd", "read")
                /\ server' = nextId
                /\ UNCHANGED <<txVars, contractVars, loadVars, accepted, connection>>

\* make_connection by another process: connect() fails while nobody listens.
Connect(k) == /\ server # None /\ connection[k] = "none"
              /\ connection' = [connection EXCEPT ![k] = "pending"]
              /\ IF "in" \in ready[server] THEN UNCHANGED vars ELSE PeerActs(server, "in")
              /\ UNCHANGED <<contractVars, loadVars, server, accepted>>

Pending == {k \in Connections : connection[k] = "pending"}

\* Mutated form of accept: the socket does not report the connections that are left.
accept_EdgeTriggered(k) == k \in Pending /\ Consumes("in")

\* The socket stays ready as long as connections are left. There is one, so that
\* it does not block; were it to throw, the loop would do as in HandlerThrows.
accept(k) == /\ k \in Pending
             /\ IF Pending = {k} THEN Consumes("in") ELSE UNCHANGED vars

\* m_client_id is never incremented: every connection but the first is dropped.
emplace(k) == connection' = [connection EXCEPT ![k] =
                  IF \E j \in Connections : connection[j] = "kept" THEN "closed" ELSE "kept"]

can_read(status) == status \in {"read", "read_or_write"}

\* server_activity_handler::handle_event: one connection for each event.
Accept(k) == /\ running # None /\ running = server /\ ~accepted
             /\ can_read(epoll_event_to_activity_status(reported[server]))
             /\ accept(k) /\ emplace(k)
             /\ accepted' = TRUE
             /\ UNCHANGED <<contractVars, loadVars, server>>

--------------------------------------------------------------------------------
(* The loop, and the world outside.                                          *)

Dispatch(S) == /\ ~Loading
               /\ Wait(S)
               /\ UNCHANGED <<contractVars, loadVars, serverVars>>

Call(i) == /\ BeginHandler(i)
           /\ accepted' = FALSE
           /\ UNCHANGED <<contractVars, loadVars, server, connection>>

IdsOf(c) == {idOf[c][e] : e \in Listened} \ {None}

\* Mutated form of Finish: the handler of the process removes all that the loop
\* listens to for its client.
Finish_RemovesClient ==
    /\ running # None /\ running = server => accepted
    /\ running' = None /\ stop' = FALSE
    /\ reported' = [reported EXCEPT ![running] = {}]
    /\ LET S == UNION {IdsOf(c) : c \in {d \in Clients : idOf[d]["process"] = running}}
       IN  Destroy(S, S)
    /\ UNCHANGED <<batch, undefined, nextId, txVars, contractVars, loadVars, serverVars>>

Finish == /\ running = server => accepted
          /\ HandlerReturns
          /\ UNCHANGED <<contractVars, loadVars, serverVars>>

ProcessDies(c) == /\ Spawn!Die(c)
                  /\ Holds(c, {})
                  /\ UNCHANGED <<vars, at, owned, idOf, serverVars>>

\* What the kernel finds at the host's end e: the end of the stream when nobody
\* has the other end, room in the control socket, which nobody writes to.
Held(c, e) == e \in owned[c] \cup holds[c]
Readiness(c, e) ==
    CASE e = "log_read" -> IF Held(c, "log_write") THEN {} ELSE {"hup"}
      [] e = "socket_a" -> IF Held(c, "socket_b") THEN {"out"} ELSE {"out", "hup"}
      [] OTHER -> IF process[c] = "dead" THEN {"in"} ELSE {}

KernelReports(c, e) ==
    /\ idOf[c][e] # None
    /\ \E flag \in Readiness(c, e) \ ready[idOf[c][e]] :
          IF e = "process" THEN ChildExits(idOf[c][e]) ELSE PeerActs(idOf[c][e], flag)
    /\ UNCHANGED <<contractVars, loadVars, serverVars>>

HostNext == \/ \E c \in Clients : \/ MakePipe(c) \/ Load(c) \/ ProcessDies(c)
                                  \/ \E e \in Listened : KernelReports(c, e)
            \/ ServerStarts
            \/ \E k \in Connections : Connect(k) \/ Accept(k)
            \/ \E S \in SUBSET Ids : Dispatch(S)
            \/ \E i \in Ids : Call(i)
            \/ Finish

HostSpec == HostInit /\ [][HostNext]_hostVars

\* That of EpollInstance; a load that has begun goes on (spawn comes back, see
\* SpawnReturns of module Spawn), and the kernel reports what is ready.
HostFairness == /\ \A i \in Ids :
                      /\ SF_hostVars(\E S \in SUBSET Ids : i \in S /\ Dispatch(S))
                      /\ WF_hostVars(Call(i))
                /\ SF_hostVars(Finish)
                /\ \A k \in Connections : WF_hostVars(Accept(k))
                /\ \A c \in Clients : WF_hostVars(Load(c))
                /\ \A c \in Clients, e \in Listened : WF_hostVars(KernelReports(c, e))

HostFairSpec == HostSpec /\ HostFairness

--------------------------------------------------------------------------------
HasProcess(c) == process[c] \in {"held", "running", "dead"}

\* A client is loaded completely, with three listeners and its process, or not at
\* all: whichever step of load fails, neither a listener nor a process is left
\* (other than one that spawn itself has lost), and no other client is touched.
LoadIsAtomic ==
    \A c \in Clients :
        /\ at[c] = "loaded" => /\ IdsOf(c) \subseteq listeners /\ None \notin {idOf[c][e] : e \in Listened}
                               /\ outcome[c] = "ok" /\ HasProcess(c)
        /\ at[c] = "failed" => /\ IdsOf(c) \cap listeners = {}
                               /\ HasProcess(c) => outcome[c] = "error" /\ MayBeLost

\* When the process of a client dies, the loop finds the end of its log and of
\* its control socket: once load is over nobody else holds the other ends.
EndIsVisible ==
    \A c \in Clients : at[c] = "loaded" /\ process[c] = "dead" =>
        "hup" \in Readiness(c, "log_read") \cap Readiness(c, "socket_a")

\* The death of a client reaches the handler of the repository, although control
\* sockets are always ready and no handler ever takes anything away.
DeathIsReported ==
    \A c \in Clients : at[c] = "loaded" /\ process[c] = "dead" ~> running = idOf[c]["process"]

\* The host keeps the rule of ActivityMonitor that nothing in EpollInstance enforces:
\* in no order of loads that fail, deaths and connections is a listener removed while
\* its event waits to be dispatched or its handler runs.
RemovesNothingDue == Dangling = {} /\ ~undefined

\* Each connection is accepted, although a handler accepts one at a time; it is
\* kept or closed, and not lost.
ConnectionsAreAnswered ==
    \A k \in Connections : connection[k] = "pending" ~> connection[k] \in {"kept", "closed"}
================================================================================
