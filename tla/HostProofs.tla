------------------------------ MODULE HostProofs -------------------------------
(***************************************************************************)
(* Proofs about Host, for every number of clients, connections and ids.    *)
(* The host runs the event loop and spawn as their modules describe them,  *)
(* so that the theorems of EpollInstanceProofs hold in it; load is atomic. *)
(***************************************************************************)
EXTENDS Host, EpollInstanceProofs

LoadingPhases == {"piped", "spawning", "config"}

\* One load at a time, outside dispatch; its transaction is the only one, and
\* what that has added is listened for. No handler asks to stop.
Schedule ==
    /\ ~stop
    /\ Loading => Idle
    /\ \A c \in Clients : at[c] = "config" => tx # "none" /\ txOwner = running
    /\ tx # "none" => \E c \in Clients : at[c] = "config"
    /\ \A c, d \in Clients : at[c] \in LoadingPhases /\ at[d] \in LoadingPhases => c = d
    /\ tx = "none" => txIds = {}
    /\ txIds \subseteq listeners

LoadTypes ==
    /\ at \in [Clients -> Phases]
    /\ owned \in [Clients -> SUBSET (Listened \cup ClientEnds)]
    /\ holds \in [Clients -> SUBSET (Listened \cup ClientEnds)]
    /\ idOf \in [Clients -> [Listened -> Ids \cup {None}]]

SpawnTypes ==
    /\ outcome \in [Clients -> {"none", "ok", "launch_error", "error", "released"}]
    /\ process \in [Clients -> {"none", "held", "running", "dead", "gone"}]
    /\ launched \subseteq Clients

ServerTypes ==
    /\ server \in Ids \cup {None} /\ accepted \in BOOLEAN
    /\ connection \in [Connections -> {"none", "pending", "kept", "closed"}]

\* What is known of a client in each phase of its load.
ClientKnown(c) ==
    /\ at[c] \in {"unloaded", "piped"} => outcome[c] = "none" /\ process[c] = "none" /\ c \notin launched
    /\ at[c] = "spawning" => /\ outcome[c] = "none" /\ process[c] # "gone"
                             /\ c \in launched => process[c] \in {"running", "dead"}
    /\ at[c] = "piped" => "log_read" \in owned[c]
    /\ at[c] = "spawning" => {"log_read", "socket_a"} \subseteq owned[c]
    /\ at[c] \in {"unloaded", "piped", "spawning"} => IdsOf(c) = {}
    /\ at[c] = "config" =>
          /\ IdsOf(c) \subseteq txIds
          /\ IF tx = "open" \/ "process" \in owned[c] THEN outcome[c] = "ok" /\ HasProcess(c)
             ELSE outcome[c] = "released" /\ process[c] = "gone"
          /\ tx = "open" => \A e \in Listened : e \in owned[c] \/ idOf[c][e] # None
          /\ tx = "open" => "process" \in owned[c] \/ owned[c] \cap Listened = {}
    /\ at[c] = "loaded" => /\ outcome[c] = "ok" /\ HasProcess(c)
                           /\ \A e \in Listened : idOf[c][e] # None
                           /\ IdsOf(c) \subseteq listeners \ txIds
                           /\ owned[c] = {}
    /\ at[c] = "failed" => /\ IdsOf(c) \cap listeners = {}
                           /\ HasProcess(c) => outcome[c] = "error" /\ MayBeLost
                           /\ outcome[c] # "ok"
    /\ IdsOf(c) \subseteq 0 .. nextId - 1
    /\ process[c] \in {"dead", "gone"} => holds[c] = {}

HostIInv == /\ IInv /\ RemovesNothingDue /\ Schedule /\ LoadTypes /\ SpawnTypes /\ ServerTypes
            /\ \A c \in Clients : ClientKnown(c)

--------------------------------------------------------------------------------
(* Every step of the host is one of the event loop.                          *)

LEMMA LoadStepsRunLoop ==
    ASSUME HostIInv, NEW c \in Clients, MakePipe(c) \/ Load(c) PROVE [Next]_vars
<1>1. CASE \/ MakePipe(c) \/ MakeSockets(c) \/ SocketsFail(c) \/ SpawnRuns(c) \/ SpawnThrows(c)
  BY <1>1 DEF MakePipe, MakeSockets, SocketsFail, SpawnRuns, SpawnThrows
<1>2. CASE SpawnReturns(c)
  BY <1>2 DEF SpawnReturns, Next
<1>3. ASSUME NEW e \in Listened, AddSucceedsFor(c, e) PROVE TxAdd
  <2>1. CallerRuns /\ InOwnTx
    BY <1>3 DEF AddSucceedsFor, HostIInv, Schedule, Loading, LoadingPhases, Idle, CallerRuns, InOwnTx
  <2>2. Kind(e) \in Kinds /\ StatusOf(e) \in Statuses
    BY HostAssumption DEF Kind, Kinds, StatusOf, Listened
  <2> QED
    BY <1>3, <2>1, <2>2 DEF AddSucceedsFor, TxAdd
<1>4. ASSUME NEW e \in Listened, AddFailsFor(c, e) PROVE TxAdd
  <2>1. CallerRuns /\ InOwnTx
    BY <1>4 DEF AddFailsFor, HostIInv, Schedule, Loading, LoadingPhases, Idle, CallerRuns, InOwnTx
  <2>2. Kind(e) \in Kinds
    BY DEF Kind, Kinds
  <2> QED
    BY <1>4, <2>1, <2>2 DEF AddFailsFor, TxAdd
<1>5. CASE LoadReturns(c) \/ LoadThrows(c)
  BY <1>5 DEF LoadReturns, LoadThrows, Next
<1> QED
  BY <1>1, <1>2, <1>3, <1>4, <1>5 DEF Load, Next

LEMMA OtherStepsRunLoop ==
    ASSUME HostIInv,
           \/ \E c \in Clients : ProcessDies(c) \/ \E e \in Listened : KernelReports(c, e)
           \/ ServerStarts
           \/ \E k \in Connections : Connect(k) \/ Accept(k)
           \/ \E S \in SUBSET Ids : Dispatch(S)
           \/ \E i \in Ids : Call(i)
           \/ Finish
    PROVE  [Next]_vars
<1>1. open \subseteq Ids /\ ~undefined
  BY DEF HostIInv, IInv, TypeOK, RemovesNothingDue
<1>2. ASSUME NEW c \in Clients, ProcessDies(c) PROVE UNCHANGED vars
  BY <1>2 DEF ProcessDies
<1>3. ASSUME NEW c \in Clients, NEW e \in Listened, KernelReports(c, e) PROVE Environment
  <2>1. PICK flag \in Readiness(c, e) \ ready[idOf[c][e]] :
           IF e = "process" THEN ChildExits(idOf[c][e]) ELSE PeerActs(idOf[c][e], flag)
    BY <1>3 DEF KernelReports
  <2>2. flag \in PeerFlags
    BY HostAssumption DEF Readiness, Flags
  <2>3. idOf[c][e] \in Ids
    BY <1>1, <2>1 DEF ChildExits, PeerActs
  <2> QED
    BY <1>1, <2>1, <2>2, <2>3 DEF Environment
<1>4. CASE ServerStarts
  <2>1. "read" \in Statuses /\ "not_a_pidfd" \in Kinds
    BY HostAssumption DEF Kinds
  <2> QED
    BY <1>4, <2>1 DEF ServerStarts, Idle, Add, CallerRuns, InOwnTx, Next
<1>5. ASSUME NEW k \in Connections, Connect(k) PROVE [Next]_vars
  <2>1. CASE "in" \in ready[server]
    BY <1>5, <2>1 DEF Connect
  <2>2. CASE PeerActs(server, "in")
    BY <1>1, <2>2, HostAssumption DEF PeerActs, Environment, Next, Flags
  <2> QED
    BY <1>5, <2>1, <2>2 DEF Connect
<1>6. ASSUME NEW k \in Connections, Accept(k) PROVE [Next]_vars
  BY <1>6 DEF Accept, accept, Handler, Next, Flags
<1>7. ASSUME NEW S \in SUBSET Ids, Dispatch(S) PROVE Next
  BY <1>7 DEF Dispatch, Next
<1>8. ASSUME NEW i \in Ids, Call(i) PROVE Next
  BY <1>8 DEF Call, Handler, Next
<1>9. CASE Finish
  BY <1>9 DEF Finish, Handler, Next
<1> QED
  BY <1>2, <1>3, <1>4, <1>5, <1>6, <1>7, <1>8, <1>9 DEF Next

LEMMA StepsRunLoop == ASSUME HostIInv, [HostNext]_hostVars PROVE [Next]_vars
<1>1. CASE UNCHANGED hostVars
  BY <1>1 DEF hostVars
<1> QED
  BY <1>1, LoadStepsRunLoop, OtherStepsRunLoop DEF HostNext

--------------------------------------------------------------------------------
(* The invariant is kept. First what a step leaves alone of a client.        *)

Untouched(d) ==
    /\ at'[d] = at[d] /\ owned'[d] = owned[d] /\ holds'[d] = holds[d] /\ idOf'[d] = idOf[d]
    /\ outcome'[d] = outcome[d] /\ process'[d] = process[d]
    /\ d \in launched' <=> d \in launched
    /\ at[d] = "config" => tx' = tx /\ txIds' = txIds

\* Listeners go away only with the transaction that has added them.
LoopFrame == listeners \ txIds \subseteq listeners' /\ txIds' \subseteq txIds \cup {nextId}

LEMMA UntouchedIsKnown ==
    ASSUME HostIInv, [Next]_vars, LoopFrame, NEW d \in Clients, Untouched(d)
    PROVE  ClientKnown(d)'
<1>1. /\ nextId' \in {nextId, nextId + 1} /\ listeners' \subseteq listeners \cup {nextId}
  BY ListenersChange DEF HostIInv
<1>2. nextId \in Nat /\ IdsOf(d) \subseteq 0 .. nextId - 1
  BY BoundAssumption DEF HostIInv, IInv, TypeOK, ClientKnown
<1>3. nextId \notin IdsOf(d) /\ IdsOf(d) \subseteq 0 .. nextId' - 1
  BY <1>1, <1>2
<1>4. IdsOf(d)' = IdsOf(d) /\ (HasProcess(d)' <=> HasProcess(d))
  BY DEF Untouched, IdsOf, HasProcess
<1>5. ClientKnown(d)
  BY DEF HostIInv
<1>6. at[d] = "loaded" => IdsOf(d) \subseteq listeners' \ txIds'
  BY <1>3, <1>5 DEF ClientKnown, LoopFrame
<1>7. at[d] = "failed" => IdsOf(d) \cap listeners' = {}
  BY <1>1, <1>3, <1>5 DEF ClientKnown
<1> QED
  BY <1>3, <1>4, <1>5, <1>6, <1>7 DEF ClientKnown, Untouched

LEMMA InitHostIInv == HostInit => HostIInv
<1> SUFFICES ASSUME HostInit PROVE HostIInv
  OBVIOUS
<1>1. IInv
  BY InitIInv DEF HostInit
<1>2. Schedule
  BY DEF HostInit, Init, Schedule, Loading, LoadingPhases
<1>3. LoadTypes /\ SpawnTypes /\ ServerTypes
  BY DEF HostInit, Spawn!Init, LoadTypes, SpawnTypes, ServerTypes, Phases
<1>4. ASSUME NEW c \in Clients PROVE ClientKnown(c)
  <2>1. IdsOf(c) = {}
    BY DEF HostInit, IdsOf
  <2> QED
    BY <2>1 DEF HostInit, Spawn!Init, ClientKnown
<1>5. RemovesNothingDue
  BY DEF HostInit, Init, RemovesNothingDue, Dangling
<1> QED
  BY <1>1, <1>2, <1>3, <1>4, <1>5 DEF HostIInv

\* Steps of load before its transaction, and the end of a process: the loop and
\* the clients that are loaded do not notice.
LEMMA QuietSteps ==
    ASSUME HostIInv, NEW c \in Clients,
           \/ MakePipe(c) \/ MakeSockets(c) \/ SocketsFail(c) \/ SpawnRuns(c) \/ SpawnThrows(c)
           \/ ProcessDies(c)
    PROVE  /\ UNCHANGED vars /\ UNCHANGED <<idOf, serverVars>>
           /\ LoadTypes' /\ SpawnTypes' /\ ClientKnown(c)'
           /\ \A d \in Clients \ {c} : Untouched(d)
<1> USE DEF Goto, Owns, Holds, Spawn!Becomes, Spawn!Ends
<1>1. LoadTypes /\ SpawnTypes /\ ClientKnown(c)
  BY DEF HostIInv
<1>2. UNCHANGED vars /\ UNCHANGED <<idOf, serverVars>>
  BY DEF MakePipe, MakeSockets, SocketsFail, SpawnRuns, SpawnThrows, ProcessDies
<1>3. UNCHANGED <<nextId, listeners, tx, txIds>>
  BY <1>2 DEF vars, txVars
<1>4. IdsOf(c)' = IdsOf(c)
  BY <1>2 DEF IdsOf
<1>5. CASE MakePipe(c)
  <2>1. /\ at' = [at EXCEPT ![c] = "piped"] /\ owned' = [owned EXCEPT ![c] = {"log_read", "log_write"}]
        /\ UNCHANGED <<contractVars, holds>> /\ at[c] = "unloaded"
    BY <1>5 DEF MakePipe
  <2>2. LoadTypes' /\ SpawnTypes'
    BY <1>1, <1>2, <2>1 DEF LoadTypes, SpawnTypes, Phases, Listened, ClientEnds, contractVars
  <2>3. ClientKnown(c)'
    BY <1>1, <1>3, <1>4, <2>1 DEF ClientKnown, LoadTypes, HasProcess, contractVars
  <2> QED
    BY <1>1, <1>2, <1>3, <2>1, <2>2, <2>3 DEF Untouched, LoadTypes, contractVars
<1>6. CASE MakeSockets(c)
  <2>1. /\ at' = [at EXCEPT ![c] = "spawning"]
        /\ owned' = [owned EXCEPT ![c] = owned[c] \cup {"socket_a", "socket_b"}]
        /\ UNCHANGED <<contractVars, holds>> /\ at[c] = "piped"
    BY <1>6 DEF MakeSockets
  <2>2. LoadTypes' /\ SpawnTypes'
    BY <1>1, <1>2, <2>1 DEF LoadTypes, SpawnTypes, Phases, Listened, ClientEnds, contractVars
  <2>3. ClientKnown(c)'
    BY <1>1, <1>3, <1>4, <2>1 DEF ClientKnown, LoadTypes, HasProcess, contractVars
  <2> QED
    BY <1>1, <1>2, <1>3, <2>1, <2>2, <2>3 DEF Untouched, LoadTypes, contractVars
<1>7. CASE SocketsFail(c)
  <2>1. /\ at' = [at EXCEPT ![c] = "failed"] /\ owned' = [owned EXCEPT ![c] = {}]
        /\ UNCHANGED <<contractVars, holds>> /\ at[c] = "piped"
    BY <1>7 DEF SocketsFail
  <2>2. LoadTypes' /\ SpawnTypes'
    BY <1>1, <1>2, <2>1 DEF LoadTypes, SpawnTypes, Phases, Listened, ClientEnds, contractVars
  <2>3. ClientKnown(c)'
    BY <1>1, <1>3, <1>4, <2>1 DEF ClientKnown, LoadTypes, HasProcess, contractVars
  <2> QED
    BY <1>1, <1>2, <1>3, <2>1, <2>2, <2>3 DEF Untouched, LoadTypes, contractVars
<1>8. CASE SpawnRuns(c)
  <2>1. UNCHANGED <<at, owned, outcome>> /\ at[c] = "spawning"
    BY <1>8 DEF SpawnRuns, Spawn!Create, Spawn!Launch
  <2>2. \/ process' = [process EXCEPT ![c] = "held"] /\ launched' = launched /\ process[c] = "none"
        \/ process' = [process EXCEPT ![c] = "running"] /\ launched' = launched \cup {c}
    BY <1>8 DEF SpawnRuns, Spawn!Create, Spawn!Launch
  <2>3. \E ends \in SUBSET (Listened \cup ClientEnds) : holds' = [holds EXCEPT ![c] = ends]
    BY <1>1, <1>8 DEF SpawnRuns, LoadTypes
  <2>4. LoadTypes' /\ SpawnTypes'
    BY <1>1, <1>2, <2>1, <2>2, <2>3 DEF LoadTypes, SpawnTypes
  <2>5. ClientKnown(c)'
    BY <1>1, <1>3, <1>4, <2>1, <2>2 DEF ClientKnown, LoadTypes, SpawnTypes, HasProcess
  <2> QED
    BY <1>1, <1>2, <1>3, <2>1, <2>2, <2>3, <2>4, <2>5 DEF Untouched, LoadTypes, SpawnTypes
<1>9. CASE SpawnThrows(c)
  <2>1. /\ at' = [at EXCEPT ![c] = "failed"] /\ owned' = [owned EXCEPT ![c] = {}]
        /\ UNCHANGED <<launched, holds>> /\ at[c] = "spawning"
    BY <1>9 DEF SpawnThrows, Spawn!FailToLaunch, Spawn!Fail
  <2>2. \/ /\ process' = [process EXCEPT ![c] = "gone"] /\ process[c] = "dead"
           /\ outcome' = [outcome EXCEPT ![c] = "launch_error"]
        \/ /\ process' = process /\ (process[c] = "none" \/ MayBeLost)
           /\ outcome' = [outcome EXCEPT ![c] = "error"]
    BY <1>9 DEF SpawnThrows, Spawn!FailToLaunch, Spawn!Fail
  <2>3. LoadTypes' /\ SpawnTypes'
    BY <1>1, <1>2, <2>1, <2>2 DEF LoadTypes, SpawnTypes, Phases
  <2>4. ClientKnown(c)'
    BY <1>1, <1>3, <1>4, <2>1, <2>2 DEF ClientKnown, LoadTypes, SpawnTypes, HasProcess
  <2> QED
    BY <1>1, <1>2, <1>3, <2>1, <2>2, <2>3, <2>4 DEF Untouched, LoadTypes, SpawnTypes
<1>10. CASE ProcessDies(c)
  <2>1. /\ UNCHANGED <<at, owned, outcome, launched>> /\ holds' = [holds EXCEPT ![c] = {}]
        /\ process' = [process EXCEPT ![c] = "dead"] /\ process[c] \in {"held", "running"}
    BY <1>10 DEF ProcessDies, Spawn!Die
  <2>2. LoadTypes' /\ SpawnTypes'
    BY <1>1, <1>2, <2>1 DEF LoadTypes, SpawnTypes
  <2>3. process'[c] = "dead" /\ holds'[c] = {} /\ HasProcess(c) /\ HasProcess(c)'
    BY <1>1, <2>1 DEF LoadTypes, SpawnTypes, HasProcess
  <2>4. process[c] \notin {"none", "gone"}
    BY <2>1
  <2>5. ClientKnown(c)'
    BY <1>1, <1>2, <1>3, <1>4, <2>1, <2>3, <2>4 DEF ClientKnown
  <2> QED
    BY <1>1, <1>2, <1>3, <2>1, <2>2, <2>3, <2>5 DEF Untouched, LoadTypes, SpawnTypes
<1> QED
  BY <1>5, <1>6, <1>7, <1>8, <1>9, <1>10
LEMMA TransactionSteps ==
    ASSUME HostIInv, NEW c \in Clients,
           \/ SpawnReturns(c) \/ LoadReturns(c) \/ LoadThrows(c)
           \/ \E e \in Listened : AddSucceedsFor(c, e) \/ AddFailsFor(c, e)
    PROVE  /\ LoopFrame /\ UNCHANGED serverVars
           /\ LoadTypes' /\ SpawnTypes' /\ ClientKnown(c)'
           /\ \A d \in Clients \ {c} : Untouched(d)
<1> USE DEF Goto, Owns, Holds, Spawn!Becomes, Spawn!Ends
<1>1. LoadTypes /\ SpawnTypes /\ ClientKnown(c) /\ nextId \in Nat /\ txIds \subseteq listeners
  BY BoundAssumption DEF HostIInv, Schedule, IInv, TypeOK
<1>2. at[c] \in LoadingPhases
  BY DEF SpawnReturns, LoadReturns, LoadThrows, AddSucceedsFor, AddFailsFor, LoadingPhases
<1>3. \A d \in Clients \ {c} : at[d] # "config"
  BY <1>2 DEF HostIInv, Schedule, LoadingPhases
<1>4. CASE SpawnReturns(c)
  <2>1. /\ at' = [at EXCEPT ![c] = "config"]
        /\ owned' = [owned EXCEPT ![c] = (owned[c] \ {"log_write"}) \cup {"process"}]
        /\ UNCHANGED <<holds, idOf, process, launched, nextId, listeners, txIds, serverVars>>
        /\ at[c] = "spawning" /\ tx' = "open"
        /\ outcome' = [outcome EXCEPT ![c] = "ok"]
        /\ c \in launched \/ process[c] = "dead"
    BY <1>4 DEF SpawnReturns, Spawn!Succeed, TxBegin
  <2>2. LoadTypes' /\ SpawnTypes'
    BY <1>1, <2>1 DEF LoadTypes, SpawnTypes, Phases, Listened, ClientEnds
  <2>3. IdsOf(c)' = {} /\ HasProcess(c)' /\ process'[c] \in {"running", "dead"}
    BY <1>1, <2>1 DEF ClientKnown, IdsOf, HasProcess
  <2>4. at'[c] = "config" /\ outcome'[c] = "ok" /\ Listened \subseteq owned'[c]
        /\ "process" \in owned'[c]
    BY <1>1, <2>1 DEF LoadTypes, SpawnTypes, ClientKnown, Listened
  <2>5. ClientKnown(c)'
    BY <1>1, <2>1, <2>3, <2>4 DEF ClientKnown
  <2> QED
    BY <1>1, <1>3, <2>1, <2>2, <2>5 DEF Untouched, LoadTypes, SpawnTypes, LoopFrame
<1>5. CASE LoadReturns(c)
  <2>1. /\ at' = [at EXCEPT ![c] = "loaded"] /\ owned' = [owned EXCEPT ![c] = {}]
        /\ UNCHANGED <<holds, idOf, contractVars, nextId, listeners, serverVars>>
        /\ at[c] = "config" /\ owned[c] \cap Listened = {} /\ tx = "open" /\ txIds' = {}
    BY <1>5 DEF LoadReturns, Commit, TxEnd
  <2>2. LoadTypes' /\ SpawnTypes'
    BY <1>1, <2>1 DEF LoadTypes, SpawnTypes, Phases, contractVars
  <2>3. IdsOf(c)' = IdsOf(c) /\ HasProcess(c)' /\ outcome[c] = "ok"
    BY <1>1, <2>1 DEF ClientKnown, IdsOf, HasProcess, contractVars
  <2>4. IdsOf(c) \subseteq listeners /\ \A e \in Listened : idOf[c][e] # None
    BY <1>1, <2>1 DEF ClientKnown
  <2>5. at'[c] = "loaded" /\ owned'[c] = {}
    BY <1>1, <2>1 DEF LoadTypes
  <2>6. ClientKnown(c)'
    BY <1>1, <2>1, <2>3, <2>4, <2>5 DEF ClientKnown, contractVars
  <2> QED
    BY <1>1, <1>3, <2>1, <2>2, <2>6 DEF Untouched, LoadTypes, LoopFrame, contractVars
<1>6. CASE LoadThrows(c)
  <2>1. /\ at' = [at EXCEPT ![c] = "failed"] /\ owned' = [owned EXCEPT ![c] = {}]
        /\ UNCHANGED <<idOf, nextId, serverVars>>
        /\ at[c] = "config" /\ tx = "failed" /\ txIds' = {} /\ listeners' = listeners \ txIds
    BY <1>1, <1>6 DEF LoadThrows, Rollback, TxEnd, Destroy
  <2>2. /\ outcome' = [outcome EXCEPT ![c] = "released"]
        /\ process' = [process EXCEPT ![c] = "gone"]
        /\ holds' = [holds EXCEPT ![c] = {}] \/ (holds' = holds /\ holds[c] = {})
        /\ launched' = launched
    <3>1. CASE "process" \in owned[c]
      BY <1>6, <3>1 DEF LoadThrows, EndsWithHandle, Spawn!Release
    <3>2. CASE "process" \notin owned[c]
      <4>1. outcome[c] = "released" /\ process[c] = "gone" /\ holds[c] = {}
        BY <1>1, <2>1, <3>2 DEF ClientKnown
      <4>2. UNCHANGED <<contractVars, holds>>
        BY <1>6, <3>2 DEF LoadThrows, EndsWithHandle
      <4> QED
        BY <1>1, <4>1, <4>2 DEF contractVars, SpawnTypes
    <3> QED
      BY <3>1, <3>2
  <2>3. LoadTypes' /\ SpawnTypes'
    BY <1>1, <2>1, <2>2 DEF LoadTypes, SpawnTypes, Phases
  <2>4. IdsOf(c)' = IdsOf(c) /\ IdsOf(c) \cap listeners' = {}
    BY <1>1, <2>1 DEF ClientKnown, IdsOf
  <2>5. /\ at'[c] = "failed" /\ outcome'[c] = "released" /\ process'[c] = "gone"
        /\ holds'[c] = {} /\ ~HasProcess(c)'
    BY <1>1, <2>1, <2>2 DEF LoadTypes, SpawnTypes, HasProcess
  <2>6. ClientKnown(c)'
    BY <1>1, <2>1, <2>4, <2>5 DEF ClientKnown
  <2> QED
    BY <1>1, <1>3, <2>1, <2>2, <2>3, <2>6 DEF Untouched, LoadTypes, SpawnTypes, LoopFrame
<1>7. ASSUME NEW e \in Listened, AddSucceedsFor(c, e)
      PROVE  /\ LoopFrame /\ UNCHANGED serverVars
             /\ LoadTypes' /\ SpawnTypes' /\ ClientKnown(c)'
             /\ \A d \in Clients \ {c} : Untouched(d)
  <2>1. /\ UNCHANGED <<at, tx, holds, contractVars, serverVars>>
        /\ owned' = [owned EXCEPT ![c] = owned[c] \ {e}]
        /\ idOf' = [idOf EXCEPT ![c][e] = nextId]
        /\ txIds' = txIds \cup {nextId} /\ listeners' = listeners \cup {nextId}
        /\ nextId' = nextId + 1 /\ nextId \in Ids
        /\ at[c] = "config" /\ tx = "open" /\ IsNext(c, e)
    BY <1>1, <1>7, BoundAssumption DEF AddSucceedsFor, AddSucceeds, Ids
  <2>2. LoadTypes' /\ SpawnTypes'
    BY <1>1, <2>1 DEF LoadTypes, SpawnTypes, contractVars
  <2>3. IdsOf(c)' \subseteq IdsOf(c) \cup {nextId}
    BY <1>1, <2>1 DEF IdsOf, LoadTypes
  <2>4. IdsOf(c)' \subseteq txIds' /\ IdsOf(c)' \subseteq 0 .. nextId' - 1
    BY <1>1, <2>1, <2>3 DEF ClientKnown
  <2>5. \A f \in Listened : f \in owned'[c] \/ idOf'[c][f] # None
    BY <1>1, <2>1, NoneAssumption DEF ClientKnown, LoadTypes
  <2>6. "process" \in owned'[c] \/ owned'[c] \cap Listened = {}
    BY <1>1, <2>1 DEF ClientKnown, LoadTypes, IsNext, Before, Listened
  <2>7. outcome'[c] = "ok" /\ HasProcess(c)' /\ at'[c] = "config" /\ tx' = "open"
    BY <1>1, <2>1 DEF ClientKnown, HasProcess, contractVars
  <2>8. ClientKnown(c)'
    BY <1>1, <2>1, <2>4, <2>5, <2>6, <2>7 DEF ClientKnown, contractVars
  <2> QED
    BY <1>1, <1>3, <2>1, <2>2, <2>8 DEF Untouched, LoadTypes, LoopFrame, contractVars
<1>8. ASSUME NEW e \in Listened, AddFailsFor(c, e)
      PROVE  /\ LoopFrame /\ UNCHANGED serverVars
             /\ LoadTypes' /\ SpawnTypes' /\ ClientKnown(c)'
             /\ \A d \in Clients \ {c} : Untouched(d)
  <2>1. /\ UNCHANGED <<at, idOf, txIds, listeners, serverVars>>
        /\ owned' = [owned EXCEPT ![c] = owned[c] \ {e}]
        /\ nextId' = nextId + 1 /\ tx' = "failed"
        /\ at[c] = "config" /\ tx = "open" /\ IsNext(c, e)
    BY <1>8 DEF AddFailsFor, AddFails
  <2>2. \/ /\ e = "process"
           /\ outcome' = [outcome EXCEPT ![c] = "released"]
           /\ process' = [process EXCEPT ![c] = "gone"]
           /\ holds' = [holds EXCEPT ![c] = {}] /\ launched' = launched
        \/ e # "process" /\ UNCHANGED <<contractVars, holds>>
    BY <1>8 DEF AddFailsFor, EndsWithHandle, Spawn!Release
  <2>3. LoadTypes' /\ SpawnTypes'
    BY <1>1, <2>1, <2>2 DEF LoadTypes, SpawnTypes, contractVars
  <2>4. IdsOf(c)' = IdsOf(c) /\ IdsOf(c) \subseteq txIds' /\ IdsOf(c) \subseteq 0 .. nextId' - 1
    BY <1>1, <2>1 DEF ClientKnown, IdsOf
  <2>5. "process" \in owned[c] /\ outcome[c] = "ok" /\ HasProcess(c)
    BY <1>1, <2>1 DEF ClientKnown, IsNext
  <2>6. at'[c] = "config" /\ tx' # "open"
    BY <2>1
  <2>7. ASSUME e = "process" PROVE ClientKnown(c)'
    <3>1. /\ "process" \notin owned'[c] /\ outcome'[c] = "released" /\ process'[c] = "gone"
          /\ holds'[c] = {}
      BY <1>1, <2>1, <2>2, <2>7 DEF LoadTypes, SpawnTypes
    <3> QED
      BY <2>4, <2>6, <3>1 DEF ClientKnown
  <2>8. ASSUME e # "process" PROVE ClientKnown(c)'
    <3>1. /\ "process" \in owned'[c] /\ outcome'[c] = "ok" /\ HasProcess(c)'
          /\ UNCHANGED <<process, holds>>
      BY <1>1, <2>1, <2>2, <2>5, <2>8 DEF LoadTypes, HasProcess, contractVars
    <3> QED
      BY <1>1, <2>4, <2>6, <3>1 DEF ClientKnown
  <2> QED
    BY <1>1, <1>3, <2>1, <2>2, <2>3, <2>7, <2>8
    DEF Untouched, LoadTypes, SpawnTypes, LoopFrame, contractVars
<1> QED
  BY <1>4, <1>5, <1>6, <1>7, <1>8

LEMMA LoopSteps ==
    ASSUME HostIInv,
           \/ ServerStarts \/ Finish
           \/ \E k \in Connections : Connect(k) \/ Accept(k)
           \/ \E S \in SUBSET Ids : Dispatch(S)
           \/ \E i \in Ids : Call(i)
           \/ \E c \in Clients : \E e \in Listened : KernelReports(c, e)
           \/ UNCHANGED hostVars
    PROVE  /\ listeners \subseteq listeners' /\ ServerTypes'
           /\ UNCHANGED <<contractVars, loadVars, txVars, stop>>
<1>1. ServerTypes /\ stop = FALSE /\ nextId \in 0 .. MaxAdds
  BY DEF HostIInv, Schedule, IInv, TypeOK
<1>2. CASE ServerStarts
  <2>1. nextId \in Ids
    BY <1>1, <1>2, BoundAssumption DEF ServerStarts, AddSucceeds, Ids
  <2> QED
    BY <1>1, <1>2, <2>1 DEF ServerStarts, AddSucceeds, ServerTypes, loopVars
<1>3. CASE Finish
  BY <1>1, <1>3 DEF Finish, HandlerReturns, Undefined, kernelVars, ServerTypes, serverVars
<1>4. ASSUME NEW k \in Connections, Connect(k)
      PROVE  /\ listeners \subseteq listeners' /\ ServerTypes'
             /\ UNCHANGED <<contractVars, loadVars, txVars, stop>>
  <2>1. UNCHANGED <<listeners, txVars, stop>>
    BY <1>4 DEF Connect, PeerActs, vars, loopVars
  <2> QED
    BY <1>1, <1>4, <2>1 DEF Connect, ServerTypes
<1>5. ASSUME NEW k \in Connections, Accept(k)
      PROVE  /\ listeners \subseteq listeners' /\ ServerTypes'
             /\ UNCHANGED <<contractVars, loadVars, txVars, stop>>
  <2>1. UNCHANGED <<listeners, txVars, stop>>
    BY <1>5 DEF Accept, accept, Consumes, vars, loopVars
  <2> QED
    BY <1>1, <1>5, <2>1 DEF Accept, emplace, ServerTypes
<1>6. CASE \E S \in SUBSET Ids : Dispatch(S)
  BY <1>1, <1>6 DEF Dispatch, Wait, ServerTypes, serverVars
<1>7. CASE \E i \in Ids : Call(i)
  BY <1>1, <1>7 DEF Call, BeginHandler, Undefined, ServerTypes
<1>8. CASE \E c \in Clients : \E e \in Listened : KernelReports(c, e)
  BY <1>1, <1>8 DEF KernelReports, ChildExits, PeerActs, ServerTypes, serverVars, loopVars
<1>9. CASE UNCHANGED hostVars
  BY <1>1, <1>9 DEF hostVars, vars, loopVars, ServerTypes, serverVars
<1> QED
  BY <1>2, <1>3, <1>4, <1>5, <1>6, <1>7, <1>8, <1>9

--------------------------------------------------------------------------------
(* The schedule of loads: who is in the middle of one when.                  *)

LEMMA QuietStepsKeepSchedule ==
    ASSUME HostIInv, NEW c \in Clients,
           \/ MakePipe(c) \/ MakeSockets(c) \/ SocketsFail(c) \/ SpawnRuns(c) \/ SpawnThrows(c)
           \/ ProcessDies(c)
    PROVE  Schedule'
<1>1. Schedule /\ at \in [Clients -> Phases]
  BY DEF HostIInv, LoadTypes
<1>2. UNCHANGED <<stop, batch, running, undefined, tx, txOwner, txIds, listeners>>
  BY QuietSteps DEF vars, loopVars, txVars
<1>3. CASE MakePipe(c)
  <2>1. at' = [at EXCEPT ![c] = "piped"] /\ ~Loading /\ Idle /\ tx = "none"
    BY <1>3 DEF MakePipe, Goto
  <2> QED
    BY <1>1, <1>2, <2>1 DEF Schedule, Loading, LoadingPhases, Idle
<1>4. CASE \/ MakeSockets(c) \/ SocketsFail(c) \/ SpawnThrows(c)
  <2>1. \/ at' = [at EXCEPT ![c] = "spawning"]
        \/ at' = [at EXCEPT ![c] = "failed"]
    BY <1>4 DEF MakeSockets, SocketsFail, SpawnThrows, Goto
  <2>2. at[c] \in {"piped", "spawning"}
    BY <1>4 DEF MakeSockets, SocketsFail, SpawnThrows
  <2>3. Loading
    BY <2>2 DEF Loading
  <2> QED
    BY <1>1, <1>2, <2>1, <2>2, <2>3 DEF Schedule, Loading, LoadingPhases, Idle
<1>5. CASE SpawnRuns(c) \/ ProcessDies(c)
  <2>1. at' = at
    BY <1>5 DEF SpawnRuns, ProcessDies
  <2> QED
    BY <1>1, <1>2, <2>1 DEF Schedule, Loading, LoadingPhases, Idle
<1> QED
  BY <1>3, <1>4, <1>5

LEMMA TransactionStepsKeepSchedule ==
    ASSUME HostIInv, NEW c \in Clients,
           \/ SpawnReturns(c) \/ LoadReturns(c) \/ LoadThrows(c)
           \/ \E e \in Listened : AddSucceedsFor(c, e) \/ AddFailsFor(c, e)
    PROVE  Schedule'
<1>1. Schedule /\ at \in [Clients -> Phases] /\ stop = FALSE /\ Idle
  BY DEF HostIInv, LoadTypes, IInv, TypeOK, Schedule, Loading, SpawnReturns, LoadReturns,
         LoadThrows, AddSucceedsFor, AddFailsFor
<1>2. at[c] \in LoadingPhases
  BY DEF SpawnReturns, LoadReturns, LoadThrows, AddSucceedsFor, AddFailsFor, LoadingPhases
<1>3. \A d \in Clients \ {c} : at[d] \notin LoadingPhases
  BY <1>1, <1>2 DEF Schedule
<1>4. UNCHANGED <<stop, running, batch, undefined>>
  BY <1>1 DEF SpawnReturns, LoadReturns, LoadThrows, AddSucceedsFor, AddFailsFor, TxBegin,
         Commit, Rollback, AddSucceeds, AddFails, loopVars
<1>5. CASE SpawnReturns(c)
  <2>1. /\ at' = [at EXCEPT ![c] = "config"] /\ tx' = "open" /\ txOwner' = running
        /\ UNCHANGED <<txIds, listeners>> /\ tx = "none"
    BY <1>5 DEF SpawnReturns, Goto, TxBegin
  <2> QED
    BY <1>1, <1>3, <1>4, <2>1 DEF Schedule, Loading, LoadingPhases, Idle
<1>6. CASE LoadReturns(c) \/ LoadThrows(c)
  <2>1. /\ at' = [at EXCEPT ![c] = "loaded"] \/ at' = [at EXCEPT ![c] = "failed"]
        /\ tx' = "none" /\ txIds' = {}
    BY <1>6 DEF LoadReturns, LoadThrows, Goto, Commit, Rollback, TxEnd
  <2> QED
    BY <1>1, <1>3, <1>4, <2>1 DEF Schedule, Loading, LoadingPhases, Idle
<1>7. ASSUME NEW e \in Listened, AddSucceedsFor(c, e) \/ AddFailsFor(c, e) PROVE Schedule'
  <2>1. /\ at' = at /\ txOwner' = txOwner /\ tx' # "none" /\ at[c] = "config"
        /\ \/ txIds' = txIds \cup {nextId} /\ listeners' = listeners \cup {nextId}
           \/ UNCHANGED <<txIds, listeners>>
    BY <1>7 DEF AddSucceedsFor, AddFailsFor, AddSucceeds, AddFails
  <2> QED
    BY <1>1, <1>4, <2>1 DEF Schedule, Loading, LoadingPhases, Idle
<1> QED
  BY <1>5, <1>6, <1>7

LEMMA LoopStepsKeepSchedule ==
    ASSUME HostIInv,
           \/ ServerStarts \/ Finish
           \/ \E k \in Connections : Connect(k) \/ Accept(k)
           \/ \E S \in SUBSET Ids : Dispatch(S)
           \/ \E i \in Ids : Call(i)
           \/ \E c \in Clients : \E e \in Listened : KernelReports(c, e)
           \/ UNCHANGED hostVars
    PROVE  Schedule'
<1>1. Schedule
  BY DEF HostIInv
<1>2. /\ listeners \subseteq listeners'
      /\ UNCHANGED <<at, tx, txOwner, txIds, stop>>
  BY LoopSteps DEF loadVars, txVars
<1>3. CASE ~Loading
  BY <1>1, <1>2, <1>3 DEF Schedule, Loading, LoadingPhases
<1>4. CASE Loading
  <2>1. Idle
    BY <1>1, <1>4 DEF Schedule
  <2>2. ASSUME ServerStarts PROVE UNCHANGED <<running, batch, undefined>>
    BY <2>2 DEF ServerStarts, AddSucceeds, loopVars
  <2>3. ASSUME NEW k \in Connections, Connect(k) PROVE UNCHANGED <<running, batch, undefined>>
    BY <2>3 DEF Connect, PeerActs, vars, loopVars
  <2>4. ASSUME NEW c \in Clients, NEW e \in Listened, KernelReports(c, e)
        PROVE  UNCHANGED <<running, batch, undefined>>
    BY <2>4 DEF KernelReports, PeerActs, ChildExits, loopVars
  <2>5. ~Finish /\ \A k \in Connections : ~Accept(k)
    BY <2>1 DEF Idle, InHandler, Finish, HandlerReturns, Accept
  <2>6. /\ \A S \in SUBSET Ids : ~Dispatch(S)
        /\ \A i \in Ids : ~Call(i)
    BY <1>4, <2>1 DEF Idle, Dispatch, Call, BeginHandler
  <2>7. UNCHANGED <<running, batch, undefined>>
    BY <2>2, <2>3, <2>4, <2>5, <2>6 DEF hostVars, vars, loopVars
  <2> QED
    BY <1>1, <1>2, <2>7 DEF Schedule, Loading, LoadingPhases, Idle
<1> QED
  BY <1>3, <1>4

--------------------------------------------------------------------------------
\* No step of the host is a remove() in a handler: those that erase listeners
\* otherwise are outside dispatch, and no handler asks to stop.
LEMMA HostStepsSpareTheDue ==
    ASSUME HostIInv, [Next]_vars, running = None \/ listeners \subseteq listeners'
    PROVE  RemovesNothingDue'
<1>1. ~undefined /\ Dangling = {} /\ IInv
  BY DEF HostIInv, RemovesNothingDue
<1>2. ~undefined'
  BY <1>1, StepUndefined
<1>3. Dangling' = {}
  <2> SUFFICES ASSUME NEW i \in Dangling' PROVE FALSE
    OBVIOUS
  <2>1. running # None /\ Remove(i)
    BY <1>1, StepDangles
  <2>2. i \in listeners /\ i \notin listeners'
    BY <2>1 DEF Remove, Destroy
  <2> QED
    BY <2>1, <2>2
<1> QED
  BY <1>2, <1>3 DEF RemovesNothingDue

LEMMA NextHostIInv == ASSUME ~HandlersReap, HostIInv, [HostNext]_hostVars PROVE HostIInv'
<1>1. [Next]_vars
  BY StepsRunLoop
<1>2. IInv'
  BY <1>1, NextIInv DEF HostIInv
<1>3. ASSUME NEW c \in Clients,
             \/ MakePipe(c) \/ MakeSockets(c) \/ SocketsFail(c) \/ SpawnRuns(c) \/ SpawnThrows(c)
             \/ ProcessDies(c)
      PROVE  HostIInv'
  <2>1. LoopFrame
    BY <1>3, QuietSteps DEF vars, txVars, LoopFrame
  <2>2. \A d \in Clients : ClientKnown(d)'
    BY <1>1, <1>3, <2>1, QuietSteps, UntouchedIsKnown
  <2>3. ServerTypes'
    BY <1>3, QuietSteps DEF HostIInv, ServerTypes, serverVars
  <2>4. Schedule'
    BY <1>3, QuietStepsKeepSchedule
  <2>5. RemovesNothingDue'
    BY <1>1, <1>3, QuietSteps, HostStepsSpareTheDue DEF vars
  <2> QED
    BY <1>2, <1>3, <2>2, <2>3, <2>4, <2>5, QuietSteps DEF HostIInv
<1>4. ASSUME NEW c \in Clients,
             \/ SpawnReturns(c) \/ LoadReturns(c) \/ LoadThrows(c)
             \/ \E e \in Listened : AddSucceedsFor(c, e) \/ AddFailsFor(c, e)
      PROVE  HostIInv'
  <2>1. LoopFrame /\ LoadTypes' /\ SpawnTypes' /\ UNCHANGED serverVars
    BY <1>4, TransactionSteps
  <2>2. \A d \in Clients : ClientKnown(d)'
    BY <1>1, <1>4, <2>1, TransactionSteps, UntouchedIsKnown
  <2>3. ServerTypes'
    BY <2>1 DEF HostIInv, ServerTypes, serverVars
  <2>4. Schedule'
    BY <1>4, TransactionStepsKeepSchedule
  <2>5. running = None
    BY <1>4
    DEF HostIInv, Schedule, Loading, Idle, SpawnReturns, LoadReturns, LoadThrows,
        AddSucceedsFor, AddFailsFor
  <2>6. RemovesNothingDue'
    BY <1>1, <2>5, HostStepsSpareTheDue
  <2> QED
    BY <1>2, <2>1, <2>2, <2>3, <2>4, <2>6 DEF HostIInv
<1>5. ASSUME \/ ServerStarts \/ Finish
             \/ \E k \in Connections : Connect(k) \/ Accept(k)
             \/ \E S \in SUBSET Ids : Dispatch(S)
             \/ \E i \in Ids : Call(i)
             \/ \E c \in Clients : \E e \in Listened : KernelReports(c, e)
             \/ UNCHANGED hostVars
      PROVE  HostIInv'
  <2>1. /\ listeners \subseteq listeners' /\ ServerTypes'
        /\ UNCHANGED <<contractVars, loadVars, txVars, stop>>
    BY <1>5, LoopSteps
  <2>2. LoopFrame /\ \A d \in Clients : Untouched(d)
    BY <2>1 DEF LoopFrame, Untouched, contractVars, loadVars, txVars
  <2>3. \A d \in Clients : ClientKnown(d)'
    BY <1>1, <2>2, UntouchedIsKnown
  <2>4. LoadTypes' /\ SpawnTypes'
    BY <2>1 DEF HostIInv, LoadTypes, SpawnTypes, contractVars, loadVars
  <2>5. Schedule'
    BY <1>5, LoopStepsKeepSchedule
  <2>6. RemovesNothingDue'
    BY <1>1, <2>1, HostStepsSpareTheDue
  <2> QED
    BY <1>2, <2>1, <2>3, <2>4, <2>5, <2>6 DEF HostIInv
<1> QED
  BY <1>3, <1>4, <1>5 DEF HostNext, Load

LEMMA HostInvariance == ASSUME ~HandlersReap PROVE HostSpec => []HostIInv
<1>1. HostIInv /\ [HostNext]_hostVars => HostIInv'
  BY NextHostIInv
<1> QED
  BY <1>1, InitHostIInv, PTL DEF HostSpec

\* Type correctness.
THEOREM HostTypeCorrect == ASSUME ~HandlersReap PROVE HostSpec => []HostTypeOK
<1>1. HostIInv => HostTypeOK
  BY DEF HostIInv, IInv, LoadTypes, SpawnTypes, ServerTypes, HostTypeOK
<1> QED
  BY <1>1, HostInvariance, PTL

\* The host uses the event loop only as its module allows: whatever is proved
\* about EpollInstance holds while clients are loaded, served and lost.
THEOREM RunsLoop == ASSUME ~HandlersReap PROVE HostSpec => Spec
<1>1. HostInit => Init
  BY DEF HostInit
<1>2. HostIInv /\ [HostNext]_hostVars => [Next]_vars
  BY StepsRunLoop
<1> QED
  BY <1>1, <1>2, HostInvariance, PTL DEF HostSpec, Spec

\* load sees spawn behave as SpawnContract says and no better.
THEOREM RunsSpawn == HostSpec => Spawn!Spec
<1>1. HostInit => Spawn!Init
  BY DEF HostInit
<1>2. [HostNext]_hostVars => [Spawn!Next]_contractVars
  <2>1. ASSUME NEW c \in Clients, MakePipe(c) \/ Load(c) \/ ProcessDies(c)
        PROVE  [Spawn!Next]_contractVars
    <3>1. CASE MakePipe(c) \/ MakeSockets(c) \/ SocketsFail(c) \/ LoadReturns(c)
      BY <3>1 DEF MakePipe, MakeSockets, SocketsFail, LoadReturns
    <3>2. CASE SpawnRuns(c) \/ SpawnReturns(c) \/ SpawnThrows(c) \/ ProcessDies(c)
      BY <3>2 DEF SpawnRuns, SpawnReturns, SpawnThrows, ProcessDies, Spawn!Next
    <3>3. CASE LoadThrows(c) \/ \E e \in Listened : AddSucceedsFor(c, e) \/ AddFailsFor(c, e)
      BY <3>3 DEF LoadThrows, AddSucceedsFor, AddFailsFor, EndsWithHandle, Spawn!Next
    <3> QED
      BY <2>1, <3>1, <3>2, <3>3 DEF Load
  <2>2. ASSUME \/ ServerStarts \/ Finish
               \/ \E k \in Connections : Connect(k) \/ Accept(k)
               \/ \E S \in SUBSET Ids : Dispatch(S)
               \/ \E i \in Ids : Call(i)
               \/ \E c \in Clients : \E e \in Listened : KernelReports(c, e)
               \/ UNCHANGED hostVars
        PROVE  UNCHANGED contractVars
    BY <2>2 DEF ServerStarts, Finish, Connect, Accept, Dispatch, Call, KernelReports, hostVars
  <2> QED
    BY <2>1, <2>2 DEF HostNext
<1> QED
  BY <1>1, <1>2, PTL DEF HostSpec, Spawn!Spec, Spawn!vars, contractVars

\* load is atomic: a client has all three listeners and its process or nothing,
\* whichever step fails and whatever the loop and the clients do meanwhile.
THEOREM LoadAtomic == ASSUME ~HandlersReap PROVE HostSpec => []LoadIsAtomic
<1>1. ASSUME HostIInv, NEW c \in Clients, at[c] = "loaded"
      PROVE  /\ IdsOf(c) \subseteq listeners /\ None \notin {idOf[c][e] : e \in Listened}
             /\ outcome[c] = "ok" /\ HasProcess(c)
  BY <1>1 DEF HostIInv, ClientKnown
<1>2. ASSUME HostIInv, NEW c \in Clients, at[c] = "failed"
      PROVE  /\ IdsOf(c) \cap listeners = {}
             /\ HasProcess(c) => outcome[c] = "error" /\ MayBeLost
  BY <1>2 DEF HostIInv, ClientKnown
<1>3. HostIInv => LoadIsAtomic
  BY <1>1, <1>2 DEF LoadIsAtomic
<1> QED
  BY <1>3, HostInvariance, PTL

\* Nothing that the host removes is due: no pointer of the loop dangles in it.
THEOREM HostKeepsRule == ASSUME ~HandlersReap PROVE HostSpec => []RemovesNothingDue
<1>1. HostIInv => RemovesNothingDue
  BY DEF HostIInv
<1> QED
  BY <1>1, HostInvariance, PTL

\* The end of a client's process is the end of its log and of its control
\* socket: load leaves the other ends to the process alone.
THEOREM EndsAreVisible == ASSUME ~HandlersReap PROVE HostSpec => []EndIsVisible
<1>1. ASSUME HostIInv, NEW c \in Clients, at[c] = "loaded", process[c] = "dead"
      PROVE  "hup" \in Readiness(c, "log_read") \cap Readiness(c, "socket_a")
  <2>1. owned[c] = {} /\ holds[c] = {}
    BY <1>1 DEF HostIInv, ClientKnown
  <2> QED
    BY <2>1 DEF Readiness, Held
<1>2. HostIInv => EndIsVisible
  BY <1>1 DEF EndIsVisible
<1> QED
  BY <1>2, HostInvariance, PTL
================================================================================
