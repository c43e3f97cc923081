# Verification of the-pipe

The-pipe is a host process that starts client processes, talks to them over
sockets and collects their logs. This directory models it in TLA+: the parts
that are hard to test, checked with TLC on small instances, and theorems about
them checked with TLAPS for all values of the constants.

Paths below are relative to `src/src/` of the repository.

## 1. The system

| Component | Code | State | Operations | Modules |
|---|---|---|---|---|
| event loop | `os_services/io_multiplexer/epoll_instance.*` | `m_listeners`, the next id, the kernel's interest list, the batch of events being dispatched | `add`, `remove`, `config_transaction` (`add`, `commit`, destructor), `wait_for_and_distpatch_events`, and for handlers `update_listening_status` and `stop_listening` | `EpollInstance` |
| activity monitor interface | `os_services/fd/activity_monitor.hpp` | none of its own | what a listener may rely on | `ActivityMonitor` (abstract) |
| process management | `os_services/proc_mgmt/*` | children, pipes, eventfd and pidfd of a call; the descriptors of a child | `spawn`, `do_exec`, `wait`, deleter of a pidfd | `Spawn`, `DoExec`, `SpawnContract` (abstract) |
| log stream | `json_log/reader.*`, `json_log/writer.*`, `log/log.cpp`, `os_services/io/io.hpp` | the log mutex, output buffer, pipe, input buffer, parser state | `write_message`, `writer::write`, `reader::handle_event` | `LogStream`, `LogChannel` (abstract) |
| log configuration | `log/log.hpp`, `log/log.cpp` | the global configuration and those saved by contexts | `configure`, `context`, `write_message` | `LogContext` |
| item conversion | `json_log/item_converter.hpp`, `log/log.hpp` | none | `to_jopp_object`, `make_log_item` | `LogItem`, `Conversions` |
| client control | `client_ctl/*.hpp` | none | values to JSON and back | `Conversions`, `Jopp` |
| host | `host/*.hpp` | the clients and what the loop listens to for them | `load`, accepting connections | `Host`, and `Conversions` for what `load` sends |
| client | `client/main.cpp` | none | parse the configuration, log, exit | `Conversions`, `LogStream` in part |
| IPC | `os_services/ipc/*` | descriptors | pipes, eventfds, socket pairs, server sockets | `Spawn`, `Host` |
| descriptors | `os_services/fd/file_descriptor.hpp` | ownership | deleters | in `EpollInstance`, `Spawn`, `Host` |
| utilities | `utils/*` | none | `for_each_disjoint_segment`, ... | `DisjointSegments` |

How they interact. The host calls `spawn` with the configuration of the client
as an argument, a socket to inherit and the write end of a pipe as stderr; the
child redirects its streams, marks everything that is not forwarded as
close-on-exec and runs the program. The host adds the read end, its socket and
the pidfd to the event loop in one transaction. From then on handlers are called
by the loop, on one thread, and may call the loop back. The client parses its
configuration, and its threads log to stderr under a mutex; `json_log::reader`
is written to be the listener that decodes this (`log_reader` in
`host/server.hpp` is a placeholder at this commit).

What is hard here, and what makes each part correct:

* *Event loop.* Events carry raw pointers to map entries. Handlers, transactions
  and their rollbacks erase entries while a batch is being dispatched. An entry
  that is erased by the loop after `stop_listening()` is not removed with
  `EPOLL_CTL_DEL`: closing its descriptor has to do that. Correct means: no
  pointer dangles unless a handler has called `remove()` for an entry that was
  due, kernel and `m_listeners` agree, descriptors and processes do not outlive
  their entry, ids are not reused, transactions are atomic, no ready listener
  starves.
* *spawn.* Two processes, a pipe and an eventfd, and other threads that fork in
  between and inherit everything. Each system call may fail. Correct means: the
  program starts only after the parent holds its pidfd, success means it was
  started, an error leaves no process, every call returns.
* *do_exec.* Descriptor numbers: `dup2` in sequence, unsigned arithmetic up to
  `~0u` that wraps, flags that were there before. Correct means: the program has
  its streams and what was forwarded and nothing else; errors get out.
* *Log stream.* Partial writes, reads that end anywhere, several threads, a
  client that dies in the middle of a message. Correct means: what arrives is
  what was logged, in order, once; errors are reported when they are real; the
  handler gives the loop back and notices the end.
* *Log configuration.* Automatic objects in several threads exchange a global
  one. Correct means: no message reaches a writer outside its context.
* *Conversions.* Both directions are written by hand, time stamps pass as
  doubles. Correct means: round trips, order, and nothing malformed is accepted
  as something else.
* *Host.* `load` has six steps that may fail, with a process that runs already
  when the last three do. Correct means: a client is loaded completely or not at
  all, and its end is seen.

## 2. Modules and code

**ActivityMonitor** is the contract of the loop: ids in use, the active listeners,
those that are due in this round, the one being served. An id is used once, only
active listeners become due and only an active one is served, one handler runs at a
time. The contract has a price: callers must not `remove()` a listener that is due or
being served. Nothing prevents it, and when it happens the monitor may break
(`Break`), after which nothing is promised. Neither a transaction nor
`stop_listening()` may lead there.

**EpollInstance** has the state of the loop (`nextId`, `listeners`, `batch`,
`reported`, `running`, `stop`, `undefined`), of the open transaction (`tx`, `txOwner`,
`txIds`), of the kernel (`registered`, `mask`, `open`, `ready`) and of the
processes behind pidfds (`child`). Actions: `Add`, `TxBegin`, `TxAdd`, `Commit`,
`Rollback`, `Remove`; `Wait` is one `epoll_wait`, `BeginHandler` ...
`HandlerReturns` / `HandlerThrows` one round of the loop over the events; while a
handler runs it may do everything the interface offers, to any listener: `remove()`
may name one whose event is still in the batch, or the handler's own. Where the code
then follows a pointer to the erased entry (`epoll_instance.cpp:20` and `29`,
`update_listening_status`) the program is `undefined`, and the model stops there
(`Undefined`, `Unknown`). The peers and processes are the environment.

**Spawn** has a program counter per thread that calls `spawn`, the descriptors
its call has open in the host, the set of processes that hold the write end of
its pipe (`writers`: a fork in another thread adds one), and its child. A step is
one system call. `Faults` names the calls that may fail. What follows the fork in
the child is one step here (`Exec`, `ExecFails`); **DoExec** is that step in
detail: the table of descriptors of the child, redirected one stream after the
other, then **DisjointSegments**, the loop of `for_each_disjoint_segment` in
arithmetic modulo the size of the type, with `close_range` as its `func`, then
`execve` or the report of an error.

**SpawnContract** is what callers rely on: the outcome of a call, its process, and
whether the program was executed. `Spawn` implements it, and `Host` uses it.

**LogStream** has the threads, the lock and the output buffer of the client, the
pipe or socket as a bounded queue of pieces, and the reader with its parser. A
piece is what no read or write splits; a message is `Pieces` of them.
`LogMessage` takes the lock and the time stamp, `Serialize` fills the output
buffer, `Write` writes some of it, `ReadSome` is one `read()` with all that
`parse_buffer` makes of it: the parser accepts what it is given up to the first piece
that does not fit (`Accepted`), every complete message goes to the receiver, the rest is
kept. Something else in the client may write one piece of
noise to stderr. **LogChannel** is what the receiver is promised: the messages in
the order of their time stamps, without a gap, none twice, and errors only for a
reason. `LogStream` implements it.

**LogContext** has the global configuration, the lock, and for each thread the
writers it has created with the contexts over them. `OpenContext` is the
constructor of `log::context`, `CloseContext` its destructor; `BeginWrite` and
`EndWrite` are the two ends of the locked part of `write_message`.

**Conversions** translates both directions of the conversions of
`startup_config.hpp` and `client_application_info.hpp`, over **Jopp**, which says
what the code uses of the JSON library. A conversion that may throw is the set of
its results. The receiver has descriptors of its own. **LogItem** has the
conversion of log items: two roundings, on the grid of doubles around the seconds
and around their product with the ticks.

**Host** composes `EpollInstance` and `SpawnContract`. It has, for each client, how
far its load is, which ends of pipe and socket the objects of `load` and the
process own, and the ids of its listeners. Each step of `load` is an action, those
on the loop are steps of `EpollInstance`: `AddSucceedsFor` conjoins
`AddSucceeds`, `LoadThrows` conjoins `Rollback` with the end of the handle of the
process. Readiness is not free here: the kernel reports the end of the log when
nobody holds its write end. `ServerStarts`, `Connect` and `Accept` are the server
socket and `server_activity_handler`. Whether the host ever makes its loop use an
erased entry is a property (`RemovesNothingDue`), not an assumption.

The `MC*` modules only extend these with what a configuration needs. The modules
`*Proofs` hold the theorems. Some definitions are a name of the code with a suffix
(each is marked "Mutated form of"): plausible bugs, which no specification uses.
They document what a property would notice.

## 3. What the runs show

| Run | Result | Shows |
|---|---|---|
| `EpollSafety` | holds | four ids, two events a batch, throwing handlers, failing adds, `remove()` from anywhere: invariants, what alone makes a pointer dangle, atomic transactions, refinement of `ActivityMonitor` |
| `EpollLiveness` | holds | two ids, one event a batch, statuses that change, handlers that remove or reap: served in the end, `stop_listening` takes effect |
| `EpollReap` | violated | a handler that waits for its process and stops listening leaves a registered descriptor without an entry |
| `SpawnCalls` | holds | three concurrent calls, every failure: handshake, refinement of `SpawnContract`, return |
| `SpawnPidfdFails` | violated | a failing `pidfd_open` leaves a child behind |
| `DoExec` | holds | six descriptors, every way to redirect, forward and mark them: the program's streams and descriptors, the error pipe, the segments |
| `LogSocket` | holds | two threads, messages over a socket: no loss, refinement of `LogChannel`, delivery, return of the handler, end |
| `LogPipeEnd` | violated | over a pipe the reader never notices the end |
| `Contexts` | holds | three threads, four contexts: writers in use are open, the innermost configuration is in force |
| `Conversions` | holds | round trip of startup configurations and log items, rejection of malformed objects, order of time stamps |
| `ClientInfo` | violated | the application information cannot be read back |
| `Host` | holds | a load in which every step may fail, a process that may die at any time, two connections: atomic load, nothing due is removed, visible end, reported death, answered connections |

### Disagreements of code and documentation

1. `EpollReap`. The deleter of a pidfd (`proc_mgmt.hpp:97`) returns without
   `close()` when the process has been reaped already, and the loop relies on the
   close to end the registration. `spawn` itself meets this: after a launch error
   it waits for the child (`proc_mgmt.cpp:176`), so the pidfd stays open.
2. `SpawnPidfdFails`. `kill(fork_res, SIGKILL)` in `proc_mgmt.cpp:156` is the
   overload for a pidfd: the process id becomes a descriptor number, the call
   throws, the child waits for ever. Since it holds whatever pipes it inherited,
   it can keep a concurrent `spawn` from returning, too; `SpawnReturns` excludes
   that case explicitly.
3. `LogPipeEnd`. The end of a pipe is `EPOLLHUP` alone, which is mapped to no
   status, so the reader returns at `reader.cpp:64` each time it is woken.
4. `ClientInfo`. `"outputs"` is written, `"output"` is read.

One more case is left open. `proc_mgmt.hpp:138` calls `fds_to_forward` "A list of file
descriptors to forward to the child process", without an exception; `do_exec` leaves
their flags alone, so one that the caller has marked close-on-exec before is closed by
`execve` all the same. Whether the list is meant to clear the flag is not said, and
nothing in the repository forwards such a descriptor. The model loses it as the code
does, and `ForwardedSurvive` says nothing about it.

### Behaviour that no document contradicts

What the models do because the code does, and what the properties leave out
explicitly for it:

* `remove()` has no precondition, and `epoll_instance.hpp` says nothing about calling
  it in a handler. A handler that removes a listener whose event is later in the batch
  makes `epoll_instance.cpp:20` use an entry that was erased; one that removes its own
  entry and then calls `stop_listening()` or `update_listening_status()` does the same.
  `OnlyRemoveDangles` and `ActivityMonitor` except exactly that. No handler in the
  repository calls `remove()`; for the host `RemovesNothingDue` says so.
* `utils.hpp:251` compares the ends of an inclusive range as if it were half-open:
  a last segment of one value is dropped. `InnerValuesAreCovered` excepts that
  value. In `do_exec` it is the number `~0u`, which no descriptor has.
* A redirection whose descriptor is itself 0, 1 or 2 may be overwritten by the one
  before it (`Overwritten` in `DoExec`).
* The read end that `close_read_end_on_exec()` gives up is lost when a later step of
  `spawn` throws before `proc_mgmt.cpp:175` (`SetupFails` in `Spawn`).
* Contexts of two threads that overlap without nesting leave the configuration of
  one that has ended. `Nested` says that they do not; with `Nested = FALSE`
  `WriterIsOpen` fails.
* `m_client_id` of `host/server.hpp` is never incremented: every connection but the
  first is closed as soon as it is accepted (`emplace` in `Host`).
* `make_server_socket` and `make_connection` lose their descriptor when `bind()`,
  `listen()` or `connect()` fails.

### Bounds

* `MaxAdds` bounds the ids ever given. Four allow a transaction of two in a
  handler next to two other listeners and an add after a removal; reuse of an id
  would need two. With more ready descriptors than `MaxEvents` the length of the
  array matters: `EpollLiveness` has one event a batch, which is enough for that. With
  two, as in `EpollSafety` and `Host`, a handler can erase the rest of a batch.
  `EpollSafety` has one status: which flags a descriptor is registered for makes no
  difference to what is erased when.
* Three concurrent calls of `spawn`: the write end of one is inherited by a child
  that is inherited from by another, in every order of the forks.
* Six descriptors in a child are the streams and three more: a redirection, the
  error pipe and one to forward. The segment loop sees numbers up to 11, which is
  what -1 becomes: segments before, between and behind split points, at both ends
  of the type.
* Two messages of three pieces per thread with an output buffer of two, an input
  buffer of four and a queue of five: chunks end inside messages, reads end
  inside messages and span two of them, writes are partial, the queue fills up.
* Three threads with four writers: contexts of all threads are open at once, and one
  thread has two.
* Two ports and two files with up to two files per port distinguish maps, lists
  and their order. `IntMax = 2` with numbers in halves from below zero to beyond
  `IntMax` has every kind of number that the checks tell apart. Ten ticks, four
  steps and products three ticks apart share no grid, so all ways to round occur
  within the two seconds.
* The host has one client, two connections, four ids (three listeners of the client
  and the server socket) and two events a batch, so that its four listeners compete
  for a place in the array. Two connections are one more than a handler accepts.
  The theorems about `Host` hold for any number of clients and connections.

`CHECK_DEADLOCK FALSE` is set where the system may stop: every call of `spawn`
returned, a child runs its program, the log ended, a computation finished, the
clients of the host were loaded and nothing happens to them. The event loop of
`EpollInstance` and the contexts never stop.

### Fairness

* `EpollInstance!Fairness`: the loop calls `epoll_wait` and works through a batch,
  and a handler returns in the end. That is a single thread that does nothing
  else. The kernel moves what it reported to the end of its ready list, so that no
  ready descriptor is left out for ever: strong fairness of the waits that report
  it. Nothing is assumed of peers, of processes or of what handlers do before they
  return.
* `Host!HostFairness`: the same for the loop; `load`, which runs on the thread of the
  loop, goes on (`SpawnReturns` is what lets it), and the kernel reports readiness
  in the end. No process has to die and no connection has to come.
* `Spawn!FairSpec`: threads and children are scheduled. Nothing makes a program
  end, nobody has to release a handle.
* `LogStream!FairSpec`: a thread inside `write_message` goes on, and the loop
  serves the reader, which is what `ReadyIsServed` shows. Nobody has to log or end.

## 4. What is proved

**EpollInstanceProofs**, for any number of ids, length of the array, statuses and
flags, assuming `~HandlersReap` (finding 1 is what happens otherwise) and nothing of
what handlers remove: `TypeCorrect`, `KernelAgrees` (`InterestMatchesListeners`),
`DescriptorsAreOwned` (`NoDescriptorLeak`), `ProcessesAreOwned` (`NoOrphans`),
`FreshIds`, `AtomicTransactions`, `RemoveAloneDangles` (`OnlyRemoveDangles`), and
`ImplementsActivityMonitor`, the refinement. The argument: that every pointer of the
batch is live is not invariant, since a handler may remove what is due. But every other
way to erase spares what is due. An event is reported for whatever is registered, so
the interest list must not exceed `m_listeners`; a rollback erases the listeners that a
transaction added, and must not find one of them in the batch. `IInv` therefore joins
`TypeOK`, `InterestMatchesListeners`, `NoDescriptorLeak` and `NoOrphans` with four
facts: ids that exist, or existed and are due, are below `nextId`, so that a new
listener is not taken for one whose event is pending (`NextIsNew`); the running
handler's event has left the batch; no process of a listener was reaped behind the
loop's back; and what a transaction of a handler added is not in the batch, which is
older. Each action is one step of the proof that `IInv` is preserved; the other
theorems follow from it, step by step. `StepDangles` goes through the ways to erase, of
which a rollback is the hard one (`RollbackSpares`); `StepUndefined` says that only an
entry that dangles already is used after its end.

**SpawnProofs**, for any set of threads: `TypeCorrect`, `Handshake` (`HandshakeOrder`),
`HandshakeLeavesNothing` (`HandshakeIsClosed`), `NoChildAfterError` (assuming that
`pidfd_open` is not among the faults; finding 2 otherwise), and `KeepsContract`: the
detailed handshake implements `SpawnContract`, whatever fails. The inductive invariant
relates the program counter of a call to the state of its child and the descriptors
it has open (`Progress`), what a returned call leaves (`Ended`), and the two channels:
the eventfd is signalled only after the pidfd exists, and a child that waits holds the
write end of its own pipe (`Channels`). So when the parent reads the end of its
pipe, its child is past exec or dead. `Frame` says what a step of one call leaves
alone of the others, whatever they inherit. For the refinement each action is a step of
the contract (`ForkCreates`, `ExecLaunches`, `EofSucceeds`, ...) or hidden
(`HiddenSteps`).

**DisjointSegmentsProofs**, for every size of the integer type, every range and every
set of split points: `TypeCorrect`, `SegmentsOnly` (`CalledForSegments`),
`NothingElseIsLeftOut` (`InnerValuesAreCovered`) and `Ascending`. The loop's
`index_start` wraps to 0 behind a split point at the greatest value, so no
ordering of it is invariant. `IInv` says instead that there is a position `p`, not
wrapped, with `index_start = p % Modulus`; the split points left are those from `p`
on, those before `p` were looked at, and every other value before `p` was passed
(`LoopAt`). While split points are left `p` is below `Modulus` (`NextSplitPoint`);
when the position has wrapped, the last split point is `stop_at` and the block after
the loop does nothing. So the second condition of that block, `stop_at != back()`, is
what the wrapped index needs, and the first one, `index_start != stop_at`, is the one
that drops a single last value. That the least and the greatest element exist
(`MinIsLeast`, `MaxIsGreatest`) follows from the well-foundedness of `<` on the
naturals.

**DoExecProofs**, for any table of descriptors and any size of the integer type:
`RunsSegments` (the steps that mark descriptors are those of `DisjointSegments`, so
its theorems hold in the child), `ExecTypeCorrect`, `ProgramHasItsStreams`
(`StreamsAreRedirected`), `ProgramGetsForwarded` (`ForwardedSurvive`) and
`ErrorsGetThrough` (`ErrorPipeTells`). `XInv` says which streams have been redirected
so far (`StreamsSoFar`), that exactly what the calls of `close_range` covered is marked
(`MarksSoFar`), and that the error pipe has one number in the child (`ErrorPipe`).
When the loop is done, `SegmentsOnly` and `NothingElseIsLeftOut` turn "covered by a
call" into "not forwarded"; the one value they leave out is beyond all descriptors.

**LogContextProofs**, for any threads and writers, assuming `Nested`: `TypeCorrect`,
`MessagesGoToOpenWriters` (`WriterIsOpen`) and `InnermostConfig` (`ConfigIsInnermost`).
The inductive invariant: no writer is in two scopes, the list of open contexts has each
open one once, each saved what was in force below it (`OpenIsOrdered`), the current
configuration is the last one (`Current`), and it does not change under the lock
(`Locked`), which is why a writer in use cannot leave its context.

**LogStreamProofs**, for any threads and messages and any lengths of a message, of the
two buffers and of the pipe, over a pipe or a socket, with noise or without:
`TypeCorrect`, `NothingIsLost` (`NothingLost`), `KeepsChannel` (`ChannelSpec`: `LogStream`
implements `LogChannel`), and what this comes to for the receiver, `ArrivesInOrder` and
`ErrorsHaveReasons`. All follow from one invariant about places. The logged messages come
to a stream of pieces, numbered from 0 on (`Piece(n)`, a quotient and a remainder). What
the parser keeps, what is in the pipe and what is in the output buffer, one after the
other, is the `Flow`: the stream from `Start`, the end of the last message consumed, but
for the place `z` where the noise is (`InStream`, `NoiseAt`; without noise `z` is behind the
end). `Complete` says how far the stream has been produced: up to the serialized
part of the message under the lock, or up to the end of the last message; `Delivered`
that what was consumed is the beginning of what was logged. `IInv` has to say both where
each piece is and how many there are: without the number the end of the stream could not
be told from a lost piece. The step that matters is `ReadSome`. The parser stops at the
noise or at the end of its input, whichever comes first (`ReadIsAccepted`: a piece of
the stream fits, since the flow starts with a message; the noise does not; and
`AcceptedIs`: there is only one such place). So the messages it returns are the next
ones of the log (`ItemsAreLogged`), and unless it has jammed the flow moves on by whole
messages (`FlowMovesOn`). `NothingLost` is then the statement that five stretches of the stream
that adjoin (`IsStretch`, `Joined`) are the whole of it. For `LogChannel`, a message
is new since the numbers of a thread only grow (`Numbered`), and at the end of the stream
nothing but the parser holds pieces: a remainder there is the beginning of a message that
was logged and not consumed (`ReadEofStops`). `Promised` is invariant under the steps
of `LogChannel`; it adds that a truncation is reported last.

**ConversionsProofs**, for any ports, files, descriptors, objects and resolutions of the
clock: `AcceptsOnlySockets`, `ConfigSurvives` (`StartupRoundTrip`), `NothingIsMadeUp`
(`AcceptedIsMeant`), `OrderSurvives` (`OrderIsKept`) and `ItemsSurvive` (`ItemsArrive`). The
round trip goes inwards, one lemma for each conversion; a loop over elements whose
conversions have one result has one result (`ForEachReturns`). `NothingIsMadeUp` goes the
other way, from what was accepted to the object it came from (`HostInfoIsMeant`,
`StandaloneIsMeant`). It needs `RawObjectsAssumption`: a raw object is made of jopp's
values, each a type with a value of that type, down to the elements of an array in a
field of `parameters`. The parser of jopp makes no other ones. The order is
kept because rounding to the nearest is monotonic (`NearestKeepsOrder`), which holds since
quotients are ordered and, where they are equal, so are the remainders; a time stamp is
off by what the two roundings add up to (`NearestIsNear`, `DriftIsSmall`).

**HostProofs**, for any number of clients, connections and ids, assuming `~HandlersReap`:
`RunsLoop` (every step of the host is one of `EpollInstance` or leaves it alone, so all
of `EpollInstanceProofs` holds in the host), `RunsSpawn` (the host treats the handles of
processes as `SpawnContract` has it), `HostTypeCorrect`, `LoadAtomic` (`LoadIsAtomic`) and
`EndsAreVisible` (`EndIsVisible`), and `HostKeepsRule` (`RemovesNothingDue`): what
`ActivityMonitor` asks of its callers, the host keeps, so that its loop never uses an erased
entry (`HostStepsSpareTheDue`). `HostIInv` joins `IInv` of the loop with `Schedule` (one
load at a time, outside dispatch, and the open transaction is its own) and
`ClientKnown`, which says of each phase of a load what it owns, which ids it has and where
they are: in the transaction while it is open, in `m_listeners` and in no transaction
once it is committed. So a rollback removes what the failing load has added and nothing of
another client.

Every invariant, action property and refinement of a passing run is a theorem. Only
model-checked: the liveness properties (`ReadyIsServed`, `StopTakesEffect`,
`SpawnReturns`, `LoggedIsDelivered`, `WrittenIsDelivered`, `HandlerReturns`,
`EndIsNoticed`, `DeathIsReported`, `ConnectionsAreAnswered`), since fairness and `ENABLED`
are out of the prover's reach, and the four disagreements, which are counterexamples.

## 5. Not modelled

* `compute_struct_info`: nothing but its own test and the test monitor in
  `activity_monitor.test.cpp` uses it. `random_bytes`, `unwrap`, and the type erasure
  of listeners, writers and clocks.
* The class `activity_monitor` passed to handlers, with `do_add` and
  `do_update_listening_status`: it has no implementation at this commit.
* Allocation failure, the destruction of an `epoll_instance` with its listeners,
  the texts of errors, `shutdown()`.
* Signals. `epoll_wait` and the helpers of `io.hpp` retry after `EINTR`, which is part
  of their steps. `proc_mgmt::wait()` and the `waitid` in the deleter of a pidfd do not
  retry; no model has a signal that interrupts them.
* `close_range` that fails: `do_exec` ignores its result, and in `DoExec` it always
  succeeds.
* The duplicates of the descriptors of the event loop that a child of `spawn` holds
  until it executes its program: closing a descriptor ends its registration at once.
* What the program does once it has used an erased entry.
* A crash of the host. A child that waits on its eventfd then waits for ever.
* A handler that throws whenever it is called and keeps those behind it in the batch
  from being served: `ReadyIsServed` is checked with handlers that return.
* JSON values on the log stream that are no log items (`reader.cpp:31-36` and `41-42`):
  they are reported as invalid and reading goes on. In `LogStream` what else is written
  to stderr is always a syntax error.
* Receivers of log items that throw, readers on blocking descriptors, clients
  that log faster than the reader parses for ever, clients that block since nobody
  reads their log (`log_reader` is a placeholder).
* The exit codes of the client. The JSON text: objects pass as values, and a message on
  the wire is its pieces.
* jopp and the test framework are submodules that are not in the tree.
