# cppframe: TLA+ specifications and proofs

cppframe is a small C++ framework for a web socket service: a secure web socket
server with an endpoint that broadcasts between the clients of a channel, a
thread pool, a pool of MariaDB connections, a logger and a signal manager
(`src/lib/jahan`), and an authenticator (`src/src/include/db/auth.hpp`), on top of Simple-WebSocket-Server
(`src/lib/simple_webSocket_server`). `src/src/main.cpp` wires them together.

This directory specifies its concurrent parts and its codecs in TLA+, checks
them with TLC on small instances, and proves the central properties with TLAPS
for every instance. `PROJECT.json` lists components, runs, mutants, the source lines of
each definition, hazards and theorems.

- [1 Inventory](#1-inventory)
- [2 The modules and the code](#2-the-modules-and-the-code)
- [3 The runs](#3-the-runs)
- [4 Fairness](#4-fairness)
- [5 The proofs](#5-the-proofs)
- [6 What the code does not keep](#6-what-the-code-does-not-keep)
- [7 Simplifications](#7-simplifications)
- [8 Plan](#8-plan)

## 1 Inventory

| Component | State | Operations | What makes it correct |
|---|---|---|---|
| **ThreadPool** `concurrency/thread_pool.hpp` | `m_tasks` under `m_tasks_mutex`, a condition variable under `m_var_mutex`, `m_stop`, the threads | constructor, `add_task`, `add_new_thread` and its loop, destructor | tasks run once, in order of arrival; none is forgotten; shutting down ends |
| **WssEndpointHandler** `server/wss_endpoint_handler.cpp` | `m_clients`: channel → address:port → client, `m_client_mutex` | `on_open`, `on_message`, `on_close`, `on_error`, `broadcast`, `remove_client`, `send_channel_presence` | the registry is what the connections are; only authenticated clients are reached; channels go with their last client |
| **Connection, sending side** `server_ws.hpp`, `client_ws.hpp` | `send_queue`, `close_sent` | `send`, `send_close`, `send_from_queue` and its completion | one write at a time, frames in order, each callback once |
| **Server** `server_ws.hpp`, `server_wss.hpp` | acceptor, `connections`, per connection an operation, a timer, `fragmented_in_message` | `start`, `stop`, `stop_accept`, `upgrade`, accept, handshake, frame reader, timers | endpoints are called back in order; messages are complete; nothing waits for ever |
| **ScopeRunner** `utility.hpp` | one atomic counter | `continue_lock`, release, `stop` | nobody is inside once `stop` has returned |
| **MariaDB pool** `db/mariadb.cpp` | a deque of connections, `m_connections_mutex` | `get_connection`, `return_connection`, watchdog | one owner per connection; only open connections are handed out |
| **Logger** `file/logger.cpp` | a queue of messages | `log`, `save` | no message is lost, each file is in order |
| **Signal manager** `signal/manager.cpp` | `m_run`, `m_sig_caught` | `setup_handler`, the handler, `thread_loop`, `handle_signal` | a signal is reported, and once |
| **Client** `client_ws.hpp`, `client_wss.hpp` | one connection, its timer, the numbers of bytes read ahead, `fragmented_in_message` | `start`, `stop`, destructor, connect, proxy, handshake, frame reader, idle timer | as the server; the reader stays in step with the frames wherever a read ends; an idle connection ends |
| **Auth, Core** `auth.hpp`, `db/core.hpp` | a call's place, its borrowed connection | `from_first_wss_message`, `verify_token`, `get_name`, `get_value` | no name without a session that was found; a query that failed turns the client away |
| **Frames** `server_ws.hpp`, `client_ws.hpp` | the frame being read, `fragmented_in_message` | `send`, `send_close` as bytes; `read_message`, `read_message_content` | what arrives is what was sent; nothing is longer than the limit |
| **Texts** `utility.hpp`, `client_ws.hpp`, `helper.hpp` | none | `Percent`, `QueryString`, `HttpHeader`, attributes, request and response, address, `explode` | what is encoded comes back; field by field what the text says |
| Param, Config, ObjectContainer, wrappers | none shared | see [Simplifications](#7-simplifications) | |

How they interact:

- The server's io thread (`config.thread_pool_size`, 1 by default and in `main`)
  calls `on_open`, `on_message`, `on_close` and `on_error` of the endpoint handler.
  The first three become tasks of the ThreadPool if there is one (`main` makes one
  of 20 workers); `on_error` always runs on the io thread.
- Workers call `send` and `send_close` on connections, whose queue the io thread
  works off; its completions call back into the handler's lambdas.
- Every asynchronous handler of the server and the client runs inside a
  `continue_lock` of the ScopeRunner; only the client's destructor stops it.
- The program makes no client; the library's tests do.
- `on_message` asks the authenticator, which makes two queries, each on a database
  connection borrowed for it.
- Each worker calls `setup_handler` of the signal manager; the pool's signal
  thread runs its loop; the loop logs and saves.

Hard are: two threads between a test and a use (nearly every component has one),
tasks of one connection that overtake each other, peers and timers that end a
connection at any moment, operations that fail half way (writes, files,
database), and shutting down. The hazards of PROJECT.json list them by line.

## 2 The modules and the code

| Module | Models | Abstract specification | Proofs |
|---|---|---|---|
| `TaskQueue` | what a task queue promises: first in first out, each task once, nothing taken after it was closed unless it drains | | |
| `ThreadPool` | thread_pool.hpp | `TaskQueue` | `ThreadPoolProofs` |
| `EndpointHandler`, `MCEndpointHandler` | wss_endpoint_handler.cpp, socket_client.hpp | | `EndpointHandlerProofs` |
| `Outbox` | what the sending side promises: frames settled in order, each reported once, all given up together when the socket fails | | |
| `SendQueue` | sending side of server_ws.hpp and client_ws.hpp | `Outbox` | `SendQueueProofs` |
| `WsServer` | accepting and reading side of server_ws.hpp and server_wss.hpp | | `WsServerProofs` |
| `WsClient` | the connection of client_ws.hpp and client_wss.hpp: connecting, reading, timer, destructor | | `WsClientProofs` |
| `FrameHeader` | the first bytes of a frame as `send` writes and `read_message` reads them | | `CodecsProofs` |
| `Framing` | one direction of a connection as bytes: masks, fragments, control frames, close status, size limit | | `CodecsProofs` |
| `Parsers` | the string functions of utility.hpp, the address and handshake messages of client_ws.hpp and server_ws.hpp, `explode` | | `CodecsProofs` |
| `Codecs`, `MCCodecs` | `Framing` and `Parsers` with the inputs they are given | | `CodecsProofs` |
| `ScopeGate` | what a gate promises: enter while open, close when empty | | |
| `ScopeRunner` | ScopeRunner of utility.hpp | `ScopeGate` | `WsClientProofs` |
| `DbPool` | mariadb.cpp | | `AuthProofs` |
| `Auth` (extends `DbPool`) | auth.hpp and `get_value` of core.hpp on the pool | | `AuthProofs` |
| `Logger`, `MCLogger` | logger.cpp | | `LoggerProofs` |
| `SignalManager` | manager.cpp | | `ThreadPoolProofs` |

Variables have the names of the code where the code has one. What only the
properties need is marked "history" where it is declared. Each module
begins with what one step of it is. Definitions marked "Mutant" are wrong
versions of the definition after them, used to show that the properties notice.

**ThreadPool.** A worker's loop is cut where it reads shared state: `CheckStop`
(line 71), `FetchTask`/`FetchNothing` (the section under `m_tasks_mutex`), `Wait`
(enter wait under the other mutex), `WakeUp`, `RunTask`. The gap between
`FetchNothing` and `Wait` is the point of the module. `add_task` is `AddTask`,
`PushTask`, `NotifyOne`. The destructor holds `m_var_mutex` over its joins.
`add_new_thread` may be called while the pool runs.

**EndpointHandler.** Every executor (io thread or worker) has a program counter
and the local variables of the handler it runs. `IoOpen`, `IoMessage`,
`IoClose`, `IoError` are the server's calls; `Dispatch` runs the handler at once
or queues it (the queue is the `TaskQueue` that ThreadPool is proved to
implement). `operator[]` creates entries as it does in the code, also in `Find`,
which is how `on_close` and late messages leave channels behind. The
authenticator is any function: the module lets it accept or reject. Whether there
is a pool (`m_tpool`) and an authenticator (`m_authenticator`) is chosen in the
initial state and stays. A range-for stands on a node (`at`) and has others to
visit (`todo`). `ref` says whether the node an executor refers to, with
`this_client` or with its loop, is still there; erasing a node clears it for
everyone who stands on it (`EraseNodes`, `DropChannel`), `remove_client` and the
deletion of empty channels for the very loop that called them. The next use of
an erased node is `UsesErased`: it sets `undefined`, and no step follows.

**SendQueue.** `Send`, `CloseTest`/`CloseSend` for the callers; `StartWrite`,
`DropWrite`, `WriteDone`, `WriteFailed`, `WriteIgnored`, `CallBack` for the io
thread. `Stop` is the runner being stopped (only the client's destructor does).
It is shown to implement `Outbox`: a frame is settled when the handler of its
write has run, not when the bytes have left; after `Stop` the write that was
outstanding may still come through, and that is all that may.

**WsServer.** `stage[c]` is the asynchronous operation a connection waits for,
`result[c]` its completion that is queued. A handler is one step; between a
completion and its handler a timer, `stop` or the peer may come. A frame is
its kind, whether its length is extended and whether it is too big. Messages are
the sequence of their pieces' numbers, so that a lost, repeated or foreign piece
shows.

**WsClient.** Built like `WsServer`: `stage`, `result`, one step per handler. The
difference is that the client counts bytes. `additional` is
`num_additional_bytes`, `buffered` is what the stream buffer really holds, and
both are exact: a response may have brought any number of bytes of the frames
that follow, and each read asks only for what is missing. What a frame is gets
decided when its first two bytes are there, since nothing depends on it before.
A piece of a message records how many bytes it has too many. Reader and writer
share one timer: `Enqueue`, `WriteEnds` and every read set it. `Destroy` closes
the ScopeRunner and stops; `HandleNothing` is a handler that gets no lock.

**ScopeRunner.** One step per atomic access; `compare_exchange_weak` may fail for
no reason (`Retry`).

**DbPool.** The deque is the pair of positions libstdc++ keeps, so that
`pop_front` on an empty deque does what it does in that library: `size()` wraps
around (`SizeMod`), and `front()` is whatever the slot holds. Using a null or
wild pointer ends the process (`crashed`).

**Auth.** A call of the authenticator is well formed or not, asks for the session
(`verify_token`) and then for the name (`get_name`). Each query takes a
connection from `DbPool` (`GetConnection`, `Connect`), which may be none, and gives
it back (`ReturnConnection`) or lets it be destroyed (`Throw`). `value` keeps the
three answers of `get_value` apart: a value, the empty string for no row, nullopt
for a failure. What the tables hold is nondeterministic, also between the two
queries.

**FrameHeader, Framing.** Numbers and bytes of the frames that `WsServer`,
`WsClient` and `SendQueue` treat as units. The direction is part of the state
(`toServer`: clients mask, servers do not). The sender emits any sequence of whole
messages, fragments, pings and a close; the reader is `TakeHead`, `TakeLength`,
`TakeContent`. The operator `^` of two bytes is `Xor`, the sum of the bits that
exactly one of them has. Lengths are added as `size_t`, which wraps (`Sum`, `SizeMod`);
`fits` remembers whether every message sent so far, with the control frames between
its fragments, had a length that a `size_t` can say. Of a content the length and the first `Shown` = 6 bytes are
kept, more than one round of the mask.

**Parsers, Codecs.** The string functions, byte for byte, as operators; loops over
positions are folds or recursive functions of the position, whose step has a name. In `Codecs` a
text grows piece by piece, and invariants compare what the parsers make of it
with definitions that look at the text as a whole (for example: a query string
is what stands between ampersands, cut at the first equals sign).

**Logger.** `save` holds the mutex throughout, so its file operations are steps
during which others wait. Files may fail to open, streams fail; a day passes
(`Age`).

**SignalManager.** Each access to `m_run` and `m_sig_caught` is a step; handlers
of different signals may run at once in different threads.

## 3 The runs

From this directory: `tlc -config <name>.cfg <module>`. Every run ends with the
whole state space explored.

| Run | Module | Instance | Properties |
|---|---|---|---|
| `ThreadPool` | ThreadPool | 1 worker and 1 added, 2 producers, 3 tasks | `ExactlyOnce`, `ImplementsTaskQueue`, `AwakeWorkerDrains`, `AwakeWorkerLeaves` |
| `EndpointHandler` | MCEndpointHandler | inline: 5 connections, 2 addresses, 2 channels and none, with and without authenticator; on the pool: 2 workers, 2 connections in a channel, two messages of one and one of the other | `RegistryMatchesConnections`, `PresenceComplete`, `ReferenceValid`, `AcceptedNotKickedInline` (inline), `OnlyAcceptedReached`, `HandlersFinish` (both) |
| `SendQueue` | SendQueue | 2 senders, 3 data and 2 close frames | `OneWrite`, `ImplementsOutbox`, `CallbackComes` |
| `ScopeRunner` | ScopeRunner | 3 handlers, 2 stoppers | `ImplementsGate`, `StopReturns` |
| `Auth` | Auth | 2 callers with 2 queries each, 3 connections, 1 at first | `Exclusive`, `OnlyOpenOnes`, `NameProvesSession`, `FailureRejects`, `AuthEnds` |
| `Logger` | MCLogger | 4 messages of 2 levels, 2 threads | `OnePlace`, `FileOrder`, `EveryMessageLeaves` |
| `SignalManager` | SignalManager | 3 workers, 2 signals | `NotifiedOnce`, `LoneSignalNotified` |
| `WsServer` | WsServer | 1 connection, 3 frames, 2 starts; internal or own io_service, with and without idle timeout | `CallbackProtocol`, `ListedWhileOpen`, `MessagesDelivered`, `WaitsEnd`, `StoppedEnd` |
| `WsClient` | WsClient | 2 frames of 0 or 2 bytes of content, with short or 64 bit lengths; 1 frame of the user; 1, 3 or 12 bytes read ahead; with and without idle timeout, internal or own io_service | `CallbackProtocol`, `InStep`, `MessagesDelivered`, `IdleEnds` |
| `Codecs` | MCCodecs | 3 frames of lengths 0, 125, 126, 65535 and 65536, two masks, both directions, a limit that two fragments exceed; query strings of 6, values of 4, addresses of 5 pieces | `FramesArrive`, `NothingTooLong`, `FramesCome`, `QueryMatches`, `ValuesComeBack`, `HandshakeArrives` |

Two more runs expect a violation; see section 6. What is not named here though a
module states it (type invariants, `FifoOrder`, `QueueOrder`, `CountExact` and
others) is proved for every instance (section 5), so no run repeats it.

What they show, and why the bounds are enough:

- *ThreadPool.* Two workers and two producers are what it takes for two threads
  on each side of the queue to race; three tasks let one run while one waits and
  one arrives. `AwakeWorkerDrains` and `AwakeWorkerLeaves` are the liveness that
  is left of the pool: a missed notification delays a task until something wakes
  a worker, and only a sleeping worker keeps the destructor waiting.
- *EndpointHandler, inline.* The third connection has the address of the
  first, the fourth that of the second in another channel, so entries are
  created, erased and reused; the first peer sends two messages, so that there is
  one after its authentication, or after it was turned away. The properties are about quiet states, where no
  handler runs. One handler runs at a time, so three clients per channel and one
  switch of address cover the ways an entry can be met.
- *EndpointHandler, on the pool.* Two workers and the io thread are the smallest
  number at which handlers of one connection overtake each other and those of
  two connections meet. One peer sends two messages, so that one can be broadcast after
  both peers have been accepted. The registry properties fail here (section 6), and what
  remains is, up to the use of an erased node, safety of delivery and the absence
  of deadlock.
  The two peers have different keys: with one key for both, three workers are
  enough for `ReceiverPassed` to fail (section 6).
- *SendQueue.* Three data frames make the queue hold one in flight, one behind it
  and one that arrives; two close frames let two `send_close` race.
- *WsServer.* Connections share only the acceptor and the list, and both appear
  with one connection; three frames are a fragmented message with a control
  frame in it.
- *WsClient.* Two frames, with as many bytes read ahead as half a header, a header
  and a part, or a frame with a 64 bit length and the start of the next. So the
  border between what was read ahead and what was not falls inside a header,
  inside a length, inside the content and between frames. One frame of the user
  is enough for the close frame to be behind another. The extended lengths of 2
  and 8 bytes differ only in that number; the run takes the longer.
- *ScopeRunner.* Three handlers and two stoppers; the theorems cover all numbers.
- *Auth.* Two callers are enough to race for the last connection, with two
  queries each; three connections let the pool grow, shrink by the watchdog and
  run dry. SizeMod = 16 is the wrap-around of `size()` at a width that the slots of
  the run do not reach.
- *Codecs.* The lengths are the last and the first of each form of the header; the
  limit, 65662, lies between one and two of the long fragments. A query string of six
  pieces has two complete fields, or one that ends in a percent code; five
  pieces make a bracketed host, a port and a path.
- *Logger.* Two messages per level: one written and one behind it.
- *SignalManager.* Two signals overlap in every way two can; a third worker
  resets the variables after two others have.

Constants that only bound the state space: `MaxMessages`, `MaxFrames`,
`MaxStarts`, `MaxCalls`, `MaxSends`, `MaxPieces`, and the sizes of the sets of tasks,
frames, messages and signals, each used once.

## 4 Fairness

Weak fairness only, for steps the system or the operating system takes by itself:

- a worker, producer or destructor that can go on does (`ThreadPool`), and so do
  an executor with a handler (`EndpointHandler`), the io thread (`SendQueue`) and
  a call of the authenticator while the process lives (`Auth`); the watchdog has
  no fairness and may stop looking;
- `Codecs`: a read completes when there is something to read;
- `WsServer`: queued handlers run, timers expire, an operation on a socket that
  was shut down fails once the buffered data is used up. Peers are never fair;
- `WsClient`: as the server; besides, a write ends once the socket is closed.
  Other writes end if the peer lets them, which `IdleEnds` must not assume.
  Each read and write sets the timer anew; since the frames of both sides are
  bounded, it is set anew finitely often and then expires;
- `Logger`: somebody saves again and again (the logger thread does), and time
  passes;
- `ScopeRunner`: who is inside leaves, and stop's loop goes on. `StopReturns` also
  assumes that handlers stop trying to enter: a compare-exchange may lose for ever
  against others, and the counter need not be zero at the moment stop looks;
- `SignalManager`: the loop, the workers' setup and a handler that was begun.

Acquiring a mutex is weakly fair in these modules; where several threads
compete for one (`EndpointHandler`) the liveness property asks only that a
bounded amount of work is worked off.

## 5 The proofs

`tlapm <Module>Proofs.tla` checks them; all assumptions are the named ASSUMEs of
the modules, which TLC evaluates in every run.

**ThreadPoolProofs** (any sets of workers, producers, tasks; any `NumThreads`).
`TypeCorrect`, `FifoCorrect`, `ExactlyOnceCorrect`, `SuddenDeathCorrect`,
`Refinement`. `ExactlyOnce` says that what was pushed is what waits, what is in the
hands of workers and what has finished, and that no task is in two of these places
or twice in one. It is not inductive: a producer between its test and its push
carries a task that is nowhere yet. The invariant `Inv` is made of `TypeOK`,
`FifoOrder`, `NoRepeat` (nothing is pushed twice, and what a worker runs has not
finished), `Accounted` (what was taken is in hand or has finished) and `InFlight` (what producers carry is new, and
no two carry the same); `ExactlyOnce` follows, the tasks that wait being by
`FifoOrder` those pushed and not yet taken. `Refinement` maps the queue to `waiting`, the tasks in
workers' hands to `running`, `m_stop` to `closed`, `~sudden_death` to `drain`;
pushing, fetching, running to the end and stopping map to steps of `TaskQueue`,
everything else stutters.

**ThreadPoolProofs**, the signal manager (any workers and positive signals).
`SignalTypeCorrect`, `NotifiedOnceCorrect`. `m_sig_caught` holds a signal whose
handler has stored it, and a number that was notified is still there only until
the loop clears it.

**SendQueueProofs** (any senders and frames). `TypeCorrect`, `OneWriteCorrect`,
`QueueOrderCorrect`, `CallbackOrderCorrect`, and `Refinement` of `Outbox`. `Inv` is
the conjunction. The important part is the last conjunct of `OneWrite`, which says
that the write on its way is that of the front of the queue: without it a
completion could remove a frame other than the one written. For the refinement a
step that removes the front settles it, the failure settles the rest at once,
and `CallBack` reports.

**WsClientProofs**, the ScopeRunner (any finite set of handlers, any stoppers).
`RunnerTypeCorrect`, `CountExactCorrect`, `StoppedIsEmptyCorrect`,
`GateImplemented`, the refinement of `ScopeGate`. `RunnerInv` adds that the counter
is -1 once a stop has returned, which makes `StoppedIsEmpty` inductive. The
counting steps use the library's theorems on the cardinality of finite sets;
finiteness is an assumption on `Users`.

**WsClientProofs**, the client (any lengths of contents, any number of frames, of
bytes that came with the response and of frames sent). `CallbackProtocolCorrect`,
`InStepCorrect`, `MessagesDeliveredCorrect`. `CallsFit` says what the user has been told
at each stage, `DataFit` how what the peer has sent is spread over delivered
messages, fragments and the frame being read. `BytesFit` is what keeps the reader
in step: the buffer holds `additional` bytes and, once a read has completed, those
it was asked for as well, which are the ones missing. It needs no bound on what came
with the response: a whole frame, or several, may have been read ahead.

**EndpointHandlerProofs** (any connections, keys, channels and workers).
`TypeCorrect`, `OnlyAcceptedReachedCorrect`, and, without a pool, `RegistryCorrect`,
`PresenceCorrect`, `ReferenceCorrect`, `AcceptedCorrect`. That the list of a broadcast holds
only connections that passed follows from `MarkedPassed`: an entry that is marked
authenticated belongs to one that passed. This is not inductive, since
`m_clients` is indexed by channel and key while the message that marks comes from
a connection. `InPlace` (a connection is listed under its own channel and key)
closes the gap where keys are distinct; where they come again, which is without a
pool, it takes `Inline`: only the io thread works, and what is listed is open or
about to be removed by it. On the pool with keys that come again the property
is false (section 6), so `OnlyAcceptedReached` has `KeysDistinct` as its
condition for the pool. Its other condition is `~undefined`: what a write to an
erased node does to other entries is not for the model to say.

The second half is about handlers that run inline and rests on the first.
`RegistryInv` says what `RegistryMatchesConnections` and `PresenceComplete` become
while a handler is at work: an entry stands for an open connection or is the one
that `remove_client` is about to erase (`EntriesOpen`); a channel has an open
connection or is dropped at the end of `remove_client` (`ChannelsOpen`); a client's
presence list is complete or its key is still to be visited (`Presented`). A loop
erases the node it stands on only if the node has no connection or, in the loop over
the channels, no client. Such a node is left behind by a client that was turned
away and by nothing else, so the invariant is `SoloInv`: `RegistryInv` holds, or
somebody was turned away and what is undefined may have happened or be about to
happen (`Astray`): the io thread has lost the node it stands on. An
accepted client
is not turned away because its entry stays marked as long as it is listed
(`MembersListed`). On the pool the first of these fails (section 6).

**AuthProofs** (any callers and connections, any width of `size()`).
`ExclusiveCorrect`, `OnlyOpenOnesCorrect` of the pool; `AuthUsesPool`, that `Auth`
implements `DbPool`; `NameProvesSessionCorrect`, `FailureRejectsCorrect` of `Auth`. The
pool's invariant, `OneOwner` and `OwnedOpen`, speaks of every slot of the deque's
memory and not of those between start and finish: start may have passed finish,
and slots outside are read then. It is the moved-from null left in a slot that
keeps a connection with one owner. Auth's invariant, `Course`, says what each
stage of a call knows: one that asks for the name has found its session, one
whose query failed holds nullopt and no answer.

**LoggerProofs** (any messages, levels, threads). `OnePlaceCorrect`,
`FileOrderCorrect`. `QueueIsEnd`: the queue is the end of all that was logged, so
what is settled is the beginning; `SettledOnce` spreads it over files, dropped
and lost without overlap; `InOrder` then holds because a file only grows by the
next message to be settled.

**WsServerProofs** (any number of connections, frames, starts).
`CallbackProtocolCorrect`, `ListedWhileOpenCorrect`, `MessagesDeliveredCorrect`. The
invariant says for each stage of a connection what the endpoint has been told and
how what the peer has sent is spread over the delivered messages, the fragments
kept and the frame being read; and that `stop` has swept only connections that
were open.

**CodecsProofs**, the frames as bytes (`FrameHeader`, `Framing`; any lengths that
fit a `size_t`, any masks of four bytes, any `max_message_size`, both directions,
any number of frames). `HeaderRoundTrip`: the header that `send` writes, masked or
not, gives the reader the opcode, the length and the place where the mask or the
content begins. `MaskedTwice`: the mask applied twice is nothing, from `XorTwice`,
where a byte is taken apart into its eight bits and put together again.
`FramesArriveCorrect`, `NothingTooLongCorrect` and `ReaderInStep` rest on `FrameInv`, which
is shown for as long as `fits`: once a message is longer than a `size_t` can say, the
sum that is compared with the limit has wrapped and all three fail or are void (section
6, `Codecs_LimitKept`). That invariant must relate what the reader has (`got` and `fragmented_in_message`) to what
the writer has sent (`due` and `unfinished`) while any number of frames is between
them. It does so with a chain of points (`Chain`): one for each gap between frames
on the wire, where each frame takes the reader from one point to the next (`Means`)
and every point has been told a beginning of what the last one has. Sending adds a
point at the end (`ChainGrows`), reading drops the first (`ChainShrinks`).
`ReaderInStep` says that the guard `InStep` of `TakeContent`, with which the model
would stop a reader that has lost its place, never stops one: `FramesArrive` does not
hold because of it. `CodecsFraming` and `CodecsFramesArrive` carry this over to the
specification that the run checks.

**CodecsProofs**, texts (any pieces that are byte strings, any number of them, so
texts of any length). `ValuesComeBackCorrect`, from three theorems about all byte
strings: `DecodeEncode`, `QueryComesBack`, `AttributesComeBack`. The state invariant
is only that the text is a byte string; the work is in the parsers, which are
recursive functions of the position. For each of them two things are shown:

- the equation it is defined by has a solution (`EncodeResultEquation`,
  `DecodeRestEquation`, `QueryStatesUnfold`, `AttributeStatesUnfold`), since a recursive
  function in TLA+ is a CHOOSE, of which nothing is known otherwise;
- what it comes to on a text whose parts stand at known places (`QueryLayout`,
  `AttributesLayout`): a name is read up to its `=` (`QueryFieldRead`, `AttributeRead`), an
  encoded value is passed over because it holds no byte the parser stops at
  (`EncodeSafe`), and the value cut out is decoded (`DecodeEncode`).

All of these are inductions on a length. The library's induction theorems take
an operator as a parameter, which the provers cannot instantiate; `SetInduction`
says the same of a set of numbers (one that contains 0 and with n also n + 1 is
Nat), and follows from the well-foundedness of < on Nat, which is a fact without
such a parameter. `DecodeEncode` goes from the end of the text to its start, as
`DecodeRest` does: after i bytes of the value the encoded text has grown to some
place, and what is decoded from there on is the rest of the value. The
assumption `PiecesAssumption` says that a piece is a sequence of bytes.

`TypeOK`, `FifoOrder` and `SuddenDeathStops` (ThreadPool), `QueueOrder` and
`CallbackOrder` (SendQueue), `CountExact` and `StoppedIsEmpty` (ScopeRunner) are
proved only: no run repeats them.

Only model-checked:

- all liveness, which is out of the prover's reach;
- `QueryMatches` of `Codecs`: its definition filters a sequence with `SelectSeq` and finds
  the cuts of a text by `Cardinality`; tlapm 1.4.5 translates `SelectSeq`, a recursive
  operator of the standard module, to nothing the provers can use;
- `HandshakeArrives` of `Codecs`: some ten parsers in a row, each with its own layout
  of the text; the lookup of a header is a `SelectSeq` and the numbers of ports are
  folds whose operator is a parameter.

Every other invariant and every safety property of steps that a run checks is
also a theorem, and so are the three refinements (their safety part).

## 6 What the code does not keep

Statements of the code's comments and names that TLC refutes. The first two are
runs of PROJECT.json; for all there is a `.cfg` of the given name, run with the
module before the underscore (`MC` in front for EndpointHandler, Logger and
Codecs), and TLC prints the trace.

| Config | Statement | What happens |
|---|---|---|
| `ThreadPool_AcceptedTaskRuns` | thread_pool.hpp:40, "Adds a new task to the thread pool" | a notification between the test of the queue (76) and the wait (82) is lost; the task stays in the queue until a later `add_task` |
| `EndpointHandler_NoChannelLeft` | wss_endpoint_handler.cpp:160, "Delete channel if no clients left" | tasks of one connection overtake each other on the pool, and `on_error`, which is not queued, overtakes them all (the shortest trace: before the queued `on_open`); `operator[]` in a late one creates the channel again |
| `EndpointHandler_ReceiverPassed` | wss_endpoint_handler.cpp:232, "must be authenticated to receive messages" | three workers and a key that comes again: a message of the old connection is accepted, the entry is then taken over by the new connection from that address and port, marking goes to it, and a broadcast of the other peer's second message reaches one that never passed (33 states; TLC takes minutes) |
| `EndpointHandler_OpenClientListed` | wss_endpoint_handler.cpp:126, "add new client to list" | on the pool a key comes again before the close task of the old connection has run: that task removes the entry of the new one (12 states) |
| `EndpointHandler_NoErasedNodeUsed` | wss_endpoint_handler.cpp:247, "Mean the client has gone away" | also inline: a client that was turned away goes on sending and leaves, through `operator[]`, an entry without a connection or an empty channel; the loop that meets it erases the node on which it stands, and the `++` that follows uses it (17 states) |
| `EndpointHandler_AcceptedNotKicked` | wss_endpoint_handler.cpp:62, "first time the unauthenticated user is sending a message" | two messages of a client are authenticated at once; the second fails and removes the client |
| `SendQueue_CloseOnce` | server_ws.hpp:251, "Send close only once" | two threads test `close_sent` before either sets it |
| `ThreadPool_WorkersLeave` | thread_pool.hpp:27, shutting down | the destructor joins while it holds the mutex that a sleeping worker needs to leave `wait` |
| `ThreadPool_ClearsQueue` | thread_pool.hpp:27, "will try to clear queue before shutting down" | `while(!m_stop)` ends a worker before it looks at the queue |
| `DbPool_ConnectionToProvide` | mariadb.cpp:49, "we have established connections to provide" | the size was tested before the mutex was taken |
| `DbPool_MinimumKept` | mariadb.cpp:79, "close extra connections (anything more than the minimum)" | the number was computed before the mutex was taken |
| `Auth_NameExists` | auth.hpp, `get_name` | an agent whose row does not exist is answered "number: ", which is not empty and so counts as authenticated |
| `Logger_OnlyOldDropped` | logger.cpp:73, only messages of more than a day are dropped | a message whose write fails is popped like any other |
| `SignalManager_EverySignalReported` | thread_pool.hpp:36, "logging in event of signal trigger" | `handle_signal` and `setup_handler` reset the variables after another signal has set them |
| `SignalManager_ReportNeedsSignal` | the same | `m_run` is 0 until a worker has run `setup_handler`; the loop takes it for a signal |
| `WsServer_AcceptEnds` | server_ws.hpp:479, "Stop accepting new connections" | a connection accepted just before makes its handler accept again on the closed acceptor, which fails at once with an error that is not operation_aborted, and so on |
| `WsClient_IdleTimeoutEnds` | client_ws.hpp:289, "Idle timeout" | the close frame is queued behind a write that never completes; the timer has expired, queueing behind another frame sets none, and no timer runs any more |
| `Codecs_RefusedIsTooBig` | server_ws.hpp:348, "Maximum size of incoming messages" | the fragments so far count against the length of a control frame: a ping that comes between two of them ends the connection though the message is not too big |
| `Codecs_LimitKept` | server_ws.hpp:349, "Exceeding this limit will result in a message_size error code" | lengths are added as `size_t`: after a first fragment, one whose length is near 2^64 makes the sum wrap and pass the test |
| `Codecs_EmptyValueComesBack` | utility.hpp:186, attributes of a header field | of `a=; b=c` the separator is taken into the value of `a` and swallows what follows |

## 7 Simplifications

- Unsynchronised operations on `std::unordered_map`, `std::queue` and on plain
  flags take effect one after the other, on current values. What a data race does
  to the inside of a hash table is not modelled.
- `EndpointHandler`: nothing follows the use of an erased node, and nothing is
  claimed of it; `ReferenceValid` says that inline it takes a client that was turned
  away. What is inserted while a loop runs is not visited by it, and a rehash does not
  disturb it. The listing of `CSTATUS` is one step. Two live connections never have one key (`KeyFree`). A client that was turned
  away and goes on sending is entered again by `operator[]`, without a
  connection, as in the code. With a pool, presence lists may be stale.
- `ThreadPool`: `setjmp` returns 0; nothing in this commit jumps (and
  `SigManager::get_jump_buffer` is not declared). `remove_thread` is empty. In
  `main` the pool lives as long as the process, so its destructor matters to other
  users of the class.
- `SendQueue` assumes one io thread, the default; with more, completion handlers
  that call back outside the mutex could run in another order.
- `WsServer`: peers follow the protocol except for masking; the request's text is
  parsed or not; timeout_request is not zero; reads that complete with no bytes
  are left out; message lengths do not reach the width of `size_t`. Nothing stops
  the server's ScopeRunner, so `continue_lock` always succeeds.
- `WsClient`: `timeout_request` is taken to be set, since a timer that does not
  expire is like none; a client started again makes another connection, which
  shares only the io_service with this one; of the send queue only the number of
  frames counts (`SendQueue` has the rest); what was read and not used is dropped
  when the reader ends; peers follow the protocol except for
  masking.
- `DbPool`: failure of the constructor is an initial state; slots beyond those of
  the run's calls were never written; what a driver does with a query is not
  modelled, only that it may throw.
- `Auth`: a message is well formed or not (its four parts are `explode`'s, in
  `Parsers`); what the tables hold is nondeterministic, also between two queries.
- `Framing`: contents are shown by their first six bytes; lengths fit a `size_t`
  (`InSizeT`, `LengthAssumption`) also with the status of a close, and so does each
  with its header, since it was in the memory of its sender; a foreign peer's header
  with a length that nobody sends, so that `4 + length` itself wraps, is outside. The client merges fragments only if
  `on_message` is set, which is assumed.
- `Parsers`: characters are the few the parsers tell apart and two letters; a
  multimap is the sequence of its emplacements; SHA-1 and Base64 of the handshake
  are a function of the key; the path that a proxy is given is left out. Where
  nothing in the code calls a function (`QueryString::parse`,
  `SemicolonSeparatedAttributes`), it is modelled all the same.
- `main` has the set-up of database and signal manager commented out; the modules
  describe the classes as they are used when it is not.

Not modelled: `Param` and `set_param` (typed values handed on to the driver),
`Config` and `ObjectContainer` (set once before threads exist), crypto, status
codes, `Date::to_string`, the Asio and Mutex wrappers (library calls), `SecureWebSocket` and
`main` (wiring), development tools, benchmarks and examples.

## 8 Plan

Done: the thread pool, the endpoint handler, the connection with its abstract
outbox, the scope runner, database and authenticator, logger, signals, server,
client, frames as bytes and the string functions; proofs of the safety of all of
them, of the string functions those that percent-encoding goes through.

Left, extending the model:

1. `WsClient` and `WsServer` composed with `ScopeGate`: handlers of several steps,
   and a destructor that waits for those that are inside.
2. Logger and signal manager together: `handle_signal` saves before the process
   goes on.

Left, proving:

- the safety of the compositions above, once they are modelled;
- `QueryMatches` and `HandshakeArrives`, by stating them without `SelectSeq` and by writing
  the parsers they go through as recursive functions, as was done for
  `ValuesComeBack`.
