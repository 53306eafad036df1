# A verification of the muhui coroutine server framework

`src/mumu` is a C++11 server framework: fibers on ucontext, an N:M scheduler that runs them on
threads, an `IOManager` that is scheduler, timer manager and epoll loop at once, system calls
hooked so that a blocking call parks the fiber instead of the thread, and a TCP/HTTP server on top,
with byte buffers, configuration, logging and file helpers beside it. This directory holds TLA+
models of it, TLC runs of small instances, and proofs that TLAPS checks for every value of the
constants.

## 1. Inventory

| Component | State | Operations | Correct when |
|---|---|---|---|
| Fiber (`fiber.cc`) | `m_state`, `m_cb`, context | `swapIn`, `swapOut`, `call`, `YieldToHold`, `YieldToReady`, `reset`, `MainFunc` | one thread at a time is on a fiber's stack; states follow what the assertions say |
| Scheduler (`scheduler.{h,cc}`) | `m_fibers`, `m_activeThreadCount`, `m_idleThreadcount`, `m_stopping`, `m_autoStop`, threads, root fiber | `schedule` (single, batch, pinned), `start`, `stop`, `run`, `idle` | nothing scheduled is lost or run twice, counters are exact, `stop()` returns and has drained |
| Timer (`timer.{h,cc}`) | ordered set, `m_tickled`, `m_previousTime`; `m_next`, `m_ms`, `m_cb` of each timer | `addTimer`, `cancel`, `refresh`, `reset`, `getNextTimer`, `listExpiredCb` | a timer fires once per period, never early, never after `cancel` |
| I/O events (`iomanager.cc`) | table of `FdContext`s, `m_pendingEventCount`, epoll interest | `addEvent`, `delEvent`, `cancelEvent`, `cancelAll`, `contextResize`, dispatch in `idle` | every waiter is woken exactly once, no edge is lost, growth costs no wait |
| IOManager loop (`iomanager.cc`) | the above, the tickle pipe | `idle`, `tickle`, `stopping`, `onTimerInsertedAtFront` | queued work is served, waits end, `stop()` returns |
| Hook, FdManager (`hook.cc`, `fd_manager.cc`) | table of `FdCtx`, a `timer_info` per call | `do_io`, `connect`, `sleep`, `socket`, `accept`, `close`, `fcntl`, `ioctl`, `setsockopt`; `get`, `del` | a time-out fails the call it belongs to; the `FdCtx` of a number is that of the socket now behind it |
| Socket, Address (`socket.cc`, `address.cc`) | `m_sock`, `m_isConnected`, cached addresses | `bind`, `listen`, `accept`, `connect`, `reconnect`, `close`, `cancelAll`; subnets, text | object and kernel agree; an address is read back from its text |
| ByteArray, streams (`bytearray.cc`, `stream.cc`) | chain of blocks, cursor | typed and untyped reads and writes, positions, buffers, files | what was written is read back, wherever blocks end |
| TcpServer, HTTP session, servlets | listening sockets, `m_isStop`; parser buffer; dispatch tables | `bind`, `start`, `stop`, `startAccept`, `recvRequest`, `handleClient`, `addServlet`... | stop ends every accept fiber; a session ends; a request arrives as sent and is answered by the route last registered |
| HTTP messages (`http.cc`) | headers, body, flags | setters, `dump` | what was set is what a reader of the dump sees |
| Config (`config.{h,cc}`) | the registry; value and listeners of each setting | `Lookup`, `LoadFromYaml`, `setValue`, `addListener`, `delListener`, `toString`, `fromString` | whoever listens follows the value; a loaded file holds; a setting is read back from its text |
| Log (`log.cc`) | loggers, appenders, formatters, patterns, definitions | `log`, rebuilding by the listener of "logs", `LogFormatter::init`, `reopen`, the casts of `LogDefine` | no message falls between two configurations; a pattern is read as written; a line reaches its file |
| FSUtil, transfers (`util.cc`) | the file tree; offset and limit of a transfer | `Mkdir`, `OpenForWrite`, `Rm`, `Unlink`, `Mv`, `Symlink`; `ReadFixFromStreamWithSpeed`, `WriteFixToStreamWithSpeed` | a call does what it says, also beside another thread's; a transfer returns what happened |
| Codecs (`hash_util.cc`, `json_util.cc`, `util.cc`) | none | base64, hex, URL, JSON escapes, `split`, `replace`, `Trim`, `JsonToYaml` | what is encoded is decoded to the same |
| Thread (`thread.cc`) | `m_id`, `m_cb`, `m_name`, `m_semaphore`; `t_thread` | constructor, `run`, `join`, destructor, `SetName` | an object that was made knows its thread, which does not need it any more |
| mutexes, other utilities, plugins | wrappers, vendored code | | not modelled (section 6) |

How they interact. A run loop takes an entry of `m_fibers` under `m_mutex` and switches into it.
The fiber schedules more work (`schedule` under the same mutex, then `tickle` when the queue was
empty), parks itself (`addTimer` or `addEvent`, then `YieldToHold`), or ends. A loop without work
switches into its idle fiber: `IOManager::idle` asks `stopping()`, sleeps in `epoll_wait`, moves
expired timers to the queue, drains the pipe, triggers the events that were reported and yields
back to the loop. The owner calls `schedule` and at the end `stop`, which sets two flags, tickles
and joins. A hooked call looks up the `FdCtx` of its descriptor, tries the system call and on
EAGAIN arms a timer, registers an event and parks. `TcpServer` keeps one fiber in such an `accept`
for every listening socket; what it accepts becomes a fiber of the I/O workers that runs
`handleClient`: receive, dispatch, send. Settings reach loggers, servers and the hook through the
listeners of `ConfigVar`.

What is hard here: the wake-up of a fiber races with its switching out; counters and flags are
read outside the lock of the queue they speak of; what `epoll_wait` reported is handled after
others changed the contexts; expired timers are in neither set nor queue for a while; tables grow
between a lookup and the access; descriptors are reused while something still waits for the old one;
the clock may be set back; bytes come in pieces cut anywhere. PROJECT.json
lists these places as "hazards", each with its line and the properties that cover it.

## 2. Modules

| Module | Models | Checked in | Proved in |
|---|---|---|---|
| `FiberScheduler` | `Scheduler` with the fiber states it drives | `MCFiberScheduler` | `FiberScheduler_proofs` |
| `TimerContract` | what `timer.h` promises, without locks or sets | through `TimerManager` | |
| `TimerManager` | `timer.cc` with users, pollers and a clock; implements `TimerContract` | `MCTimerManager` | `TimerManager_proofs` |
| `IOEvents` | events of `iomanager.cc`, an edge-triggered epoll, stale reports, hooked `close()` | `MCIOEvents` | `IOEvents_proofs` |
| `IOManager` | run loops with `idle()`, pipe, timers and events as sources of work, `stop()` | `MCIOManager` | `IOManager_proofs` |
| `HookIO` | `do_io`, `connect_with_timeout` and `close()` on one socket | `MCHookIO` | `HookIO_proofs` |
| `ByteSequence` | a sequence of bytes with a position, what `bytearray.h` promises | through `ByteArray` | `Library_proofs` |
| `ByteArray` | blocks, cursor, buffers, files, `writeFixSize`; implements `ByteSequence` | `MCLibrary` | `Library_proofs` |
| `TypedBytes` | every typed write and read, at a scaled width | `MCLibrary` | `Library_proofs` |
| `FdTable` | `FdManager` and the hooked calls that open, close and set descriptors | `MCLibrary` | `System_proofs` |
| `ContextTable` | `m_fdContexts` while threads grow it | `MCLibrary` | `System_proofs` |
| `ConfigVar` | `ConfigVar::setValue` and listeners | `MCLibrary` | `Library_proofs` |
| `LogConfig` | loggers rebuilt by the listener of "logs" while others log | `MCLibrary` | `Library_proofs` |
| `LogText` | `LogFormatter::init`; the definitions of loggers as YAML, and what the loggers dump; extends `LogConfig` | `MCLibrary` | |
| `ConfigRegistry` | the registry while files are loaded | `MCLibrary` | `Library_proofs` |
| `ConfigText` | the casts of settings to YAML and back, and what a file lists; extends `ConfigRegistry` | `MCLibrary` | |
| `Configuration` | `LogConfig` and `ConfigRegistry` side by side, and what is promised of both | `MCLibrary` | `Library_proofs` |
| `ServletDispatch` | routes | `MCLibrary` | `Library_proofs` |
| `HttpMessage` | setters and dump of a request or response | `MCLibrary` | `Server_proofs` |
| `SocketObject` | `Socket` objects and the descriptors under them | `MCLibrary` | `System_proofs` |
| `NetAddress` | subnets, text of an IPv6 address, the text given to `Lookup` | `MCLibrary` | `Server_proofs` |
| `FileTree` | `FSUtil`, a system call a step, by several threads | `MCLibrary` | `System_proofs` |
| `TextCodec` | encoders, decoders and the helpers on text | `MCLibrary` | |
| `StreamTransfer` | transfers in chunks with a speed limit | `MCLibrary` | `System_proofs` |
| `FileAppender` | the file behind an appender, renamed, gone or full | `MCLibrary` | `System_proofs` |
| `ThreadStart` | a `Thread` object and the thread it starts | `MCLibrary` | `System_proofs` |
| `SystemObjects` | `SocketObject`, `ThreadStart`, `FileTree`, `StreamTransfer` and `FileAppender` side by side, and what is promised of the objects and of the data | `MCLibrary` | `System_proofs` |
| `TcpServer` | bind, start, stop, accept fibers, the closing task | `MCServer` | `Server_proofs` |
| `HttpSession` | `recvRequest`, `handleClient`, `sendResponse` on the I/O workers | `MCLibrary`, `MCServer` | `Server_proofs` |
| `ResponseParser` | `HttpResponceParser`: a response in pieces, then the heads of chunks; extends `HttpSession` | `MCLibrary` | `Server_proofs` |
| `HttpServer` | `TcpServer` composed with `HttpSession`: accepting a connection begins a session | `MCServer` | `Server_proofs` |

State keeps the names of the source (`m_fibers`, `m_pendingEventCount`, `interest` for what epoll
watches). An atomic step is one critical section, one system call, or one unprotected access to
memory that another thread reads. Each thread has a `pc` that names its place in the source.
The code a fiber runs is not modelled: it may schedule, wait or end at any point, within a bound.
Variables marked "history" in a module are read by properties only.

`FiberScheduler`: `ScanTake`/`ScanNothing` are the locked scan of `run()`; `ResumeFiber`,
`RunCallback` and `DropEnded` its three branches; `Leave` is `--m_activeThreadCount`, `Requeue`,
`Park` and `Release` what follows it, each a step of its own because another loop may look in
between; `YieldToHold` writes HOLD and `SwitchOut` saves the context, two steps for the same
reason. `Stop*` are the statements of `stop()`, `StopCall`/`StopRooted` the loop of the caller on
its root fiber. Requeueing a READY fiber drops the thread it was pinned to, as the code does.

`TimerManager`: `m_timer` is a set whose order is `Before`, the comparator (deadline, then
address). `ReadClock`, `CheckEmpty` and `Collect` are the three separate moments of
`listExpiredCb`. `Rollover` is `detectClockRollover`, with `Hour` for its 3600000 ms. A poller that
holds a clock value of an hour ago (`lagged`) looks to the next one like a clock set back.

`IOEvents`: a context is its set of `events` and of used `EventContext`s. `Trigger` is
`triggerEvent` plus the decrement each caller makes. `batch` is what a poller got from `epoll_wait`
and has not handled; `Dispatch`, `Skip` and `DispatchAsserts` are the three ways through the
body of the for loop. The kernel part (`Accepts`, `Watch`, `Arrive`, `Reported`) is external: ADD,
MOD and DEL succeed or fail as epoll's do, and a descriptor is on the ready list after an edge or
after it is (re-)armed while ready. `ContextTable` is the table under it: `LookUp` takes the read
lock, `Grow` and `Register` the write lock, and the size wanted is computed before it.

`IOManager`: a task is in one `place`; `GetNextTimer`, `ReadPending` and `BaseStopping` are the
three reads of `stopping(timeout)`; `ListExpired` and `ScheduleCbs` are separate, the tasks are
in `cbs` in between. `mustTickle` holds the threads that released the lock of `schedule` and have
not called `tickle()` yet.

`HookIO`: one fiber calls for each event, a third closes. `call` numbers the calls of a fiber and
names their `timer_info`. The timer's callback takes three steps, because the fiber and a `close()`
may run between them: `OnTimer` locks the weak pointer and tests `cancelled`, `SetCancelled`
writes it, `CancelEvent` cancels the event of whoever waits for it by then. Contexts and epoll are
those of `IOEvents` without its counters and assertions.

`FdTable`: `GetLookup` and `GetCreate` are the two critical sections of `get`; `Access` says what an
index one past the end finds. Numbers are reused (`birth` tells one use from the next). Threads are hooked or
plain: `accept`, `fcntl` and `ioctl` go to the table on every thread; `socket`, `close` and the time-outs of
`setsockopt` do so on hooked threads only.

`ByteArray` keeps the blocks as one memory, and the cursor as the block that `m_cur` names beside
`m_position`, which the code keeps in step by hand; sizes are unsigned, a difference wraps at `Word`.
The rounds of `writeToFile` are steps of their own (`FileRound`), as the sends of `writeFixSize` are
(`StreamWrite`); no other call comes in between, since a ByteArray has one user. `op` tells the call that was made
last: its name, its number, its place and the bytes it was given or has returned. `ByteSequence` says from that what the call may do: a
`write` leaves exactly its bytes at the position, only `setPosition` may show what the memory holds. `Stored` is the copy
of the bytes into the blocks. `TypedBytes` scales a byte to 3 bits and words to
1, 2, 3 and 5 bytes: the varint, zigzag and fixed encodings depend on the width only through it. `TbValues` gives the
values that may be written of each type, any that fit in it (`TypedBytesAssumption`).

`ConfigVar`: `Notify` calls listeners one by one under the read lock, `ReleaseRead` and `Assign`
are the gap and the write. `LogConfig` takes each setter of a logger as the critical section it is.
`ConfigRegistry`: `LoadFromYaml` lists the members of a file, `LoadKey` looks one up and sets it. What a file lists and what
a cast makes of a node are its constants (`Members`, `Takes`, `Cast`), for which the runs take the operators of `ConfigText`
(`FileMembers`, `NodeTakes`, `FromNode`): there a YAML text is the document it holds, so that the module says which casts
load an element again and which put it in as a string, and `MembersAreSaid`, which TLC evaluates, says that the list has every
value that the file gives a name, in order. `LogText` does the same for the definitions, where a level is its number,
after the patterns, which `FormatterInit` cuts into items.

`ServletDispatch` is sequential; its operations are whole critical sections of one lock.
`HttpSession`: `taken` counts what a session has read of what has `arrived`; a `piece` boundary in
the middle of a token loses the parser's mark (`cuts`). `Parsed` is `http_parser_execute` with its callbacks on one
piece, `AfterPiece` what `recvRequest` makes of it. The mark of the query alone is not reset between pieces: it
stays an offset (`behind`), so that of a query which began in an earlier piece `QueriesGiven` has the end, a part, or a length that
wraps, for which `std::string` throws out of `recvRequest`. A read parks with its time-out (`parked_recv`, `parked_body`), or without it,
when the timer has fired already (`missed_recv`, `missed_body`). `ResponseParser`
is the same of a response; nothing in the repository drives it, so its caller is any that follows
`hasError` and reads a body before the next chunk. `TcpServer` steps through the hooked
`accept` and `close`, since `stop` closes sockets that fibers wait on.

`SocketObject`: `kfd` is the kernel's view of a number, everything named `m_*` the object's; a
connect that parks returns in `ConnectReturns`, when the object may have been closed, reconnected or
given another number. `accept` is the same on every thread, since the hook makes the `FdCtx` of what it accepts whether or not
it is on; `GetLocalAddress` caches what it finds, also before `bind`. `FileTree` has a frame for each call of the recursive `Rm`; trees and calls are constants, any in
which what is there is in directories (`FileTreeAssumption`).

`TextCodec`: a byte is of 4 bits, so that a hexadecimal digit is of 2 and a base64 digit of 3, and still
3 bytes are 4 base64 digits; a number stands for each class of characters the codecs tell apart. `FileAppender`: `stream` is the
`std::ofstream`, which fails to open while it is open; `place` is what is found at the path.
`StreamTransfer` counts the clock in ticks, of which `TicksPerSecond` stand for the 1000 ms. In
`ThreadStart` each statement that the other side may see is a step.

## 3. Runs

| Run | Instance | Properties |
|---|---|---|
| `scheduler_safety` | 2 loops, 2 fibers, 1 callback, 3 fibers to run callbacks, 2 yields each, pinning and parking (1.8 million states) | `TypeOK`, `CountersExact`, `OneOwner`, `NothingLost` |
| `scheduler_stop` | all constructor shapes (2 threads; 1; 1 and the caller; the caller alone), restart after stop, no pins | `StopDrains`, and under fairness `WorkFinishes`, `StopReturns` |
| `scheduler_onestack` | 2 loops, 1 fiber, a wake-up may come before the switch | violation of `OneStackUser` |
| `timers` | a one-shot and a recurring timer, periods 1 and 2, 2 pollers, clock 1..3 with a set-back of more than `Hour` = 1 (2 million states) | `Consistent`, `ContractHolds` (refinement) |
| `timer_front` | 1 timer, 2 pollers | violation of `FrontExists` |
| `io_events` | 1 descriptor, READ and WRITE and errors, 2 pollers | `Consistent`, `ContextMatches`, `WokenOnce`, `InterestMatches`, `ReadyNoticed` |
| `io_asserts` | the same | violation of `TriggerAsserts` |
| `io_loops` | 1 or 2 loops, 2 tasks, one of which waits once (timer, event or turn) | `Consistent`, `SoloDrains`, and under fairness `QueueServed`, `WaitEnds`, `StopReturns` |
| `hook_calls` | a reader that calls once, a writer that calls twice with time-outs, a close, the number used again | `Consistent`, `TimeoutHonest`, and under fairness `TimedCallReturns` (950 thousand states) |
| `hook_timeout` | reader and writer, one call each, no close | violation of `TimeoutWakes` |
| `library` | twenty-one parts, one per behaviour (below; 890 thousand states up to symmetry) | one type invariant and thirteen properties (below) |
| `server` | three parts, one per behaviour: the accepting side (2 sockets, 2 clients, 2 starts), the sessions (2 connections on 1 I/O thread, whose requests may pause within the query and within the body), both together (1 socket and 1 connection beside ones already served) | `AcceptorsSound`, and under fairness `SessionEnds`, `StopEndsAccepting`, `PendingAccepted` |

Properties that share an argument are one name, a conjunction of named parts: `Consistent` is the
types of a module with its counters and places; `OneOwner` is `InOnePlace` with the assertions of
`fiber.cc` (`StateAssertions`); `NothingLost` says that scheduled work stays somewhere and finishes at
most once.

The parts of `library`, chosen by `piece` in the initial state, the others at rest. They share no
state in the code either, so a behaviour of all of them is an interleaving of these.

| Piece | Instance | Property |
|---|---|---|
| bytes | blocks of 1 or 2, up to 3 bytes, accesses of up to 3 | `CursorSound`, `BlocksHidden` (refinement), `WholeMessageSent` |
| typed | any 2 values at the edges of their types and about the width of a varint's groups, byte order changed in between | `RoundTrip` |
| fds | 2 hooked threads and 1 plain, each of which may accept and set time-outs, 3 numbers about a table of 3, one used twice | `SettingsSound` |
| contexts | 2 threads, 2 descriptors beyond a table of 2, READ and WRITE | `GrowthSound` |
| config | 2 setters, 2 listeners of which one throws, 3 values, 3 sets | `ListenersFollow` |
| logs | 2 updaters, root and system logger, 4 settings, 3 updates | `ConfigurationRuns` (`LogsFollow`), `TextsReadBack` (`DumpAsConfigured`) |
| patterns | every pattern of up to 5 characters out of 6 | `TextsReadBack` |
| routes | 2 paths, 2 patterns, 2 servlets, lists of up to 3 | `AnswersRegistered` |
| request | 6 requests of 4 to 6 tokens, with and without query, fragment and header, arriving in any pieces | `MessagesIntact` (`RequestIntact`) |
| responses | 3 responses of 3 to 5 tokens, version 1.1 or 1.0, then 2 chunk heads out of 3, in any pieces, the flag of `execute` right or wrong | `MessagesIntact` (`ResponseIntact`) |
| messages | 4 header names, any setters in any order, request and response | `TextsReadBack` |
| sockets | 2 fibers, 2 objects, 2 numbers, 2 addresses, 2 sockets ever | `ObjectsKept` (`SocketsKept`) |
| addresses | every IPv4 address of 4 bits and IPv6 address of 3 bytes of 2 bits, every prefix; 6 groups; texts of up to 6 parts to look up | `TextsReadBack` (`AddressesRead`) |
| files | 2 threads, 5 paths, 4 trees, 9 calls | `DataKept` (`FilesKept`) |
| codecs | texts of up to 3 characters out of 10, base64 texts of up to 5 and some of 8, JSON two deep | `TextsReadBack` (`CodecsRead`) |
| conversions | 8 types of setting up to two deep, containers of up to 2 | `TextsReadBack` (`SettingsReadBack`) |
| registry | 2 loaders, 4 names, 3 files (a key twice, a refused name, values that their types refuse), 2 loads | `ConfigurationRuns` (`FileApplied`) |
| definitions | texts of 1 or 2 definitions with up to 2 appenders, fields missing or odd | `TextsReadBack` (`DefinesReadBack`) |
| transfers | 2 or 8 bytes in chunks of 3, two speeds, a second of 4 ticks, 12 ticks | `DataKept` (`TransfersHonest`) |
| appenders | 7 seconds, 2 files at the path | `DataKept` (`LinesKept`) |
| threads | 2 objects, 2 names, 1 rename | `ObjectsKept` (`ThreadsKept`) |

Each property of a passing run has a mutant in PROJECT.json: a plausible slip in the named
definition (a missing decrement, a bit that stays, a mark not reset) that the run finds.

Why the bounds are enough. Every race described above is between two loops, or a loop and the
owner, over one task; two of each let every such pair meet, and the second task lets a task depend
on another one. Two yields per fiber let a fiber be
requeued and come back as another loop leaves. Descriptors share only the counter, so one
descriptor with both events shows the interplay of events and reports; what is said of any number
of descriptors is proved (section 5). Timers interact through the order and the front of the set,
for which two are enough, one of each kind. The writer of `HookIO` calls twice,
so that what is left of its first call meets the second; the reader's call is there for the switch
between ADD, MOD and DEL and takes no time-out, which would repeat the writer's. Three clock values
with `Hour` = 1 reach a set-back, a poller that lags by more than an hour, and an expiry in the very
millisecond of the poll. Blocks of 1 and of 2 put every access on, across and short of an edge, and 3
bytes give at least two edges. In `request` a pause may come after any cell (`Arrivals`), so that each token is cut behind its first byte,
in front of its delimiter and not at all; in `server` it comes within the query of a request and within the body, where the parser and `readFixSize` wait. In the tables the boundary case is fd = size, which the numbers on
either side of the table meet, and growth by two threads at once. Three sets let a set begin and end within
another. A pattern of 5 characters holds an item with its format, or a text on both sides of an
item. Two sockets ever make a number come back under another object, and an address of 6 groups
has room for two runs of zeros with a group between and around them. A transfer of 8 bytes in chunks of
3 has a first, a middle and a shorter last chunk, and 12 ticks cross two seconds; 7 seconds let the
appender open its file, lose it and open it again. Two loads let one file come into the middle of another. Two directories deep and two
calls let each race of `access` and `mkdir` leave something of the path to make. Bounds: `Arrivals`, `MaxYields`,
`MaxWaits`, `MaxClock`, `MaxCalls`, `MaxBytes`, `MaxChunk`, `MaxValues`, `MaxBirths`, `MaxWaitsOn`,
`MaxSets`, `MaxUpdates`, `MaxGlobs`, `MaxPattern`, `MaxSockets`, `MaxStarts`, `MaxText`, `MaxHost`, `MaxLoads`, `MaxTicks`,
`MaxSeconds`, `MaxFiles`, `MaxRenames` and the sizes of the sets; nothing else is cut.

Symmetry is used in the runs without liveness only. In `library` it is the swap of all
interchangeable pairs (bytes, threads, objects) at once: a part only copies and compares these
values, and none is chosen by an order. `CHECK_DEADLOCK FALSE` is set where the system
may really end: in `timers` and `io_events` the clock stops at `MaxClock`
with all timers over, and a failed assertion stops the process; in `hook_calls` and `hook_timeout` the callers
stop after `MaxCalls`, and a stranded fiber waits for ever; in `library` a program stops calling at
its bound; in `server` all clients have been served.

Fairness. `FairSpec` of `FiberScheduler` and `IOManager` is weak fairness of each thread's own next
step (threads run, a mutex is granted, `epoll_wait` returns at the latest after `MAX_TIMEOUT`,
3000 ms), of each wake-up that is due (timers expire, events come), and of an owner inside `stop()`.
Nothing obliges the owner to call `schedule` or `stop`. In `HookIO` a call that has begun goes on,
an armed timer expires, callbacks and reports are handled; data need not come. `TcpFairness`: the
closing task and each accept fiber go on, and an accept that can succeed does in the end.
`SessionFairness`: a free I/O thread takes the next session of the queue, a session that runs goes
on, and a time-out that is armed expires; a peer need neither send nor read. A loop that finds
nothing to do goes round for ever, as the base class does; no fairness between tasks is assumed
beyond the order of the queue.

### Assumptions and exceptions

A property that holds but for cases the code does not handle names each case by a history variable
or an operator, and says nothing in that case only:

* `EarlyWake = FALSE` in `scheduler_safety` and `scheduler_stop`, and wake-ups after the switch in
  `IOManager`: the code does not ensure this (`scheduler_onestack` shows what follows when it does
  not hold); the other properties are stated for executions where it does.
* `Parking = FALSE` in `scheduler_stop`: the base `Scheduler` has no timers or events, a parked
  fiber is not its concern. `Pinning = FALSE` there: between `--m_activeThreadCount` and the requeue
  (scheduler.cc:249-253) the test of `stopping()` is true with a fiber still to come; a loop may
  leave on it. Work that any loop may take is then served by the remaining ones; work pinned to the
  loop that left is not.
* `SoloDrains` speaks of one loop. With two, the three reads of `IOManager::stopping` can miss a task
  that moves from one of the things read to another; when loops end on it, what the task waits for
  next is nobody's, and `stop()` returns.
* `QueueServed` does not say when: `tickle()` is dropped when no loop counts as idle, and a loop
  counts itself idle only after it has found the queue empty and released the lock. The task then
  waits for the time-out of `epoll_wait`.
* `ContractHolds` excuses an early firing after `setBack` or `lagged`: all timers fire then.
* `TimedCallReturns` exempts `Stranded`, registered between `cancelAll` and `close_f`, after which
  epoll watches nothing, and a call parked after the timer's callback found no event to cancel
  (`missed`, see `hook_timeout`).
* `CursorSound`, `BlocksHidden`: until the cursor has `strayed` (a read over an edge adds the place
  within the block again, bytearray.cc:607; so does the filling of several write buffers, 878) or a call has crashed. Of two answers nothing is promised (`excused`): a
  read at a place in another block than the cursor's, or behind the end (`FarRead`), and the last part of a file (`FilePart`); and a read of no byte at the end of the
  data (`ReadNothing`).
* `WholeMessageSent`: a message begun while the cursor had `strayed` (`sendAstray`): the first short send
  repairs the cursor in the middle of it (setPosition), and what follows is from another place. Memory of at
  least 5 bytes is needed to see this; the exception was found by the proof.
* `RoundTrip`: but for `writeStringVint`, which `readStringVint` reads with a fixed length
  (bytearray.cc:502), a string longer than the length field of `writeStringF16`, and a value written
  before the byte order was changed.
* `SettingsSound`: but for an `FdCtx` `leaked` by a thread without the hook, and `ioctl`, which sets
  the kernel's flag beside the user's; and a time-out last set by a thread without the hook, which reaches the kernel alone while
  the `FdCtx` keeps the one before (hook.cc:460, `past`).
* `GrowthSound`: `dropped` waits, cut off when two threads grow the table at once.
* `ListenersFollow`: listeners that are `owed` a value: sets that overlap, one that throws, one that
  joins within a set. `LogsFollow`: loggers rebuilt by two threads at once (`mixed`).
* `AnswersRegistered`: patterns `astray`, erased by `addGlobServletCreator` (servlet.cc:123).
* `MessagesIntact`: tokens in `cuts` or `torn`, whose mark a parser loses between two pieces, and a
  content-length that an int does not hold. Of a request, a query that was cut is handed on as its end, a part or nothing, or makes
  `std::string` throw (its mark keeps its offset, http11_parser.rl:84 and 283-286); path and fragment keep their ends. A
  request is refused only when its method, its query or its version was cut (`RefusedWhenCut`). A response of version 1.0 is refused, since it is compared
  with "HTTp/1.0" (http_parser.cc:198). A chunk size that was cut is its last digit or what lies behind
  it, which may end the body; a wrong flag may put the machine in error.
* `SessionEnds`: a peer that shuts in the middle of its head makes the session spin on its thread
  (`Spins`, http_session.cc:30), and sessions that spin on every thread leave none for the others; one that does not read its response
  parks it (`parked_send`); one that sends no more to a read whose time-out was missed leaves it parked (`missed_recv`,
  `missed_body`; `hook_timeout` shows how `do_io` misses it).
* `StopEndsAccepting`: sockets dropped by a failing bind (`orphans`), a fiber that began to wait
  between `cancelAll` and `close_f` (`late`), and a server `restarted` before it had stopped. A
  behaviour of `server` ends with such a restart.
* `ObjectsKept`: `SetName` on a thread whose object is gone (thread.cc:25); local addresses
  gone `stale`, because they were asked for before `bind` or `connect` or kept by a `close` and a new `bind` or `connect`; and objects `tangled` by a call made while a
  connect of theirs was parked, or whose number a late answer took for another's.
* `ConfigurationRuns` also exempts settings that were looked up first, or set by another file, while
  one was loaded (`met`); it says of a loaded file that the last value counts that a setting takes.
* `DataKept`: a transfer whose last chunk failed is reported as done (util.cc:861); after a write that
  failed the appender never writes again (log.cc:449), which the property states; calls of different kinds that `overlapped`; the loser of the race in `__mkdir`
  (`lostRace`), which leaves the rest of its path unmade; but not all callers lose, one that did not or that has what
  it asked for remains. Of a tree with a socket in it, `Rm` takes
  the socket for a directory and keeps what holds it.
* `TextsReadBack`: prefix 0 of an IPv4 address, whose mask is an undefined shift; the network address,
  of which `networdAddress` keeps the host bits (address.cc:411, all of IPv4, and 520, one byte of
  IPv6); an IPv6 address without brackets, which `Lookup` asks for with a service it does not have
  (address.cc:116); a request's body, announced as "connect-length" (http.cc:187), unless the caller set
  content-length; and patterns with an error. After "%%" the second sign is read again. Of settings: an
  empty string in a container comes back as ~ or as two quotes, and a list or a set of containers comes
  back with empty ones. Of codecs: `TrimRight` drops the last character it should keep, `Escape` leaves
  nulls in front of what it escaped, `split` takes a limit of 1 for none. Numbers, booleans and
  empty containers change their type between JSON and YAML.

## 4. Where code and its text disagree

1. `scheduler_onestack`: `YieldToHold` writes HOLD before `swapOut` has saved the context. A timer
   or event that fires in between makes another loop swap the same fiber in: two threads on one
   stack. The scan of `run()` passes over EXEC fibers only, which its comment takes to be enough.
2. `timer_front`: `listExpiredCb` tests for an empty set under a read lock and reads `*begin()`
   under a later write lock; another poller, or a `cancel`, empties the set in between.
3. `io_asserts`: a report of READ and WRITE of which only one is still waited for is not skipped,
   and both are triggered: `MUHUI_ASSERT(events & event)` stops the process.
4. `hook_timeout`: a time-out that expires between `addConditionTimer` and `addEvent`, or whose
   callback comes late to a call that has gone on to its next wait, finds no event to cancel; the call
   then parks with no time-out left.

Seen while modelling, and without a run: `HttpRequest::getParam` and `getCookie` compare their
iterator with `m_headers.end()` (http.cc:110, 115); `HttpResponce::setCookie` fills a stream and
drops it (http.cc:285-293); `m_close` is TRUE by default and nothing reads the connection header into
it, so that keep-alive never takes effect; `Mv(a, a)` deletes `a`; an IPv6 prefix of 128 writes into the scope id;
`quick_hash(void*, size)` never advances its pointer; `replace` of an empty text goes on for ever; `=`
counts as unreserved in `uri_chars`, which its comment leaves out; the response parser compares the
version with "HTTp/1.0" and refuses a 1.0 response; keys in upper case are refused by `ListAllMember`
though its comment shows "A.B" and `LoadFromYaml` goes on to lower them; the level of an appender is
written to the "logs" setting and never read; `fromString` returns false always; the first chunk of a
second passes the speed limit freely;
`http_parser_execute` resets every mark but `query_start`.

## 5. Proofs

All hold for every value of the constants and rest on the ASSUMEs of their modules only.

`FiberScheduler_proofs` (early wake-ups and pins included): `TypeCorrect`, where `TInv` adds to the
types that a loop in the middle of a task has a fiber (`HasFiber`), because the actions of a fiber's
body index the fiber tables with it; `CountersCorrect`, where `CountStep` says how the number
of threads in a set of places changes when one thread moves, and each action is one case of
`CountersMove`: into the set, out of it, or neither.

`OwnersCorrect` (`OneOwner`) is proved for wake-ups that come after the switch (`EarlyWake` = FALSE, the
assumption of the theorem; `scheduler_onestack` shows that it is needed). `OwnInv` says of the queue
that an entry holds a fiber or a callback (`EntriesShaped`), of a thread what it holds at each place
(`ThreadOwns`), of a fiber that it is in the queue once, with a thread, or armed to be woken, and not
in two of these (`FiberOwned`), and adds the assertions of `fiber.cc`. `LoopStep`, `QueueStep`,
`BodyStep` and `GiveUpStep` are the four ways in which a step changes this; each action is one of them.

`NothingLostCorrect` (`NothingLost`, under the same assumption) follows the work. `WorkInv` says that a
callback has one carrier from `schedule()` to its end, which is a place in the queue, the hand of a loop
that took it, or the body of a fiber, and none before and after (`CarriedOnce`); that the fiber a loop keeps
for callbacks is empty unless it runs one (`ThreadWorks`); and that a fiber with a function to run is
somewhere (`FiberWorks`). Owners alone do not give it: a fiber may be in one place and have forgotten its
function. `AppendCarries` and `RemoveCarries` are what `schedule()` and the scan do to the carriers.

`StopDrainsCorrect` (`StopDrains`) needs that somebody looks at the queue again before all loops have left
(`SomeoneLooks`), who is in `Scheduler::run` at each place of `start()` and `stop()` (`InLoops`), and that what is
queued may be taken by any loop (`ExecOwned`, `Unpinned`). It assumes what `stop()` cannot do without: a
loop (the constructor asserts it), no fiber that parks (nobody but its waker knows of it), no entry pinned
to a thread (which may have left), and no early wake-up. `scheduler_stop` checks it under the same assumptions.

`TimerManager_proofs`: `TimersCorrect` (`Consistent`) and `ContractImplemented`, the refinement of
`TimerContract`, step by step. `Inv` adds to the agreement of set and callbacks: a timer has its
callback until it ended (`CbUntilEnded`), its deadline is at least a period after zero
(`NextAfterMs`), and without a set-back the clocks of the pollers are behind the real one by at most an hour
(`ClockAhead`, `NoLaggard`), so that what `Collect` takes was due (`DueOrExcused`).

`IOEvents_proofs`: `InterestCorrect`, `WokenOnceCorrect`, `ContextCorrect` from one `Inv`: types and
the three agreements together. `WokenOnce` needs `ContextMatches` and the guard of `addEvent`; the
dispatch needs that what is triggered is part of `events`. `TriggerInv` and `WatchFacts` say what
the two operators do to the agreements. `CountCorrect` (`Consistent`): every action adds pairs of a
descriptor and an event to those waited for, or removes some, and counts them (`PendingMoves`).
`EdgesCorrect` (`ReadyNoticed`) needs that what is waited for is open (`WaitedOpen`), since `epoll_ctl`
would refuse to arm a closed descriptor again and its edge would be gone.

`IOManager_proofs`: `LoopsCorrect` (`Consistent`) from `LoopsInv`. The place of a task says who holds it:
the queue, once (`QueueExact`), one loop (`RunsOne`), the vector of expired timers of one loop
(`CollectedOnce`), or epoll's list or the reports of one loop (`ReportedOnce`); with that each action moves
the three counters by the tasks and threads it moves. `SoloCorrect` (`SoloDrains`) is the argument that
`stopping()` is right for one loop: what it has read of timers, events and queue stays true until it has left
(`SoloSees`), since nobody else can change it. With two loops it is false ("Assumptions and exceptions" tells how).

`HookIO_proofs`: `CallsCorrect` (`Consistent`) and `TimeoutsCorrect` (`TimeoutHonest`) from `HookInv`. A timer is
armed only inside of a call with a time-out (`ArmedInCall`); nothing has touched a call still to come
(`FutureUntouched`), and what touched the present one was its own timer (`TouchedHonestly`), although callbacks
of earlier calls may come at any time: the number of the call stands for the identity of `timer_info`.

`System_proofs`, of `ContextTable`: `GrowthCorrect`. Slots exist exactly below the size (`SlotsBelowSize`), every
wait that was not dropped is reachable, and a caller past the lookup still has its slot unless
somebody shrank the table (`CallersHold`); `RoomForItself` is the arithmetic of fd * 1.5.

`System_proofs`, of `FdTable`: `SettingsCorrect`. One thread at a time opens or closes a number (`Exclusive`), the
slot of an open number is of its birth (`SlotBirths`) and holds its settings (`SlotSettings`), but for
leaks and time-outs that a plain thread set. `OneMoves` and `UntouchedKept` reduce each action to the one number it touches.

`System_proofs`, of `SystemObjects`: `ObjectsCorrect` (`ObjectsKept`) from `SockInv` and `ThreadInv`. The two
addresses and the flag of a socket (`ConnectionOf`, `LocalOf`) hold by themselves only while no connect is parked. A parked
connect that nobody disturbed is the only one of its object, on the descriptor it began with, and what woke it was the answer of the
network (`ConnectsAlone`); so that, when it returns, SO_ERROR is that of its own descriptor. An object
that is gone holds nothing (`GoneIsEmpty`), since `accept`, on any thread, puts its descriptor into one. `OneObject` and `OthersKept` reduce
each action to the object it touches; the number `newSock` gets is nobody's by the well-foundedness of the natural
numbers (`LowestFree`). `ThreadStarted` says, for each place of a thread and of its owner, what of the handshake is done.

`Library_proofs`, of `ByteArray`: `CursorCorrect` (`CursorSound`), `MessageSentCorrect` (`WholeMessageSent`) and
`BlocksImplemented` (`BlocksHidden`), the refinement of `ByteSequence`, from one `BaInv`. It says that the memory is
whole blocks, few enough that a size_t counts them (`BaWhole`), so that a difference wraps only when the cursor has
strayed; that what a message has sent is the memory from where it began to the position, and that position and
rest add up to its end (`BaMessage`); and that what `writeToFile` has written is the memory up to its own position,
which is the start of its own block but in the first round, and then there is more than a block to write (`BaFile`).
The last part is needed for the crash at the last block: a file whose first round starts inside a block and has less
than one block to write is the case `FilePart`. There is one lemma for each call (`WriteKeeps` ... `FileRoundKeeps`),
which says that it keeps `BaInv` and, of an agreeing cursor, what it does to the bytes. `KeptWrites`, `KeptSeeks`, `KeptClears`,
`KeptReads`, `KeptPeeks`, `KeptShows`, `KeptStarts`, `KeptPiece` and `KeptRefuses` turn that into the step of the sequence which has the name and the
bytes of the call, and `KeptExcused` says which answers are excused. `DivUnique`, `RoundUp` and `Wraps` are the
arithmetic of blocks; the constants only need more values of a size_t than there are bytes in memory.

`Library_proofs`, of `ConfigVar`: `ListenersCorrect`. A listener nobody owes has the value, or that of the set which
has told it (`Follows`); sets that overlap owe everybody (`OverlapOwes`); alone, a set tells one after another from what
they have (`AloneTells`); who joins within a set is owed or current (`JoinersCurrent`).

`Library_proofs`, of `ServletDispatch`: `AnswersCorrect`. The list has one entry for each pattern that is not astray, with the
servlet last told (`OneEntry`, `EntriesAgree`); the search finds the first by the well-foundedness of
the natural numbers (`FirstOfSet`).

`Library_proofs`, of `LogConfig`: `LogsCorrect` (`LogsFollow`, which `ConfigurationRuns` contains), from `LogInv`. What
overlaps is mixed: two updates at once agree with the definitions, and with each other, on all loggers but those
(`OverlapMixes`), and a logger an update has still to change differs from its definition (`PendingDiffers`); so a logger that
is not mixed is changed by one update at most (`Lone`). It is then what its definition says (`SaidBefore`), what the
update says that is done with it (`SaidAfter`), or on its way from the one to the other, statement by statement
(`OnTheWay`, with `LeftOver` for the appenders still to add). `OnLogger` is the step of an update on its logger, whichever of
the four critical sections it is. The definitions are of any number and shape, with levels in `Nat` (`LogAssumption`).

`Library_proofs`, of `ConfigRegistry`: `FilesApplied` (`FileApplied`), from `RegInv`, for any files and casts. A loader
has visited a prefix of what its file lists, and a setting it has not met has the last value which that prefix gives it
and which its type takes, or the one it had when the file was begun (`HasLast`); one more member makes it the last or leaves it
(`OneMoreMember`), and what others do takes a name out of those (`MeetsKeeps`). The one assumption on casts is that none gives the value
that stands for no setting (`RegistryAssumption`). `ConfigurationCorrect` (`ConfigurationRuns`) is this and `LogsCorrect` together, since the
two share no state.

`System_proofs`, of `StreamTransfer`: `TransfersCorrect` (`TransfersHonest`, a part of `DataKept`), from `TransferInv`. The bound on the
speed is not inductive: how far a pause reaches into the next second has to be known. What passed before the current second is
within the whole ticks until it began, and a chunk and a tick for each earlier second in which one passed (`Paced`);
what passed within it is its first chunk, which nothing delays, or has been waited for. So it exceeds the second by
a chunk at most, or is two chunks that have been waited for, and in the second case the pause reaches into a
later second by less than the chunk that exceeds it (`NewSecond`). The assumptions are those of SpeedLimit: some bytes in a tick,
some ticks in a second.

`System_proofs`, of `FileAppender`: `LinesCorrect` (`LinesKept`, a part of `DataKept`), from `AppenderInv`: a stream that is not good has no file
unless a write failed on it, and it has the file at the path if it was opened after the path last changed
(`StreamFollows`).

`Library_proofs`, of `TypedBytes`: `ValuesComeBack` (`RoundTrip`). Digits first: a number below b^n is the sum of its n
digits (`Number` of what `EncodeFixed` and `EncodeVarint` write), the groups of a varint all say that more follow but the
last, so that the reader stops where the writer did, and zigzag is undone within its width; `ItemBack` puts these
together: a read of a tape that begins with what was written of an item takes exactly that and returns its value. Then
the tape: `TbInv` has the end of each item on it (`LaidOut`), and says that a reader all of whose items so far come back
stands at the end of the last one, so that one which does not come back spoils only what is behind it.

`System_proofs`, of `FileTree`: `FilesCorrect` (`FilesKept`), from `FsInv`, for any number of threads. `FsShape` says what
place and frames belong to which call: the frames of `Rm` are a chain of paths from the one that is asked for, each
below the one before, and what a frame has left are children of its path, not the one that leads on. Three parts follow, one for each promise.
`RemovingInv`: whatever is still there below the path and can go (holds no socket) is *owed*, it is under the path looked
at, is the path of a frame or is under something that a frame has left; nothing comes back while all remove. When no frame is
left nothing is owed, so nothing is there. `AloneInv` relates the tree to the one the call began with: a `Rm` on its way has cut only below
its path and no socket (`CutAt`), and a frame whose answer is false holds a socket; a `Mkdir` has made only what is in front of
its depth (`GrownAt`). `CreatingInv`: what creators do to the tree (`Grows`) leaves what a call has made and what has
stopped it (`GrowsStays`), so that a call that ended has still the answer the tree of now gives it; and there is always a `Winner`, a
thread that lost no race and whose next directory is not there yet, or one that has what it asked for. Who steps and has not
lost is one itself; who loses leaves the tree alone, and so whoever else was one.

`DataCorrect` (`DataKept`) is the three of `StoredSpec` together, which share no state.

`Server_proofs`, of the composed `HttpServer`: `AcceptorsCorrect`. Fewer stops than starts
(`StopsOfStarts`), the sockets of m_socks are open while no closing task runs (`SocksOpen`), a live fiber's socket was
made (`HeldMade`), and without an early restart only fibers of the current start are alive while the
server runs (`OneRun`).

`Server_proofs`, of the sessions of `HttpServer` and of `ResponseParser`: `MessagesCorrect` (`MessagesIntact`). While a head is
read, every token whose delimiter was passed (`Passed`) has left its part, as sent or as a cut that is named, and every token the
last read cut is named (`HeadRead`, `PartsGiven`): this is what says that a token of which the next piece has only the rest
is an exception. `PieceParsed` is the step of the parser, part by part (`PartPassed`, and `QueryPassed` for the query, whose mark
outlives its piece); `RefusedNamed` says that a refusal, or an exception, is of a method, query or version that was cut; `DeclaredOf` is what the int of a 64-bit
content-length is; body and rest make up that int until the servlet has the request (`SessionSound`). A
connection is in the queue of the workers once, and only while it waits there (`QueueSound`), without which `Resume` could
send a fiber to two places. For a response, `AnswerGiven` is the same, and an error has a version that is not 1.1 or
was cut; a piece that ended within the size of a chunk has cut it (`ChunkParsed`).

`Server_proofs`, of `HttpMessage`: `DumpsRead` (`MessagesRead`, a part of `TextsReadBack`). What was dumped is the message
(`MessageInv`). `HeadersTold` says which lines the map of headers gives, whatever order it has, `ConnectionTold` and
`LengthTold` which the flags and the body add; `CarriedIsRead` and `LastIsRead` what a reader makes of lines of one name.
Of `NetAddress`: `AddressesCorrect` (`AddressesRead`, another part). `PrefixParts` cuts the bits of an IPv6 address at the
byte that the prefix ends in, from which `Subnet6` follows. `SkippedRun` is the run of zeros that insert leaves out,
`PieceIs` what it writes for a group, and `InsertIs` says that only one text has these one behind the other (two would
differ at a least group, `LeastIn`): it is one of those that inet_pton reads (`InsertIsText`). `NameSplit` and
`BracketsSplit` take apart what `Written` puts together, `ColonsLeft` is the exception of an address without brackets.

The inductive invariants were model-checked on the instances of the runs before they were proved.

Only model-checked: liveness, which is out of the reach of the prover; and the modules about text (`LogText`,
`TextCodec`, `ConfigText`), which are recursive over data. So `TextsReadBack`, of which these are parts, and
`LibraryTypeOK`, which is the types of all parts, have no theorem.

## 6. Not modelled

* `iomanager.cc:350` cuts the time-out to int before it is compared with `MAX_TIMEOUT`: a timer more than
  2^31 ms away makes it negative, which is "for ever". Time-outs are abstracted to "the wait ends" in `IOManager`.
* `m_socks` of `TcpServer` has no lock; the data race of its closing task with `bind` is left out: these are taken one at a time.
* `ByteArray::getReadBuffers` with a position, which nothing calls, and `toHexString`;
  `SocketStream::read` of a ByteArray, which asks for `iovs.size()` = 0 bytes (socket_stream.cc:55).
* The grammar within a token: the machines are generated by Ragel; the extensions of a chunk. The lazy parsing of parameters and cookies is compiled out (`#if 0`, http.cc:193).
* Transfers through a stream that is not a file: the same loops without a `SpeedLimit` (util.cc:831, 852).
* SSL sockets, socket options, getaddrinfo and interface lookups, Unix addresses: wrappers of the system.
* `yaml-cpp` and `jsoncpp`: a text is the document it holds. `Visit`; what the items of a log pattern
  print, and the console.
* The locks: one is an atomic step elsewhere; the scoped locks are wrappers of pthread.
* Hashes, ciphers, time, backtrace, protobuf, the getters of `JsonUtil`: functions of libraries.
  `ListAllFile`, `Realpath`, pid files, the `String` helpers that format.
* `plugins` is vendored; `.or` holds superseded copies that are not built; `tests` and `examples` are drivers.

## 7. Plan

What is left, in this order:

1. Timers farther away than an int in `IOManager`; a retry of `HookIO` on a number used again.
