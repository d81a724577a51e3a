# TLA+ verification of ws-server

ws-server is an HTTP/1.1 server in C++ built on edge-triggered epoll: a main
reactor accepts connections and hands them to sub reactors (one thread each),
connections are read, parsed, answered and written without blocking, idle
connections are closed by a timer heap, and log lines go through a double
buffer to a writer thread. This directory models its control, checks it with
TLC on small instances and proves with TLAPS, for all values of the constants,
every safety property that the passing runs check.

`PROJECT.json` is the index: components, runs, the source lines each definition
models, the hazards the properties are for, the findings, the theorems.

## 1. Inventory

| Component | State | Operations | Talks to | Hard behaviour | Correct when |
|---|---|---|---|---|---|
| `EventLoop` | `quit_`, `looping_`, `thread_id_`, `wakeup_fd_`, `pending_` (mutex), `connections_` | `loop`, `quit`, `runInLoop`, `queueInLoop`, `wakeup`, `doPendingFunctors` | Epoller, TimerHeap, Connection, Server | tasks queued from another thread, wakeup raced by the drain of the eventfd, batches dispatched by fd number | no task waits in a sleeping loop; no event reaches the wrong connection; tables stay with their thread |
| `Epoller` | the epoll set | `add`, `mod`, `del`, `wait` | kernel | edge triggering, EINTR retry | nothing readable or writable is left without an event |
| `Server` (lifecycle, accept) | `sub_loops_`, threads, `next_sub_`, counters | `start`, `stop`, `onAccept`, `pickSubLoop`, `attachConnection` | loops, connections | fd reuse between threads, limit checked on a lagging counter, `stop` from a signal handler on any thread | each fd has one owner; the limit holds; `stop` ends the process |
| `Server` (routing, static files) | none of its own; reads the file system | `handleRequest`, `serveStatic` | Connection, HttpResponse | `stat`, `open` and every read see the file at different moments | a response is framed as announced and right for some moment of its handling |
| `Connection` | `input_`, `output_`, `parser_`, `writing_`, `keep_alive_`, `close_after_write_`, `closed_`, `idle_timer_`, `last_activity_` | `handleRead`, `handleRequest`, `send`, `handleWrite`, `enableWriting`, `close`, `armIdleTimer`, `touch` | EventLoop, HttpParser, Buffer, TimerHeap | one-shot readiness, partial writes, pipelining, close in the middle of a handler | every whole request is answered or the connection closed; nothing is left stranded |
| `TimerHeap` | `heap_`, `cancelled_`, `next_id_` | `add`, `addAfter`, `cancel`, `expire`, `nextTimeoutMs` | Connection, EventLoop | lazy cancellation, callbacks that arm again, truncation to ms | no oversleeping, no leak, bounded idleness |
| `Buffer` | `buf_`, `read_idx_`, `write_idx_` | `append`, `retrieve*`, `ensureWritableBytes`, `makeSpace`, `readFd`, `shrink` | Connection, HttpParser | reuse of read space, reads over two areas | bytes come out once, in order |
| `HttpParser` | `state_`, `request_`, `content_length_` | `parse`, `parseRequestLine`, `parseHeaders`, `parseBody`, `reset` | Buffer, Connection | segments cut anywhere, limits, state carried over pipelined requests | the verdict is that of the whole request; memory is bounded |
| `AsyncLogger` | `current_`, `to_write_`, `running_`, `stop_requested_`, file state | `start`, `stop`, `append`, `threadFunc`, `writeAll`, `rollIfNeeded` | every thread | notification without the lock, flush in three places, rolling, write errors | a FIFO queue; `stop` returns and loses nothing queued before it |
| `Logger` (lines) | thread-local buffer | `write` | AsyncLogger | - | layout only |
| `HttpRequest`, `HttpResponse` | fields | `getHeader`, `keepAlive`, `make`, `toString` | parser, Connection, Server | persistence by version and header, in any case | client and server agree where a response ends and whether another follows |
| `MemoryPool` | `chunks_`, `free_list_`, `in_use_`, `capacity_`; thread-local pools | `allocate`, `deallocate`, `grow`, `tlsPoolFor` | tests only | blocks freed on another thread, threads that end, memory that runs out | no byte belongs to two objects |
| `main` | `g_server`, options | `onSignal`, option parsing | Server, AsyncLogger | handler on any thread until it is joined, on the main thread until the process ends | never on a destroyed Server (finding 4) |

How they interact: the main thread runs `Server::start` and loop 0. `onAccept`,
called from loop 0's batch, accepts until EAGAIN, checks the limit, picks a sub
loop round robin and queues `attachConnection` to it (`runInLoop`: under the
queue's mutex, then a write to the loop's eventfd). From then on everything a
connection does happens on that loop's thread. The idle timer's callback and a
write error close a connection from inside a handler. A signal handler calls
`Server::stop`, which sets `quit_` of each loop and wakes it; `start` then quits
and joins the sub threads. Only the task queues, the atomics and the logger are
shared between threads.

## 2. Modules

| Module | Models | Extends |
|---|---|---|
| `Reactor` | `event_loop.cpp`, the lifecycle and accept path of `server.cpp`, `Connection::close` as far as descriptors go, `onSignal` | |
| `ReactorProofs` | theorems about it | `Reactor` |
| `ReactorCountProofs` | theorems that count: holders, counters, the limit | `ReactorProofs` |
| `Connection` | `connection.cpp` with the kernel's edge-triggered ready list and the peer | |
| `ConnectionProofs` | theorems about it | `Connection` |
| `IdleTimer` | `timer.cpp` with `armIdleTimer`, `touch` and the loop's sleep | |
| `IdleTimerProofs` | theorems about it | `IdleTimer` |
| `Buffer` | `buffer.cpp`, as operators on a record | |
| `HttpParser` | `http_parser.cpp` over a `Buffer`, driven by the read loop | `Buffer` |
| `HttpParserProofs` | lemmas on every operation of `Buffer`, theorems on the parser | `HttpParser` |
| `HttpService` | routing and static files of `server.cpp`, `http.cpp`, the request loop of `connection.cpp` around them | |
| `HttpServiceProofs` | theorems about it | `HttpService` |
| `MemoryPool` | `memory_pool.cpp` and `memory_pool.h` | |
| `MemoryPoolProofs` | theorems about it | `MemoryPool` |
| `AsyncLogger` | the asynchronous half of `logger.cpp` | |
| `AsyncLoggerProofs` | theorems about it, the refinement among them | `AsyncLogger` |
| `LogQueue` | the abstract specification of the logger: a FIFO queue | |
| `MC*` | instances for TLC | the module named |

Definitions whose names end in `_Something` (`QueueWakes_Inverted`,
`ResetLength_Not`) are faulty variants of the definition that follows. They are
used by nothing; each states a plausible slip that breaks a property, and serves
to show that the property can fail.

### Reactor

A thread is named by the loop it runs (0 is main, `1..NSub` the sub loops, one
more for the logger's thread, which only matters as a place a signal can land).
`pc[l]` is the thread's position in one pass of `loop()`: while - wait -
dispatch - expire - swap - functors; the main thread has the steps of `onAccept`
(accept, admit, handoff, wake) and of `start` in addition. Everything another
thread or a handler can see is a step of its own: the push to `pending_` and
the write to the eventfd; the store of `quit_` and the wakeup; `::close(fd)`,
after which the kernel may give the number to `accept4` on the main thread, and
`removeConnection(fd)`. A client is a connection's identity, a descriptor a
number that is reused; `fdTable` is the kernel's view, `fdOf` the program's,
`connections` and `interest` a loop's table and epoll set.

Start-up is in steps too: the listen socket (or its failure, which ends
`start`), each sub loop, each thread, the acceptor; a signal handler that runs
`stop` in between sees the loops made so far.

Shutdown is in steps as well: quitting and joining the sub threads, the
logger's join, the `stop()` in `~Server`, then the loops, the sub loops in order
and the main loop last, each closing what its table still holds and dropping its
queue, and the end of the process. The handlers stay installed all the while, so
a signal can come on any thread that is alive: on the main thread until the
process has ended. `stop()` on a loop that is destroyed (`SigDead`) is undefined;
it goes on, or the process dies.

Abstractions. The order inside `pending_` is dropped (it is a set: attaches of
different descriptors commute). A handler either leaves its connection open or
closes it; which is decided in `Connection`. `EMFILE` and failing system calls
on the listen socket end `onAccept` like EAGAIN. A signal stops the thread it
lands on until the handler returns; it can land between any two steps.

### Connection

Bytes are counted: a request and a response are two units each, so that both can
arrive or leave in part. Six running totals (sent, read, parsed, produced,
written, delivered) give the contents of the receive queue, `input_`, `output_`
and the send queue. The kernel's part is explicit: `ready` is the fd's place on
the ready list, `nospace` the callback the kernel owes after a write that did
not fit, and `epoll_ctl(MOD)` polls the socket again. One read, one turn of the
request loop, one `write` and one `epoll_ctl` are a step each; the peer may
send, read, half-close or reset between any two. EINTR on `write` is left out,
because Linux does not produce it for a nonblocking socket.

### IdleTimer

The heap is a set popped at its minimum. Time is in ticks finer than a
millisecond, since the truncation in `nextTimeoutMs` is what matters; it
passes while the loop sleeps, handlers and callbacks take none. The clock stops
at `MaxTime`. `reported` is the set of entries whose number the loop last stored
in `pending_timers_`, where `/stats` reads it from other threads.

### Buffer and HttpParser

A buffer is a record with its cells, size and two indices; each operation maps
a buffer to the buffer it leaves. A byte is named by its position in the stream,
so a cell's contents say where they came from, and a lost, repeated or displaced
byte is visible. The parser sees a line as its length and what it makes of it
(well-formed or not; the header's name; the number in a Content-Length, identity
or another coding). The stream is described by the framing of the parser's own
rules: a body follows a request whose accepted Content-Length says so. Requests
here keep the connection alive; those that close it are in `Connection`.

### HttpService

One connection whose client may pipeline, the request loop, the routes, and
the files below the document root. A request is its method, path, version,
`Connection` header and body length; a response its status, body length,
`Content-Length` and whether it says close. A name on disk stands for nothing, a
directory, a file that cannot be opened or a file of some length; it may change
at any moment, in place (an open stream sees that) or by putting something else
under the name (it does not). `stat`, `open` and each fill of the stream's
buffer are steps. `seen` records what the name stood for while its request was
handled; it exists for the property only. The parser is a verdict here, and the
transport neither fails nor times out: `HttpParser` and `Connection` have those.

### MemoryPool

A pool belongs to a thread and a block size; it holds chunks, and a free list
that is a set of blocks (which one comes out next is left open). A block is a
chunk and an index. `PoolAllocator::deallocate` puts a block into the pool of
the thread that frees it, so a list may hold blocks of another thread's chunks.
When a thread ends its pools free their chunks unconditionally. Blocks of those
chunks that others hold (`lost`) or have on their lists (`stale`) dangle, and the
memory can become another pool's chunk. Nothing happens until one of them is
followed: `allocate` hands out a stale block and takes the rest of its list from
memory that is no longer its own; `deallocate` of a lost block writes a link
there. From then on the outcome is "undefined" and the run ends. `NoOverlap`
holds up to that moment; `HandedOutOnce` says what the moment can bring
(finding 5). `peak` exists for `FewChunks` only.

### AsyncLogger and LogQueue

A line is the bytes of one `append`. The mutex is explicit only where it is held
across steps (the writer between looking at its condition and sleeping; `stop`
while it writes out the rest). One session from `start` to `stop`, as in `main`.
The client is the most general one: `append` may race `stop`, which the program
itself avoids by joining the loops first. The level filter and formatting are
left out. `rename`, `open` and `write` may fail (`Faults`). What descriptor 1
stands for is state: `open` that fails leaves `fd_` at 1, a later roll closes 1,
and the number goes to the next `open` or, through `accept4`, to a client, whose
connection later closes it whoever has it by then; `write` goes to whatever is
behind the number. `IsLogQueue` maps the abstract queue to `toWrite \o current`.

## 3. Runs

| Run | Checks | Shows |
|---|---|---|
| `reactor_multi` | `NoLostWakeup`, `TableConsistent`, `FdOwnership`, `CountersAgree`, `ThreadConfined` | hand-off, close and dispatch over reused descriptors, two sub loops |
| `reactor_single` | `ConnectionLimit`, `NoStaleEvent` | `io_threads = 0`: accept and I/O in one batch; a number can be closed and accepted again within it |
| `reactor_live` | `HandlersAreJoined`, `HandedOffIsAttached`, `WaitingIsAccepted`, `PromptStop`, `StopTerminates` | start-up and shutdown with two signals on any threads at any moments; waiting connections are accepted, hand-off completes |
| `connection` | `NoStrandedInput`, `NoStrandedRequest`, `NoStuckOutput`, `CloseAfterDrain`, `RegistrationMatches`, `ClosedIsFinal`, `AnsweredOrClosed`, `CloseHappens` | edge triggering strands neither input nor output; every request is answered or the connection closed |
| `idle_timer` | `OpenHasLiveEntry`, `CancelledInHeap`, `NeverOversleeps`, `IdleBound`, `ReportLags` | no connection without a live timer, idle less than two timeouts, the published heap size at most one pass old |
| `http_parser` | `ReadableIsStream`, `InputBounded`, `VerdictsAreRight` | segmentation changes neither bytes nor verdicts, except at the line limit |
| `http_service` | `FramingAgrees`, `AnswersAreOfTheMoment`, `ClosesAsAnnounced` | pipelined responses are matched, framed and closed as a client expects while files change underneath |
| `memory_pool` | `NoOverlap`, `AccountsAgree`, `FewChunks` | no byte has two owners, whichever thread frees what and ends when, until a dangling block is followed; the counters and the number of chunks are right |
| `async_logger` | `EarlierLinesWritten`, `FilesInOrder`, `IsLogQueue`, `RollsKeepLines`, `StopReturns`, `LineIsSettled` | the logger is a FIFO queue, `stop` returns and flushes; rolls keep the order, and the lines but for two cases |
| `reactor_limit` | `ConnectionLimit` - violated | finding 1 |
| `reactor_stop` | `StopWakesLoop` - violated | finding 2 |
| `http_parser_split` | `SplitIndependent` - violated | finding 3 |

Four more configurations are kept beside the runs and are not in the index. Each
refutes what one would wish of the code at a place that a passing run's property
leaves open, and shows by its trace that the model reaches that place:

| Configuration | Refutes | The part that holds |
|---|---|---|
| `ReactorExit.cfg` | `HandlerOnLiveServer` (finding 4) | `HandlersAreJoined` |
| `MemoryPoolExit.cfg` | `HandedOutOnce` (finding 5) | `NoOverlap`, theorem `TidyExitsAreSafe` |
| `AsyncLoggerKept.cfg` | `WrittenIsKept` (finding 6) | `RollsKeepLines` |
| `AsyncLoggerSockets.cfg` | `LogStaysOutOfSockets` (finding 7) | `IsLogQueue`, `FilesInOrder` |

The type invariants are not among the runs' properties: each is a
theorem (`TypeCorrect` of its proof module) and can be added to a `.cfg` as
`TypeOK`. So is `OneEntryPerConnection` (`OneEntryEach`).

Bounds, and why they are enough.

* `reactor_multi`: two sub loops, three clients, three descriptors, a limit of
  two. Two sub loops are the least with which a descriptor can move from one
  loop to another; three clients let one be closed, one be attached and one be
  turned away at a time. No signal: with one the state space is an order of
  magnitude larger and `reactor_live` has it.
* `reactor_single`: as above with one loop and one signal.
* `reactor_live`: one sub loop, two clients sharing one descriptor (so that one
  has to wait for the other's), two signals, the second of which can come while
  the first has the server shutting down; no symmetry, since liveness is
  checked.
* `connection`: three requests, each of them keep-alive, closing or malformed,
  and a send queue of one and a half responses, so that a response is cut and a
  second one queues behind it.
* `idle_timer`: two connections, two ticks a millisecond, a timeout of two
  milliseconds and time for three timeouts: an entry can be armed, found
  active, armed again and expire.
* `http_parser`: a line limit of 3 bytes with lines of 0, 1, 2, 3 and 4, two
  headers allowed and up to three sent, bodies of up to 2 bytes and one over;
  a buffer of 4 cells with a spare area of 2, so that one request makes it
  move, grow and spill.
* `http_service`: two requests, so that one response follows another on the
  wire; one file of up to two reads, changed twice, which is once between
  `stat` and `open` and once between two reads.
* `memory_pool`: two threads; two sizes, one smaller than the blocks of its class
  and one beyond the classes; three chunks: one thread can hold two chunks of a
  pool while the other frees into its own, and memory freed by one thread can
  come back as the other's.
* `async_logger`: three lines, a buffer of two, a file that rolls after one
  line, two values of the clock: two rolls can fall in one second or in two. The
  clock does not go back. One connection at a time believes that descriptor 1 is
  its own. `AsyncLoggerKept.cfg` has `Faults` off: no failing call is needed for
  its violation.

`CHECK_DEADLOCK` is on everywhere. `Terminated`, `Over`, `Done`, `ClockEnds`,
`Ended` and `Quiet` are the ends a system or a bound really has.

Fairness. `Reactor`: weak fairness of each loop's own steps, of the main
thread's and of a started handler's: the OS schedules runnable threads and no
step blocks except in `epoll_wait`, `join` and a mutex held for a moment.
`StopTerminates` also counts on `epoll_wait` timeouts (`Ticking`): `loop()`
always passes a finite one. `WaitingIsAccepted` is conditional: *if* descriptors
come free again and again and the accept step is taken when it is enabled again
and again, a connection in the accept queue leaves it, or the server stops; the
kernel promises neither, so both are in the property and not in the
specification. Clients, I/O events, idle timers and signals owe
nothing. `Connection`: the loop runs, and the peer reads what reaches it (else
no response could be delivered); it need not send. `AsyncLogger`: writer and
`stop` run when they can and `wait_for` times out; callers of `append` owe
nothing.

## 4. Findings

1. **Connection limit** (`reactor_limit`, `server.cpp:167`). `onAccept` compares
   the limit with `opened - closed`, and `opened` grows only when a sub loop
   runs `attachConnection`. Connections accepted and still queued are not
   counted, so a burst passes the limit. With `io_threads = 0` it holds.
2. **stop() from a loop's own thread** (`reactor_stop`, `event_loop.cpp:31`).
   `quit` wakes the loop only for callers on another thread, and a handler that
   interrupts `epoll_wait` is on this one; `Epoller::wait` retries on EINTR. The
   loop notices when its timeout passes. `StopTerminates` shows that it does
   end, `PromptStop` that a signal on another thread ends it at once.
3. **Line limit and segmentation** (`http_parser_split`, `http_parser.cpp:59`).
   An unfinished line is measured with the CR of its own end, a finished one
   without: a request line of exactly the maximal length is refused when a
   segment ends between CR and LF. A header line over the limit is refused when
   it is cut and accepted when it arrives whole.

4. **Handlers outlive the Server** (`ReactorExit.cfg`, `main.cpp:19`). `g_server` and
   the handlers are never taken back, and the main thread goes through
   `AsyncLogger::stop`, `~Server` and `exit` after `start` returned. A second
   signal there runs `stop` on loops that are destroyed. The shortest trace needs
   one signal: `start` fails, and it comes during `~Server`. The other threads
   are joined by then: `HandlersAreJoined`.
5. **Pools freed under other threads** (`MemoryPoolExit.cfg`, `memory_pool.cpp:35`).
   A block freed on thread B goes to B's list; when thread A, whose pool it came
   from, ends, its memory is freed and B's list dangles. B's next `allocate`
   hands out memory that may belong to another object by then. The server itself
   does not use the pools. `TidyExitsAreSafe` gives the discipline under which
   this cannot happen.
6. **Rolls in one second** (`AsyncLoggerKept.cfg`, `logger.cpp:214`). Archives are
   named by whole seconds and `rename` replaces: the second of two rolls in a
   second destroys the first's archive, lines already on disk with it.
7. **The log in a client's connection** (`AsyncLoggerSockets.cfg`,
   `logger.cpp:217`). After a failed `open` in a roll `fd_` is 1; the next roll
   closes 1; if `open` fails again `fd_` is still 1, which `accept4` may give to
   a client.

Observed while modelling, without a run of their own:

* A FIN read together with whole requests closes the connection before they are
  parsed.
* `output_` has no bound: reading goes on while output is pending.
* A rename that fails is not noticed, and the `open` that follows empties the
  file (allowed by name in `RollsKeepLines`).
* The connection that `accept4` gave number 1 closes 1 when it ends, also when
  the log file has taken that number in the meantime.
* A line pushed after the last flush of `AsyncLogger::stop` stays in `current_`
  and is lost.
* `Logger::write` cuts a line at its buffer and then has no room for the newline
  (`logger.cpp:70`): a line that long runs into the next one in the file.
* A connection queued to a loop that quits before it runs its functors is never
  attached, and its descriptor is left to the process's exit.
* `handleWrite` returns on EINTR without arming EPOLLOUT (`connection.cpp:180`);
  latent on Linux, whose nonblocking socket writes do not fail with it.
* Cancelled entries stay in the timer heap until they are due, so the heap is
  bounded by the connections opened within one timeout and not, as
  `connection.cpp:78` has it, by those open.
* `pending_timers_` is stored before the functors that attach connections, so
  `/stats` can count a connection as active and not yet its timer. `ReportLags`
  bounds the lag to one pass.
* Between `stat` and `open` a directory can take the file's place. An `ifstream`
  opens it, the first read fails, the stream buffer throws, and nothing on the
  loop's thread catches it (`ReadThrows`, `server.cpp:271`).
* `deallocate` on a thread that never used a pool of that size builds one first;
  if memory has run out then, `bad_alloc` leaves a `noexcept` function
  (`DeallocateThrows`, `memory_pool.h:67`).
* `/stats` answers every method with 200, although the list of end points gives
  it for GET only and 405 otherwise.
* An HTTP/1.0 request that asks for `keep-alive` is kept alive, but the response
  does not say so; `Connection: close, x` does not close.
* A malformed request is answered with a body even if it was a HEAD; the
  connection closes after it.
* After a response that says close, requests that arrive before the output has
  drained are still answered; a client does not read past the first.

## 5. Proofs

Every invariant and action property of a passing run, and the refinement, is a
theorem; a theorem of a proof module is proved from the inductive invariant
`IInv` of that module (`IInvariant`), which adds to the properties what makes
them inductive. TLC checked each `IInv` on its run's instance first.

All constants are arbitrary, within the named assumptions:

* `Reactor`: a number of sub loops, a limit and a number of signals
  (`NSubAssumption`, `BoundsAssumption`), finite sets of clients and descriptors
  with null values outside them (`FiniteAssumption`, `NullsAssumption`).
* `Connection`: any number of requests and a send queue that holds something
  (`NRequestsAssumption`, `SndBufAssumption`).
* `IdleTimer`: a clock of at least one tick a millisecond and a positive
  fallback wait (`TicksAssumption`, `TimesAssumption`).
* `Buffer` and `HttpParser`: sizes and limits that are natural numbers, streams
  that are sequences of requests (`SizesAssumption`, `LimitsAssumption`,
  `KeysAssumption`, `StreamsAssumption`).
* `HttpService`: well-formed requests, lengths that are numbers, an index page,
  and no file with the name of a route (`ServiceAssumption`; `handleRequest`
  tries the routes first, so such a file would never be served).
* `MemoryPool`: positive sizes, finitely many size classes (`PoolAssumption`),
  finitely many chunks, and a `size_t` that can count every block in memory
  (`MemoryAssumption`). Counters still wrap: freeing foreign blocks takes
  `in_use_` below zero.
* `AsyncLogger`: a buffer of at least one line (`SizesAssumption`).

**Reactor** (`ReactorProofs`): `TypeCorrect`, `WakeupIsNeverLost`, `TablesAgree`,
`CloseIsOwn`, `EventsAreFresh`, `HandlerIsSafe`, `TablesAreConfined`, all from
`IInvariant`. None of the properties is inductive. The invariant adds

* `ControlInv`: which positions go together. In particular `thread_id_` is the
  loop's own thread or unset and the main loop is looping whenever `onAccept`
  runs, so a hand-off to a sub loop never runs inline; no handler runs on a
  thread that has been joined; no thread runs a sub loop once main is past the
  joins (`EndPhases`), and loops are destroyed only after that (`TearDown`). From
  these `HandlerIsSafe` (`HandlersAreJoined`): a handler that finds a loop
  destroyed is on the main thread.
* `WakeInv`: `NoLostWakeup` carried back from `epoll_wait` to every position
  from which the loop gets there without taking its queue.
* `PlaceInv`: a client is in one place only - unconnected, in the accept queue,
  in `onAccept`'s hand, in one queue or functor vector, in one table slot. This
  is what makes a number that is reused while another thread is still between
  `::close` and `removeConnection` harmless: the newcomer cannot be in that
  loop's table yet.
* `FdInv` (`KernelInv`, `WaitingInv`, `SlotInv`): program and kernel agree on
  descriptors, and a table slot is live or is the one being closed.
* `BatchInv`: events are in hand only while a batch is dispatched, and name what
  the table held; functors, which could reuse a slot, run only after it.

`TablesAreConfined` is about whose step it is: where a loop's table or epoll set
changes, the step is one of that loop's thread, or one of the main thread when no
thread runs a sub loop (`~Server`).

**IdleTimer** (`IdleTimerProofs`): `TypeCorrect`, `OneEntryEach`,
`NoneForgotten`, `CancelledIsBounded`, `WakesInTime`, `IdleIsBounded`,
`ReportIsRecent`. The
invariant says that ids are issued once (`EntryInv`), that an entry not cancelled
is the one its open connection remembers and a cancelled one belongs to a closed
connection (`LiveInv`), that a live entry is due less than two timeouts after its
connection's last activity (`ArmedInv`: an entry found active is armed again one
timeout ahead, at a moment less than one timeout after that activity), and that
the sleep in progress ends by the first entry (`SleepInv`, from the lemma that
truncation to milliseconds only shortens). `ReportIsRecent` adds `LagInv`:
from the store to the end of the sleep, the heap is the report plus the entries
of connections attached since, untouched.

**Reactor, counting** (`ReactorCountProofs`): `DescriptorsAreOwned`,
`CountersAreTrue`, `LimitOfOneReactor`.

* `HolderInv`: while the Server is whole, whoever has an open descriptor is in a queue, a
  functor vector, a table or `onAccept`'s hand. `PlaceInv` says there is at most
  one such place, so there is exactly one.
* `CountersAgree` follows from `CountingSteps`: a step attaches one connection
  and counts it, removes one and counts that, or does neither. That the step
  changes the cardinality by one takes the finiteness of `Held` and that the slot
  is free (`SlotIsFree`), which is `FdInv`'s work.
* `LimitOfOneReactor` assumes `NSub = 0`. `SingleInv` says that nothing is ever
  queued between the test of the limit and the attach, so the test still holds
  when the connection is counted. With a sub loop that is false: finding 1.

**Connection** (`ConnectionProofs`): `TypeCorrect`, `InputIsSeen`,
`RequestsAreServed`, `OutputIsCalledFor`, `ClosesWhenDrained`,
`RegistrationIsRight`, `ClosingIsFinal`. The properties speak of the moment the
loop waits; the invariant carries each through the handlers. `InputInv`: outside
the read loop, unread input means a queued event. `OutputInv`: outside
`handleWrite`, unwritten output is registered and somebody will call again - an
event queued, one owed by the kernel, or one in hand and not yet handled; at
the `epoll_ctl` itself only when it is skipped because `writing_` is set.
`RequestInv`: where `handleRequest` will not take another turn, a whole request
is left only if the connection closes. `CloseInv`: outside `handleWrite` a
connection that is to close still has output to wait for.

**Buffer and HttpParser** (`HttpParserProofs`): a lemma for each buffer
operation - `ResizeKeeps`, `FillAppends`, `MakeSpaceKeeps`, `EnsureKeeps`,
`AppendAppends`, `ReadFdAppends`, `RetrieveTakes`, `ShrinkKeeps` - says what
becomes of the readable bytes; `CompactMovesDown` that `makeSpace` copies only
towards the front, so its `std::copy` is defined. From them `TypeCorrect`,
`ReadsTheStream` and `MemoryIsBounded`; `StateInv` supplies that past the
request line there is a request and that an awaited body is within the limit.

`ParsesAsMeant` is that the verdicts do not depend on the segments. Its invariant
`ParseInv` relates the parser's state to the request as a whole: the bytes taken
are those before the line it is at, the headers and the content length it holds
are what the lines so far say, and they were all acceptable. Where a line
ends is a recursive sum over the lines before it. What is needed of the sums
(they exist, satisfy their equation, and grow) needs induction over their
length; `LeastNumber`, that a set of numbers that is not empty has a least one,
is taken from the well-foundedness of `<` and used for it with the set of
lengths at which the claim fails.

**HttpService** (`HttpServiceProofs`): `TypeCorrect`, `ResponsesAreFramed`,
`FilesAreAnswered`, `CloseIsAnnounced`. `HandlingInv` and `StreamInv`: what the
name stands for and what the open stream reads are both among what was seen
while the request was handled, whoever changes the file; unless a change was
seen the stream is not beyond its file's end, so a body has the length of the
file. `WireInv`: as long as nothing said close there is one response per request
taken from the buffer, which is what matches the n-th response to the n-th
request.

**MemoryPool** (`MemoryPoolProofs`): `TypeCorrect`, `MemoryIsNotShared`,
`TidyExitsAreSafe`, `CountersAreRight`, `PoolsDoNotOvergrow`. As long as no
dangling block was followed, `IInv` says this of the blocks that do not dangle. `Sound`: a chunk belongs to one pool
(`Owned`); a free block is on one list and lies within a chunk of a pool of that
block size, maybe another thread's (`Listed`); so does a block in use, which is
on no list and holds one object (`Placed`). Two blocks of one chunk then have
one size, and different indices keep them apart. `Counted`: `in_use_` is, before
it wraps, what the pool's chunks hold beyond its list. `Sound` and `Counted` take
lists and objects as parameters, so that the two halves of an allocation, growing
and taking a block, are two lemmas. `TidyExitsAreSafe` needs no more than that
`Exit` is the only step that makes blocks dangle: under the condition that no
thread ends with a block of its chunks in use or on a foreign list, none does.

**AsyncLogger** (`AsyncLoggerProofs`): `TypeCorrect`, `StopFlushesAll`,
`RollsKeepOrder`, `RollsLoseOnlyThose`, `ImplementsLogQueue`. `ControlInv`: the mutex belongs to the
one inside, and `to_write_` is empty unless somebody is writing it out.
`LinesInv`: a queued line is in the output, dropped, or in one of the buffers,
and not in `current_` any more once `stop` has taken its last look at it.
`DiskInv`: what is on disk was written, and no archive is from a second still to
come; so a roll archives lines that are all later than those in older archives,
whatever failed before, and a line is written after all that is on disk. The
refinement is shown step by step (`StepRefines`): `append` appends to
`toWrite \o current`, a write takes from its front, a failed write drops a part
of the front, and a swap leaves it alone because `to_write_` is empty by then
(`HandOver`).

Only model-checked: liveness (`HandedOffIsAttached`, `WaitingIsAccepted`,
`PromptStop`, `StopTerminates`, `AnsweredOrClosed`, `CloseHappens`,
`StopReturns`, `LineIsSettled`), which is beyond the prover. The seven
findings are counterexamples of TLC.

## 6. Plan

Done: all modules, the runs, and the theorems above. What is left is worth less:

1. `SplitIndependent` for requests without a line at the limit, as a corollary
   of `ParsesAsMeant`: finding 3 is then the only way segmentation shows.
2. How far a burst can pass the limit with sub loops: `MaxConnections` plus what
   is queued and in hand, as an invariant with a proof.
3. The steps of the liveness arguments that are not temporal (which position
   follows which, and what each step decreases) as lemmas beside the runs.

## 7. Not modelled

Line formatting, reason phrases, content types and option parsing are text that
steers nothing. The counters of `ServerCounters` other than opened and closed
are only reported. Failures of `epoll_create1`, `epoll_ctl`, `eventfd` and
thread creation end the process or are ignored by the code. `PoolAllocator` for
arrays goes to `operator new` and touches no pool. `Buffer::shrink` and
`retrieveAllAsString` have no caller in the server; the first has a lemma.
`Server::stop` reading `sub_loops_` while `start` pushes to it is a data race in
C++; the model lets the handler see the loops created so far. The connection
over real buffers and parser at once is not composed: `Connection` takes from
the parser its three verdicts, `HttpParser` shows when it gives them, and
`HttpService` what is answered.

## 8. Running

    tlc -config ReactorMulti.cfg MCReactor      # and so on, see PROJECT.json
    tlapm ReactorProofs.tla
    tlapm ReactorCountProofs.tla
    tlapm ConnectionProofs.tla
    tlapm IdleTimerProofs.tla
    tlapm HttpParserProofs.tla
    tlapm HttpServiceProofs.tla
    tlapm MemoryPoolProofs.tla
    tlapm AsyncLoggerProofs.tla

The longest passing run (`reactor_live`) takes a few minutes on two cores; each
proof module takes from under a minute to a few minutes.
