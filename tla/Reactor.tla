------------------------------ MODULE Reactor ------------------------------
(***************************************************************************)
(* The reactors of ws-server: one EventLoop per thread, the accept path of *)
(* Server that hands connections from the main loop to the sub loops, the  *)
(* close path of Connection that takes them out again, and shutdown by a   *)
(* signal handler that may run on any thread.                              *)
(*                                                                         *)
(* Loop 0 is Server::main_loop_ and runs on the thread that called         *)
(* Server::start(); loops 1 .. NSub are sub_loops_, each on its own        *)
(* thread, so a thread is named by the loop it runs.  The logger's writer  *)
(* is one more thread: it runs no loop, but it can receive a signal.       *)
(*                                                                         *)
(* What a connection does with its bytes is not here (see Connection): an  *)
(* event of a connection either leaves it open or closes it, and so does   *)
(* its idle timer.                                                         *)
(***************************************************************************)
EXTENDS Integers, FiniteSets

CONSTANTS
    NSub,            \* Options::io_threads
    Clients,         \* peers; each opens at most one TCP connection
    Fds,             \* descriptors accept4() may return
    None,            \* no client
    NoFd,            \* the fd value -1
    MaxConnections,  \* Options::max_connections
    MaxSignals       \* bound: how many SIGINT/SIGTERM arrive

ASSUME NSubAssumption == NSub \in Nat
ASSUME BoundsAssumption == MaxConnections \in Int /\ MaxSignals \in Nat
ASSUME NullsAssumption == None \notin Clients /\ NoFd \notin Fds
ASSUME FiniteAssumption == IsFiniteSet(Clients) /\ IsFiniteSet(Fds)

Main == 0
Subs == 1 .. NSub
Loops == 0 .. NSub
Logger == NSub + 1
Threads == 0 .. NSub + 1
NoThread == -1

(* Where a thread is.  "wait" is epoll_wait, "swap" the entry of           *)
(* doPendingFunctors, "functors" its for loop.  The main thread also has   *)
(* the steps of onAccept ("accept" .. "wake"), of start() around loop()    *)
(* ("start", "create", "spawn", "quitStore", "quitWake") and of the rest   *)
(* of main(): "stopped" in AsyncLogger::stop(), "leaving" before ~Server,  *)
(* "destroying" in it, "destroyed" in exit(), "ended" when the process is  *)
(* no more.  A loop is "made" when it exists and its thread does not,      *)
(* "gone" when ~Server has destroyed it.                                   *)
LoopPhases == {"unborn", "made", "enter", "while", "wait", "dispatch", "expire",
               "swap", "functors", "exited", "gone"}
EndPhases == {"stopped", "leaving", "destroying", "destroyed", "ended"}
MainPhases == {"start", "create", "spawn", "accept", "admit", "handoff", "wake",
               "quitStore", "quitWake"} \cup EndPhases

VARIABLES
    pc,           \* pc[l]: where loop l's thread is
    quit,         \* EventLoop::quit_
    looping,      \* EventLoop::looping_
    threadId,     \* EventLoop::thread_id_
    eventfd,      \* the counter behind wakeup_fd_ is non-zero
    pending,      \* EventLoop::pending_: clients whose attach is queued
    running,      \* the vector doPendingFunctors swapped out
    connections,  \* EventLoop::connections_, a table from fd to connection
    interest,     \* connection fds registered with the loop's epoll
    wakeEv,       \* the batch still holds the event of wakeup_fd_
    acceptEv,     \* the main loop's batch still holds acceptor_fd_'s event
    batch,        \* batch[l][fd]: the connection a returned event is for
    closing,      \* close()'s local fd, between ::close and removeConnection
    fdTable,      \* the kernel's descriptors: the connection behind each fd
    fdOf,         \* the fd the program holds for a connection
    fresh,        \* clients that have not connected yet
    backlog,      \* the listen socket's accept queue
    inHand,       \* the connection onAccept just accepted
    dest,         \* the loop pickSubLoop returned
    nextSub,      \* next_sub_ % sub_loops_.size()
    opened,       \* counters_.opened
    closed,       \* counters_.closed
    quitIdx,      \* the sub loop start()'s epilogue quits next
    sigThread,    \* the thread a signal handler is running on
    sigNext,      \* the loop Server::stop(), in the handler, quits next
    sigStored,    \* the handler is between quit_.store and wakeup
    signalsLeft

loopVars == <<pc, quit, looping, threadId, eventfd, pending, running>>
tableVars == <<connections, interest, closing, fdTable, fdOf>>
batchVars == <<wakeEv, acceptEv, batch>>
acceptVars == <<fresh, backlog, inHand, dest, nextSub>>
countVars == <<opened, closed>>
sigVars == <<sigThread, sigNext, sigStored, signalsLeft>>
vars == <<loopVars, tableVars, batchVars, acceptVars, countVars, quitIdx,
          sigVars>>

NoEvents == [f \in Fds |-> None]

Init ==
    /\ pc = [l \in Loops |-> IF l = Main THEN "start" ELSE "unborn"]
    /\ quit = [l \in Loops |-> FALSE]
    /\ looping = [l \in Loops |-> FALSE]
    /\ threadId = [l \in Loops |-> NoThread]
    /\ eventfd = [l \in Loops |-> FALSE]
    /\ pending = [l \in Loops |-> {}]
    /\ running = [l \in Loops |-> {}]
    /\ connections = [l \in Loops |-> NoEvents]
    /\ interest = [l \in Loops |-> {}]
    /\ closing = [l \in Loops |-> NoFd]
    /\ fdTable = [f \in Fds |-> None]
    /\ fdOf = [c \in Clients |-> NoFd]
    /\ wakeEv = [l \in Loops |-> FALSE]
    /\ acceptEv = FALSE
    /\ batch = [l \in Loops |-> NoEvents]
    /\ fresh = Clients
    /\ backlog = {}
    /\ inHand = None
    /\ dest = Main
    /\ nextSub = 0
    /\ opened = 0
    /\ closed = 0
    /\ quitIdx = 1
    /\ sigThread = NoThread
    /\ sigNext = Main
    /\ sigStored = FALSE
    /\ signalsLeft = MaxSignals

-----------------------------------------------------------------------------
(* A thread makes no step of its own while a signal handler runs on it.    *)
Runs(t) == sigThread # t

Goto(l, phase) == pc' = [pc EXCEPT ![l] = phase]

(* One pass of loop(): the batch, then expire(), then the functors.        *)
NextPhase_DispatchLast(phase) ==
    CASE phase = "wait" -> "expire"
      [] phase = "expire" -> "swap"
      [] phase = "functors" -> "dispatch"
      [] phase = "dispatch" -> "while"
NextPhase(phase) ==
    CASE phase = "wait" -> "dispatch"
      [] phase = "dispatch" -> "expire"
      [] phase = "expire" -> "swap"
      [] phase = "functors" -> "while"

(* EventLoop::isInLoopThread(), called on thread t.                        *)
IsInLoopThread(l, t) == threadId[l] = t

(* The two halves of EventLoop::quit(), called on thread t: the store of   *)
(* quit_, and the wakeup() a caller on another thread makes.               *)
QuitStore(l) == quit' = [quit EXCEPT ![l] = TRUE]
QuitWakes_Never(l, t) == FALSE
QuitWakes(l, t) == ~IsInLoopThread(l, t)
QuitWake(l, t) == eventfd' = [eventfd EXCEPT ![l] = @ \/ QuitWakes(l, t)]

-----------------------------------------------------------------------------
(* A client's TCP handshake completes: it joins the accept queue.          *)
Connect(c) ==
    /\ c \in fresh
    /\ pc[Main] \notin {"start"} \cup EndPhases
    /\ fresh' = fresh \ {c}
    /\ backlog' = backlog \cup {c}
    /\ UNCHANGED <<loopVars, tableVars, batchVars, inHand, dest, nextSub,
                   countVars, quitIdx, sigVars>>

(* Server::start() up to main_loop_->loop(): the listen socket, or the     *)
(* early return when initListenSocket() fails, after which main() leaves   *)
(* too; the sub loops, one by one; their threads; and the acceptor.        *)
Listen ==
    /\ pc[Main] = "start"
    /\ Runs(Main)
    /\ \E phase \in {"create", "stopped"} : Goto(Main, phase)
    /\ UNCHANGED <<quit, looping, threadId, eventfd, pending, running,
                   tableVars, batchVars, acceptVars, countVars, quitIdx,
                   sigVars>>

CreateLoop(l) ==
    /\ pc[Main] = "create"
    /\ Runs(Main)
    /\ pc[l] = "unborn"
    /\ \A k \in Subs : k < l => pc[k] = "made"
    /\ Goto(l, "made")
    /\ UNCHANGED <<quit, looping, threadId, eventfd, pending, running,
                   tableVars, batchVars, acceptVars, countVars, quitIdx,
                   sigVars>>

AllCreated ==
    /\ pc[Main] = "create"
    /\ Runs(Main)
    /\ \A l \in Subs : pc[l] # "unborn"
    /\ Goto(Main, "spawn")
    /\ UNCHANGED <<quit, looping, threadId, eventfd, pending, running,
                   tableVars, batchVars, acceptVars, countVars, quitIdx,
                   sigVars>>

SpawnThread(l) ==
    /\ pc[Main] = "spawn"
    /\ Runs(Main)
    /\ pc[l] = "made"
    /\ \A k \in Subs : k < l => pc[k] # "made"
    /\ Goto(l, "enter")
    /\ UNCHANGED <<quit, looping, threadId, eventfd, pending, running,
                   tableVars, batchVars, acceptVars, countVars, quitIdx,
                   sigVars>>

AllSpawned ==
    /\ pc[Main] = "spawn"
    /\ Runs(Main)
    /\ \A l \in Subs : pc[l] # "made"
    /\ Goto(Main, "enter")
    /\ UNCHANGED <<quit, looping, threadId, eventfd, pending, running,
                   tableVars, batchVars, acceptVars, countVars, quitIdx,
                   sigVars>>

(* The first two statements of loop().  quit_ is not reset: a stop() that  *)
(* came before loop() still counts.                                        *)
LoopEnter_ResetsQuit(l) ==
    /\ pc[l] = "enter"
    /\ Runs(l)
    /\ quit' = [quit EXCEPT ![l] = FALSE]
    /\ looping' = [looping EXCEPT ![l] = TRUE]
    /\ threadId' = [threadId EXCEPT ![l] = l]
    /\ Goto(l, "while")
    /\ UNCHANGED <<eventfd, pending, running, tableVars, batchVars,
                   acceptVars, countVars, quitIdx, sigVars>>
LoopEnter(l) ==
    /\ pc[l] = "enter"
    /\ Runs(l)
    /\ looping' = [looping EXCEPT ![l] = TRUE]
    /\ threadId' = [threadId EXCEPT ![l] = l]
    /\ Goto(l, "while")
    /\ UNCHANGED <<quit, eventfd, pending, running, tableVars, batchVars,
                   acceptVars, countVars, quitIdx, sigVars>>

(* while (!quit_.load()): block in epoll_wait, or leave loop().  The main  *)
(* thread then goes on with start()'s epilogue; a sub thread ends.         *)
WhileCheck(l) ==
    /\ pc[l] = "while"
    /\ Runs(l)
    /\ IF quit[l]
       THEN /\ looping' = [looping EXCEPT ![l] = FALSE]
            /\ Goto(l, IF l = Main THEN "quitStore" ELSE "exited")
       ELSE /\ Goto(l, "wait")
            /\ UNCHANGED looping
    /\ UNCHANGED <<quit, threadId, eventfd, pending, running, tableVars,
                   batchVars, acceptVars, countVars, quitIdx, sigVars>>

(* epoll_wait returns events: wakeup_fd_ and the listen socket are level   *)
(* triggered and come whenever they are ready; any registered connection   *)
(* may have an event.  A signal does not end the wait: Epoller::wait       *)
(* retries on EINTR.                                                       *)
AcceptReady(l) == l = Main /\ backlog # {}
Return(l, events) ==
    /\ wakeEv' = [wakeEv EXCEPT ![l] = eventfd[l]]
    /\ acceptEv' = IF l = Main THEN AcceptReady(l) ELSE acceptEv
    /\ batch' = [batch EXCEPT ![l] =
                    [f \in Fds |-> IF f \in events THEN fdTable[f] ELSE None]]
    /\ Goto(l, NextPhase("wait"))
    /\ UNCHANGED <<quit, looping, threadId, eventfd, pending, running,
                   tableVars, acceptVars, countVars, quitIdx, sigVars>>

Wake(l) ==
    /\ pc[l] = "wait"
    /\ Runs(l)
    /\ eventfd[l] \/ AcceptReady(l)
    /\ \E events \in SUBSET interest[l] : Return(l, events)

IoEvents(l) ==
    /\ pc[l] = "wait"
    /\ Runs(l)
    /\ ~(eventfd[l] \/ AcceptReady(l))
    /\ \E events \in (SUBSET interest[l]) \ {{}} : Return(l, events)

(* epoll_wait times out (the next timer is due, or 200 ms have passed).    *)
Timeout(l) ==
    /\ pc[l] = "wait"
    /\ Runs(l)
    /\ ~(eventfd[l] \/ AcceptReady(l))
    /\ Return(l, {})

-----------------------------------------------------------------------------
(* The dispatch of the batch, in any order.                                *)
Dispatching(l) == pc[l] = "dispatch" /\ Runs(l) /\ closing[l] = NoFd

(* handleWakeup(): read the eventfd until it is empty.                     *)
DispatchWake(l) ==
    /\ Dispatching(l)
    /\ wakeEv[l]
    /\ wakeEv' = [wakeEv EXCEPT ![l] = FALSE]
    /\ eventfd' = [eventfd EXCEPT ![l] = FALSE]
    /\ UNCHANGED <<pc, quit, looping, threadId, pending, running, tableVars,
                   acceptEv, batch, acceptVars, countVars, quitIdx, sigVars>>

(* The listen socket is ready: acceptor_() enters onAccept().              *)
DispatchAccept_Ignored ==
    /\ Dispatching(Main)
    /\ acceptEv
    /\ acceptEv' = FALSE
    /\ UNCHANGED <<loopVars, tableVars, wakeEv, batch, acceptVars, countVars,
                   quitIdx, sigVars>>
DispatchAccept ==
    /\ Dispatching(Main)
    /\ acceptEv
    /\ acceptEv' = FALSE
    /\ Goto(Main, "accept")
    /\ UNCHANGED <<quit, looping, threadId, eventfd, pending, running,
                   tableVars, wakeEv, batch, acceptVars, countVars, quitIdx,
                   sigVars>>

(* A connection event that leaves the connection open, or whose fd is not  *)
(* in connections_ any more.                                               *)
DispatchKeep(l, f) ==
    /\ Dispatching(l)
    /\ batch[l][f] # None
    /\ batch' = [batch EXCEPT ![l][f] = None]
    /\ UNCHANGED <<loopVars, tableVars, wakeEv, acceptEv, acceptVars,
                   countVars, quitIdx, sigVars>>

(* Connection::close() up to fd_ = -1.                                     *)
BeginClose(l, f) ==
    /\ closing' = [closing EXCEPT ![l] = f]
    /\ interest' = [interest EXCEPT ![l] = @ \ {f}]
    /\ fdTable' = [fdTable EXCEPT ![f] = None]
    /\ fdOf' = [fdOf EXCEPT ![connections[l][f]] = NoFd]
    /\ UNCHANGED connections

(* A connection event (peer closed, error, last byte written) on which the *)
(* handler closes the connection connections_.find(fd) returned.           *)
DispatchClose(l, f) ==
    /\ Dispatching(l)
    /\ batch[l][f] # None
    /\ connections[l][f] # None
    /\ batch' = [batch EXCEPT ![l][f] = None]
    /\ BeginClose(l, f)
    /\ UNCHANGED <<loopVars, wakeEv, acceptEv, acceptVars, countVars, quitIdx,
                   sigVars>>

(* The rest of Connection::close(): removeConnection(fd) and closed++.     *)
RemoveConnection_Skipped(l, f) == UNCHANGED connections
RemoveConnection(l, f) ==
    connections' = [connections EXCEPT ![l][f] = None]

FinishClose(l) ==
    /\ closing[l] # NoFd
    /\ Runs(l)
    /\ RemoveConnection(l, closing[l])
    /\ closing' = [closing EXCEPT ![l] = NoFd]
    /\ closed' = closed + 1
    /\ UNCHANGED <<loopVars, interest, fdTable, fdOf, batchVars, acceptVars,
                   opened, quitIdx, sigVars>>

DispatchDone(l) ==
    /\ Dispatching(l)
    /\ ~wakeEv[l]
    /\ l = Main => ~acceptEv
    /\ batch[l] = NoEvents
    /\ Goto(l, NextPhase("dispatch"))
    /\ UNCHANGED <<quit, looping, threadId, eventfd, pending, running,
                   tableVars, batchVars, acceptVars, countVars, quitIdx,
                   sigVars>>

(* timers_.expire(): an idle timer closes its connection, found through    *)
(* the weak_ptr of the callback (here: any connection of this loop).       *)
ExpireClose(l, f) ==
    /\ pc[l] = "expire"
    /\ Runs(l)
    /\ closing[l] = NoFd
    /\ connections[l][f] # None
    /\ BeginClose(l, f)
    /\ UNCHANGED <<loopVars, batchVars, acceptVars, countVars, quitIdx,
                   sigVars>>

ExpireDone(l) ==
    /\ pc[l] = "expire"
    /\ Runs(l)
    /\ closing[l] = NoFd
    /\ Goto(l, NextPhase("expire"))
    /\ UNCHANGED <<quit, looping, threadId, eventfd, pending, running,
                   tableVars, batchVars, acceptVars, countVars, quitIdx,
                   sigVars>>

-----------------------------------------------------------------------------
(* doPendingFunctors(): swap under the mutex, then run without it.         *)
Swap(l) ==
    /\ pc[l] = "swap"
    /\ Runs(l)
    /\ running' = [running EXCEPT ![l] = pending[l]]
    /\ pending' = [pending EXCEPT ![l] = {}]
    /\ Goto(l, "functors")
    /\ UNCHANGED <<quit, looping, threadId, eventfd, tableVars, batchVars,
                   acceptVars, countVars, quitIdx, sigVars>>

(* Server::attachConnection(): the table, the epoll registration, opened.  *)
AttachConnection(l, c) ==
    /\ connections' = [connections EXCEPT ![l][fdOf[c]] = c]
    /\ interest' = [interest EXCEPT ![l] = @ \cup {fdOf[c]}]
    /\ opened' = opened + 1
    /\ UNCHANGED <<closing, fdTable, fdOf, closed>>

RunFunctor(l, c) ==
    /\ pc[l] = "functors"
    /\ Runs(l)
    /\ c \in running[l]
    /\ running' = [running EXCEPT ![l] = @ \ {c}]
    /\ AttachConnection(l, c)
    /\ UNCHANGED <<pc, quit, looping, threadId, eventfd, pending, batchVars,
                   acceptVars, quitIdx, sigVars>>

FunctorsDone(l) ==
    /\ pc[l] = "functors"
    /\ Runs(l)
    /\ running[l] = {}
    /\ Goto(l, NextPhase("functors"))
    /\ UNCHANGED <<quit, looping, threadId, eventfd, pending, running,
                   tableVars, batchVars, acceptVars, countVars, quitIdx,
                   sigVars>>

-----------------------------------------------------------------------------
(* Server::onAccept().                                                     *)

(* accept4() returns some free descriptor: the lowest one, but which is    *)
(* lowest depends on the files the other threads have open.                *)
AcceptOne(c, f) ==
    /\ pc[Main] = "accept"
    /\ Runs(Main)
    /\ c \in backlog
    /\ fdTable[f] = None
    /\ backlog' = backlog \ {c}
    /\ fdTable' = [fdTable EXCEPT ![f] = c]
    /\ fdOf' = [fdOf EXCEPT ![c] = f]
    /\ inHand' = c
    /\ Goto(Main, "admit")
    /\ UNCHANGED <<quit, looping, threadId, eventfd, pending, running,
                   connections, interest, closing, batchVars, fresh, dest,
                   nextSub, countVars, quitIdx, sigVars>>

(* accept4() fails: EAGAIN, EMFILE or any error but EINTR leaves the loop. *)
AcceptDone ==
    /\ pc[Main] = "accept"
    /\ Runs(Main)
    /\ Goto(Main, "dispatch")
    /\ UNCHANGED <<quit, looping, threadId, eventfd, pending, running,
                   tableVars, batchVars, acceptVars, countVars, quitIdx,
                   sigVars>>

(* ServerCounters::activeConnections().                                    *)
ActiveConnections == opened - closed

AtLimit_OffByOne(active) == active > MaxConnections
AtLimit(active) == active >= MaxConnections

(* The connection limit: over it, close the new fd at once; under it,      *)
(* pick a loop, round robin.                                               *)
Reject_NoClose ==
    /\ inHand' = None
    /\ Goto(Main, "accept")
    /\ UNCHANGED <<dest, nextSub, fdTable, fdOf>>
Reject ==
    /\ fdTable' = [fdTable EXCEPT ![fdOf[inHand]] = None]
    /\ fdOf' = [fdOf EXCEPT ![inHand] = NoFd]
    /\ inHand' = None
    /\ Goto(Main, "accept")
    /\ UNCHANGED <<dest, nextSub>>

RoundRobin(n) == (n + 1) % NSub

PickSubLoop ==
    IF NSub = 0
    THEN dest' = Main /\ UNCHANGED nextSub
    ELSE /\ dest' = nextSub + 1
         /\ nextSub' = RoundRobin(nextSub)

Admit ==
    /\ pc[Main] = "admit"
    /\ Runs(Main)
    /\ IF AtLimit(ActiveConnections)
       THEN Reject
       ELSE /\ PickSubLoop
            /\ Goto(Main, "handoff")
            /\ UNCHANGED <<fdTable, fdOf, inHand>>
    /\ UNCHANGED <<quit, looping, threadId, eventfd, pending, running,
                   connections, interest, closing, batchVars, fresh, backlog,
                   countVars, quitIdx, sigVars>>

(* loop->runInLoop(attachConnection): inline when this is the loop's own   *)
(* thread, otherwise the first half of queueInLoop(), the locked push.     *)
RunsInline_Always(l) == TRUE
RunsInline(l) == IsInLoopThread(l, Main) /\ looping[l]

Handoff ==
    /\ pc[Main] = "handoff"
    /\ Runs(Main)
    /\ inHand' = None
    /\ IF RunsInline(dest)
       THEN /\ AttachConnection(dest, inHand)
            /\ Goto(Main, "accept")
            /\ UNCHANGED pending
       ELSE /\ pending' = [pending EXCEPT ![dest] = @ \cup {inHand}]
            /\ Goto(Main, "wake")
            /\ UNCHANGED <<tableVars, countVars>>
    /\ UNCHANGED <<quit, looping, threadId, eventfd, running, batchVars,
                   fresh, backlog, dest, nextSub, quitIdx, sigVars>>

(* The second half of queueInLoop(): wakeup() unless this is the loop's    *)
(* own thread and it is not running functors.                              *)
CallingPending(l) == pc[l] = "functors"
QueueWakes_Inverted(l) == IsInLoopThread(l, Main) \/ CallingPending(l)
QueueWakes(l) == ~IsInLoopThread(l, Main) \/ CallingPending(l)

HandoffWake ==
    /\ pc[Main] = "wake"
    /\ Runs(Main)
    /\ eventfd' = [eventfd EXCEPT ![dest] = @ \/ QueueWakes(dest)]
    /\ Goto(Main, "accept")
    /\ UNCHANGED <<quit, looping, threadId, pending, running, tableVars,
                   batchVars, acceptVars, countVars, quitIdx, sigVars>>

-----------------------------------------------------------------------------
(* start() after main_loop_->loop() returned: quit() every sub loop.       *)
QuitSubStore ==
    /\ pc[Main] = "quitStore"
    /\ Runs(Main)
    /\ quitIdx \in Subs
    /\ QuitStore(quitIdx)
    /\ Goto(Main, "quitWake")
    /\ UNCHANGED <<looping, threadId, eventfd, pending, running, tableVars,
                   batchVars, acceptVars, countVars, quitIdx, sigVars>>

QuitSubWake ==
    /\ pc[Main] = "quitWake"
    /\ Runs(Main)
    /\ QuitWake(quitIdx, Main)
    /\ quitIdx' = quitIdx + 1
    /\ Goto(Main, "quitStore")
    /\ UNCHANGED <<quit, looping, threadId, pending, running, tableVars,
                   batchVars, acceptVars, countVars, sigVars>>

(* t.join() for every sub thread, then close(listen_fd_): the kernel       *)
(* resets what is left in the accept queue.                                *)
Joined_NoJoin == TRUE
Joined == \A l \in Subs : pc[l] = "exited"

Join ==
    /\ pc[Main] = "quitStore"
    /\ Runs(Main)
    /\ quitIdx \notin Subs
    /\ Joined
    /\ backlog' = {}
    /\ Goto(Main, "stopped")
    /\ UNCHANGED <<quit, looping, threadId, eventfd, pending, running,
                   tableVars, batchVars, fresh, inHand, dest, nextSub,
                   countVars, quitIdx, sigVars>>

-----------------------------------------------------------------------------
(* The rest of main().  The handlers stay installed and g_server keeps its *)
(* value throughout.                                                       *)

(* AsyncLogger::stop() joins the writer thread.                            *)
StopLogger ==
    /\ pc[Main] = "stopped"
    /\ Runs(Main)
    /\ Runs(Logger)
    /\ Goto(Main, "leaving")
    /\ UNCHANGED <<quit, looping, threadId, eventfd, pending, running,
                   tableVars, batchVars, acceptVars, countVars, quitIdx,
                   sigVars>>

(* A sub loop is in sub_loops_ once start() has created it.                *)
InServer(l) == l = Main \/ pc[l] # "unborn"

(* The body of ~Server is stop().  It is one step here: no other thread is *)
(* left to see its stores one by one.                                      *)
DtorStop ==
    /\ pc[Main] = "leaving"
    /\ Runs(Main)
    /\ quit' = [l \in Loops |-> quit[l] \/ InServer(l)]
    /\ eventfd' = [l \in Loops |->
                      eventfd[l] \/ (InServer(l) /\ QuitWakes(l, Main))]
    /\ Goto(Main, "destroying")
    /\ UNCHANGED <<looping, threadId, pending, running, tableVars, batchVars,
                   acceptVars, countVars, quitIdx, sigVars>>

(* Then ~Server destroys its members, the last declared first: the loops   *)
(* of sub_loops_, in order, then main_loop_.  With a loop, ~Connection     *)
(* closes what its table still holds, and its queued functors are dropped  *)
(* without running.                                                        *)
Gone(l) == IF l = Main THEN pc[Main] \in {"destroyed", "ended"}
                       ELSE pc[l] = "gone"
Whole == \A l \in Loops : ~Gone(l)

DestroyNext(l) ==
    /\ InServer(l)
    /\ ~Gone(l)
    /\ \A k \in Subs : InServer(k) /\ (l = Main \/ k < l) => Gone(k)

DestroyLoop(l) ==
    /\ pc[Main] = "destroying"
    /\ Runs(Main)
    /\ DestroyNext(l)
    /\ Goto(l, IF l = Main THEN "destroyed" ELSE "gone")
    /\ LET left == {f \in Fds : connections[l][f] # None}
       IN  /\ fdTable' = [f \in Fds |-> IF f \in left THEN None ELSE fdTable[f]]
           /\ fdOf' = [c \in Clients |->
                          IF fdOf[c] \in left THEN NoFd ELSE fdOf[c]]
    /\ connections' = [connections EXCEPT ![l] = NoEvents]
    /\ interest' = [interest EXCEPT ![l] = {}]
    /\ pending' = [pending EXCEPT ![l] = {}]
    /\ UNCHANGED <<quit, looping, threadId, eventfd, running, closing,
                   batchVars, acceptVars, countVars, quitIdx, sigVars>>

(* main() has returned and exit() ends the process.                        *)
ProcessExit ==
    /\ pc[Main] = "destroyed"
    /\ Runs(Main)
    /\ Goto(Main, "ended")
    /\ UNCHANGED <<quit, looping, threadId, eventfd, pending, running,
                   tableVars, batchVars, acceptVars, countVars, quitIdx,
                   sigVars>>

-----------------------------------------------------------------------------
(* onSignal(): Server::stop() runs on the thread the kernel delivers the   *)
(* signal to, between any two of its steps, epoll_wait included.  The      *)
(* writer thread lives until AsyncLogger::stop() has joined it, the main   *)
(* thread until the process ends.                                          *)
Alive(t) ==
    CASE t = Logger -> pc[Main] \notin EndPhases \ {"stopped"}
      [] t = Main -> pc[Main] # "ended"
      [] OTHER -> pc[t] \notin {"unborn", "made", "exited", "gone"}

Signal(t) ==
    /\ signalsLeft > 0
    /\ sigThread = NoThread
    /\ Alive(t)
    /\ signalsLeft' = signalsLeft - 1
    /\ sigThread' = t
    /\ sigNext' = Main
    /\ UNCHANGED <<loopVars, tableVars, batchVars, acceptVars, countVars,
                   quitIdx, sigStored>>

SigStore ==
    /\ sigThread # NoThread
    /\ ~sigStored
    /\ sigNext \in Loops
    /\ InServer(sigNext)
    /\ ~Gone(sigNext)
    /\ QuitStore(sigNext)
    /\ sigStored' = TRUE
    /\ UNCHANGED <<pc, looping, threadId, eventfd, pending, running, tableVars,
                   batchVars, acceptVars, countVars, quitIdx, sigThread,
                   sigNext, signalsLeft>>

SigWake ==
    /\ sigStored
    /\ QuitWake(sigNext, sigThread)
    /\ sigNext' = sigNext + 1
    /\ sigStored' = FALSE
    /\ UNCHANGED <<pc, quit, looping, threadId, pending, running, tableVars,
                   batchVars, acceptVars, countVars, quitIdx, sigThread,
                   signalsLeft>>

SigReturn ==
    /\ sigThread # NoThread
    /\ ~sigStored
    /\ sigNext \in Loops => ~InServer(sigNext)
    /\ sigThread' = NoThread
    /\ UNCHANGED <<loopVars, tableVars, batchVars, acceptVars, countVars,
                   quitIdx, sigNext, sigStored, signalsLeft>>

(* stop() reaches a loop that has been destroyed, which is undefined: the  *)
(* stores go to freed memory and stop() goes on, or the process dies.      *)
SigDead ==
    /\ sigThread # NoThread
    /\ ~sigStored
    /\ sigNext \in Loops
    /\ Gone(sigNext)
    /\ \/ sigNext' = sigNext + 1 /\ UNCHANGED <<pc, sigThread>>
       \/ sigThread' = NoThread /\ Goto(Main, "ended") /\ UNCHANGED sigNext
    /\ UNCHANGED <<quit, looping, threadId, eventfd, pending, running,
                   tableVars, batchVars, acceptVars, countVars, quitIdx,
                   sigStored, signalsLeft>>

(* The process has ended: nothing is left to do.                           *)
Terminated ==
    /\ pc[Main] = "ended"
    /\ UNCHANGED vars

-----------------------------------------------------------------------------
(* The steps a thread takes by itself once it can.                         *)
LoopStep(l) ==
    \/ LoopEnter(l) \/ WhileCheck(l) \/ Wake(l)
    \/ DispatchWake(l) \/ DispatchDone(l)
    \/ \E f \in Fds : DispatchKeep(l, f) \/ DispatchClose(l, f)
    \/ FinishClose(l) \/ ExpireDone(l)
    \/ Swap(l) \/ FunctorsDone(l)
    \/ \E c \in Clients : RunFunctor(l, c)

StartStep ==
    \/ Listen \/ AllCreated \/ AllSpawned
    \/ \E l \in Subs : CreateLoop(l) \/ SpawnThread(l)

MainStep ==
    \/ StartStep \/ DispatchAccept
    \/ \E c \in Clients, f \in Fds : AcceptOne(c, f)
    \/ AcceptDone \/ Admit \/ Handoff \/ HandoffWake
    \/ QuitSubStore \/ QuitSubWake \/ Join
    \/ StopLogger \/ DtorStop \/ ProcessExit
    \/ \E l \in Loops : DestroyLoop(l)

SignalStep == SigStore \/ SigWake \/ SigDead \/ SigReturn

(* What peers, clocks and users decide.                                    *)
Environment ==
    \/ \E c \in Clients : Connect(c)
    \/ \E l \in Loops : IoEvents(l) \/ \E f \in Fds : ExpireClose(l, f)
    \/ \E t \in Threads : Signal(t)

Next ==
    \/ \E l \in Loops : LoopStep(l) \/ Timeout(l)
    \/ MainStep
    \/ SignalStep
    \/ Environment
    \/ Terminated

Spec == Init /\ [][Next]_vars

(* The OS schedules every runnable thread, and a handler that started runs *)
(* to its end.  Peers, idle timers and signals owe nothing.                *)
Scheduling ==
    /\ \A l \in Loops : WF_vars(LoopStep(l))
    /\ WF_vars(MainStep)
    /\ WF_vars(SignalStep)

(* epoll_wait is given a finite timeout (at most 200 ms, or the next idle  *)
(* timer), so a blocked loop comes round again.                            *)
Ticking == \A l \in Loops : WF_vars(Timeout(l))

FairSpec == Spec /\ Scheduling

-----------------------------------------------------------------------------
(* Properties.                                                             *)

(* Every variable has its type: flags are Booleans, tables map descriptors *)
(* to clients, thread positions are the ones the code has.                 *)
SubIndexes == IF NSub = 0 THEN {0} ELSE 0 .. NSub - 1
TypeOK ==
    /\ pc \in [Loops -> LoopPhases \cup MainPhases]
    /\ quit \in [Loops -> BOOLEAN]
    /\ looping \in [Loops -> BOOLEAN]
    /\ threadId \in [Loops -> Threads \cup {NoThread}]
    /\ eventfd \in [Loops -> BOOLEAN]
    /\ pending \in [Loops -> SUBSET Clients]
    /\ running \in [Loops -> SUBSET Clients]
    /\ connections \in [Loops -> [Fds -> Clients \cup {None}]]
    /\ interest \in [Loops -> SUBSET Fds]
    /\ closing \in [Loops -> Fds \cup {NoFd}]
    /\ fdTable \in [Fds -> Clients \cup {None}]
    /\ fdOf \in [Clients -> Fds \cup {NoFd}]
    /\ wakeEv \in [Loops -> BOOLEAN]
    /\ acceptEv \in BOOLEAN
    /\ batch \in [Loops -> [Fds -> Clients \cup {None}]]
    /\ fresh \in SUBSET Clients
    /\ backlog \in SUBSET Clients
    /\ inHand \in Clients \cup {None}
    /\ dest \in Loops
    /\ nextSub \in SubIndexes
    /\ opened \in Nat
    /\ closed \in Nat
    /\ quitIdx \in 1 .. NSub + 1
    /\ sigThread \in Threads \cup {NoThread}
    /\ sigNext \in 0 .. NSub + 1
    /\ sigStored \in BOOLEAN
    /\ signalsLeft \in Nat

(* A loop is never left asleep in epoll_wait with a task in its queue: its *)
(* eventfd is set, or the main thread is just about to set it              *)
(* (queueInLoop pushes first and wakes second; handleWakeup empties the    *)
(* eventfd before doPendingFunctors takes the queue, never after).         *)
WakeIsComing(l) == eventfd[l] \/ (pc[Main] = "wake" /\ dest = l)
NoLostWakeup ==
    \A l \in Loops : pc[l] = "wait" /\ pending[l] # {} => WakeIsComing(l)

(* The connection table, the program's fd and the kernel agree, although   *)
(* accept4() on the main thread may reuse an fd number the instant another *)
(* thread's close() freed it: an entry of connections_ is an open          *)
(* registered connection, or the very connection its loop is closing.      *)
Live(l, f) ==
    /\ fdTable[f] = connections[l][f]
    /\ fdOf[connections[l][f]] = f
    /\ f \in interest[l]
BeingClosed(l, f) ==
    /\ closing[l] = f
    /\ fdOf[connections[l][f]] = NoFd
    /\ f \notin interest[l]
TableConsistent ==
    \A l \in Loops, f \in Fds :
        connections[l][f] # None => Live(l, f) \/ BeingClosed(l, f)

(* removeConnection(fd), made after ::close(fd), takes out the connection  *)
(* being closed and never a newcomer that got the same fd number.          *)
CloseRemovesOwn ==
    \A l \in Loops :
        closing[l] # NoFd =>
            /\ connections[l][closing[l]] # None
            /\ fdOf[connections[l][closing[l]]] = NoFd

(* An event is dispatched to the connection it was reported for, or to     *)
(* none: between epoll_wait and the dispatch of an fd, the fd cannot come  *)
(* to name another connection of the same loop.                            *)
NoStaleEvent ==
    \A l \in Loops, f \in Fds :
        batch[l][f] # None => connections[l][f] \in {None, batch[l][f]}

(* Every open descriptor has exactly one holder that will close or attach  *)
(* it: onAccept's local, a queued or running functor, or one table entry.  *)
Holders(c) ==
    [hand |-> inHand = c,
     queues |-> {l \in Loops : c \in pending[l]},
     functors |-> {l \in Loops : c \in running[l]},
     tables |-> {l \in Loops : \E f \in Fds :
                    connections[l][f] = c /\ closing[l] # f}]
OneHolder(h) ==
    Cardinality(h.queues) + Cardinality(h.functors) + Cardinality(h.tables)
        + (IF h.hand THEN 1 ELSE 0) = 1
FdOwnership ==
    Whole =>
        \A f \in Fds : fdTable[f] # None => OneHolder(Holders(fdTable[f]))

(* A loop's table and epoll set are changed only by a step of the loop's   *)
(* own thread (event_loop.h: all operations on this epoll happen in the    *)
(* loop thread), or by ~Server on the main thread once no thread runs a    *)
(* sub loop.                                                               *)
StepOf(t) ==
    \/ LoopStep(t)
    \/ \E f \in Fds : ExpireClose(t, f)
    \/ t = Main /\ MainStep
NoSubRuns == \A l \in Subs : pc[l] \in {"unborn", "exited", "gone"}
ConfinedStep ==
    \A l \in Loops :
        connections'[l] # connections[l] \/ interest'[l] # interest[l]
            => StepOf(l) \/ (StepOf(Main) /\ NoSubRuns)
ThreadConfined == [][ConfinedStep]_vars

(* The counters agree with the tables: opened - closed is the number of    *)
(* connections the loops hold.                                             *)
Held == {slot \in Loops \X Fds : connections[slot[1]][slot[2]] # None}
CountersAgree ==
    Whole => ActiveConnections = Cardinality(Held)

(* Option -m: no more than MaxConnections connections are established (an  *)
(* accepted fd that may still be turned away is not counted).              *)
Established ==
    {c \in Clients : fdOf[c] # NoFd
                     /\ ~(c = inHand /\ pc[Main] = "admit")}
ConnectionLimit ==
    MaxConnections >= 0 => Cardinality(Established) <= MaxConnections

(* The handler does what onSignal's comment says, an atomic store and a    *)
(* write to an eventfd, only on a Server that is whole: no loop that       *)
(* stop() goes through has been destroyed.                                 *)
HandlerOnLiveServer == sigThread # NoThread => Whole

(* A handler on a sub thread or on the writer thread runs Server::stop()   *)
(* on a whole Server: start() and AsyncLogger::stop() have joined both     *)
(* before ~Server begins.                                                  *)
HandlersAreJoined == sigThread \notin {NoThread, Main} => Whole

(* When the handler has quit a loop and that loop sleeps in epoll_wait,    *)
(* its eventfd is set: stop() ends the wait instead of the timeout.        *)
StopWakesLoop ==
    \A l \in Loops :
        pc[l] = "wait" /\ quit[l]
        /\ ~(sigThread # NoThread /\ sigStored /\ sigNext = l)
        /\ ~(pc[Main] = "quitWake" /\ quitIdx = l)
            => eventfd[l]

(* A connection handed to a loop is attached without help from timers or   *)
(* other traffic, unless the loop is told to quit first.                   *)
HandedOffIsAttached ==
    \A c \in Clients, l \in Loops :
        c \in pending[l] ~> c \notin pending[l] \cup running[l] \/ quit[l]

(* A client in the accept queue is accepted, also when descriptors ran out *)
(* or accept4() failed meanwhile and no new client makes the listen socket *)
(* ready again: one descriptor that keeps coming free, and accept4() that  *)
(* does not fail for ever, are enough.                                     *)
AcceptNext == \E c \in Clients, f \in Fds : AcceptOne(c, f)
WaitingIsAccepted ==
    SF_vars(AcceptNext) /\ []<>(\E f \in Fds : fdTable[f] = None) =>
        \A c \in Clients : c \in backlog ~> c \notin backlog \/ quit[Main]

(* A stop() on a thread that runs no loop ends the process promptly: no    *)
(* loop has to sit out its epoll_wait timeout.                             *)
PromptStop == (sigThread = Logger) ~> (pc[Main] = "ended")

(* stop(), from whichever thread the signal lands on, ends the process     *)
(* once epoll_wait's timeouts are counted on: every loop leaves loop(),    *)
(* every thread is joined, also when the signal came before loop() began.  *)
StopTerminates ==
    Ticking => ((sigThread # NoThread) ~> (pc[Main] = "ended"))

=============================================================================
