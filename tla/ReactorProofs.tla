--------------------------- MODULE ReactorProofs ---------------------------
(***************************************************************************)
(* Theorems about Reactor, for any number of sub loops, clients,           *)
(* descriptors and signals.                                                *)
(***************************************************************************)
EXTENDS Reactor, TLAPS

(* Where threads are: sub loops only in loop()'s phases; thread_id_ names  *)
(* the loop's own thread or none; onAccept queues only to sub loops, since *)
(* the main loop is looping whenever onAccept runs; the quit() calls of    *)
(* start() and stop() address existing loops; sub threads have ended when  *)
(* start() has returned, the writer when ~Server begins; only ~Server      *)
(* destroys a loop, and no handler runs on a thread that has ended.        *)
TearDown == {"destroying", "destroyed", "ended"}
InLoopPhases == {"while", "wait", "dispatch", "expire", "swap", "functors",
                 "accept", "admit", "handoff", "wake"}
ControlInv ==
    /\ \A l \in Subs : pc[l] \in LoopPhases
    /\ \A l \in Loops : threadId[l] \in {NoThread, l}
    /\ pc[Main] \in InLoopPhases => threadId[Main] = Main /\ looping[Main]
    /\ pc[Main] = "wake" => dest # Main
    /\ pc[Main] = "quitWake" => quitIdx \in Subs
    /\ pc[Main] = "start" => \A l \in Subs : pc[l] = "unborn"
    /\ pc[Main] \in EndPhases => NoSubRuns
    /\ \A l \in Subs : pc[l] = "gone" => pc[Main] \in TearDown
    /\ sigStored => sigNext \in Loops
    /\ sigThread \in Subs =>
           pc[sigThread] \notin {"unborn", "made", "exited", "gone"}
    /\ sigThread = Logger => pc[Main] \notin EndPhases \ {"stopped"}

(* NoLostWakeup, extended to every phase from which the loop can reach     *)
(* epoll_wait without swapping its queue.                                  *)
WakeInv ==
    /\ pending[Main] = {}
    /\ \A l \in Loops :
          pending[l] # {} /\ pc[l] \notin {"dispatch", "expire", "swap",
                                           "exited", "gone"}
              => WakeIsComing(l)

(* A client is in one place at a time: not connected, in the accept queue, *)
(* in onAccept's hand, in one queue or functor vector, or in one table     *)
(* slot.                                                                   *)
PlaceInv ==
    /\ \A c \in fresh : c \notin backlog
    /\ \A c \in fresh \cup backlog : fdOf[c] = NoFd /\ c # inHand
    /\ \A c \in fresh \cup backlog, l \in Loops :
          c \notin pending[l] /\ c \notin running[l]
    /\ \A c \in fresh \cup backlog, l \in Loops, f \in Fds :
          connections[l][f] # c
    /\ \A l \in Loops : inHand \notin pending[l] /\ inHand \notin running[l]
    /\ \A l \in Loops, f \in Fds :
          inHand # None => connections[l][f] # inHand
    /\ \A l, m \in Loops, f \in Fds : \A c \in pending[l] \cup running[l] :
          connections[m][f] # c
    /\ \A l, m \in Loops : \A c \in pending[l] :
          c \notin running[m] /\ (c \in pending[m] => l = m)
    /\ \A l, m \in Loops : \A c \in running[l] : c \in running[m] => l = m
    /\ \A l, m \in Loops, f, g \in Fds :
          connections[l][f] # None /\ connections[l][f] = connections[m][g]
              => l = m /\ f = g

(* The program's descriptors and the kernel's agree; whoever waits to be   *)
(* attached has one; a table slot is live or is being closed.              *)
KernelInv ==
    /\ \A f \in Fds : fdTable[f] # None => fdOf[fdTable[f]] = f
    /\ \A c \in Clients : fdOf[c] # NoFd => fdTable[fdOf[c]] = c
WaitingInv ==
    /\ \A l \in Loops : \A c \in pending[l] \cup running[l] : fdOf[c] # NoFd
    /\ inHand # None <=> pc[Main] \in {"admit", "handoff"}
    /\ inHand # None => fdOf[inHand] # NoFd
SlotInv ==
    /\ \A l \in Loops, f \in Fds :
          connections[l][f] # None =>
              IF closing[l] = f
              THEN fdOf[connections[l][f]] = NoFd /\ f \notin interest[l]
              ELSE fdOf[connections[l][f]] = f /\ f \in interest[l]
    /\ \A l \in Loops : \A f \in interest[l] : connections[l][f] # None
    /\ \A l \in Loops : closing[l] # NoFd =>
          connections[l][closing[l]] # None /\ pc[l] \in {"dispatch", "expire"}
FdInv == KernelInv /\ WaitingInv /\ SlotInv

(* Events are in hand only while a batch is being dispatched, and name the *)
(* connection in the table; functors are in hand only in "functors".       *)
BatchInv ==
    /\ \A l \in Loops, f \in Fds : batch[l][f] # None =>
          /\ pc[l] \in {"dispatch", "accept", "admit", "handoff", "wake"}
          /\ connections[l][f] = batch[l][f]
          /\ closing[l] # f
    /\ \A l \in Loops : running[l] # {} => pc[l] = "functors"

IInv == TypeOK /\ ControlInv /\ WakeInv /\ PlaceInv /\ FdInv /\ BatchInv

LoopNames ==
    /\ Main \in Loops /\ Subs \subseteq Loops /\ Main \notin Subs
    /\ NoThread \notin Loops /\ Logger \notin Loops /\ Logger # NoThread
    /\ Loops = Subs \cup {Main} /\ Threads = Loops \cup {Logger}

(* The names of loops and threads are distinct.                            *)
LEMMA LoopNamesHold == LoopNames
  BY NSubAssumption
  DEF LoopNames, Main, Subs, Loops, NoThread, Logger, Threads

(* A loop is destroyed by ~Server alone.                                   *)
LEMMA GoneInTearDown ==
  ASSUME ControlInv, NEW l \in Loops, Gone(l)
  PROVE  pc[Main] \in TearDown
  BY LoopNamesHold DEF ControlInv, Gone, TearDown, LoopNames

(* The invariants the runs check follow from the inductive one.            *)
LEMMA IInvImplies ==
  IInv => /\ NoLostWakeup /\ TableConsistent /\ CloseRemovesOwn
          /\ NoStaleEvent /\ HandlersAreJoined
  <1> SUFFICES ASSUME IInv
               PROVE  /\ NoLostWakeup /\ TableConsistent /\ CloseRemovesOwn
                      /\ NoStaleEvent /\ HandlersAreJoined
    OBVIOUS
  <1>1. NoLostWakeup
    BY DEF IInv, WakeInv, NoLostWakeup
  <1>2. TableConsistent
    BY NullsAssumption
    DEF IInv, TypeOK, FdInv, KernelInv, WaitingInv, SlotInv, TableConsistent,
        Live, BeingClosed
  <1>3. CloseRemovesOwn
    BY DEF IInv, TypeOK, FdInv, KernelInv, WaitingInv, SlotInv, CloseRemovesOwn
  <1>4. NoStaleEvent
    BY DEF IInv, BatchInv, NoStaleEvent
  <1>5. HandlersAreJoined
    <2>1. ASSUME NEW l \in Loops, Gone(l) PROVE pc[Main] \in TearDown
      BY <2>1, GoneInTearDown DEF IInv
    <2>2. sigThread \in Subs => pc[Main] \notin TearDown
      BY DEF IInv, ControlInv, NoSubRuns, TearDown, EndPhases
    <2>3. sigThread = Logger => pc[Main] \notin TearDown
      BY DEF IInv, ControlInv, TearDown, EndPhases
    <2>4. sigThread \notin {NoThread, Main} =>
              sigThread \in Subs \/ sigThread = Logger
      BY LoopNamesHold DEF IInv, TypeOK, LoopNames
    <2> QED
      BY <2>1, <2>2, <2>3, <2>4 DEF HandlersAreJoined, Whole
  <1> QED
    BY <1>1, <1>2, <1>3, <1>4, <1>5

-----------------------------------------------------------------------------
(* The first state has the declared types.                                 *)
LEMMA TypeInit == Init => TypeOK
  <1> SUFFICES ASSUME Init PROVE TypeOK
    OBVIOUS
  <1>1. NoEvents \in [Fds -> Clients \cup {None}]
    BY DEF NoEvents
  <1>2. 0 \in SubIndexes /\ Main \in Loops /\ 1 \in 1 .. NSub + 1
        /\ 0 \in 0 .. NSub + 1
    BY NSubAssumption DEF SubIndexes, Main, Loops
  <1>3. pc \in [Loops -> LoopPhases \cup MainPhases]
    BY DEF Init, LoopPhases, MainPhases, EndPhases
  <1>4. /\ connections \in [Loops -> [Fds -> Clients \cup {None}]]
        /\ batch \in [Loops -> [Fds -> Clients \cup {None}]]
    BY <1>1 DEF Init
  <1>5. /\ quit \in [Loops -> BOOLEAN] /\ looping \in [Loops -> BOOLEAN]
        /\ eventfd \in [Loops -> BOOLEAN] /\ wakeEv \in [Loops -> BOOLEAN]
        /\ acceptEv \in BOOLEAN /\ sigStored \in BOOLEAN
    BY DEF Init
  <1>6. /\ threadId \in [Loops -> Threads \cup {NoThread}]
        /\ pending \in [Loops -> SUBSET Clients]
        /\ running \in [Loops -> SUBSET Clients]
        /\ interest \in [Loops -> SUBSET Fds]
        /\ closing \in [Loops -> Fds \cup {NoFd}]
    BY DEF Init
  <1>7. /\ fdTable \in [Fds -> Clients \cup {None}]
        /\ fdOf \in [Clients -> Fds \cup {NoFd}]
        /\ fresh \in SUBSET Clients /\ backlog \in SUBSET Clients
        /\ inHand \in Clients \cup {None}
    BY DEF Init
  <1>8. /\ dest \in Loops /\ nextSub \in SubIndexes /\ opened \in Nat
        /\ closed \in Nat /\ quitIdx \in 1 .. NSub + 1
        /\ sigThread \in Threads \cup {NoThread} /\ sigNext \in 0 .. NSub + 1
        /\ signalsLeft \in Nat
    BY <1>2, BoundsAssumption DEF Init, Main
  <1> QED
    BY <1>3, <1>4, <1>5, <1>6, <1>7, <1>8 DEF TypeOK

(* Steps of the environment keep the types.                                *)
LEMMA TypeEnvironment == IInv /\ Environment => TypeOK'
  <1> SUFFICES ASSUME IInv, Environment PROVE TypeOK'
    OBVIOUS
  <1> TypeOK
    BY DEF IInv
  <1>1. ASSUME NEW c \in Clients, Connect(c) PROVE TypeOK'
    BY <1>1 DEF TypeOK, Connect, loopVars, tableVars, batchVars, countVars,
                sigVars
  <1>2. ASSUME NEW l \in Loops, IoEvents(l) PROVE TypeOK'
    BY <1>2 DEF TypeOK, IoEvents, Return, Goto, NextPhase, AcceptReady,
                LoopPhases, tableVars, acceptVars, countVars, sigVars
  <1>3. ASSUME NEW l \in Loops, NEW f \in Fds, ExpireClose(l, f) PROVE TypeOK'
    BY <1>3 DEF TypeOK, ExpireClose, BeginClose, loopVars, batchVars,
                acceptVars, countVars, sigVars
  <1>4. ASSUME NEW t \in Threads, Signal(t) PROVE TypeOK'
    BY <1>4, NSubAssumption
    DEF TypeOK, Signal, Main, Threads, NoThread, loopVars, tableVars,
        batchVars, acceptVars, countVars
  <1> QED
    BY <1>1, <1>2, <1>3, <1>4 DEF Environment

(* The steps of one loop's thread, and its timeout, keep the types.        *)
LEMMA TypeLoopStep ==
  ASSUME IInv, NEW l \in Loops, LoopStep(l) \/ Timeout(l)
  PROVE  TypeOK'
  <1> TypeOK
    BY DEF IInv
  <1>1. ASSUME LoopEnter(l) PROVE TypeOK'
    BY <1>1, NSubAssumption
    DEF TypeOK, LoopEnter, Goto, LoopPhases, Loops, Threads, tableVars,
        batchVars, acceptVars, countVars, sigVars
  <1>2. ASSUME WhileCheck(l) PROVE TypeOK'
    BY <1>2 DEF TypeOK, WhileCheck, Goto, LoopPhases, MainPhases,
                tableVars, batchVars, acceptVars, countVars, sigVars
  <1>3. ASSUME Wake(l) \/ Timeout(l) PROVE TypeOK'
    <2>1. PICK events \in SUBSET Fds : Return(l, events)
      BY <1>3 DEF TypeOK, Wake, Timeout
    <2> QED
      BY <2>1 DEF TypeOK, Return, Goto, NextPhase, AcceptReady, LoopPhases,
                  tableVars, acceptVars, countVars, sigVars
  <1>4. ASSUME DispatchWake(l) PROVE TypeOK'
    BY <1>4 DEF TypeOK, DispatchWake, tableVars, acceptVars, countVars,
                sigVars
  <1>5. ASSUME DispatchDone(l) \/ ExpireDone(l) \/ FunctorsDone(l)
        PROVE  TypeOK'
    BY <1>5 DEF TypeOK, DispatchDone, ExpireDone, FunctorsDone, Goto,
                NextPhase, LoopPhases, tableVars, batchVars, acceptVars,
                countVars, sigVars
  <1>6. ASSUME NEW f \in Fds, DispatchKeep(l, f) PROVE TypeOK'
    BY <1>6 DEF TypeOK, DispatchKeep, loopVars, tableVars, acceptVars,
                countVars, sigVars
  <1>7. ASSUME NEW f \in Fds, DispatchClose(l, f) PROVE TypeOK'
    BY <1>7 DEF TypeOK, DispatchClose, BeginClose, loopVars, acceptVars,
                countVars, sigVars
  <1>8. ASSUME FinishClose(l) PROVE TypeOK'
    BY <1>8 DEF TypeOK, FinishClose, RemoveConnection, loopVars, batchVars,
                acceptVars, sigVars
  <1>9. ASSUME Swap(l) PROVE TypeOK'
    BY <1>9 DEF TypeOK, Swap, Goto, LoopPhases, tableVars, batchVars,
                acceptVars, countVars, sigVars
  <1>10. ASSUME NEW c \in Clients, RunFunctor(l, c) PROVE TypeOK'
    <2>1. fdOf[c] \in Fds
      BY <1>10
      DEF IInv, TypeOK, FdInv, KernelInv, WaitingInv, SlotInv, RunFunctor
    <2> QED
      BY <1>10, <2>1 DEF TypeOK, RunFunctor, AttachConnection, batchVars,
                         acceptVars, sigVars
  <1> QED
    BY <1>1, <1>2, <1>3, <1>4, <1>5, <1>6, <1>7, <1>8, <1>9, <1>10
    DEF LoopStep

(* Where threads are before loop().                                        *)
BeforeLoop == {"start", "create", "spawn", "unborn", "made"}

(* start() before loop(): one thread's position moves, nothing else does.  *)
LEMMA StartMoves ==
  ASSUME StartStep
  PROVE  /\ \E l \in Loops, p \in {"create", "stopped", "made", "spawn", "enter"} :
               /\ Goto(l, p)
               /\ pc[l] \in BeforeLoop
               /\ pc[Main] \in {"start", "create", "spawn"}
               /\ p = "stopped" => l = Main /\ pc[Main] = "start"
               /\ p \in {"create", "spawn"} => l = Main
               /\ l # Main => p \in {"made", "enter"} /\ pc[Main] # "start"
               /\ p = "made" => pc[l] = "unborn"
         /\ UNCHANGED <<quit, looping, threadId, eventfd, pending, running,
                        tableVars, batchVars, acceptVars, countVars, quitIdx,
                        sigVars>>
  <1>0. Main \in Loops /\ Main \notin Subs /\ Subs \subseteq Loops
    BY NSubAssumption DEF Main, Subs, Loops
  <1>1. CASE Listen \/ AllCreated \/ AllSpawned
    BY <1>0, <1>1 DEF Listen, AllCreated, AllSpawned, BeforeLoop
  <1>2. CASE \E l \in Subs : CreateLoop(l) \/ SpawnThread(l)
    BY <1>0, <1>2 DEF CreateLoop, SpawnThread, BeforeLoop
  <1> QED
    BY <1>1, <1>2 DEF StartStep

(* The steps of start(), onAccept() and main()'s end keep the types.       *)
LEMMA TypeMainStep == IInv /\ MainStep => TypeOK'
  <1> SUFFICES ASSUME IInv, MainStep PROVE TypeOK'
    OBVIOUS
  <1> TypeOK
    BY DEF IInv
  <1>0. Main \in Loops
    BY NSubAssumption DEF Main, Loops
  <1>1. ASSUME StartStep PROVE TypeOK'
    <2>1. PICK l \in Loops, p \in LoopPhases \cup MainPhases : Goto(l, p)
      BY <1>1, StartMoves DEF LoopPhases, MainPhases, EndPhases
    <2>2. pc' \in [Loops -> LoopPhases \cup MainPhases]
      BY <2>1 DEF TypeOK, Goto
    <2> QED
      BY <1>1, <2>2, StartMoves DEF TypeOK, tableVars, batchVars, acceptVars,
                                    countVars, sigVars
  <1>2. ASSUME DispatchAccept PROVE TypeOK'
    BY <1>0, <1>2 DEF TypeOK, DispatchAccept, Goto, MainPhases,
                      tableVars, acceptVars, countVars, sigVars
  <1>3. ASSUME NEW c \in Clients, NEW f \in Fds, AcceptOne(c, f) PROVE TypeOK'
    BY <1>0, <1>3 DEF TypeOK, AcceptOne, Goto, MainPhases,
                      batchVars, countVars, sigVars
  <1>4. ASSUME AcceptDone PROVE TypeOK'
    BY <1>0, <1>4 DEF TypeOK, AcceptDone, Goto, LoopPhases, tableVars,
                      batchVars, acceptVars, countVars, sigVars
  <1>5. ASSUME Admit PROVE TypeOK'
    <2>1. CASE AtLimit(ActiveConnections)
      BY <1>0, <1>5, <2>1 DEF TypeOK, Admit, Reject, Goto, MainPhases,
                              batchVars, countVars, sigVars
    <2>2. CASE ~AtLimit(ActiveConnections)
      <3>1. dest' \in Loops /\ nextSub' \in SubIndexes
        BY <1>5, <2>2, NSubAssumption
        DEF TypeOK, Admit, PickSubLoop, RoundRobin, SubIndexes, Loops, Main
      <3> QED
        BY <1>0, <1>5, <2>2, <3>1 DEF TypeOK, Admit, Goto, MainPhases,
                                      batchVars, countVars, sigVars
    <2> QED
      BY <2>1, <2>2
  <1>6. ASSUME Handoff PROVE TypeOK'
    <2>1. inHand \in Clients /\ fdOf[inHand] \in Fds
      BY <1>6 DEF IInv, TypeOK, FdInv, KernelInv, WaitingInv, SlotInv, Handoff
    <2>2. /\ inHand' = None
          /\ UNCHANGED <<quit, looping, threadId, eventfd, running, wakeEv,
                         acceptEv, batch, fresh, backlog, dest, nextSub,
                         quitIdx, sigThread, sigNext, sigStored, signalsLeft>>
      BY <1>6 DEF Handoff, batchVars, sigVars
    <2>3. CASE RunsInline(dest)
      <3>1. /\ AttachConnection(dest, inHand)
            /\ pc' = [pc EXCEPT ![Main] = "accept"]
            /\ UNCHANGED pending
        BY <1>6, <2>3 DEF Handoff, Goto
      <3> QED
        BY <1>0, <2>1, <2>2, <3>1 DEF TypeOK, AttachConnection, MainPhases
    <2>4. CASE ~RunsInline(dest)
      <3>1. /\ pending' = [pending EXCEPT ![dest] = @ \cup {inHand}]
            /\ pc' = [pc EXCEPT ![Main] = "wake"]
            /\ UNCHANGED <<connections, interest, closing, fdTable, fdOf,
                           opened, closed>>
        BY <1>6, <2>4 DEF Handoff, Goto, tableVars, countVars
      <3> QED
        BY <1>0, <2>1, <2>2, <3>1 DEF TypeOK, MainPhases
    <2> QED
      BY <2>3, <2>4
  <1>7. ASSUME HandoffWake PROVE TypeOK'
    BY <1>0, <1>7 DEF TypeOK, HandoffWake, Goto, MainPhases,
                      tableVars, batchVars, acceptVars, countVars, sigVars
  <1>8. ASSUME QuitSubStore PROVE TypeOK'
    BY <1>0, <1>8 DEF TypeOK, QuitSubStore, QuitStore, Goto, MainPhases,
                      tableVars, batchVars, acceptVars, countVars, sigVars
  <1>9. ASSUME QuitSubWake PROVE TypeOK'
    <2>1. quitIdx' \in 1 .. NSub + 1
      BY <1>9, NSubAssumption DEF IInv, ControlInv, Subs, QuitSubWake
    <2> QED
      BY <1>0, <1>9, <2>1
      DEF TypeOK, QuitSubWake, QuitWake, Goto, MainPhases,
          tableVars, batchVars, acceptVars, countVars, sigVars
  <1>10. ASSUME Join PROVE TypeOK'
    BY <1>0, <1>10 DEF TypeOK, Join, Goto, MainPhases, EndPhases, tableVars,
                       batchVars, countVars, sigVars
  <1>11. ASSUME StopLogger \/ ProcessExit PROVE TypeOK'
    BY <1>0, <1>11 DEF TypeOK, StopLogger, ProcessExit, Goto, MainPhases,
                       EndPhases, tableVars, batchVars, acceptVars, countVars,
                       sigVars
  <1>12. ASSUME DtorStop PROVE TypeOK'
    BY <1>0, <1>12 DEF TypeOK, DtorStop, InServer, QuitWakes, Goto, MainPhases,
                       EndPhases, tableVars, batchVars, acceptVars, countVars,
                       sigVars
  <1>13. ASSUME NEW l \in Loops, DestroyLoop(l) PROVE TypeOK'
    <2>1. NoEvents \in [Fds -> Clients \cup {None}]
      BY DEF NoEvents
    <2> QED
      BY <1>0, <1>13, <2>1
      DEF TypeOK, DestroyLoop, Goto, LoopPhases, MainPhases, EndPhases,
          batchVars, acceptVars, countVars, sigVars
  <1> QED
    BY <1>1, <1>2, <1>3, <1>4, <1>5, <1>6, <1>7, <1>8, <1>9, <1>10, <1>11,
       <1>12, <1>13
    DEF MainStep

(* The steps of the signal handler keep the types.                         *)
LEMMA TypeSignalStep == IInv /\ SignalStep => TypeOK'
  <1> SUFFICES ASSUME IInv, SignalStep PROVE TypeOK'
    OBVIOUS
  <1> TypeOK
    BY DEF IInv
  <1>1. ASSUME SigStore PROVE TypeOK'
    BY <1>1 DEF TypeOK, SigStore, QuitStore, tableVars, batchVars, acceptVars,
                countVars
  <1>2. ASSUME SigWake PROVE TypeOK'
    <2>1. sigNext' \in 0 .. NSub + 1
      BY <1>2, NSubAssumption DEF IInv, ControlInv, Loops, SigWake
    <2> QED
      BY <1>2, <2>1 DEF TypeOK, SigWake, QuitWake, tableVars, batchVars,
                        acceptVars, countVars
  <1>3. ASSUME SigReturn PROVE TypeOK'
    BY <1>3 DEF TypeOK, SigReturn, loopVars, tableVars, batchVars, acceptVars,
                countVars
  <1>4. ASSUME SigDead PROVE TypeOK'
    <2>1. sigNext' \in 0 .. NSub + 1
      BY <1>4, NSubAssumption DEF TypeOK, Loops, SigDead
    <2>2. pc' \in [Loops -> LoopPhases \cup MainPhases]
      BY <1>4, LoopNamesHold DEF TypeOK, SigDead, Goto, MainPhases, EndPhases,
                                 LoopNames
    <2> QED
      BY <1>4, <2>1, <2>2 DEF TypeOK, SigDead, tableVars, batchVars,
                              acceptVars, countVars
  <1> QED
    BY <1>1, <1>2, <1>3, <1>4 DEF SignalStep

-----------------------------------------------------------------------------
ctlVars == <<pc, looping, threadId, dest, quitIdx, sigThread, sigNext,
             sigStored>>

(* Control positions and thread identities stay as ControlInv says.        *)
LEMMA ControlStep == IInv /\ [Next]_vars => ControlInv'
  <1> SUFFICES ASSUME IInv, [Next]_vars PROVE ControlInv'
    OBVIOUS
  <1> TypeOK /\ ControlInv
    BY DEF IInv
  <1>0. LoopNames
    BY LoopNamesHold
  <1> USE <1>0 DEF LoopNames, NoSubRuns, EndPhases, TearDown
  <1>1. CASE UNCHANGED ctlVars
    BY <1>1 DEF ControlInv, ctlVars
  <1>2. ASSUME NEW l \in Loops, LoopEnter(l) PROVE ControlInv'
    BY <1>0, <1>2 DEF TypeOK, ControlInv, LoopEnter, Goto, LoopPhases,
                      InLoopPhases, Main, acceptVars, sigVars
  <1>3. ASSUME NEW l \in Loops, WhileCheck(l) PROVE ControlInv'
    <2>1. /\ pc[l] = "while" /\ sigThread # l
          /\ UNCHANGED <<threadId, dest, quitIdx, sigThread, sigNext,
                         sigStored>>
      BY <1>3 DEF WhileCheck, Runs, acceptVars, sigVars
    <2>2. CASE ~quit[l]
      <3>1. pc' = [pc EXCEPT ![l] = "wait"] /\ UNCHANGED looping
        BY <1>3, <2>2 DEF WhileCheck, Goto
      <3> QED
        BY <1>0, <2>1, <3>1 DEF TypeOK, ControlInv, LoopPhases, InLoopPhases
    <2>3. CASE quit[l] /\ l = Main
      <3>1. /\ pc' = [pc EXCEPT ![Main] = "quitStore"]
            /\ looping' = [looping EXCEPT ![Main] = FALSE]
        BY <1>3, <2>3 DEF WhileCheck, Goto
      <3> QED
        BY <1>0, <2>1, <2>3, <3>1
        DEF TypeOK, ControlInv, LoopPhases, InLoopPhases
    <2>4. CASE quit[l] /\ l # Main
      <3>1. /\ pc' = [pc EXCEPT ![l] = "exited"]
            /\ looping' = [looping EXCEPT ![l] = FALSE]
        BY <1>3, <2>4 DEF WhileCheck, Goto
      <3> QED
        BY <1>0, <2>1, <2>4, <3>1
        DEF TypeOK, ControlInv, LoopPhases, InLoopPhases
    <2> QED
      BY <2>2, <2>3, <2>4
  <1>4. ASSUME NEW l \in Loops, NEW p \in LoopPhases, Goto(l, p),
               pc[l] \in InLoopPhases, p \in InLoopPhases,
               UNCHANGED <<looping, threadId, dest, quitIdx, sigThread,
                           sigNext, sigStored>>
        PROVE  ControlInv'
    BY <1>0, <1>4 DEF TypeOK, ControlInv, Goto, LoopPhases, InLoopPhases, Main
  <1>5. ASSUME NEW l \in Loops,
               \/ Wake(l) \/ IoEvents(l) \/ Timeout(l) \/ DispatchDone(l)
               \/ ExpireDone(l) \/ FunctorsDone(l) \/ Swap(l)
        PROVE  ControlInv'
    BY <1>4, <1>5
    DEF Wake, IoEvents, Timeout, Return, DispatchDone, ExpireDone,
        FunctorsDone, Swap, Dispatching, NextPhase, LoopPhases, InLoopPhases,
        acceptVars, sigVars
  <1>6. ASSUME StartStep PROVE ControlInv'
    <2>1. PICK l \in Loops, p \in {"create", "stopped", "made", "spawn", "enter"} :
             /\ pc' = [pc EXCEPT ![l] = p]
             /\ pc[l] \in BeforeLoop
             /\ pc[Main] \in {"start", "create", "spawn"}
             /\ p = "stopped" => l = Main /\ pc[Main] = "start"
             /\ l # Main => p \in {"made", "enter"} /\ pc[Main] # "start"
             /\ p = "made" => pc[l] = "unborn"
      BY <1>6, StartMoves DEF Goto
    <2>2. UNCHANGED <<looping, threadId, dest, quitIdx, sigThread, sigNext,
                      sigStored>>
      BY <1>6, StartMoves DEF acceptVars, sigVars
    <2>3. CASE l = Main
      <3>1. /\ pc'[Main] = p /\ \A m \in Subs : pc'[m] = pc[m]
            /\ p \notin InLoopPhases \cup {"start", "wake", "quitWake"}
            /\ p \in EndPhases =>
                  p = "stopped" /\ \A m \in Subs : pc[m] = "unborn"
            /\ \A m \in Subs : pc[m] # "gone"
        BY <2>1, <2>3 DEF TypeOK, ControlInv, InLoopPhases, EndPhases, TearDown
      <3> QED
        BY <2>2, <3>1 DEF ControlInv, NoSubRuns
    <2>4. CASE l # Main
      BY <2>1, <2>2, <2>4
      DEF TypeOK, ControlInv, BeforeLoop, InLoopPhases, LoopPhases
    <2> QED
      BY <2>3, <2>4
  <1>7. ASSUME NEW p \in {"accept", "admit", "handoff", "dispatch"},
               Goto(Main, p), pc[Main] \in InLoopPhases,
               UNCHANGED <<looping, threadId, quitIdx, sigThread, sigNext,
                           sigStored>>
        PROVE  ControlInv'
    BY <1>0, <1>7 DEF TypeOK, ControlInv, Goto, InLoopPhases
  <1>8. ASSUME \/ DispatchAccept \/ AcceptDone \/ HandoffWake
               \/ \E c \in Clients, f \in Fds : AcceptOne(c, f)
        PROVE  ControlInv'
    BY <1>7, <1>8
    DEF DispatchAccept, Dispatching, AcceptDone, HandoffWake, AcceptOne,
        InLoopPhases, acceptVars, sigVars
  <1>9. ASSUME Admit PROVE ControlInv'
    BY <1>7, <1>9 DEF Admit, Reject, InLoopPhases, sigVars
  <1>10. ASSUME Handoff PROVE ControlInv'
    <2>1. CASE RunsInline(dest)
      BY <1>7, <1>10, <2>1 DEF Handoff, InLoopPhases, sigVars
    <2>2. CASE ~RunsInline(dest)
      <3>1. dest # Main
        BY <1>10, <2>2 DEF ControlInv, Handoff, RunsInline, IsInLoopThread,
                           InLoopPhases
      <3>2. /\ pc[Main] = "handoff"
            /\ pc' = [pc EXCEPT ![Main] = "wake"]
            /\ UNCHANGED <<looping, threadId, dest, quitIdx, sigThread,
                           sigNext, sigStored>>
        BY <1>10, <2>2 DEF Handoff, Goto, sigVars
      <3> QED
        BY <1>0, <3>1, <3>2 DEF TypeOK, ControlInv, InLoopPhases
    <2> QED
      BY <2>1, <2>2
  <1>11. ASSUME QuitSubStore PROVE ControlInv'
    BY <1>0, <1>11 DEF TypeOK, ControlInv, QuitSubStore, Goto, InLoopPhases,
                       acceptVars, sigVars
  <1>12. ASSUME QuitSubWake PROVE ControlInv'
    BY <1>0, <1>12 DEF TypeOK, ControlInv, QuitSubWake, Goto, InLoopPhases,
                       acceptVars, sigVars
  <1>13. ASSUME Join PROVE ControlInv'
    BY <1>0, <1>13 DEF TypeOK, ControlInv, Join, Joined, Goto, InLoopPhases,
                       sigVars
  <1>14. ASSUME \/ StopLogger \/ DtorStop \/ ProcessExit
                \/ \E l \in Loops : DestroyLoop(l)
         PROVE  ControlInv'
    <2>1. PICK l \in Loops, p \in EndPhases \cup {"gone"} :
             /\ pc' = [pc EXCEPT ![l] = p]
             /\ IF l = Main THEN p \in EndPhases \ {"stopped"} ELSE p = "gone"
             /\ pc[Main] \in EndPhases
             /\ l # Main => pc[Main] = "destroying"
             /\ pc[Main] \in TearDown /\ l = Main => p \in TearDown
             /\ pc[Main] # "stopped" \/ sigThread # Logger
      BY <1>14
      DEF StopLogger, DtorStop, ProcessExit, DestroyLoop, Goto, Runs,
          EndPhases, TearDown
    <2>2. UNCHANGED <<looping, threadId, dest, quitIdx, sigThread, sigNext,
                      sigStored>>
      BY <1>14 DEF StopLogger, DtorStop, ProcessExit, DestroyLoop, acceptVars,
                   sigVars
    <2>3. sigThread \notin Subs
      BY <2>1 DEF ControlInv, NoSubRuns
    <2>4. sigThread # Logger
      BY <2>1 DEF ControlInv
    <2>5. CASE l = Main
      BY <2>1, <2>2, <2>3, <2>4, <2>5
      DEF TypeOK, ControlInv, NoSubRuns, EndPhases, TearDown, InLoopPhases
    <2>6. CASE l # Main
      BY <2>1, <2>2, <2>3, <2>4, <2>6
      DEF TypeOK, ControlInv, NoSubRuns, EndPhases, TearDown, InLoopPhases,
          LoopPhases
    <2> QED
      BY <2>5, <2>6
  <1>15. ASSUME NEW t \in Threads, Signal(t) PROVE ControlInv'
    BY <1>0, <1>15 DEF TypeOK, ControlInv, Signal, Alive, NoSubRuns, loopVars,
                       acceptVars
  <1>16. ASSUME SigStore \/ SigWake \/ SigReturn PROVE ControlInv'
    BY <1>0, <1>16 DEF TypeOK, ControlInv, SigStore, SigWake, NoSubRuns,
                       SigReturn, loopVars, acceptVars
  <1>18. ASSUME SigDead PROVE ControlInv'
    <2>1. /\ pc[Main] \in TearDown /\ ~sigStored
          /\ pc' = pc \/ (pc' = [pc EXCEPT ![Main] = "ended"]
                             /\ sigThread' = NoThread)
          /\ sigThread' \in {sigThread, NoThread}
          /\ UNCHANGED <<looping, threadId, dest, quitIdx, sigStored>>
      BY <1>18, GoneInTearDown DEF SigDead, Goto, acceptVars
    <2>2. CASE pc' = pc
      BY <2>1, <2>2 DEF ControlInv
    <2>3. CASE pc' = [pc EXCEPT ![Main] = "ended"] /\ sigThread' = NoThread
      <3>1. pc'[Main] = "ended" /\ \A m \in Subs : pc'[m] = pc[m]
        BY <2>3 DEF TypeOK
      <3> QED
        BY <2>1, <2>3, <3>1 DEF ControlInv, InLoopPhases
    <2> QED
      BY <2>1, <2>2, <2>3
  <1>17. ASSUME \/ \E c \in Clients : Connect(c)
                \/ \E l \in Loops : DispatchWake(l) \/ FinishClose(l)
                \/ \E l \in Loops, f \in Fds : \/ DispatchKeep(l, f)
                                                \/ DispatchClose(l, f)
                                                \/ ExpireClose(l, f)
                \/ \E l \in Loops, c \in Clients : RunFunctor(l, c)
                \/ Terminated \/ UNCHANGED vars
         PROVE  UNCHANGED ctlVars
    BY <1>17
    DEF Connect, DispatchWake, FinishClose, DispatchKeep, DispatchClose,
        ExpireClose, RunFunctor, Terminated, vars, loopVars, tableVars,
        batchVars, acceptVars, countVars, sigVars, ctlVars
  <1> QED
    BY <1>1, <1>2, <1>3, <1>5, <1>6, <1>8, <1>9, <1>10, <1>11, <1>12, <1>13,
       <1>14, <1>15, <1>16, <1>17, <1>18
    DEF Next, LoopStep, MainStep, SignalStep, Environment

(* No step loses a wakeup: a push is followed by its write, and only the   *)
(* phases that end in a swap may drain the eventfd.                        *)
LEMMA WakeStep == IInv /\ [Next]_vars => WakeInv'
  <1> SUFFICES ASSUME IInv, [Next]_vars PROVE WakeInv'
    OBVIOUS
  <1> TypeOK /\ ControlInv /\ WakeInv
    BY DEF IInv
  <1> LoopNames
    BY LoopNamesHold
  <1> USE DEF LoopNames
  <1> DEFINE Swapping == {"dispatch", "expire", "swap", "exited", "gone"}
  <1>1. CASE UNCHANGED <<pc, pending, eventfd, dest>>
    BY <1>1 DEF WakeInv, WakeIsComing
  <1>2. ASSUME NEW l \in Loops, NEW p, Goto(l, p), l # Main \/ pc[l] # "wake",
               pc[l] \in Swapping => p \in Swapping,
               UNCHANGED <<pending, eventfd, dest>>
        PROVE  WakeInv'
    BY <1>2 DEF TypeOK, WakeInv, WakeIsComing, Goto
  <1>3. ASSUME NEW l \in Loops,
               \/ LoopEnter(l) \/ WhileCheck(l) \/ Wake(l) \/ IoEvents(l)
               \/ Timeout(l) \/ DispatchDone(l) \/ ExpireDone(l)
               \/ FunctorsDone(l)
        PROVE  WakeInv'
    BY <1>2, <1>3
    DEF LoopEnter, WhileCheck, Wake, IoEvents, Timeout, Return, DispatchDone,
        ExpireDone, FunctorsDone, Dispatching, NextPhase, acceptVars
  <1>4. ASSUME NEW l \in Loops, DispatchWake(l) PROVE WakeInv'
    BY <1>4 DEF TypeOK, WakeInv, WakeIsComing, DispatchWake, Dispatching,
                acceptVars
  <1>5. ASSUME NEW l \in Loops, Swap(l) PROVE WakeInv'
    BY <1>5 DEF TypeOK, WakeInv, WakeIsComing, Swap, Goto, acceptVars
  <1>6. ASSUME StartStep PROVE WakeInv'
    BY <1>6, StartMoves
    DEF TypeOK, WakeInv, WakeIsComing, Goto, BeforeLoop, acceptVars
  <1>7. ASSUME NEW p, Goto(Main, p), pc[Main] # "wake",
               UNCHANGED <<pending, eventfd>>
        PROVE  WakeInv'
    BY <1>7 DEF TypeOK, WakeInv, WakeIsComing, Goto
  <1>8. ASSUME \/ DispatchAccept \/ AcceptDone \/ QuitSubStore \/ Join
               \/ \E c \in Clients, f \in Fds : AcceptOne(c, f)
        PROVE  WakeInv'
    BY <1>7, <1>8 DEF DispatchAccept, Dispatching, AcceptDone, QuitSubStore,
                      Join, AcceptOne
  <1>9. ASSUME Admit PROVE WakeInv'
    BY <1>7, <1>9 DEF Admit, Reject
  <1>10. ASSUME Handoff PROVE WakeInv'
    <2>1. CASE RunsInline(dest)
      BY <1>7, <1>10, <2>1 DEF Handoff
    <2>2. CASE ~RunsInline(dest)
      <3>1. dest # Main
        BY <1>10, <2>2 DEF ControlInv, Handoff, RunsInline, IsInLoopThread,
                           InLoopPhases
      <3>2. /\ pc[Main] = "handoff"
            /\ pc' = [pc EXCEPT ![Main] = "wake"]
            /\ pending' = [pending EXCEPT ![dest] = @ \cup {inHand}]
            /\ UNCHANGED <<eventfd, dest>>
        BY <1>10, <2>2 DEF Handoff, Goto
      <3> QED
        BY <3>1, <3>2 DEF TypeOK, WakeInv, WakeIsComing
    <2> QED
      BY <2>1, <2>2
  <1>11. ASSUME HandoffWake PROVE WakeInv'
    <2>1. dest # Main /\ threadId[dest] # Main
      BY <1>11 DEF TypeOK, ControlInv, HandoffWake
    <2>2. eventfd' = [eventfd EXCEPT ![dest] = TRUE]
      BY <1>11, <2>1 DEF TypeOK, HandoffWake, QueueWakes, IsInLoopThread
    <2> QED
      BY <1>11, <2>2 DEF TypeOK, WakeInv, WakeIsComing, HandoffWake, Goto,
                         acceptVars
  <1>12. ASSUME QuitSubWake PROVE WakeInv'
    BY <1>12 DEF TypeOK, WakeInv, WakeIsComing, QuitSubWake, QuitWake, Goto,
                 acceptVars
  <1>13. ASSUME NEW l \in Loops, DestroyLoop(l) PROVE WakeInv'
    BY <1>13 DEF TypeOK, WakeInv, WakeIsComing, DestroyLoop, Goto, acceptVars
  <1>16. ASSUME StopLogger \/ ProcessExit \/ SigDead PROVE WakeInv'
    <2>1. /\ pc' = pc \/ \E p : Goto(Main, p)
          /\ pc[Main] # "wake"
          /\ UNCHANGED <<pending, eventfd, dest>>
      BY <1>16, GoneInTearDown
      DEF StopLogger, ProcessExit, SigDead, TearDown, acceptVars
    <2> QED
      BY <1>1, <1>7, <2>1
  <1>17. ASSUME DtorStop PROVE WakeInv'
    <2>1. /\ pc[Main] = "leaving"
          /\ pc' = [pc EXCEPT ![Main] = "destroying"]
          /\ \A l \in Loops : eventfd[l] => eventfd'[l]
          /\ UNCHANGED <<pending, dest>>
      BY <1>17 DEF TypeOK, DtorStop, Goto, acceptVars
    <2> QED
      BY <2>1 DEF TypeOK, WakeInv, WakeIsComing
  <1>14. ASSUME SigWake PROVE WakeInv'
    BY <1>14 DEF TypeOK, WakeInv, WakeIsComing, SigWake, QuitWake, acceptVars
  <1>15. ASSUME \/ \E c \in Clients : Connect(c)
                \/ \E l \in Loops : FinishClose(l)
                \/ \E l \in Loops, f \in Fds : \/ DispatchKeep(l, f)
                                                \/ DispatchClose(l, f)
                                                \/ ExpireClose(l, f)
                \/ \E l \in Loops, c \in Clients : RunFunctor(l, c)
                \/ \E t \in Threads : Signal(t)
                \/ SigStore \/ SigReturn \/ Terminated \/ UNCHANGED vars
         PROVE  UNCHANGED <<pc, pending, eventfd, dest>>
    BY <1>15
    DEF Connect, FinishClose, DispatchKeep, DispatchClose, ExpireClose,
        RunFunctor, Signal, SigStore, SigReturn, Terminated, vars, loopVars,
        acceptVars
  <1> QED
    BY <1>1, <1>3, <1>4, <1>5, <1>6, <1>8, <1>9, <1>10, <1>11, <1>12, <1>13,
       <1>14, <1>15, <1>16, <1>17
    DEF Next, LoopStep, MainStep, SignalStep, Environment

-----------------------------------------------------------------------------
placeVars == <<fresh, backlog, inHand, pending, running, connections, fdOf>>

(* The steps that move no client and no descriptor.                        *)
StillStep ==
    \/ \E l \in Loops :
          \/ LoopEnter(l) \/ WhileCheck(l) \/ Wake(l) \/ IoEvents(l)
          \/ Timeout(l) \/ DispatchWake(l) \/ DispatchDone(l) \/ ExpireDone(l)
          \/ FunctorsDone(l) \/ \E f \in Fds : DispatchKeep(l, f)
    \/ StartStep \/ DispatchAccept \/ AcceptDone \/ HandoffWake
    \/ QuitSubStore \/ QuitSubWake \/ StopLogger \/ DtorStop \/ ProcessExit
    \/ SigStore \/ SigWake \/ SigDead \/ SigReturn
    \/ \E t \in Threads : Signal(t)
    \/ Terminated \/ UNCHANGED vars

(* They leave the places, the tables and the functors alone.               *)
LEMMA StillKeeps == StillStep => UNCHANGED <<placeVars, tableVars>>
  <1> USE DEF placeVars, tableVars
  <1>1. ASSUME NEW l \in Loops,
               \/ LoopEnter(l) \/ WhileCheck(l) \/ Wake(l) \/ IoEvents(l)
               \/ Timeout(l) \/ DispatchWake(l)
        PROVE  UNCHANGED <<placeVars, tableVars>>
    BY <1>1 DEF LoopEnter, WhileCheck, Wake, IoEvents, Timeout, Return,
                DispatchWake, acceptVars
  <1>2. ASSUME NEW l \in Loops, NEW f \in Fds, DispatchKeep(l, f)
        PROVE  UNCHANGED <<placeVars, tableVars>>
    BY <1>2 DEF DispatchKeep, loopVars, acceptVars
  <1>3. ASSUME NEW l \in Loops,
               DispatchDone(l) \/ ExpireDone(l) \/ FunctorsDone(l)
        PROVE  UNCHANGED <<placeVars, tableVars>>
    BY <1>3 DEF DispatchDone, ExpireDone, FunctorsDone, acceptVars
  <1>4. ASSUME \/ StartStep \/ DispatchAccept \/ AcceptDone \/ HandoffWake
               \/ QuitSubStore \/ QuitSubWake
               \/ StopLogger \/ DtorStop \/ ProcessExit
        PROVE  UNCHANGED <<placeVars, tableVars>>
    BY <1>4, StartMoves
    DEF DispatchAccept, AcceptDone, HandoffWake, QuitSubStore, QuitSubWake,
        StopLogger, DtorStop, ProcessExit, acceptVars
  <1>5. ASSUME \/ SigStore \/ SigWake \/ SigDead \/ SigReturn
               \/ \E t \in Threads : Signal(t)
               \/ Terminated \/ UNCHANGED vars
        PROVE  UNCHANGED <<placeVars, tableVars>>
    BY <1>5 DEF SigStore, SigWake, SigDead, SigReturn, Signal, Terminated,
                vars, loopVars, acceptVars
  <1> QED
    BY <1>1, <1>2, <1>3, <1>4, <1>5 DEF StillStep

(* The other steps, one by one.                                            *)
MovingStep ==
    \/ \E c \in Clients : Connect(c)
    \/ \E c \in Clients, f \in Fds : AcceptOne(c, f)
    \/ Admit \/ Handoff \/ Join
    \/ \E l \in Loops : FinishClose(l) \/ Swap(l) \/ DestroyLoop(l)
    \/ \E l \in Loops, f \in Fds : DispatchClose(l, f) \/ ExpireClose(l, f)
    \/ \E l \in Loops, c \in Clients : RunFunctor(l, c)

(* Every step is of one of the two kinds.                                  *)
LEMMA StepKinds == [Next]_vars => StillStep \/ MovingStep
  BY DEF Next, LoopStep, MainStep, SignalStep, Environment, StillStep,
         MovingStep

(* A client stays in one place.                                            *)
LEMMA PlaceStep == IInv /\ [Next]_vars => PlaceInv'
  <1> SUFFICES ASSUME IInv, [Next]_vars PROVE PlaceInv'
    OBVIOUS
  <1> TypeOK /\ PlaceInv /\ FdInv /\ BatchInv
    BY DEF IInv
  <1> USE NullsAssumption
  <1>1. CASE StillStep
    <2>1. UNCHANGED placeVars
      BY <1>1, StillKeeps
    <2> QED
      BY <2>1 DEF PlaceInv, placeVars
  <1>2. ASSUME NEW c \in Clients, Connect(c) PROVE PlaceInv'
    BY <1>2 DEF TypeOK, PlaceInv, Connect, loopVars,
                tableVars
  <1>3. ASSUME NEW c \in Clients, NEW f \in Fds, AcceptOne(c, f)
        PROVE  PlaceInv'
    BY <1>3 DEF TypeOK, PlaceInv, AcceptOne
  <1>4. ASSUME Admit PROVE PlaceInv'
    BY <1>4 DEF TypeOK, PlaceInv, Admit, Reject
  <1>5. ASSUME Handoff PROVE PlaceInv'
    <2>1. /\ inHand \in Clients /\ fdOf[inHand] \in Fds /\ inHand' = None
          /\ UNCHANGED <<running, fresh, backlog>>
      BY <1>5 DEF TypeOK, FdInv, KernelInv, WaitingInv, SlotInv, Handoff
    <2>2. CASE RunsInline(dest)
      <3>1. /\ connections' = [connections EXCEPT ![dest][fdOf[inHand]] = inHand]
            /\ UNCHANGED <<pending, fdOf>>
        BY <1>5, <2>2 DEF Handoff, AttachConnection
      <3> QED
        BY <2>1, <3>1 DEF TypeOK, PlaceInv
    <2>3. CASE ~RunsInline(dest)
      <3>1. /\ pending' = [pending EXCEPT ![dest] = @ \cup {inHand}]
            /\ UNCHANGED <<connections, fdOf>>
        BY <1>5, <2>3 DEF Handoff, tableVars
      <3> QED
        BY <2>1, <3>1 DEF TypeOK, PlaceInv
    <2> QED
      BY <2>2, <2>3
  <1>6. ASSUME Join PROVE PlaceInv'
    BY <1>6 DEF TypeOK, PlaceInv, Join, tableVars
  <1>7. ASSUME NEW l \in Loops, DestroyLoop(l) PROVE PlaceInv'
    <2>1. /\ \A m \in Loops : \A c \in pending'[m] : c \in pending[m]
          /\ \A m \in Loops, f \in Fds :
                 connections'[m][f] \in {connections[m][f], None}
          /\ \A c \in Clients : fdOf'[c] \in {fdOf[c], NoFd}
          /\ UNCHANGED <<running, fresh, backlog, inHand>>
      BY <1>7 DEF TypeOK, DestroyLoop, NoEvents, acceptVars
    <2>2. /\ fresh \cup backlog \subseteq Clients
          /\ \A m \in Loops : pending[m] \cup running[m] \subseteq Clients
      BY DEF TypeOK
    <2> HIDE DEF TypeOK
    <2> QED
      BY <2>1, <2>2 DEF PlaceInv
  <1>8. ASSUME NEW l \in Loops, FinishClose(l) PROVE PlaceInv'
    BY <1>8 DEF TypeOK, PlaceInv, FinishClose,
                RemoveConnection, loopVars, acceptVars
  <1>9. ASSUME NEW l \in Loops, Swap(l) PROVE PlaceInv'
    BY <1>9 DEF TypeOK, PlaceInv, BatchInv, Swap, tableVars,
                acceptVars
  <1>10. ASSUME NEW l \in Loops, NEW f \in Fds,
                DispatchClose(l, f) \/ ExpireClose(l, f)
         PROVE  PlaceInv'
    BY <1>10 DEF TypeOK, PlaceInv, DispatchClose,
                 ExpireClose, BeginClose, loopVars, acceptVars
  <1>11. ASSUME NEW l \in Loops, NEW c \in Clients, RunFunctor(l, c)
         PROVE  PlaceInv'
    BY <1>11 DEF TypeOK, PlaceInv, RunFunctor,
                 AttachConnection, acceptVars
  <1> QED
    BY StepKinds, <1>1, <1>2, <1>3, <1>4, <1>5, <1>6, <1>7, <1>8, <1>9,
       <1>10, <1>11
    DEF MovingStep

(* Descriptors, tables and epoll sets keep agreeing.                       *)
LEMMA FdStep == IInv /\ [Next]_vars => FdInv'
  <1> SUFFICES ASSUME IInv, [Next]_vars PROVE FdInv'
    OBVIOUS
  <1> TypeOK /\ ControlInv /\ PlaceInv /\ FdInv /\ BatchInv
    BY DEF IInv
  <1> LoopNames
    BY LoopNamesHold
  <1> USE NullsAssumption DEF LoopNames
  <1>1. ASSUME UNCHANGED <<placeVars, tableVars>>,
               \A l \in Loops : closing[l] # NoFd => pc'[l] = pc[l],
               pc'[Main] \in {"admit", "handoff"}
                   <=> pc[Main] \in {"admit", "handoff"}
        PROVE  FdInv'
    BY <1>1 DEF FdInv, KernelInv, WaitingInv, SlotInv, placeVars, tableVars
  <1>2. ASSUME NEW l \in Loops, NEW p, p \notin {"admit", "handoff"}, Goto(l, p),
               closing[l] = NoFd, pc[l] \notin {"admit", "handoff"},
               UNCHANGED <<placeVars, tableVars>>
        PROVE  FdInv'
    BY <1>1, <1>2 DEF TypeOK, Goto
  <1>3. ASSUME NEW l \in Loops,
               \/ LoopEnter(l) \/ WhileCheck(l) \/ Wake(l) \/ IoEvents(l)
               \/ Timeout(l) \/ DispatchDone(l) \/ ExpireDone(l)
               \/ FunctorsDone(l)
        PROVE  FdInv'
    <2>1. UNCHANGED <<placeVars, tableVars>>
      BY <1>3, StillKeeps DEF StillStep
    <2>2. closing[l] = NoFd
      BY <1>3
      DEF FdInv, KernelInv, WaitingInv, SlotInv, LoopEnter, WhileCheck, Wake,
          IoEvents, Timeout, DispatchDone, Dispatching, ExpireDone,
          FunctorsDone
    <2> QED
      BY <1>2, <1>3, <2>1, <2>2
      DEF LoopEnter, WhileCheck, Wake, IoEvents, Timeout, Return,
          DispatchDone, Dispatching, ExpireDone, FunctorsDone, NextPhase
  <1>4. ASSUME \/ DispatchAccept \/ AcceptDone \/ HandoffWake
               \/ QuitSubStore \/ QuitSubWake
               \/ StopLogger \/ DtorStop \/ ProcessExit
        PROVE  FdInv'
    <2>1. UNCHANGED <<placeVars, tableVars>>
      BY <1>4, StillKeeps DEF StillStep
    <2>2. closing[Main] = NoFd
      BY <1>4
      DEF FdInv, KernelInv, WaitingInv, SlotInv, DispatchAccept, Dispatching,
          AcceptDone, HandoffWake, QuitSubStore, QuitSubWake, StopLogger,
          DtorStop, ProcessExit
    <2> QED
      BY <1>2, <1>4, <2>1, <2>2
      DEF DispatchAccept, Dispatching, AcceptDone, HandoffWake, QuitSubStore,
          QuitSubWake, StopLogger, DtorStop, ProcessExit
  <1>5. ASSUME StartStep PROVE FdInv'
    <2>1. UNCHANGED <<placeVars, tableVars>>
      BY <1>5, StillKeeps DEF StillStep
    <2>2. \A l \in Loops : pc[l] \in BeforeLoop => closing[l] = NoFd
      BY DEF FdInv, SlotInv, BeforeLoop
    <2> QED
      BY <1>2, <1>5, <2>1, <2>2, StartMoves DEF BeforeLoop
  <1>6. ASSUME \/ \E l \in Loops : DispatchWake(l)
               \/ \E l \in Loops, f \in Fds : DispatchKeep(l, f)
               \/ SigStore \/ SigWake \/ SigReturn
               \/ \E t \in Threads : Signal(t)
               \/ Terminated \/ UNCHANGED vars
        PROVE  FdInv'
    <2>1. UNCHANGED <<placeVars, tableVars>>
      BY <1>6, StillKeeps DEF StillStep
    <2>2. UNCHANGED pc
      BY <1>6 DEF DispatchWake, DispatchKeep, SigStore, SigWake,
                  SigReturn, Signal, Terminated, vars, loopVars
    <2> QED
      BY <1>1, <2>1, <2>2
  <1>7. ASSUME NEW c \in Clients, Connect(c) PROVE FdInv'
    BY <1>7
    DEF FdInv, KernelInv, WaitingInv, SlotInv, Connect, loopVars, tableVars
  <1>8. ASSUME NEW c \in Clients, NEW f \in Fds, AcceptOne(c, f) PROVE FdInv'
    BY <1>8
    DEF TypeOK, PlaceInv, FdInv, KernelInv, WaitingInv, SlotInv, AcceptOne,
        Goto
  <1>9. ASSUME Admit PROVE FdInv'
    <2>1. CASE AtLimit(ActiveConnections)
      <3>1. /\ fdTable' = [fdTable EXCEPT ![fdOf[inHand]] = None]
            /\ fdOf' = [fdOf EXCEPT ![inHand] = NoFd]
            /\ inHand' = None
            /\ pc' = [pc EXCEPT ![Main] = "accept"]
            /\ UNCHANGED <<pending, running, connections, interest, closing>>
        BY <1>9, <2>1 DEF Admit, Reject, Goto
      <3>2. inHand \in Clients /\ fdOf[inHand] \in Fds /\ closing[Main] = NoFd
        <4>1. inHand \in Clients /\ fdOf[inHand] \in Fds
          BY <1>9 DEF TypeOK, FdInv, WaitingInv, Admit
        <4>2. closing[Main] = NoFd
          BY <1>9 DEF FdInv, SlotInv, Admit
        <4> QED
          BY <4>1, <4>2
      <3>3. KernelInv'
        BY <3>1, <3>2 DEF TypeOK, FdInv, KernelInv
      <3>4. WaitingInv'
        BY <3>1, <3>2 DEF TypeOK, PlaceInv, FdInv, WaitingInv
      <3>5. SlotInv'
        BY <3>1, <3>2 DEF TypeOK, PlaceInv, FdInv, SlotInv
      <3> QED
        BY <3>3, <3>4, <3>5 DEF FdInv
    <2>2. CASE ~AtLimit(ActiveConnections)
      BY <1>9, <2>2
      DEF TypeOK, PlaceInv, FdInv, KernelInv, WaitingInv, SlotInv, Admit, Goto
    <2> QED
      BY <2>1, <2>2
  <1>10. ASSUME Handoff PROVE FdInv'
    <2>1. /\ inHand \in Clients /\ fdOf[inHand] \in Fds /\ inHand' = None
          /\ pc[Main] = "handoff" /\ UNCHANGED running
      BY <1>10 DEF TypeOK, FdInv, KernelInv, WaitingInv, SlotInv, Handoff
    <2>2. CASE RunsInline(dest)
      <3>1. /\ connections' = [connections EXCEPT ![dest][fdOf[inHand]] = inHand]
            /\ interest' = [interest EXCEPT ![dest] = @ \cup {fdOf[inHand]}]
            /\ pc' = [pc EXCEPT ![Main] = "accept"]
            /\ UNCHANGED <<pending, closing, fdTable, fdOf>>
        BY <1>10, <2>2 DEF Handoff, AttachConnection, Goto
      <3>2. dest = Main
        BY <2>2 DEF TypeOK, ControlInv, RunsInline, IsInLoopThread
      <3> QED
        BY <2>1, <3>1, <3>2
        DEF TypeOK, PlaceInv, FdInv, KernelInv, WaitingInv, SlotInv
    <2>3. CASE ~RunsInline(dest)
      <3>1. /\ pending' = [pending EXCEPT ![dest] = @ \cup {inHand}]
            /\ pc' = [pc EXCEPT ![Main] = "wake"]
            /\ UNCHANGED <<connections, interest, closing, fdTable, fdOf>>
        BY <1>10, <2>3 DEF Handoff, Goto, tableVars
      <3> QED
        BY <2>1, <3>1
        DEF TypeOK, PlaceInv, FdInv, KernelInv, WaitingInv, SlotInv
    <2> QED
      BY <2>2, <2>3
  <1>11. ASSUME Join PROVE FdInv'
    BY <1>11
    DEF TypeOK, FdInv, KernelInv, WaitingInv, SlotInv, Join, Goto, tableVars
  <1>12. ASSUME NEW l \in Loops, DestroyLoop(l) PROVE FdInv'
    <2> DEFINE left == {f \in Fds : connections[l][f] # None}
    <2>1. /\ pc[Main] = "destroying"
          /\ pc' = [pc EXCEPT ![l] = IF l = Main THEN "destroyed" ELSE "gone"]
          /\ fdTable' = [f \in Fds |-> IF f \in left THEN None ELSE fdTable[f]]
          /\ fdOf' = [c \in Clients |->
                          IF fdOf[c] \in left THEN NoFd ELSE fdOf[c]]
          /\ connections' = [connections EXCEPT ![l] = NoEvents]
          /\ interest' = [interest EXCEPT ![l] = {}]
          /\ pending' = [pending EXCEPT ![l] = {}]
          /\ UNCHANGED <<running, closing, inHand>>
      BY <1>12 DEF DestroyLoop, Goto, acceptVars
    <2>2. /\ \A m \in Loops : closing[m] = NoFd /\ running[m] = {}
          /\ inHand = None
      BY <2>1 DEF ControlInv, NoSubRuns, EndPhases, FdInv, WaitingInv, SlotInv,
                  BatchInv
    <2>3. \A c \in Clients :
              fdOf'[c] # NoFd => fdOf'[c] = fdOf[c] /\ fdOf[c] \notin left
      BY <2>1
    <2>4. \A f \in Fds :
              fdTable'[f] # None => fdTable'[f] = fdTable[f] /\ f \notin left
      BY <2>1
    <2>5. \A f \in left : fdTable[f] = connections[l][f] /\ f \in Fds
      BY <2>2 DEF TypeOK, FdInv, KernelInv, SlotInv
    <2>6. ASSUME NEW c \in Clients, fdOf[c] # NoFd,
                 \A f \in Fds : connections[l][f] # c
          PROVE  fdOf'[c] = fdOf[c]
      BY <2>1, <2>5, <2>6 DEF FdInv, KernelInv
    <2> HIDE DEF left
    <2>7. KernelInv'
      BY <2>1, <2>3, <2>4 DEF TypeOK, FdInv, KernelInv
    <2>8. WaitingInv'
      <3>1. ASSUME NEW m \in Loops, NEW c \in pending'[m] PROVE fdOf'[c] # NoFd
        <4>1. c \in pending[m] /\ c \in Clients
          BY <2>1, <3>1 DEF TypeOK
        <4>2. fdOf[c] # NoFd /\ \A f \in Fds : connections[l][f] # c
          BY <4>1 DEF FdInv, WaitingInv, PlaceInv
        <4> QED
          BY <2>6, <4>1, <4>2
      <3>2. inHand' = None /\ \A m \in Loops : running'[m] = {}
        BY <2>1, <2>2
      <3>3. pc'[Main] \notin {"admit", "handoff"}
        BY <2>1 DEF TypeOK
      <3> QED
        BY <3>1, <3>2, <3>3 DEF WaitingInv
    <2>9. SlotInv'
      <3>1. ASSUME NEW m \in Loops, NEW f \in Fds, m # l,
                   connections[m][f] # None
            PROVE  fdOf'[connections[m][f]] = fdOf[connections[m][f]]
        <4>1. connections[m][f] \in Clients /\ fdOf[connections[m][f]] # NoFd
          BY <2>2, <3>1 DEF TypeOK, FdInv, SlotInv
        <4> QED
          BY <2>6, <3>1, <4>1 DEF PlaceInv
      <3>2. /\ connections'[l] = NoEvents /\ interest'[l] = {}
            /\ \A m \in Loops \ {l} : connections'[m] = connections[m]
                                      /\ interest'[m] = interest[m]
        BY <2>1 DEF TypeOK
      <3> QED
        BY <2>1, <2>2, <3>1, <3>2 DEF FdInv, SlotInv, NoEvents
    <2> QED
      BY <2>7, <2>8, <2>9 DEF FdInv
  <1>17. ASSUME SigDead PROVE FdInv'
    <2>1. UNCHANGED <<placeVars, tableVars>>
      BY <1>17, StillKeeps DEF StillStep
    <2>2. pc[Main] \in TearDown /\ (pc' = pc \/ Goto(Main, "ended"))
      BY <1>17, GoneInTearDown DEF SigDead
    <2>3. closing[Main] = NoFd
      BY <2>2 DEF FdInv, SlotInv, TearDown
    <2> QED
      BY <1>1, <1>2, <2>1, <2>2, <2>3 DEF TearDown
  <1>13. ASSUME NEW l \in Loops, FinishClose(l) PROVE FdInv'
    <2>1. /\ closing[l] \in Fds
          /\ connections' = [connections EXCEPT ![l][closing[l]] = None]
          /\ closing' = [closing EXCEPT ![l] = NoFd]
          /\ UNCHANGED <<pc, pending, running, interest, fdTable, fdOf, inHand>>
      BY <1>13 DEF TypeOK, FinishClose, RemoveConnection, loopVars, acceptVars
    <2>2. KernelInv' /\ WaitingInv'
      BY <2>1 DEF FdInv, KernelInv, WaitingInv
    <2>3. SlotInv'
      BY <2>1 DEF TypeOK, PlaceInv, FdInv, SlotInv
    <2> QED
      BY <2>2, <2>3 DEF FdInv
  <1>14. ASSUME NEW l \in Loops, Swap(l) PROVE FdInv'
    BY <1>14
    DEF TypeOK, FdInv, KernelInv, WaitingInv, SlotInv, Swap, Goto, tableVars,
        acceptVars
  <1>15. ASSUME NEW l \in Loops, NEW f \in Fds,
                DispatchClose(l, f) \/ ExpireClose(l, f)
         PROVE  FdInv'
    <2> DEFINE c == connections[l][f]
    <2>1. /\ pc[l] \in {"dispatch", "expire"} /\ closing[l] = NoFd
          /\ c \in Clients
          /\ closing' = [closing EXCEPT ![l] = f]
          /\ interest' = [interest EXCEPT ![l] = @ \ {f}]
          /\ fdTable' = [fdTable EXCEPT ![f] = None]
          /\ fdOf' = [fdOf EXCEPT ![c] = NoFd]
          /\ UNCHANGED <<pc, pending, running, connections, inHand>>
      BY <1>15 DEF TypeOK, DispatchClose, Dispatching, ExpireClose,
                   BeginClose, loopVars, acceptVars
    <2>2. fdOf[c] = f
      BY <2>1 DEF FdInv, SlotInv
    <2>3. KernelInv'
      BY <2>1, <2>2 DEF TypeOK, FdInv, KernelInv
    <2>4. WaitingInv'
      BY <2>1 DEF TypeOK, PlaceInv, FdInv, WaitingInv
    <2>5. SlotInv'
      BY <2>1 DEF TypeOK, PlaceInv, FdInv, SlotInv
    <2> QED
      BY <2>3, <2>4, <2>5 DEF FdInv
  <1>16. ASSUME NEW l \in Loops, NEW c \in Clients, RunFunctor(l, c)
         PROVE  FdInv'
    <2>1. /\ pc[l] = "functors" /\ c \in running[l]
          /\ running' = [running EXCEPT ![l] = @ \ {c}]
          /\ connections' = [connections EXCEPT ![l][fdOf[c]] = c]
          /\ interest' = [interest EXCEPT ![l] = @ \cup {fdOf[c]}]
          /\ UNCHANGED <<pc, pending, closing, fdTable, fdOf, inHand>>
      BY <1>16 DEF RunFunctor, AttachConnection, acceptVars
    <2>2. fdOf[c] \in Fds /\ closing[l] = NoFd
      <3>1. fdOf[c] \in Fds
        BY <2>1 DEF TypeOK, FdInv, WaitingInv
      <3>2. closing[l] = NoFd
        BY <2>1 DEF FdInv, SlotInv
      <3> QED
        BY <3>1, <3>2
    <2>3. KernelInv' /\ WaitingInv'
      BY <2>1 DEF TypeOK, FdInv, KernelInv, WaitingInv
    <2>4. SlotInv'
      BY <2>1, <2>2 DEF TypeOK, PlaceInv, FdInv, SlotInv
    <2> QED
      BY <2>3, <2>4 DEF FdInv
  <1> QED
    BY StepKinds, <1>3, <1>4, <1>5, <1>6, <1>7, <1>8, <1>9, <1>10, <1>11,
       <1>12, <1>13, <1>14, <1>15, <1>16, <1>17
    DEF StillStep, MovingStep

(* Events in hand keep naming the connections of the table.                *)
LEMMA BatchStep == IInv /\ [Next]_vars => BatchInv'
  <1> SUFFICES ASSUME IInv, [Next]_vars PROVE BatchInv'
    OBVIOUS
  <1> TypeOK /\ ControlInv /\ PlaceInv /\ FdInv /\ BatchInv
    BY DEF IInv
  <1> LoopNames
    BY LoopNamesHold
  <1> USE NullsAssumption DEF LoopNames
  <1>1. ASSUME UNCHANGED <<pc, running, connections, closing, batch>>
        PROVE  BatchInv'
    BY <1>1 DEF BatchInv
  <1>2. ASSUME \/ \E c \in Clients : Connect(c)
               \/ \E l \in Loops : DispatchWake(l)
               \/ SigStore \/ SigWake \/ SigReturn
               \/ \E t \in Threads : Signal(t)
               \/ Terminated \/ UNCHANGED vars
        PROVE  BatchInv'
    BY <1>1, <1>2
    DEF Connect, DispatchWake, SigStore, SigWake, SigReturn, Signal,
        Terminated, vars, loopVars, tableVars, batchVars
  <1>3. ASSUME NEW l \in Loops, NEW p, Goto(l, p), running[l] = {},
               batch[l] = NoEvents,
               UNCHANGED <<running, connections, closing, batch>>
        PROVE  BatchInv'
    BY <1>3 DEF TypeOK, BatchInv, Goto, NoEvents
  <1>4. ASSUME NEW l \in Loops,
               pc[l] \notin {"dispatch", "accept", "admit", "handoff", "wake"}
        PROVE  batch[l] = NoEvents
    BY <1>4 DEF TypeOK, BatchInv, NoEvents
  <1>5. ASSUME NEW l \in Loops,
               \/ LoopEnter(l) \/ WhileCheck(l) \/ DispatchDone(l)
               \/ ExpireDone(l) \/ FunctorsDone(l)
        PROVE  BatchInv'
    BY <1>3, <1>4, <1>5
    DEF BatchInv, LoopEnter, WhileCheck, DispatchDone, Dispatching,
        ExpireDone, FunctorsDone, NextPhase, tableVars, batchVars
  <1>6. ASSUME NEW l \in Loops, Wake(l) \/ IoEvents(l) \/ Timeout(l)
        PROVE  BatchInv'
    <2>1. PICK events \in SUBSET interest[l] : Return(l, events)
      BY <1>6 DEF Wake, IoEvents, Timeout
    <2>2. /\ pc[l] = "wait" /\ closing[l] = NoFd /\ running[l] = {}
          /\ pc' = [pc EXCEPT ![l] = "dispatch"]
          /\ batch' = [batch EXCEPT ![l] =
                [f \in Fds |-> IF f \in events THEN fdTable[f] ELSE None]]
          /\ UNCHANGED <<running, connections, closing>>
      BY <1>6, <2>1 DEF Wake, IoEvents, Timeout, Return, Goto, NextPhase,
                        tableVars, FdInv, SlotInv, BatchInv
    <2>3. \A f \in interest[l] : connections[l][f] = fdTable[f]
      BY <2>2 DEF TypeOK, FdInv, KernelInv, SlotInv
    <2> QED
      BY <2>2, <2>3 DEF TypeOK, BatchInv
  <1>7. ASSUME NEW l \in Loops, NEW f \in Fds, DispatchKeep(l, f)
        PROVE  BatchInv'
    BY <1>7 DEF TypeOK, BatchInv, DispatchKeep, loopVars, tableVars
  <1>8. ASSUME NEW l \in Loops, NEW f \in Fds, DispatchClose(l, f)
        PROVE  BatchInv'
    BY <1>8 DEF TypeOK, BatchInv, DispatchClose, BeginClose, loopVars
  <1>9. ASSUME NEW l \in Loops, NEW f \in Fds, ExpireClose(l, f)
        PROVE  BatchInv'
    <2>1. pc[l] = "expire" /\ closing' = [closing EXCEPT ![l] = f]
          /\ UNCHANGED <<pc, running, connections, batch>>
      BY <1>9 DEF ExpireClose, BeginClose, loopVars, batchVars
    <2> QED
      BY <2>1 DEF TypeOK, BatchInv
  <1>10. ASSUME NEW l \in Loops, FinishClose(l) PROVE BatchInv'
    BY <1>10 DEF TypeOK, BatchInv, FinishClose, RemoveConnection, loopVars,
                 batchVars
  <1>11. ASSUME NEW l \in Loops, Swap(l) PROVE BatchInv'
    BY <1>11 DEF TypeOK, BatchInv, Swap, Goto, tableVars, batchVars
  <1>12. ASSUME NEW l \in Loops, NEW c \in Clients, RunFunctor(l, c)
         PROVE  BatchInv'
    BY <1>12 DEF TypeOK, FdInv, WaitingInv, BatchInv, RunFunctor,
                 AttachConnection, batchVars
  <1>13. ASSUME StartStep PROVE BatchInv'
    <2>1. \A l \in Loops : pc[l] \in BeforeLoop =>
             batch[l] = NoEvents /\ running[l] = {}
      BY <1>4 DEF BatchInv, BeforeLoop
    <2> QED
      BY <1>3, <1>13, <2>1, StartMoves DEF tableVars, batchVars
  <1>14. ASSUME NEW p \in {"dispatch", "accept", "admit", "handoff", "wake"},
                pc[Main] \in {"dispatch", "accept", "admit", "handoff", "wake"},
                Goto(Main, p), UNCHANGED <<running, connections, closing, batch>>
         PROVE  BatchInv'
    BY <1>14 DEF TypeOK, BatchInv, Goto
  <1>15. ASSUME \/ DispatchAccept \/ AcceptDone \/ HandoffWake
                \/ \E c \in Clients, f \in Fds : AcceptOne(c, f)
         PROVE  BatchInv'
    BY <1>14, <1>15 DEF DispatchAccept, Dispatching, AcceptDone, HandoffWake,
                        AcceptOne, tableVars, batchVars
  <1>16. ASSUME Admit PROVE BatchInv'
    <2>1. /\ pc[Main] = "admit"
          /\ Goto(Main, "accept") \/ Goto(Main, "handoff")
          /\ UNCHANGED <<running, connections, closing, batch>>
      BY <1>16 DEF Admit, Reject, batchVars
    <2> QED
      BY <1>14, <2>1
  <1>17. ASSUME Handoff PROVE BatchInv'
    <2>1. CASE RunsInline(dest)
      <3>1. /\ pc[Main] = "handoff"
            /\ pc' = [pc EXCEPT ![Main] = "accept"]
            /\ connections' = [connections EXCEPT ![dest][fdOf[inHand]] = inHand]
            /\ UNCHANGED <<running, closing, batch>>
        BY <1>17, <2>1 DEF Handoff, AttachConnection, Goto, batchVars
      <3>2. inHand \in Clients /\ fdOf[inHand] \in Fds
        BY <3>1 DEF TypeOK, FdInv, WaitingInv
      <3>3. batch[dest][fdOf[inHand]] = None
        BY <3>2 DEF TypeOK, PlaceInv, FdInv, SlotInv, KernelInv, BatchInv
      <3> QED
        BY <3>1, <3>2, <3>3 DEF TypeOK, BatchInv
    <2>2. CASE ~RunsInline(dest)
      <3>1. /\ pc[Main] = "handoff" /\ Goto(Main, "wake")
            /\ UNCHANGED <<running, connections, closing, batch>>
        BY <1>17, <2>2 DEF Handoff, tableVars, batchVars
      <3> QED
        BY <1>14, <3>1
    <2> QED
      BY <2>1, <2>2
  <1>18. ASSUME \/ QuitSubStore \/ QuitSubWake \/ Join
                \/ StopLogger \/ DtorStop \/ ProcessExit
         PROVE  BatchInv'
    BY <1>3, <1>4, <1>18
    DEF BatchInv, QuitSubStore, QuitSubWake, Join, StopLogger, DtorStop,
        ProcessExit, tableVars, batchVars
  <1>19. ASSUME NEW l \in Loops, DestroyLoop(l) PROVE BatchInv'
    <2>1. \A m \in Loops : batch[m] = NoEvents /\ running[m] = {}
      BY <1>4, <1>19 DEF ControlInv, NoSubRuns, EndPhases, BatchInv,
                         DestroyLoop
    <2> QED
      BY <1>19, <2>1 DEF BatchInv, DestroyLoop, NoEvents, batchVars
  <1>20. ASSUME SigDead PROVE BatchInv'
    <2>1. /\ pc[Main] \in TearDown /\ (pc' = pc \/ Goto(Main, "ended"))
          /\ UNCHANGED <<running, connections, closing, batch>>
      BY <1>20, GoneInTearDown DEF SigDead, tableVars, batchVars
    <2>2. batch[Main] = NoEvents /\ running[Main] = {}
      BY <1>4, <2>1 DEF TearDown, BatchInv
    <2> QED
      BY <1>1, <1>3, <2>1, <2>2
  <1> QED
    BY StepKinds, <1>2, <1>5, <1>6, <1>7, <1>8, <1>9, <1>10, <1>11, <1>12,
       <1>13, <1>15, <1>16, <1>17, <1>18, <1>19, <1>20
    DEF StillStep, MovingStep

-----------------------------------------------------------------------------
(* The inductive invariant holds at first.                                 *)
LEMMA InitIInv == Init => IInv
  <1> SUFFICES ASSUME Init PROVE IInv
    OBVIOUS
  <1> LoopNames
    BY LoopNamesHold
  <1> USE NullsAssumption DEF LoopNames
  <1>1. TypeOK
    BY TypeInit
  <1>2. ControlInv
    BY DEF Init, ControlInv, LoopPhases, EndPhases, InLoopPhases, Threads,
           NoThread
  <1>3. WakeInv
    BY DEF Init, WakeInv
  <1>4. PlaceInv
    BY DEF Init, PlaceInv, NoEvents
  <1>5. FdInv
    BY DEF Init, FdInv, KernelInv, WaitingInv, SlotInv, NoEvents
  <1>6. BatchInv
    BY DEF Init, BatchInv, NoEvents
  <1> QED
    BY <1>1, <1>2, <1>3, <1>4, <1>5, <1>6 DEF IInv

(* Every step keeps the types.                                             *)
LEMMA TypeStep == IInv /\ [Next]_vars => TypeOK'
  <1> SUFFICES ASSUME IInv, [Next]_vars PROVE TypeOK'
    OBVIOUS
  <1>1. CASE Terminated \/ UNCHANGED vars
    BY <1>1 DEF IInv, TypeOK, Terminated, vars, loopVars, tableVars,
                batchVars, acceptVars, countVars, sigVars
  <1> QED
    BY <1>1, TypeEnvironment, TypeLoopStep, TypeMainStep, TypeSignalStep
    DEF Next

(* The conjunction IInv is an invariant of the reactors, whatever the      *)
(* number of sub loops, clients, descriptors, connections and signals.     *)
THEOREM IInvariant == Spec => []IInv
  <1>1. IInv /\ [Next]_vars => IInv'
    BY TypeStep, ControlStep, WakeStep, PlaceStep, FdStep, BatchStep DEF IInv
  <1> QED
    BY InitIInv, <1>1, PTL DEF Spec

(* Every variable keeps its type.                                          *)
THEOREM TypeCorrect == Spec => []TypeOK
  <1>1. IInv => TypeOK
    BY DEF IInv
  <1> QED
    BY IInvariant, <1>1, PTL

(* queueInLoop() pushes, then wakes; loop() drains the eventfd, then takes *)
(* the queue: no loop ever sleeps on a queued task unwoken.                *)
THEOREM WakeupIsNeverLost == Spec => []NoLostWakeup
  BY IInvariant, IInvImplies, PTL

(* connections_, the program's fds, the kernel's descriptors and the epoll *)
(* sets agree throughout, however accept4() reuses fd numbers.             *)
THEOREM TablesAgree == Spec => []TableConsistent
  BY IInvariant, IInvImplies, PTL

(* removeConnection(fd) after ::close(fd) removes the connection closed.   *)
THEOREM CloseIsOwn == Spec => []CloseRemovesOwn
  BY IInvariant, IInvImplies, PTL

(* loop() never hands an event to another connection than its own.         *)
THEOREM EventsAreFresh == Spec => []NoStaleEvent
  BY IInvariant, IInvImplies, PTL

(* A handler that does not run on the main thread calls stop() on a whole  *)
(* Server: the sub threads and the writer thread are joined before ~Server *)
(* destroys the first loop, also when start() failed.  (On the main thread *)
(* it may come too late: the run of HandlerOnLiveServer shows that.)       *)
THEOREM HandlerIsSafe == Spec => []HandlersAreJoined
  BY IInvariant, IInvImplies, PTL

(* Only a step of its own thread, or of the main thread once no thread     *)
(* runs a sub loop, changes a loop's table or epoll set: onAccept, on the  *)
(* main thread, attaches inline to the main loop alone.                    *)
THEOREM TablesAreConfined == Spec => ThreadConfined
  <1>1. ASSUME IInv, [Next]_vars PROVE [ConfinedStep]_vars
    <2> TypeOK /\ ControlInv /\ FdInv
      BY <1>1 DEF IInv
    <2> LoopNames
      BY LoopNamesHold
    <2>0. ASSUME NEW l \in Loops, StepOf(l),
                 \A m \in Loops \ {l} : /\ connections'[m] = connections[m]
                                        /\ interest'[m] = interest[m]
          PROVE  ConfinedStep
      BY <2>0 DEF ConfinedStep
    <2>1. CASE StillStep
      BY <2>1, StillKeeps DEF ConfinedStep, tableVars
    <2>2. ASSUME \/ \E c \in Clients : Connect(c)
                 \/ \E c \in Clients, f \in Fds : AcceptOne(c, f)
                 \/ Admit \/ Join \/ \E l \in Loops : Swap(l)
          PROVE  ConfinedStep
      BY <2>2 DEF ConfinedStep, Connect, AcceptOne, Admit, Join, Swap,
                  tableVars
    <2>3. ASSUME Handoff PROVE ConfinedStep
      <3>1. CASE RunsInline(dest)
        <4>1. dest = Main
          BY <3>1 DEF TypeOK, ControlInv, RunsInline, IsInLoopThread, Main,
                      NoThread
        <4>2. \A m \in Loops \ {Main} : /\ connections'[m] = connections[m]
                                         /\ interest'[m] = interest[m]
          BY <2>3, <3>1, <4>1 DEF TypeOK, Handoff, AttachConnection
        <4>3. StepOf(Main) /\ Main \in Loops
          BY <2>3 DEF StepOf, MainStep, LoopNames
        <4> QED
          BY <2>0, <4>2, <4>3
      <3>2. CASE ~RunsInline(dest)
        BY <2>3, <3>2 DEF ConfinedStep, Handoff, tableVars
      <3> QED
        BY <3>1, <3>2
    <2>4. ASSUME NEW l \in Loops, DestroyLoop(l) PROVE ConfinedStep
      <3>1. StepOf(Main)
        BY <2>4 DEF StepOf, MainStep
      <3>2. NoSubRuns
        BY <2>4 DEF ControlInv, EndPhases, DestroyLoop
      <3> QED
        BY <3>1, <3>2 DEF ConfinedStep
    <2>5. ASSUME NEW l \in Loops, FinishClose(l) PROVE ConfinedStep
      <3>1. StepOf(l)
        BY <2>5 DEF StepOf, LoopStep
      <3> QED
        BY <2>0, <2>5, <3>1 DEF TypeOK, FinishClose, RemoveConnection
    <2>6. ASSUME NEW l \in Loops, NEW f \in Fds,
                 DispatchClose(l, f) \/ ExpireClose(l, f)
          PROVE  ConfinedStep
      <3>1. StepOf(l)
        BY <2>6 DEF StepOf, LoopStep
      <3> QED
        BY <2>0, <2>6, <3>1 DEF TypeOK, DispatchClose, ExpireClose, BeginClose
    <2>7. ASSUME NEW l \in Loops, NEW c \in Clients, RunFunctor(l, c)
          PROVE  ConfinedStep
      <3>1. StepOf(l)
        BY <2>7 DEF StepOf, LoopStep
      <3> QED
        BY <2>0, <2>7, <3>1 DEF TypeOK, RunFunctor, AttachConnection
    <2> QED
      BY <1>1, StepKinds, <2>1, <2>2, <2>3, <2>4, <2>5, <2>6, <2>7
      DEF MovingStep
  <1> QED
    BY IInvariant, <1>1, PTL DEF Spec, ThreadConfined

=============================================================================
