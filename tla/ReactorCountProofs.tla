------------------------- MODULE ReactorCountProofs -------------------------
(***************************************************************************)
(* Theorems about who holds a descriptor of the reactors and how many      *)
(* there are: ownership, the counters of /stats and option -m.  They rest  *)
(* on the invariant of ReactorProofs.                                      *)
(***************************************************************************)
EXTENDS ReactorProofs, FiniteSetTheorems

(* Until ~Server, an open descriptor is in onAccept's hand, in a functor   *)
(* queued or running, or in a table slot: none is forgotten.               *)
HasHolder(c) ==
    \/ inHand = c
    \/ \E l \in Loops : c \in pending[l] \cup running[l]
    \/ \E l \in Loops, f \in Fds : connections[l][f] = c
HolderInv ==
    Whole =>
        \A c \in Clients : fdOf[c] # NoFd => HasHolder(c)

(* With one reactor attachConnection runs inline: nothing is ever queued,  *)
(* ~Server closes every descriptor, and when the limit has let a           *)
(* connection pass there is room for it.                                   *)
SingleInv ==
    /\ running[Main] = {}
    /\ Gone(Main) => \A c \in Clients : fdOf[c] = NoFd
    /\ MaxConnections >= 0 => /\ ActiveConnections <= MaxConnections
                              /\ pc[Main] = "handoff" =>
                                     ActiveConnections < MaxConnections

-----------------------------------------------------------------------------
(* How threads move: to "handoff" only through the limit's test, to their  *)
(* destruction only by ~Server, to "ended" only after it has begun, and no *)
(* destroyed loop comes back.                                              *)
PhaseMoves ==
    \/ pc' = pc
    \/ Admit
    \/ \E l \in Loops : DestroyLoop(l)
    \/ \E l \in Loops : Gone(l) /\ Goto(Main, "ended")
    \/ \E l \in Loops, p \in (LoopPhases \cup MainPhases)
                                \ {"handoff", "destroyed", "ended", "gone"} :
          ~Gone(l) /\ Goto(l, p)

(* Every step moves the threads in one of these ways.                      *)
LEMMA PhaseMovesSo == IInv /\ [Next]_vars => PhaseMoves
  <1> SUFFICES ASSUME IInv, [Next]_vars PROVE PhaseMoves
    OBVIOUS
  <1> LoopNames
    BY LoopNamesHold
  <1> USE DEF LoopNames
  <1>1. ASSUME NEW l \in Loops,
               NEW p \in {"while", "wait", "dispatch", "expire", "swap",
                          "functors", "exited", "made", "enter", "create",
                          "spawn", "accept", "admit", "wake", "quitStore",
                          "quitWake", "stopped", "leaving", "destroying"},
               pc[l] \notin {"gone", "destroyed", "ended"}, Goto(l, p)
        PROVE  PhaseMoves
    BY <1>1 DEF PhaseMoves, Gone, LoopPhases, MainPhases, EndPhases
  <1>2. ASSUME NEW l \in Loops,
               \/ LoopEnter(l) \/ WhileCheck(l) \/ Wake(l) \/ IoEvents(l)
               \/ Timeout(l) \/ DispatchDone(l) \/ ExpireDone(l) \/ Swap(l)
               \/ FunctorsDone(l)
        PROVE  PhaseMoves
    BY <1>1, <1>2
    DEF LoopEnter, WhileCheck, Wake, IoEvents, Timeout, Return, NextPhase,
        DispatchDone, Dispatching, ExpireDone, Swap, FunctorsDone
  <1>3. ASSUME StartStep PROVE PhaseMoves
    BY <1>1, <1>3, StartMoves DEF BeforeLoop
  <1>4. ASSUME \/ DispatchAccept \/ AcceptDone \/ HandoffWake \/ Handoff
               \/ \E c \in Clients, f \in Fds : AcceptOne(c, f)
               \/ QuitSubStore \/ QuitSubWake \/ Join \/ StopLogger
               \/ DtorStop
        PROVE  PhaseMoves
    BY <1>1, <1>4
    DEF DispatchAccept, Dispatching, AcceptDone, HandoffWake, Handoff,
        AcceptOne, QuitSubStore, QuitSubWake, Join, StopLogger, DtorStop
  <1>5. ASSUME ProcessExit \/ SigDead PROVE PhaseMoves
    BY <1>5 DEF ProcessExit, SigDead, PhaseMoves, Gone
  <1>6. ASSUME \/ \E l \in Loops : DispatchWake(l) \/ FinishClose(l)
               \/ \E l \in Loops, f \in Fds : \/ DispatchKeep(l, f)
                                              \/ DispatchClose(l, f)
                                              \/ ExpireClose(l, f)
               \/ \E l \in Loops, c \in Clients : RunFunctor(l, c)
               \/ \E c \in Clients : Connect(c)
               \/ \E t \in Threads : Signal(t)
               \/ SigStore \/ SigWake \/ SigReturn
               \/ Terminated \/ UNCHANGED vars
        PROVE  pc' = pc
    BY <1>6
    DEF DispatchWake, FinishClose, DispatchKeep, DispatchClose, ExpireClose,
        RunFunctor, Connect, Signal, SigStore, SigWake, SigReturn,
        Terminated, vars, loopVars
  <1> QED
    BY <1>2, <1>3, <1>4, <1>5, <1>6
    DEF Next, LoopStep, MainStep, SignalStep, Environment, PhaseMoves

(* A step of ~Server takes its loop away.                                  *)
LEMMA DestroyTakesOne ==
  ASSUME IInv, NEW l \in Loops, DestroyLoop(l)
  PROVE  Gone(l)'
  BY LoopNamesHold DEF IInv, TypeOK, DestroyLoop, Goto, Gone, LoopNames

(* A Server that is whole after a step was whole before it, and the step   *)
(* was not one of ~Server's.                                               *)
LEMMA WholeBefore ==
  ASSUME IInv, [Next]_vars, Whole'
  PROVE  Whole /\ \A l \in Loops : ~DestroyLoop(l)
  <1> LoopNames /\ TypeOK
    BY LoopNamesHold DEF IInv
  <1>1. \A l \in Loops : ~DestroyLoop(l)
    BY DestroyTakesOne DEF Whole
  <1>2. ASSUME NEW l \in Loops, Gone(l) PROVE Gone(l)'
    <2>1. CASE pc' = pc
      BY <1>2, <2>1 DEF Gone
    <2>2. CASE Admit
      <3>1. pc[Main] = "admit" /\ \A m \in Subs : pc'[m] = pc[m]
        BY <2>2 DEF TypeOK, Admit, Reject, Goto, LoopNames
      <3> QED
        BY <1>2, <3>1 DEF Gone, LoopNames
    <2>3. CASE \E m \in Loops : Gone(m) /\ Goto(Main, "ended")
      BY <1>2, <2>3 DEF TypeOK, Gone, Goto, LoopNames
    <2>4. CASE \E m \in Loops, p \in (LoopPhases \cup MainPhases)
                                   \ {"handoff", "destroyed", "ended", "gone"} :
                  ~Gone(m) /\ Goto(m, p)
      <3>1. PICK m \in Loops, p \in LoopPhases \cup MainPhases :
               ~Gone(m) /\ pc' = [pc EXCEPT ![m] = p]
        BY <2>4 DEF Goto
      <3>2. m # l /\ pc'[l] = pc[l]
        BY <1>2, <3>1 DEF TypeOK
      <3> QED
        BY <1>2, <3>2 DEF Gone
    <2> QED
      BY <1>1, <2>1, <2>2, <2>3, <2>4, PhaseMovesSo DEF PhaseMoves
  <1> QED
    BY <1>1, <1>2 DEF Whole

(* A still step opens and closes nothing.                                  *)
LEMMA StillCounts == StillStep => UNCHANGED countVars
  <1>1. ASSUME NEW l \in Loops,
               \/ LoopEnter(l) \/ WhileCheck(l) \/ Wake(l) \/ IoEvents(l)
               \/ Timeout(l) \/ DispatchWake(l) \/ DispatchDone(l)
               \/ ExpireDone(l) \/ FunctorsDone(l)
               \/ \E f \in Fds : DispatchKeep(l, f)
        PROVE  UNCHANGED countVars
    BY <1>1 DEF LoopEnter, WhileCheck, Wake, IoEvents, Timeout, Return,
                DispatchWake, DispatchDone, ExpireDone, FunctorsDone,
                DispatchKeep
  <1>2. ASSUME \/ StartStep \/ DispatchAccept \/ AcceptDone \/ HandoffWake
               \/ QuitSubStore \/ QuitSubWake
               \/ StopLogger \/ DtorStop \/ ProcessExit
        PROVE  UNCHANGED countVars
    BY <1>2, StartMoves
    DEF DispatchAccept, AcceptDone, HandoffWake, QuitSubStore, QuitSubWake,
        StopLogger, DtorStop, ProcessExit
  <1>3. ASSUME \/ SigStore \/ SigWake \/ SigDead \/ SigReturn
               \/ \E t \in Threads : Signal(t)
               \/ Terminated \/ UNCHANGED vars
        PROVE  UNCHANGED countVars
    BY <1>3 DEF SigStore, SigWake, SigDead, SigReturn, Signal, Terminated,
                vars
  <1> QED
    BY <1>1, <1>2, <1>3 DEF StillStep

(* attachConnection() finds a free slot: the fd number of a connection     *)
(* that waits to be attached is in no table, not even half closed in its   *)
(* own loop's.                                                             *)
LEMMA SlotIsFree ==
  ASSUME IInv, NEW l \in Loops, NEW c \in Clients, fdOf[c] # NoFd,
         \A m \in Loops, f \in Fds : connections[m][f] # c,
         closing[l] = NoFd
  PROVE  fdOf[c] \in Fds /\ connections[l][fdOf[c]] = None
  <1>1. fdOf[c] \in Fds
    BY DEF IInv, TypeOK
  <1>2. ASSUME connections[l][fdOf[c]] # None PROVE FALSE
    <2>1. PICK d \in Clients : d = connections[l][fdOf[c]]
      BY <1>1, <1>2 DEF IInv, TypeOK
    <2>2. fdOf[d] = fdOf[c]
      BY <1>1, <1>2, <2>1, NullsAssumption DEF IInv, FdInv, SlotInv
    <2>3. c = d
      BY <2>2 DEF IInv, FdInv, KernelInv
    <2> QED
      BY <1>1, <2>1, <2>3
  <1> QED
    BY <1>1, <1>2

(* A functor's loop, and onAccept's, is not in the middle of a close().    *)
LEMMA AttachingIsNotClosing ==
  ASSUME IInv, NEW l \in Loops, pc[l] \notin {"dispatch", "expire"}
  PROVE  closing[l] = NoFd
  BY DEF IInv, FdInv, SlotInv

-----------------------------------------------------------------------------
(* Every step leaves every open descriptor with a holder.                  *)
LEMMA HolderStep == IInv /\ HolderInv /\ [Next]_vars => HolderInv'
  <1> SUFFICES ASSUME IInv, HolderInv, [Next]_vars, Whole'
               PROVE  \A c \in Clients : fdOf'[c] # NoFd => HasHolder(c)'
    BY DEF HolderInv
  <1>0. \A c \in Clients : fdOf[c] # NoFd => HasHolder(c)
    BY WholeBefore DEF HolderInv
  <1> TypeOK /\ PlaceInv /\ FdInv /\ BatchInv
    BY DEF IInv
  <1> USE NullsAssumption
  <1>1. CASE StillStep
    <2>1. UNCHANGED placeVars
      BY <1>1, StillKeeps
    <2> QED
      BY <1>0, <2>1 DEF HasHolder, placeVars
  <1>2. ASSUME \/ \E c \in Clients : Connect(c)
               \/ Join
        PROVE  UNCHANGED <<inHand, pending, running, connections, fdOf>>
    BY <1>2 DEF Connect, Join, loopVars, tableVars
  <1>3. ASSUME NEW c \in Clients, NEW f \in Fds, AcceptOne(c, f)
        PROVE  \A d \in Clients : fdOf'[d] # NoFd => HasHolder(d)'
    <2>1. inHand = None
      BY <1>3 DEF FdInv, WaitingInv, AcceptOne
    <2> QED
      BY <1>0, <1>3, <2>1 DEF TypeOK, HasHolder, AcceptOne
  <1>4. ASSUME Admit
        PROVE  \A d \in Clients : fdOf'[d] # NoFd => HasHolder(d)'
    BY <1>0, <1>4, ZenonT(60) DEF TypeOK, HasHolder, Admit, Reject
  <1>5. ASSUME Handoff
        PROVE  \A d \in Clients : fdOf'[d] # NoFd => HasHolder(d)'
    <2>1. /\ inHand \in Clients /\ fdOf[inHand] \in Fds
          /\ dest \in Loops /\ UNCHANGED running
      BY <1>5 DEF TypeOK, FdInv, WaitingInv, Handoff
    <2>2. CASE RunsInline(dest)
      <3>1. /\ connections' = [connections EXCEPT ![dest][fdOf[inHand]] = inHand]
            /\ UNCHANGED <<pending, fdOf>>
        BY <1>5, <2>2 DEF Handoff, AttachConnection
      <3>2. closing[dest] = NoFd
        BY <1>5, <2>2, AttachingIsNotClosing, <2>1, LoopNamesHold
        DEF Handoff, IInv, ControlInv, RunsInline, IsInLoopThread, Main,
            NoThread, LoopNames
      <3>3. connections[dest][fdOf[inHand]] = None
        BY <2>1, <3>2, SlotIsFree DEF PlaceInv
      <3> QED
        BY <1>0, <2>1, <3>1, <3>3, SMTT(60) DEF TypeOK, HasHolder
    <2>3. CASE ~RunsInline(dest)
      <3>1. /\ pending' = [pending EXCEPT ![dest] = @ \cup {inHand}]
            /\ UNCHANGED <<connections, fdOf>>
        BY <1>5, <2>3 DEF Handoff, tableVars
      <3> QED
        BY <1>0, <2>1, <3>1, ZenonT(60) DEF TypeOK, HasHolder
    <2> QED
      BY <2>2, <2>3
  <1>6. ASSUME NEW l \in Loops, DestroyLoop(l) PROVE FALSE
    BY <1>6, WholeBefore
  <1>7. ASSUME NEW l \in Loops, FinishClose(l)
        PROVE  \A d \in Clients : fdOf'[d] # NoFd => HasHolder(d)'
    <2>1. closing[l] \in Fds /\ connections[l][closing[l]] # None
          /\ fdOf[connections[l][closing[l]]] = NoFd
      BY <1>7 DEF TypeOK, FdInv, SlotInv, FinishClose
    <2> QED
      BY <1>0, <1>7, <2>1 DEF TypeOK, HasHolder, FinishClose,
                              RemoveConnection, loopVars, acceptVars
  <1>8. ASSUME NEW l \in Loops, Swap(l)
        PROVE  \A d \in Clients : fdOf'[d] # NoFd => HasHolder(d)'
    <2>1. running[l] = {}
      BY <1>8 DEF BatchInv, Swap
    <2> QED
      BY <1>0, <1>8, <2>1, ZenonT(60)
      DEF TypeOK, HasHolder, Swap, tableVars, acceptVars
  <1>9. ASSUME NEW l \in Loops, NEW f \in Fds,
               DispatchClose(l, f) \/ ExpireClose(l, f)
        PROVE  \A d \in Clients : fdOf'[d] # NoFd => HasHolder(d)'
    BY <1>0, <1>9, SMTT(60) DEF TypeOK, HasHolder, DispatchClose, ExpireClose,
                      BeginClose, loopVars, acceptVars
  <1>10. ASSUME NEW l \in Loops, NEW c \in Clients, RunFunctor(l, c)
         PROVE  \A d \in Clients : fdOf'[d] # NoFd => HasHolder(d)'
    <2>1. closing[l] = NoFd
      BY <1>10, AttachingIsNotClosing DEF RunFunctor
    <2>2. fdOf[c] \in Fds /\ connections[l][fdOf[c]] = None
      BY <1>10, <2>1, SlotIsFree DEF PlaceInv, FdInv, WaitingInv, RunFunctor
    <2>3. /\ connections' = [connections EXCEPT ![l][fdOf[c]] = c]
          /\ running' = [running EXCEPT ![l] = @ \ {c}]
          /\ UNCHANGED <<inHand, pending, fdOf>>
      BY <1>10 DEF RunFunctor, AttachConnection, acceptVars
    <2>4. ASSUME NEW d \in Clients, fdOf[d] # NoFd, d # c PROVE HasHolder(d)'
      BY <1>0, <2>2, <2>3, <2>4, SMTT(60) DEF TypeOK, HasHolder
    <2>5. HasHolder(c)'
      BY <2>2, <2>3 DEF TypeOK, HasHolder
    <2> QED
      BY <2>3, <2>4, <2>5
  <1>11. ASSUME UNCHANGED <<inHand, pending, running, connections, fdOf>>
         PROVE  \A c \in Clients : fdOf'[c] # NoFd => HasHolder(c)'
    BY <1>0, <1>11 DEF HasHolder
  <1> QED
    BY StepKinds, <1>1, <1>2, <1>3, <1>4, <1>5, <1>6, <1>7, <1>8, <1>9,
       <1>10, <1>11
    DEF MovingStep

(* One place in all makes one holder.                                      *)
LEMMA OnePlace ==
  ASSUME NEW q, NEW r, NEW t, NEW b \in BOOLEAN,
         \/ q = {} /\ r = {} /\ t = {} /\ b
         \/ (\E l : q = {l}) /\ r = {} /\ t = {} /\ ~b
         \/ q = {} /\ (\E l : r = {l}) /\ t = {} /\ ~b
         \/ q = {} /\ r = {} /\ (\E l : t = {l}) /\ ~b
  PROVE  OneHolder([hand |-> b, queues |-> q, functors |-> r, tables |-> t])
  <1>1. Cardinality({}) = 0
    BY FS_EmptySet
  <1>2. \A l : Cardinality({l}) = 1
    BY FS_Singleton
  <1>3. \/ Cardinality(q) = 0 /\ Cardinality(r) = 0 /\ Cardinality(t) = 0 /\ b
        \/ Cardinality(q) = 1 /\ Cardinality(r) = 0 /\ Cardinality(t) = 0 /\ ~b
        \/ Cardinality(q) = 0 /\ Cardinality(r) = 1 /\ Cardinality(t) = 0 /\ ~b
        \/ Cardinality(q) = 0 /\ Cardinality(r) = 0 /\ Cardinality(t) = 1 /\ ~b
    BY <1>1, <1>2, Zenon
  <1>4. Cardinality(q) + Cardinality(r) + Cardinality(t)
            + (IF b THEN 1 ELSE 0) = 1
    BY <1>3
  <1> QED
    BY <1>4 DEF OneHolder

(* A holder is the only one: of the four kinds of places exactly one       *)
(* entry names the client.                                                 *)
LEMMA HolderIsOne ==
  ASSUME IInv, NEW c \in Clients, fdOf[c] # NoFd, HasHolder(c)
  PROVE  OneHolder(Holders(c))
  <1> TypeOK /\ PlaceInv /\ FdInv
    BY DEF IInv
  <1> USE NullsAssumption
  <1> DEFINE q == {l \in Loops : c \in pending[l]}
             r == {l \in Loops : c \in running[l]}
             t == {l \in Loops : \E f \in Fds :
                      connections[l][f] = c /\ closing[l] # f}
             b == inHand = c
  <1>1. ASSUME inHand = c
        PROVE  q = {} /\ r = {} /\ t = {} /\ b
    BY <1>1 DEF PlaceInv
  <1>2. ASSUME NEW l \in Loops, c \in pending[l]
        PROVE  q = {l} /\ r = {} /\ t = {} /\ ~b
    BY <1>2 DEF PlaceInv
  <1>3. ASSUME NEW l \in Loops, c \in running[l]
        PROVE  q = {} /\ r = {l} /\ t = {} /\ ~b
    BY <1>3 DEF PlaceInv
  <1>4. ASSUME NEW l \in Loops, NEW f \in Fds, connections[l][f] = c
        PROVE  q = {} /\ r = {} /\ t = {l} /\ ~b
    <2>1. closing[l] # f
      BY <1>4 DEF FdInv, SlotInv
    <2> QED
      BY <1>4, <2>1 DEF PlaceInv
  <1>5. \/ q = {} /\ r = {} /\ t = {} /\ b
        \/ (\E l : q = {l}) /\ r = {} /\ t = {} /\ ~b
        \/ q = {} /\ (\E l : r = {l}) /\ t = {} /\ ~b
        \/ q = {} /\ r = {} /\ (\E l : t = {l}) /\ ~b
    <2> HIDE DEF q, r, t, b
    <2> QED
      BY <1>1, <1>2, <1>3, <1>4 DEF HasHolder
  <1>6. b \in BOOLEAN
    OBVIOUS
  <1>7. OneHolder([hand |-> b, queues |-> q, functors |-> r, tables |-> t])
    <2> HIDE DEF q, r, t, b
    <2> QED
      BY <1>5, <1>6, OnePlace
  <1> QED
    BY <1>7 DEF Holders

(* Every open descriptor has exactly one holder, from accept4() to         *)
(* ::close(): no path of onAccept, of the functor queues or of close()     *)
(* leaks one or lets two places close it.                                  *)
THEOREM DescriptorsAreOwned == Spec => []FdOwnership
  <1>1. Init => HolderInv
    BY DEF Init, HolderInv
  <1>2. IInv /\ HolderInv => FdOwnership
    <2> SUFFICES ASSUME IInv, HolderInv, Whole,
                        NEW f \in Fds, fdTable[f] # None
                 PROVE  OneHolder(Holders(fdTable[f]))
      BY DEF FdOwnership
    <2>1. PICK c \in Clients : c = fdTable[f]
      BY DEF IInv, TypeOK
    <2>2. fdOf[c] # NoFd
      BY <2>1, NullsAssumption DEF IInv, FdInv, KernelInv
    <2> QED
      BY <2>1, <2>2, HolderIsOne DEF HolderInv
  <1> QED
    BY IInvariant, HolderStep, <1>1, <1>2, PTL DEF Spec

-----------------------------------------------------------------------------
(* There are finitely many table slots.                                    *)
LEMMA HeldIsFinite == IsFiniteSet(Held) /\ Cardinality(Held) \in Nat
  <1>1. IsFiniteSet(Loops)
    BY FS_Interval, NSubAssumption DEF Loops
  <1>2. IsFiniteSet(Loops \X Fds)
    BY <1>1, FS_Product, FiniteAssumption
  <1>3. Held \in SUBSET (Loops \X Fds)
    BY DEF Held
  <1>4. IsFiniteSet(Held)
    BY <1>2, <1>3, FS_Subset
  <1> QED
    BY <1>4, FS_CardinalityType

(* Filling a free slot makes one more; the table entry comes from          *)
(* attachConnection().                                                     *)
LEMMA AttachAddsOne ==
  ASSUME TypeOK, NEW l \in Loops, NEW f \in Fds, NEW c \in Clients,
         connections[l][f] = None,
         connections' = [connections EXCEPT ![l][f] = c]
  PROVE  Cardinality(Held') = Cardinality(Held) + 1
  <1>1. <<l, f>> \notin Held
    BY DEF Held
  <1>2. Held' = Held \cup {<<l, f>>}
    <2>1. \A m \in Loops, g \in Fds :
             <<m, g>> \in Held' <=> <<m, g>> \in Held \/ (m = l /\ g = f)
      BY NullsAssumption DEF TypeOK, Held
    <2>2. Held' \subseteq Loops \X Fds /\ Held \subseteq Loops \X Fds
      BY DEF Held
    <2> QED
      BY <2>1, <2>2
  <1> QED
    BY <1>1, <1>2, FS_AddElement, HeldIsFinite

(* Emptying a slot in use makes one less.                                  *)
LEMMA RemoveTakesOne ==
  ASSUME TypeOK, NEW l \in Loops, NEW f \in Fds, connections[l][f] # None,
         RemoveConnection(l, f)
  PROVE  Cardinality(Held') = Cardinality(Held) - 1
  <1>1. <<l, f>> \in Held
    BY DEF Held
  <1>2. Held' = Held \ {<<l, f>>}
    <2>1. \A m \in Loops, g \in Fds :
             <<m, g>> \in Held' <=> <<m, g>> \in Held /\ ~(m = l /\ g = f)
      BY DEF TypeOK, Held, RemoveConnection
    <2>2. Held' \subseteq Loops \X Fds /\ Held \subseteq Loops \X Fds
      BY DEF Held
    <2> QED
      BY <2>1, <2>2
  <1> QED
    BY <1>1, <1>2, FS_RemoveElement, HeldIsFinite

(* What a step does to the tables and the counters, ~Server apart: it      *)
(* attaches a connection and counts it, removes one and counts that, or    *)
(* leaves both alone.                                                      *)
Attaches ==
    /\ opened' = opened + 1
    /\ closed' = closed
    /\ Cardinality(Held') = Cardinality(Held) + 1
    /\ \/ \E l \in Loops : pc[l] = "functors" /\ running[l] # {}
       \/ pc[Main] = "handoff" /\ pc'[Main] = "accept"
Removes ==
    /\ closed' = closed + 1
    /\ opened' = opened
    /\ Cardinality(Held') = Cardinality(Held) - 1
    /\ pc' = pc

(* Every step is one of these, ~Server, or leaves tables and counters.     *)
LEMMA CountingSteps ==
  ASSUME IInv, [Next]_vars
  PROVE  \/ Attaches \/ Removes \/ \E l \in Loops : DestroyLoop(l)
         \/ UNCHANGED <<connections, opened, closed>>
  <1> LoopNames /\ TypeOK /\ PlaceInv /\ FdInv
    BY LoopNamesHold DEF IInv
  <1>1. CASE StillStep
    BY <1>1, StillKeeps, StillCounts DEF tableVars, countVars
  <1>2. ASSUME \/ \E c \in Clients : Connect(c)
               \/ \E c \in Clients, f \in Fds : AcceptOne(c, f)
               \/ Admit \/ Join \/ \E l \in Loops : Swap(l)
               \/ \E l \in Loops, f \in Fds : \/ DispatchClose(l, f)
                                              \/ ExpireClose(l, f)
        PROVE  UNCHANGED <<connections, opened, closed>>
    BY <1>2 DEF Connect, AcceptOne, Admit, Join, Swap, DispatchClose,
                ExpireClose, BeginClose, tableVars, countVars
  <1>3. ASSUME Handoff
        PROVE  Attaches \/ UNCHANGED <<connections, opened, closed>>
    <2>1. CASE RunsInline(dest)
      <3>1. /\ inHand \in Clients /\ fdOf[inHand] # NoFd
            /\ dest \in Loops
        BY <1>3 DEF TypeOK, FdInv, WaitingInv, Handoff
      <3>2. closing[dest] = NoFd
        BY <1>3, <2>1, <3>1, AttachingIsNotClosing
        DEF Handoff, IInv, ControlInv, RunsInline, IsInLoopThread, Main,
            NoThread, LoopNames
      <3>3. fdOf[inHand] \in Fds /\ connections[dest][fdOf[inHand]] = None
        BY <3>1, <3>2, SlotIsFree, NullsAssumption DEF PlaceInv
      <3>4. AttachConnection(dest, inHand) /\ Goto(Main, "accept")
        BY <1>3, <2>1 DEF Handoff
      <3>5. Cardinality(Held') = Cardinality(Held) + 1
        BY <3>1, <3>3, <3>4, AttachAddsOne DEF AttachConnection
      <3> QED
        BY <1>3, <3>4, <3>5
        DEF Attaches, AttachConnection, Handoff, Goto, TypeOK, LoopNames
    <2>2. CASE ~RunsInline(dest)
      BY <1>3, <2>2 DEF Handoff, tableVars, countVars
    <2> QED
      BY <2>1, <2>2
  <1>4. ASSUME NEW l \in Loops, NEW c \in Clients, RunFunctor(l, c)
        PROVE  Attaches
    <2>1. closing[l] = NoFd
      BY <1>4, AttachingIsNotClosing DEF RunFunctor
    <2>2. fdOf[c] \in Fds /\ connections[l][fdOf[c]] = None
      BY <1>4, <2>1, SlotIsFree DEF PlaceInv, FdInv, WaitingInv, RunFunctor
    <2>3. Cardinality(Held') = Cardinality(Held) + 1
      BY <1>4, <2>2, AttachAddsOne DEF RunFunctor, AttachConnection
    <2> QED
      BY <1>4, <2>3 DEF Attaches, RunFunctor, AttachConnection
  <1>5. ASSUME NEW l \in Loops, FinishClose(l) PROVE Removes
    <2>1. closing[l] \in Fds /\ connections[l][closing[l]] # None
      BY <1>5 DEF TypeOK, FdInv, SlotInv, FinishClose
    <2>2. Cardinality(Held') = Cardinality(Held) - 1
      BY <1>5, <2>1, RemoveTakesOne DEF FinishClose
    <2> QED
      BY <1>5, <2>2 DEF Removes, FinishClose, loopVars
  <1> QED
    BY StepKinds, <1>1, <1>2, <1>3, <1>4, <1>5 DEF MovingStep

(* opened - closed, which /stats reports and the limit tests, is the       *)
(* number of connections the loops hold until ~Server.                     *)
THEOREM CountersAreTrue == Spec => []CountersAgree
  <1>1. Init => CountersAgree
    <2> SUFFICES ASSUME Init PROVE opened - closed = Cardinality(Held)
      BY DEF CountersAgree, ActiveConnections
    <2>1. Held = {}
      BY DEF Init, Held, NoEvents
    <2>2. opened = 0 /\ closed = 0
      BY DEF Init
    <2> QED
      BY <2>1, <2>2, FS_EmptySet
  <1>2. ASSUME IInv, CountersAgree, [Next]_vars PROVE CountersAgree'
    <2> SUFFICES ASSUME Whole'
                 PROVE  opened' - closed' = Cardinality(Held')
      BY DEF CountersAgree, ActiveConnections
    <2>1. opened - closed = Cardinality(Held)
      BY <1>2, WholeBefore DEF CountersAgree, ActiveConnections
    <2>2. opened \in Nat /\ closed \in Nat /\ Cardinality(Held) \in Nat
      BY <1>2, HeldIsFinite DEF IInv, TypeOK
    <2>3. \A l \in Loops : ~DestroyLoop(l)
      BY <1>2, WholeBefore
    <2>4. CASE UNCHANGED <<connections, opened, closed>>
      <3>1. Held' = Held
        BY <2>4 DEF Held
      <3> QED
        BY <2>1, <2>4, <3>1
    <2>5. CASE Attaches
      BY <2>1, <2>2, <2>5 DEF Attaches
    <2>6. CASE Removes
      BY <2>1, <2>2, <2>6 DEF Removes
    <2> QED
      BY <1>2, <2>3, <2>4, <2>5, <2>6, CountingSteps
  <1> QED
    BY IInvariant, <1>1, <1>2, PTL DEF Spec

-----------------------------------------------------------------------------
(* With one reactor the only loop is the main one, and onAccept hands over *)
(* inline.                                                                 *)
LEMMA OneLoop ==
  ASSUME NSub = 0
  PROVE  Loops = {Main} /\ Subs = {}
  BY DEF Loops, Main, Subs

(* With one reactor every step keeps SingleInv: Admit compares with the    *)
(* limit, and Handoff attaches at once, before another Admit.              *)
LEMMA SingleStep ==
  ASSUME NSub = 0, IInv, HolderInv, SingleInv, [Next]_vars
  PROVE  SingleInv'
  <1> Loops = {Main} /\ LoopNames
    BY OneLoop, LoopNamesHold
  <1> TypeOK /\ ControlInv /\ WakeInv /\ PlaceInv /\ FdInv
    BY DEF IInv
  <1>0. ~\E l \in Loops : running[l] # {}
    BY DEF SingleInv
  <1>1. running'[Main] = {}
    <2>1. CASE StillStep
      BY <2>1, StillKeeps DEF placeVars, SingleInv
    <2>2. CASE \E l \in Loops : Swap(l)
      BY <2>2 DEF Swap, WakeInv, TypeOK
    <2>3. ASSUME \/ \E c \in Clients : Connect(c)
                 \/ \E c \in Clients, f \in Fds : AcceptOne(c, f)
                 \/ Admit \/ Handoff \/ Join
                 \/ \E l \in Loops : FinishClose(l) \/ DestroyLoop(l)
                 \/ \E l \in Loops, f \in Fds : \/ DispatchClose(l, f)
                                                \/ ExpireClose(l, f)
          PROVE  UNCHANGED running
      BY <2>3 DEF Connect, AcceptOne, Admit, Handoff, Join, DestroyLoop,
                  FinishClose, DispatchClose, ExpireClose, loopVars
    <2>4. ASSUME NEW l \in Loops, NEW c \in Clients PROVE ~RunFunctor(l, c)
      BY <1>0 DEF RunFunctor
    <2> QED
      BY StepKinds, <2>1, <2>2, <2>3, <2>4 DEF MovingStep, SingleInv
  <1>2. ASSUME Gone(Main)' PROVE \A c \in Clients : fdOf'[c] = NoFd
    <2>1. CASE DestroyLoop(Main)
      <3> SUFFICES ASSUME NEW c \in Clients, fdOf[c] # NoFd
                   PROVE  fdOf'[c] = NoFd
        BY <2>1 DEF DestroyLoop
      <3>1. HasHolder(c) /\ inHand = None
        BY <2>1 DEF DestroyLoop, HolderInv, Whole, Gone, FdInv, WaitingInv
      <3>2. PICK f \in Fds : connections[Main][f] = c
        BY <1>0, <3>1, NullsAssumption DEF HasHolder, WakeInv
      <3>3. fdOf[c] = f
        BY <3>2, NullsAssumption DEF FdInv, SlotInv
      <3> QED
        BY <2>1, <3>2, <3>3, NullsAssumption DEF DestroyLoop
    <2>2. CASE ~DestroyLoop(Main)
      <3>1. Gone(Main)
        <4>1. CASE Admit
          BY <1>2, <4>1 DEF Gone, Admit, Reject, Goto, TypeOK, LoopNames
        <4>2. CASE \E p \in (LoopPhases \cup MainPhases)
                            \ {"handoff", "destroyed", "ended", "gone"} :
                      ~Gone(Main) /\ Goto(Main, p)
          BY <1>2, <4>2 DEF Gone, Goto, TypeOK, LoopNames
        <4>3. CASE pc' = pc
          BY <1>2, <4>3 DEF Gone
        <4> QED
          BY <2>2, <4>1, <4>2, <4>3, PhaseMovesSo DEF PhaseMoves
      <3>2. ASSUME StillStep PROVE UNCHANGED fdOf
        BY <3>2, StillKeeps DEF tableVars
      <3>3. ASSUME MovingStep PROVE UNCHANGED fdOf
        BY <2>2, <3>1, <3>3
        DEF Gone, EndPhases, MovingStep, Connect, AcceptOne, Admit, Handoff,
            Join, FinishClose, Swap, DispatchClose, Dispatching, ExpireClose,
            RunFunctor
      <3>4. UNCHANGED fdOf
        BY <3>2, <3>3, StepKinds
      <3> QED
        BY <3>1, <3>4 DEF SingleInv
    <2> QED
      BY <2>1, <2>2
  <1>3. ASSUME MaxConnections >= 0
        PROVE  /\ opened' - closed' <= MaxConnections
               /\ pc'[Main] = "handoff" => opened' - closed' < MaxConnections
    <2>0. /\ opened - closed <= MaxConnections
          /\ pc[Main] = "handoff" => opened - closed < MaxConnections
          /\ opened \in Nat /\ closed \in Nat /\ MaxConnections \in Int
      BY <1>3, BoundsAssumption DEF SingleInv, ActiveConnections, TypeOK
    <2>1. CASE Attaches
      <3>1. pc[Main] = "handoff" /\ pc'[Main] = "accept"
        BY <1>0, <2>1 DEF Attaches
      <3> QED
        BY <2>0, <2>1, <3>1 DEF Attaches
    <2>2. CASE Removes
      BY <2>0, <2>2 DEF Removes
    <2>3. CASE \E l \in Loops : DestroyLoop(l)
      BY <2>0, <2>3 DEF DestroyLoop, Goto, TypeOK, LoopNames, countVars
    <2>4. CASE UNCHANGED <<connections, opened, closed>>
      <3>1. ASSUME pc'[Main] = "handoff", pc[Main] # "handoff"
            PROVE  ~AtLimit(ActiveConnections)
        <4>1. Admit
          BY <3>1, PhaseMovesSo, LoopNamesHold
          DEF PhaseMoves, DestroyLoop, Goto, TypeOK, LoopNames
        <4> QED
          BY <3>1, <4>1 DEF Admit, Reject, Goto, TypeOK, LoopNames
      <3> QED
        BY <2>0, <2>4, <3>1 DEF AtLimit, ActiveConnections
    <2> QED
      BY <2>1, <2>2, <2>3, <2>4, CountingSteps
  <1> QED
    BY <1>1, <1>2, <1>3 DEF SingleInv, ActiveConnections

(* An established connection has its table slot, the one onAccept is about *)
(* to attach apart.                                                        *)
LEMMA EstablishedIsHeld ==
  ASSUME NSub = 0, IInv, HolderInv, SingleInv, ~Gone(Main)
  PROVE  /\ Cardinality(Established \ {inHand}) <= Cardinality(Held)
         /\ Cardinality(Established \ {inHand}) \in Nat
  <1> DEFINE S == Established \ {inHand}
             slot == [c \in S |-> <<Main, fdOf[c]>>]
  <1> Loops = {Main} /\ TypeOK /\ FdInv /\ WakeInv
    BY OneLoop DEF IInv
  <1>1. ASSUME NEW c \in S
        PROVE  fdOf[c] \in Fds /\ connections[Main][fdOf[c]] = c
    <2>1. c \in Clients /\ fdOf[c] # NoFd /\ c # inHand
      BY <1>1 DEF Established
    <2>2. PICK f \in Fds : connections[Main][f] = c
      BY <2>1 DEF HolderInv, Whole, HasHolder, WakeInv, SingleInv
    <2>3. fdOf[c] = f
      BY <2>1, <2>2, NullsAssumption DEF FdInv, SlotInv
    <2> QED
      BY <2>2, <2>3
  <1>2. \A c \in S : <<Main, fdOf[c]>> \in Held
    BY <1>1, NullsAssumption DEF Held, Established
  <1>3. \A c, d \in S : <<Main, fdOf[c]>> = <<Main, fdOf[d]>> => c = d
    BY <1>1
  <1>4. slot \in Injection(S, Held)
    <2> HIDE DEF S
    <2> QED
      BY <1>2, <1>3 DEF Injection, IsInjective
  <1> HIDE DEF S, slot
  <1>5. IsFiniteSet(S) /\ Cardinality(S) <= Cardinality(Held)
    BY <1>4, FS_Injection, HeldIsFinite
  <1>6. Cardinality(S) \in Nat
    BY <1>5, FS_CardinalityType
  <1> QED
    BY <1>5, <1>6 DEF S

(* With one reactor option -m holds: the number onAccept compares is up to *)
(* date, since nothing is between its test and the attachment.             *)
THEOREM LimitOfOneReactor ==
  ASSUME NSub = 0
  PROVE  Spec => []ConnectionLimit
  <1>1. Init => HolderInv /\ SingleInv
    BY OneLoop, BoundsAssumption
    DEF Init, HolderInv, SingleInv, ActiveConnections, Gone
  <1>2. IInv /\ HolderInv /\ SingleInv /\ [Next]_vars => SingleInv'
    BY SingleStep
  <1>3. ASSUME IInv, HolderInv, SingleInv, CountersAgree
        PROVE  ConnectionLimit
    <2> SUFFICES ASSUME MaxConnections >= 0
                 PROVE  Cardinality(Established) <= MaxConnections
      BY DEF ConnectionLimit
    <2>0. MaxConnections \in Nat
      BY BoundsAssumption
    <2>1. CASE Gone(Main)
      <3>1. Established = {}
        BY <1>3, <2>1 DEF Established, SingleInv
      <3> QED
        BY <2>0, <3>1, FS_EmptySet
    <2>2. CASE ~Gone(Main)
      <3>1. /\ Cardinality(Established \ {inHand}) <= Cardinality(Held)
            /\ Cardinality(Established \ {inHand}) \in Nat
            /\ Cardinality(Held) \in Nat
        BY <1>3, <2>2, EstablishedIsHeld, HeldIsFinite
      <3>2. /\ Cardinality(Held) <= MaxConnections
            /\ pc[Main] = "handoff" => Cardinality(Held) < MaxConnections
        BY <1>3, <2>2, OneLoop DEF SingleInv, CountersAgree, Whole
      <3>3. IsFiniteSet(Established)
        <4>1. Established \in SUBSET Clients
          BY DEF Established
        <4> QED
          BY <4>1, FS_Subset, FiniteAssumption
      <3>4. Cardinality(Established) \in Nat
        BY <3>3, FS_CardinalityType
      <3>5. CASE inHand \in Established
        <4>1. pc[Main] = "handoff"
          BY <1>3, <3>5, NullsAssumption
          DEF IInv, FdInv, WaitingInv, Established
        <4>2. Cardinality(Established \ {inHand}) = Cardinality(Established) - 1
          BY <3>3, <3>5, FS_RemoveElement
        <4> QED
          BY <2>0, <3>1, <3>2, <3>4, <4>1, <4>2
      <3>6. CASE inHand \notin Established
        <4>1. Established \ {inHand} = Established
          BY <3>6
        <4> QED
          BY <2>0, <3>1, <3>2, <4>1
      <3> QED
        BY <3>5, <3>6
    <2> QED
      BY <2>1, <2>2
  <1> QED
    BY IInvariant, CountersAreTrue, HolderStep, <1>1, <1>2, <1>3, PTL DEF Spec

=============================================================================
