-------------------------- MODULE IdleTimerProofs --------------------------
(***************************************************************************)
(* Theorems about IdleTimer, for any set of connections, any timeout, any  *)
(* clock resolution and any length of time.                                *)
(***************************************************************************)
EXTENDS IdleTimer, TLAPS

(* An id is issued once; an entry is of a connection that was attached.    *)
EntryInv ==
    /\ \A e1, e2 \in heap : e1.id = e2.id => e1 = e2
    /\ \A e \in heap : state[e.conn] # "new"
    /\ IdleTimeout = 0 => heap = {} /\ \A c \in Conns : idleTimer[c] = 0
    /\ IdleTimeout = 0 => cancelled = {}

(* idle_timer_ and cancelled_ say together which entries are live: an      *)
(* entry not cancelled is the one its open connection remembers, and a     *)
(* cancelled one belongs to a closed connection.                           *)
LiveInv ==
    \A e \in heap :
        IF e.id \in cancelled
        THEN state[e.conn] = "closed"
        ELSE state[e.conn] = "open" /\ idleTimer[e.conn] = e.id

(* While the loop sleeps, it will wake before the first entry is due.      *)
SleepInv ==
    pc = "wait" => now <= wakeAt /\ \A e \in heap : wakeAt <= e.when

(* The entry of an open connection was armed within one timeout of its     *)
(* last activity, and so is due within two.                                *)
ArmedInv ==
    /\ \A c \in Conns : lastActivity[c] <= now
    /\ \A e \in heap : e.id \notin cancelled =>
           e.when < lastActivity[e.conn] + 2 * IdleTimeout

IInv ==
    /\ TypeOK /\ EntryInv /\ LiveInv /\ SleepInv /\ ArmedInv
    /\ OneEntryPerConnection /\ OpenHasLiveEntry /\ CancelledInHeap
    /\ NeverOversleeps

-----------------------------------------------------------------------------
(* Cutting a time down to whole milliseconds never makes it longer.        *)
LEMMA WholeMsShortens ==
  ASSUME NEW d \in Nat
  PROVE  WholeMs(d) \in Nat /\ WholeMs(d) <= d
  <1>1. ASSUME NEW k \in Nat \ {0}
        PROVE  (d \div k) * k \in Nat /\ (d \div k) * k <= d
    BY SMTT(60)
  <1> QED
    BY <1>1, TicksAssumption DEF WholeMs

(* The bound on idleness follows from the inductive invariant.             *)
LEMMA IInvImplies == IInv => IdleBound
  <1> SUFFICES ASSUME IInv PROVE IdleBound
    OBVIOUS
  <1>1. ASSUME IdleTimeout > 0, NEW c \in Conns, state[c] = "open"
        PROVE  now - lastActivity[c] < 2 * IdleTimeout
    <2>1. PICK e \in heap : LiveEntry(c, e)
      BY <1>1 DEF IInv, OpenHasLiveEntry
    <2>2. e.when < lastActivity[c] + 2 * IdleTimeout /\ now <= e.when
      BY <2>1 DEF IInv, ArmedInv, NeverOversleeps, LiveEntry
    <2> QED
      BY <2>2, TimesAssumption DEF IInv, TypeOK, Entries
  <1> QED
    BY <1>1 DEF IdleBound

(* Steps that move only the clock and the loop's position.                 *)
LEMMA ClockStep ==
  ASSUME IInv, UNCHANGED <<heapVars, connVars>>, SleepInv', NeverOversleeps',
         now' \in Nat, now <= now', wakeAt' \in Nat, reported' \subseteq Entries,
         pc' \in {"top", "wait", "events", "expire", "functors"}
  PROVE  IInv'
  <1> USE DEF heapVars, connVars
  <1>1. TypeOK'
    BY DEF IInv, TypeOK
  <1>2. EntryInv' /\ LiveInv' /\ OneEntryPerConnection' /\ CancelledInHeap'
    BY DEF IInv, EntryInv, LiveInv, OneEntryPerConnection, CancelledInHeap
  <1>3. OpenHasLiveEntry'
    BY DEF IInv, OpenHasLiveEntry, LiveEntry
  <1>4. ArmedInv'
    BY DEF IInv, TypeOK, ArmedInv
  <1> QED
    BY <1>1, <1>2, <1>3, <1>4 DEF IInv

(* One pass of loop(), without its callbacks, keeps the invariant.         *)
LEMMA LoopSteps ==
  ASSUME IInv,
         \/ Sleep \/ Tick \/ TimedOut \/ EventsCome \/ EventsDone
         \/ FunctorsDone \/ ExpireDone \/ ClockEnds \/ UNCHANGED vars
  PROVE  IInv'
  <1> TypeOK /\ SleepInv /\ NeverOversleeps
    BY DEF IInv
  <1> USE DEF TypeOK
  <1>1. CASE Sleep
    <2>1. PICK t \in 0 .. IdleTimeout + Fallback :
             WaitTime(t) /\ wakeAt' = now + t
      BY <1>1 DEF Sleep
    <2>2. t \in Nat /\ \A e \in heap : now + t <= e.when
      <3>1. CASE heap = {}
        BY <3>1, <2>1, TimesAssumption
      <3>2. CASE heap # {}
        <4>1. PICK e \in heap : Earliest(e) /\ t = WholeMs(e.when - now)
          BY <2>1, <3>2 DEF WaitTime
        <4>2. e.when - now \in Nat
          BY DEF NeverOversleeps, Entries
        <4>3. t \in Nat /\ t <= e.when - now
          BY <4>1, <4>2, WholeMsShortens
        <4>4. \A o \in heap : e.when <= o.when /\ o.when \in Nat
          BY <4>1 DEF Earliest, Entries
        <4> QED
          BY <4>3, <4>4 DEF Entries
      <3> QED
        BY <3>1, <3>2
    <2>3. SleepInv' /\ NeverOversleeps'
      BY <1>1, <2>1, <2>2 DEF Sleep, SleepInv, NeverOversleeps, heapVars
    <2> QED
      BY <1>1, <2>1, <2>2, <2>3, ClockStep DEF Sleep
  <1>2. CASE Tick
    <2>1. SleepInv' /\ NeverOversleeps'
      BY <1>2 DEF Tick, SleepInv, NeverOversleeps, heapVars, Entries
    <2> QED
      BY <1>2, <2>1, ClockStep DEF Tick
  <1>3. CASE \/ TimedOut \/ EventsCome \/ EventsDone \/ FunctorsDone
             \/ ExpireDone
    <2>1. SleepInv' /\ NeverOversleeps'
      BY <1>3 DEF TimedOut, EventsCome, EventsDone, FunctorsDone, ExpireDone,
                  SleepInv, NeverOversleeps, heapVars
    <2> QED
      BY <1>3, <2>1, ClockStep
      DEF TimedOut, EventsCome, EventsDone, FunctorsDone, ExpireDone, SizeStored
  <1>4. CASE ClockEnds \/ UNCHANGED vars
    <2>1. UNCHANGED vars
      BY <1>4 DEF ClockEnds
    <2>2. SleepInv' /\ NeverOversleeps'
      BY <2>1 DEF SleepInv, NeverOversleeps, vars, heapVars
    <2> QED
      BY <2>1, <2>2, ClockStep DEF vars
  <1> QED
    BY <1>1, <1>2, <1>3, <1>4

(* attachConnection() arms the first entry of a connection.                *)
LEMMA AttachStep ==
  ASSUME IInv, NEW c \in Conns, Attach(c) PROVE IInv'
  <1> TypeOK /\ EntryInv /\ LiveInv /\ ArmedInv
    BY DEF IInv
  <1> USE TimesAssumption
  <1>1. /\ pc \in {"events", "functors"} /\ state[c] = "new"
        /\ state' = [state EXCEPT ![c] = "open"]
        /\ lastActivity' = [lastActivity EXCEPT ![c] = now]
        /\ UNCHANGED <<now, cancelled, reported, wakeAt, pc>>
    BY DEF Attach
  <1>2. \A e \in heap : e.conn # c
    BY <1>1 DEF EntryInv
  <1>3. CASE IdleTimeout = 0
    <2>1. UNCHANGED <<heap, nextId, idleTimer>>
      BY <1>3 DEF Attach, ArmIdleTimer
    <2>2. TypeOK' /\ EntryInv' /\ LiveInv' /\ SleepInv' /\ ArmedInv'
      BY <1>1, <1>3, <2>1 DEF TypeOK, EntryInv, LiveInv, SleepInv, ArmedInv
    <2>3. OneEntryPerConnection' /\ OpenHasLiveEntry' /\ CancelledInHeap'
          /\ NeverOversleeps'
      BY <1>1, <1>3, <2>1 DEF EntryInv, OneEntryPerConnection,
                              OpenHasLiveEntry, CancelledInHeap,
                              NeverOversleeps
    <2> QED
      BY <2>2, <2>3 DEF IInv
  <1>4. CASE IdleTimeout # 0
    <2> DEFINE new == [id |-> nextId, when |-> now + IdleTimeout, conn |-> c]
    <2>1. /\ heap' = heap \cup {new}
          /\ nextId' = nextId + 1
          /\ idleTimer' = [idleTimer EXCEPT ![c] = nextId]
      BY <1>4 DEF Attach, ArmIdleTimer, AddAfter, IssueId
    <2>2. /\ new \in Entries /\ new.id = nextId /\ new.conn = c
          /\ new.when = now + IdleTimeout
      BY DEF TypeOK, Entries
    <2>3. new.id \notin cancelled
      BY <2>2 DEF IInv, CancelledInHeap, TypeOK
    <2> HIDE DEF new
    <2>4. TypeOK'
      BY <1>1, <2>1, <2>2 DEF TypeOK, Entries
    <2>5. EntryInv'
      BY <1>1, <1>4, <2>1, <2>2 DEF TypeOK, EntryInv, Entries
    <2>6. LiveInv'
      BY <1>1, <1>2, <2>1, <2>2, <2>3 DEF TypeOK, LiveInv, Entries
    <2>7. SleepInv' /\ NeverOversleeps'
      BY <1>1, <2>1, <2>2 DEF IInv, TypeOK, SleepInv, NeverOversleeps
    <2>8. ArmedInv'
      BY <1>1, <1>2, <1>4, <2>1, <2>2 DEF TypeOK, ArmedInv, Entries
    <2>9. OneEntryPerConnection'
      BY <1>2, <2>1, <2>2 DEF IInv, OneEntryPerConnection
    <2>10. OpenHasLiveEntry'
      <3>1. SUFFICES ASSUME NEW d \in Conns, state'[d] = "open"
                     PROVE  \E e \in heap' : LiveEntry(d, e)'
        BY DEF OpenHasLiveEntry
      <3>2. CASE d = c
        <4>1. /\ new \in heap' /\ new.conn = d /\ new.id = idleTimer'[d]
              /\ new.id \notin cancelled'
          BY <1>1, <2>1, <2>2, <2>3, <3>2 DEF TypeOK
        <4> QED
          BY <4>1 DEF LiveEntry
      <3>3. CASE d # c
        <4>1. PICK e \in heap : LiveEntry(d, e)
          BY <1>1, <1>4, <3>1, <3>3 DEF IInv, TypeOK, OpenHasLiveEntry
        <4>2. LiveEntry(d, e)'
          BY <1>1, <2>1, <3>3, <4>1 DEF TypeOK, LiveEntry
        <4> QED
          BY <4>2, <2>1
      <3> QED
        BY <3>2, <3>3
    <2>11. CancelledInHeap'
      BY <1>1, <2>1 DEF IInv, CancelledInHeap
    <2> QED
      BY <2>4, <2>5, <2>6, <2>7, <2>8, <2>9, <2>10, <2>11 DEF IInv
  <1> QED
    BY <1>3, <1>4

(* Data moves one time stamp, forward.                                     *)
LEMMA DataStep ==
  ASSUME IInv, NEW c \in Conns, Data(c) PROVE IInv'
  <1>1. /\ lastActivity' = [lastActivity EXCEPT ![c] = now]
        /\ UNCHANGED <<now, heap, cancelled, nextId, state, idleTimer,
                       reported, wakeAt, pc>>
    BY DEF Data, DataArms
  <1>2. TypeOK'
    BY <1>1 DEF IInv, TypeOK
  <1>3. ArmedInv'
    BY <1>1, TimesAssumption DEF IInv, TypeOK, ArmedInv, Entries
  <1>4. EntryInv' /\ LiveInv' /\ SleepInv' /\ OneEntryPerConnection'
        /\ CancelledInHeap' /\ NeverOversleeps'
    BY <1>1 DEF IInv, EntryInv, LiveInv, SleepInv, OneEntryPerConnection,
                CancelledInHeap, NeverOversleeps
  <1>5. OpenHasLiveEntry'
    BY <1>1 DEF IInv, OpenHasLiveEntry, LiveEntry
  <1> QED
    BY <1>2, <1>3, <1>4, <1>5 DEF IInv

(* Connection::close() from an event cancels the one entry of c.           *)
LEMMA CloseStep ==
  ASSUME IInv, NEW c \in Conns, CloseByEvent(c) PROVE IInv'
  <1> TypeOK /\ EntryInv /\ LiveInv /\ ArmedInv /\ OneEntryPerConnection
      /\ OpenHasLiveEntry /\ CancelledInHeap
    BY DEF IInv
  <1> USE TimesAssumption
  <1>1. /\ state[c] = "open" /\ pc = "events"
        /\ state' = [state EXCEPT ![c] = "closed"]
        /\ cancelled' = Cancelled(idleTimer[c])
        /\ idleTimer' = [idleTimer EXCEPT ![c] = 0]
        /\ UNCHANGED <<now, heap, nextId, lastActivity, reported, wakeAt, pc>>
    BY DEF CloseByEvent, CloseCancels
  <1>2. SleepInv' /\ NeverOversleeps' /\ OneEntryPerConnection'
    BY <1>1 DEF IInv, SleepInv, NeverOversleeps, OneEntryPerConnection
  <1>3. CASE IdleTimeout = 0
    <2>1. heap = {} /\ cancelled = {} /\ cancelled' = {}
      BY <1>1, <1>3 DEF EntryInv, Cancelled
    <2>2. TypeOK' /\ EntryInv' /\ LiveInv' /\ ArmedInv'
      BY <1>1, <1>3, <2>1 DEF TypeOK, EntryInv, LiveInv, ArmedInv
    <2>3. OpenHasLiveEntry' /\ CancelledInHeap'
      BY <1>1, <1>3, <2>1 DEF OpenHasLiveEntry, CancelledInHeap
    <2> QED
      BY <1>2, <2>2, <2>3 DEF IInv
  <1>4. CASE IdleTimeout # 0
    <2>1. PICK mine \in heap : LiveEntry(c, mine)
      BY <1>1, <1>4 DEF OpenHasLiveEntry
    <2>2. /\ mine.conn = c /\ mine.id \notin cancelled
          /\ \A e \in heap : e.conn = c => e = mine
          /\ \A e \in heap : e.id = mine.id => e = mine
          /\ cancelled' = cancelled \cup {mine.id}
      <3>1. mine.conn = c /\ mine.id = idleTimer[c] /\ mine.id \notin cancelled
        BY <2>1 DEF LiveEntry
      <3>2. mine.id # 0 /\ ~(mine.id >= nextId)
        BY DEF TypeOK, Entries
      <3> QED
        BY <1>1, <3>1, <3>2 DEF Cancelled, OneEntryPerConnection, EntryInv
    <2>3. TypeOK'
      BY <1>1, <2>2 DEF TypeOK, Entries
    <2>4. EntryInv'
      BY <1>1, <1>4 DEF TypeOK, EntryInv, Entries
    <2>5. LiveInv'
      BY <1>1, <2>2 DEF TypeOK, LiveInv, Entries
    <2>6. ArmedInv'
      BY <1>1, <2>2 DEF ArmedInv
    <2>7. OpenHasLiveEntry'
      <3>1. SUFFICES ASSUME NEW d \in Conns, state'[d] = "open"
                     PROVE  \E e \in heap' : LiveEntry(d, e)'
        BY DEF OpenHasLiveEntry
      <3>2. d # c /\ state[d] = "open"
        BY <1>1, <3>1 DEF TypeOK
      <3>3. PICK e \in heap : LiveEntry(d, e)
        BY <1>4, <3>2 DEF OpenHasLiveEntry
      <3>4. LiveEntry(d, e)'
        BY <1>1, <2>2, <3>2, <3>3 DEF TypeOK, LiveEntry
      <3> QED
        BY <1>1, <3>4
    <2>8. CancelledInHeap'
      BY <1>1, <2>2 DEF CancelledInHeap
    <2> QED
      BY <1>2, <2>3, <2>4, <2>5, <2>6, <2>7, <2>8 DEF IInv
  <1> QED
    BY <1>3, <1>4

(* expire() drops a cancelled entry together with its id.                  *)
LEMMA SkipStep ==
  ASSUME IInv, NEW x \in heap, PopSkip(x) PROVE IInv'
  <1> TypeOK /\ EntryInv /\ LiveInv /\ OpenHasLiveEntry /\ CancelledInHeap
    BY DEF IInv
  <1>1. /\ x.id \in cancelled /\ pc = "expire"
        /\ heap' = heap \ {x} /\ cancelled' = cancelled \ {x.id}
        /\ UNCHANGED <<now, nextId, state, lastActivity, idleTimer, reported,
                       wakeAt, pc>>
    BY DEF PopSkip, LiveInv, connVars
  <1>2. \A e \in heap' : e \in heap /\ e.id # x.id
    BY <1>1 DEF EntryInv
  <1>3. TypeOK'
    BY <1>1, <1>2 DEF TypeOK
  <1>4. EntryInv'
    BY <1>1, <1>2 DEF EntryInv
  <1>5. LiveInv'
    BY <1>1, <1>2 DEF LiveInv
  <1>6. ArmedInv' /\ SleepInv' /\ NeverOversleeps' /\ OneEntryPerConnection'
    BY <1>1, <1>2 DEF IInv, ArmedInv, SleepInv, NeverOversleeps,
                      OneEntryPerConnection
  <1>7. OpenHasLiveEntry'
    BY <1>1 DEF OpenHasLiveEntry, LiveEntry
  <1>8. CancelledInHeap'
    BY <1>1 DEF CancelledInHeap
  <1> QED
    BY <1>3, <1>4, <1>5, <1>6, <1>7, <1>8 DEF IInv

(* The callback closes the idle connection its entry is of.                *)
LEMMA IdleCloseStep ==
  ASSUME IInv, NEW x \in heap, PopClose(x) PROVE IInv'
  <1> TypeOK /\ EntryInv /\ LiveInv /\ OneEntryPerConnection
      /\ OpenHasLiveEntry /\ CancelledInHeap
    BY DEF IInv
  <1>1. /\ x.id \notin cancelled /\ pc = "expire"
        /\ heap' = heap \ {x}
        /\ state' = [state EXCEPT ![x.conn] = "closed"]
        /\ idleTimer' = [idleTimer EXCEPT ![x.conn] = 0]
        /\ UNCHANGED <<now, cancelled, nextId, lastActivity, reported, wakeAt, pc>>
    BY DEF PopClose, TimeoutCancels
  <1>2. \A e \in heap' : e \in heap /\ e.conn # x.conn
    BY <1>1 DEF OneEntryPerConnection
  <1>3. x.conn \in Conns
    BY DEF TypeOK, Entries
  <1>4. TypeOK'
    BY <1>1, <1>2, <1>3 DEF TypeOK
  <1>5. EntryInv'
    BY <1>1, <1>2, <1>3 DEF TypeOK, EntryInv, Entries
  <1>6. LiveInv'
    BY <1>1, <1>2, <1>3 DEF TypeOK, LiveInv, Entries
  <1>7. ArmedInv' /\ SleepInv' /\ NeverOversleeps' /\ OneEntryPerConnection'
    BY <1>1, <1>2 DEF IInv, ArmedInv, SleepInv, NeverOversleeps,
                      OneEntryPerConnection
  <1>8. OpenHasLiveEntry'
    <2>1. SUFFICES ASSUME IdleTimeout > 0, NEW d \in Conns, state'[d] = "open"
                   PROVE  \E e \in heap' : LiveEntry(d, e)'
      BY DEF OpenHasLiveEntry
    <2>2. d # x.conn /\ state[d] = "open"
      BY <1>1, <2>1 DEF TypeOK
    <2>3. PICK e \in heap : LiveEntry(d, e)
      BY <2>1, <2>2 DEF OpenHasLiveEntry
    <2>4. e \in heap' /\ LiveEntry(d, e)'
      BY <1>1, <2>2, <2>3 DEF TypeOK, LiveEntry
    <2> QED
      BY <2>4
  <1>9. CancelledInHeap'
    BY <1>1 DEF CancelledInHeap
  <1> QED
    BY <1>4, <1>5, <1>6, <1>7, <1>8, <1>9 DEF IInv

(* The callback of an active connection replaces its popped entry.         *)
LEMMA RearmStep ==
  ASSUME IInv, NEW x \in heap, PopRearm(x) PROVE IInv'
  <1> TypeOK /\ EntryInv /\ LiveInv /\ ArmedInv /\ OneEntryPerConnection
      /\ OpenHasLiveEntry /\ CancelledInHeap
    BY DEF IInv
  <1> USE TimesAssumption
  <1> DEFINE c == x.conn
             new == [id |-> nextId, when |-> now + IdleTimeout, conn |-> c]
  <1>1. /\ x.id \notin cancelled /\ pc = "expire" /\ state[c] = "open"
        /\ ~(now - lastActivity[c] >= IdleTimeout)
        /\ UNCHANGED <<now, cancelled, state, lastActivity, reported, wakeAt, pc>>
    BY DEF PopRearm, IsIdle
  <1>2. c \in Conns /\ IdleTimeout # 0
    BY DEF TypeOK, Entries, EntryInv
  <1>3. /\ heap' = (heap \ {x}) \cup {new}
        /\ nextId' = nextId + 1
        /\ idleTimer' = [idleTimer EXCEPT ![c] = nextId]
    BY <1>2 DEF PopRearm, RearmAt, ArmIdleTimer, AddAfter, IssueId
  <1>4. /\ new \in Entries /\ new.id = nextId /\ new.conn = c
        /\ new.when = now + IdleTimeout
    BY <1>2 DEF TypeOK, Entries
  <1>5. new.id \notin cancelled
    BY <1>4 DEF CancelledInHeap, TypeOK
  <1>6. \A e \in heap : e.conn = c => e = x
    BY DEF OneEntryPerConnection
  <1> HIDE DEF new
  <1>7. TypeOK'
    BY <1>1, <1>2, <1>3, <1>4 DEF TypeOK, Entries
  <1>8. EntryInv'
    BY <1>1, <1>2, <1>3, <1>4 DEF TypeOK, EntryInv, Entries
  <1>9. LiveInv'
    BY <1>1, <1>2, <1>3, <1>4, <1>5, <1>6 DEF TypeOK, LiveInv, Entries
  <1>10. SleepInv' /\ NeverOversleeps'
    BY <1>1, <1>3, <1>4 DEF IInv, TypeOK, SleepInv, NeverOversleeps
  <1>11. ArmedInv'
    BY <1>1, <1>2, <1>3, <1>4 DEF TypeOK, ArmedInv, Entries
  <1>12. OneEntryPerConnection'
    BY <1>3, <1>4, <1>6 DEF OneEntryPerConnection
  <1>13. OpenHasLiveEntry'
    <2>1. SUFFICES ASSUME NEW d \in Conns, state'[d] = "open"
                   PROVE  \E e \in heap' : LiveEntry(d, e)'
      BY DEF OpenHasLiveEntry
    <2>2. CASE d = c
      <3>1. /\ new \in heap' /\ new.conn = d /\ new.id = idleTimer'[d]
            /\ new.id \notin cancelled'
        BY <1>1, <1>2, <1>3, <1>4, <1>5, <2>2 DEF TypeOK
      <3> QED
        BY <3>1 DEF LiveEntry
    <2>3. CASE d # c
      <3>1. PICK e \in heap : LiveEntry(d, e)
        BY <1>1, <1>2, <2>1 DEF OpenHasLiveEntry
      <3>2. e \in heap' /\ LiveEntry(d, e)'
        BY <1>1, <1>2, <1>3, <2>3, <3>1 DEF TypeOK, LiveEntry
      <3> QED
        BY <3>2
    <2> QED
      BY <2>2, <2>3
  <1>14. CancelledInHeap'
    BY <1>1, <1>3 DEF CancelledInHeap
  <1> QED
    BY <1>7, <1>8, <1>9, <1>10, <1>11, <1>12, <1>13, <1>14 DEF IInv

-----------------------------------------------------------------------------
(* The conjunction IInv is an invariant of the timers.                     *)
THEOREM IInvariant == Spec => []IInv
  <1>1. Init => IInv
    <2> SUFFICES ASSUME Init PROVE IInv
      OBVIOUS
    <2>1. TypeOK /\ EntryInv /\ LiveInv /\ SleepInv /\ ArmedInv
      BY DEF Init, TypeOK, EntryInv, LiveInv, SleepInv, ArmedInv
    <2>2. OneEntryPerConnection /\ OpenHasLiveEntry /\ CancelledInHeap
          /\ NeverOversleeps
      BY DEF Init, OneEntryPerConnection, OpenHasLiveEntry, CancelledInHeap,
             NeverOversleeps
    <2> QED
      BY <2>1, <2>2 DEF IInv
  <1>2. IInv /\ [Next]_vars => IInv'
    BY LoopSteps, AttachStep, DataStep, CloseStep, SkipStep, IdleCloseStep,
       RearmStep
    DEF Next
  <1> QED
    BY <1>1, <1>2, PTL DEF Spec

(* Every variable keeps its type and every id in the heap was issued.      *)
THEOREM TypeCorrect == Spec => []TypeOK
  <1>1. IInv => TypeOK
    BY DEF IInv
  <1> QED
    BY IInvariant, <1>1, PTL

(* Whatever the traffic, a connection has at most one entry in TimerHeap.  *)
THEOREM OneEntryEach == Spec => []OneEntryPerConnection
  <1>1. IInv => OneEntryPerConnection
    BY DEF IInv
  <1> QED
    BY IInvariant, <1>1, PTL

(* armIdleTimer() forgets no open connection.                              *)
THEOREM NoneForgotten == Spec => []OpenHasLiveEntry
  <1>1. IInv => OpenHasLiveEntry
    BY DEF IInv
  <1> QED
    BY IInvariant, <1>1, PTL

(* cancel() never leaves an id behind in cancelled_ that no pop erases.    *)
THEOREM CancelledIsBounded == Spec => []CancelledInHeap
  <1>1. IInv => CancelledInHeap
    BY DEF IInv
  <1> QED
    BY IInvariant, <1>1, PTL

(* nextTimeoutMs() lets no loop sleep past its first timer, at any clock   *)
(* resolution.                                                             *)
THEOREM WakesInTime == Spec => []NeverOversleeps
  <1>1. IInv => NeverOversleeps
    BY DEF IInv
  <1> QED
    BY IInvariant, <1>1, PTL

(* An idle connection is closed before two timeouts have passed, for every *)
(* timeout and every pattern of traffic.                                   *)
THEOREM IdleIsBounded == Spec => []IdleBound
  BY IInvariant, IInvImplies, PTL

-----------------------------------------------------------------------------
(* The count stored for /stats lags the heap from the store until the loop *)
(* wakes up again.                                                         *)
Lag ==
    /\ reported \subseteq heap
    /\ \A e \in heap \ reported :
           /\ state[e.conn] = "open"
           /\ e.when = lastActivity[e.conn] + IdleTimeout
LagInv == pc \in {"functors", "top", "wait"} => Lag

(* A functor that attaches a connection adds one fresh entry.              *)
LEMMA AttachLag ==
  ASSUME IInv, NEW c \in Conns, Attach(c), Lag PROVE Lag'
  <1> TypeOK /\ EntryInv
    BY DEF IInv
  <1>1. /\ state[c] = "new"
        /\ state' = [state EXCEPT ![c] = "open"]
        /\ lastActivity' = [lastActivity EXCEPT ![c] = now]
        /\ reported' = reported
    BY DEF Attach
  <1>2. \A e \in heap : e.conn \in Conns /\ e.conn # c
    BY <1>1 DEF TypeOK, EntryInv, Entries
  <1>3. \A e \in heap \ reported :
           state'[e.conn] = "open" /\ e.when = lastActivity'[e.conn] + IdleTimeout
    BY <1>1, <1>2 DEF TypeOK, Lag
  <1> DEFINE new == [id |-> nextId, when |-> now + IdleTimeout, conn |-> c]
  <1>4. heap' = heap \/ heap' = heap \cup {new}
    BY DEF Attach, ArmIdleTimer, AddAfter
  <1>5. new.conn = c /\ new.when = now + IdleTimeout
    OBVIOUS
  <1>6. state'[c] = "open" /\ lastActivity'[c] = now
    BY <1>1 DEF TypeOK
  <1> HIDE DEF new
  <1> QED
    BY <1>1, <1>3, <1>4, <1>5, <1>6 DEF Lag

(* /stats never counts a timer that is gone and misses only timers armed   *)
(* since the store, while the loop sleeps.                                 *)
THEOREM ReportIsRecent == Spec => []ReportLags
  <1>1. Init => LagInv
    BY DEF Init, LagInv, Lag
  <1>2. IInv /\ LagInv /\ [Next]_vars => LagInv'
    <2> SUFFICES ASSUME IInv, LagInv, [Next]_vars, pc' \in {"functors", "top", "wait"}
                 PROVE  Lag'
      BY DEF LagInv
    <2>1. CASE ExpireDone
      BY <2>1 DEF ExpireDone, SizeStored, Lag, heapVars
    <2>2. CASE \/ Sleep \/ Tick \/ FunctorsDone \/ ClockEnds \/ UNCHANGED vars
      <3>1. UNCHANGED <<reported, heap, state, lastActivity>>
        BY <2>2 DEF Sleep, Tick, FunctorsDone, ClockEnds, vars, heapVars, connVars
      <3>2. Lag
        BY <2>2 DEF Sleep, Tick, FunctorsDone, ClockEnds, vars, LagInv
      <3> QED
        BY <3>1, <3>2 DEF Lag
    <2>3. CASE \E c \in Conns : Attach(c)
      <3>1. PICK c \in Conns : Attach(c)
        BY <2>3
      <3>2. Lag
        BY <3>1 DEF Attach, LagInv
      <3> QED
        BY <3>1, <3>2, AttachLag
    <2>4. CASE \/ TimedOut \/ EventsCome \/ EventsDone
               \/ \E c \in Conns : Data(c) \/ CloseByEvent(c)
               \/ \E e \in heap : PopSkip(e) \/ PopClose(e) \/ PopRearm(e)
      BY <2>4 DEF TimedOut, EventsCome, EventsDone, Data, CloseByEvent,
                  PopSkip, PopClose, PopRearm
    <2> QED
      BY <2>1, <2>2, <2>3, <2>4 DEF Next
  <1>3. LagInv => ReportLags
    BY DEF LagInv, Lag, ReportLags
  <1> QED
    BY <1>1, <1>2, <1>3, IInvariant, PTL DEF Spec

=============================================================================
