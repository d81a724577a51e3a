----------------------------- MODULE IdleTimer -----------------------------
(***************************************************************************)
(* One event loop's TimerHeap and the idle timers its connections keep in  *)
(* it: a connection arms one entry when it is attached, data only moves a  *)
(* time stamp, and the entry's callback either closes the connection or    *)
(* arms the next entry.  cancel() is lazy: the entry stays in the heap     *)
(* until its time comes.                                                   *)
(*                                                                         *)
(* Time is counted in ticks finer than a millisecond, because              *)
(* nextTimeoutMs() truncates.  It passes while the loop sleeps in          *)
(* epoll_wait; handlers and callbacks take none.                           *)
(***************************************************************************)
EXTENDS Integers, FiniteSets

CONSTANTS
    Conns,         \* connections the loop may serve, each once
    TicksPerMs,    \* clock resolution
    IdleTimeout,   \* idle_timeout_s_, in ticks; 0 disables idle timers
    Fallback,      \* the 200 ms wait when the heap is empty, in ticks
    MaxTime        \* bound: the clock stops here

ASSUME TicksAssumption == TicksPerMs \in Nat \ {0}
ASSUME TimesAssumption ==
    IdleTimeout \in Nat /\ Fallback \in Nat \ {0} /\ MaxTime \in Nat

VARIABLES
    now,           \* Clock::now()
    heap,          \* heap_: entries [id, when, conn]
    cancelled,     \* cancelled_
    nextId,        \* next_id_
    state,         \* "new", "open" or "closed"
    lastActivity,  \* Connection::last_activity_
    idleTimer,     \* Connection::idle_timer_, 0 when there is none
    reported,      \* the entries pending_timers_ counts, for /stats
    wakeAt,        \* when the epoll_wait in progress times out
    pc             \* where the loop is in one pass of loop()

heapVars == <<heap, cancelled, nextId>>
connVars == <<state, lastActivity, idleTimer>>
vars == <<now, heapVars, connVars, reported, wakeAt, pc>>

Init ==
    /\ now = 0
    /\ heap = {} /\ cancelled = {} /\ nextId = 1
    /\ state = [c \in Conns |-> "new"]
    /\ lastActivity = [c \in Conns |-> 0]
    /\ idleTimer = [c \in Conns |-> 0]
    /\ reported = {}
    /\ wakeAt = 0
    /\ pc = "top"

-----------------------------------------------------------------------------
(* TimerHeap.                                                              *)

Earliest(e) == \A other \in heap : e.when <= other.when

(* nextTimeoutMs(), back in ticks: the time to the first entry, cut down   *)
(* to whole milliseconds, 0 if it has passed.  An empty heap gives -1,     *)
(* which loop() turns into its 200 ms.                                     *)
WholeMs_RoundedUp(delta) ==
    IF delta <= 0 THEN 0
    ELSE ((delta \div TicksPerMs) + 1) * TicksPerMs
WholeMs(delta) ==
    IF delta <= 0 THEN 0 ELSE (delta \div TicksPerMs) * TicksPerMs

WaitTime(t) ==
    \/ heap = {} /\ t = Fallback
    \/ \E e \in heap : Earliest(e) /\ t = WholeMs(e.when - now)

(* cancel(id), returning the new cancelled_: ids never issued are ignored. *)
Cancelled(id) ==
    IF id = 0 \/ id >= nextId THEN cancelled ELSE cancelled \cup {id}

(* add(): push an entry under the next id.  Pushes onto h because expire() *)
(* has popped an entry before its callback arms another.                   *)
IssueId(id) == id + 1

AddAfter(h, c) ==
    /\ heap' = h \cup {[id |-> nextId, when |-> now + IdleTimeout, conn |-> c]}
    /\ nextId' = IssueId(nextId)

(* Connection::armIdleTimer() on an open connection.                       *)
ArmIdleTimer(h, c) ==
    IF IdleTimeout = 0
    THEN heap' = h /\ UNCHANGED <<nextId, idleTimer>>
    ELSE /\ AddAfter(h, c)
         /\ idleTimer' = [idleTimer EXCEPT ![c] = nextId]

-----------------------------------------------------------------------------
(* The loop.                                                               *)

Sleep ==
    /\ pc = "top"
    /\ \E t \in 0 .. IdleTimeout + Fallback :
           WaitTime(t) /\ wakeAt' = now + t
    /\ pc' = "wait"
    /\ UNCHANGED <<now, heapVars, connVars, reported>>

Tick ==
    /\ pc = "wait"
    /\ now < wakeAt
    /\ now < MaxTime
    /\ now' = now + 1
    /\ UNCHANGED <<heapVars, connVars, reported, wakeAt, pc>>

TimedOut ==
    /\ pc = "wait"
    /\ now = wakeAt
    /\ pc' = "expire"
    /\ UNCHANGED <<now, heapVars, connVars, reported, wakeAt>>

EventsCome ==
    /\ pc = "wait"
    /\ pc' = "events"
    /\ UNCHANGED <<now, heapVars, connVars, reported, wakeAt>>

EventsDone ==
    /\ pc = "events"
    /\ pc' = "expire"
    /\ UNCHANGED <<now, heapVars, connVars, reported, wakeAt>>

FunctorsDone ==
    /\ pc = "functors"
    /\ pc' = "top"
    /\ UNCHANGED <<now, heapVars, connVars, reported, wakeAt>>

(* attachConnection(): the constructor stamps last_activity_, then the     *)
(* timer is armed.  In onAccept on a single reactor, else in a functor.    *)
Attach(c) ==
    /\ pc \in {"events", "functors"}
    /\ state[c] = "new"
    /\ state' = [state EXCEPT ![c] = "open"]
    /\ lastActivity' = [lastActivity EXCEPT ![c] = now]
    /\ ArmIdleTimer(heap, c)
    /\ UNCHANGED <<now, cancelled, reported, wakeAt, pc>>

(* handleRead() with data: touch(), and no timer operation.                *)
DataArms(c) == UNCHANGED <<heap, nextId, idleTimer>>

Data(c) ==
    /\ pc = "events"
    /\ state[c] = "open"
    /\ lastActivity' = [lastActivity EXCEPT ![c] = now]
    /\ DataArms(c)
    /\ UNCHANGED <<now, cancelled, state, reported, wakeAt, pc>>

(* Connection::close() from an event.                                      *)
CloseCancels(c) == Cancelled(idleTimer[c])

CloseByEvent(c) ==
    /\ pc = "events"
    /\ state[c] = "open"
    /\ state' = [state EXCEPT ![c] = "closed"]
    /\ cancelled' = CloseCancels(c)
    /\ idleTimer' = [idleTimer EXCEPT ![c] = 0]
    /\ UNCHANGED <<now, heap, nextId, lastActivity, reported, wakeAt, pc>>

-----------------------------------------------------------------------------
(* TimerHeap::expire(): pop what is due, earliest first.                   *)
Due(e) == e \in heap /\ e.when <= now /\ Earliest(e)

(* An entry that does nothing: it was cancelled, or its weak_ptr no longer *)
(* locks because the connection is gone.                                   *)
PopSkip(e) ==
    /\ pc = "expire"
    /\ Due(e)
    /\ e.id \in cancelled \/ state[e.conn] # "open"
    /\ heap' = heap \ {e}
    /\ cancelled' = cancelled \ {e.id}
    /\ UNCHANGED <<now, nextId, connVars, reported, wakeAt, pc>>

(* The callback: idle for the whole timeout closes the connection, whose   *)
(* idle_timer_ is zeroed first so that close() does not cancel an entry    *)
(* that is no longer in the heap.                                          *)
IsIdle(c) == now - lastActivity[c] >= IdleTimeout

TimeoutCancels_Popped(c) == Cancelled(idleTimer[c])
TimeoutCancels(c) == cancelled

PopClose(e) ==
    /\ pc = "expire"
    /\ Due(e)
    /\ e.id \notin cancelled
    /\ state[e.conn] = "open"
    /\ IsIdle(e.conn)
    /\ heap' = heap \ {e}
    /\ state' = [state EXCEPT ![e.conn] = "closed"]
    /\ idleTimer' = [idleTimer EXCEPT ![e.conn] = 0]
    /\ cancelled' = TimeoutCancels(e.conn)
    /\ UNCHANGED <<now, nextId, lastActivity, reported, wakeAt, pc>>

(* There was activity: arm again, a full timeout from now.                 *)
RearmAt_Skipped(e) ==
    heap' = heap \ {e} /\ UNCHANGED <<nextId, idleTimer>>
RearmAt(e) == ArmIdleTimer(heap \ {e}, e.conn)

PopRearm(e) ==
    /\ pc = "expire"
    /\ Due(e)
    /\ e.id \notin cancelled
    /\ state[e.conn] = "open"
    /\ ~IsIdle(e.conn)
    /\ RearmAt(e)
    /\ UNCHANGED <<now, cancelled, state, lastActivity, reported, wakeAt, pc>>

(* Nothing more is due: store the heap's size for other threads, before    *)
(* the functors, which may attach connections and arm their timers.        *)
SizeStored_Never == reported
SizeStored == heap

ExpireDone ==
    /\ pc = "expire"
    /\ \A e \in heap : e.when > now
    /\ reported' = SizeStored
    /\ pc' = "functors"
    /\ UNCHANGED <<now, heapVars, connVars, wakeAt>>

(* The bound: the clock has reached MaxTime inside a sleep.                *)
ClockEnds ==
    /\ pc = "wait" /\ now = MaxTime
    /\ UNCHANGED vars

Next ==
    \/ Sleep \/ Tick \/ TimedOut \/ EventsCome \/ EventsDone \/ FunctorsDone
    \/ \E c \in Conns : Attach(c) \/ Data(c) \/ CloseByEvent(c)
    \/ \E e \in heap : PopSkip(e) \/ PopClose(e) \/ PopRearm(e)
    \/ ExpireDone \/ ClockEnds

Spec == Init /\ [][Next]_vars

-----------------------------------------------------------------------------
Entries == [id : Nat \ {0}, when : Nat, conn : Conns]

(* Every variable has its type; ids in the heap have been issued.          *)
TypeOK ==
    /\ now \in Nat /\ wakeAt \in Nat
    /\ heap \subseteq Entries
    /\ reported \subseteq Entries
    /\ cancelled \subseteq Nat
    /\ nextId \in Nat \ {0}
    /\ \A e \in heap : e.id < nextId
    /\ state \in [Conns -> {"new", "open", "closed"}]
    /\ lastActivity \in [Conns -> Nat]
    /\ idleTimer \in [Conns -> Nat]
    /\ pc \in {"top", "wait", "events", "expire", "functors"}

(* However many requests a connection makes, the heap never holds two      *)
(* entries of it, cancelled ones included.                                 *)
OneEntryPerConnection ==
    \A e1, e2 \in heap : e1.conn = e2.conn => e1 = e2

(* An open connection always has a live entry in the heap, the one its     *)
(* idle_timer_ names, so it cannot be forgotten.                           *)
LiveEntry(c, e) ==
    e.conn = c /\ e.id = idleTimer[c] /\ e.id \notin cancelled
OpenHasLiveEntry ==
    IdleTimeout > 0 =>
        \A c \in Conns : state[c] = "open" => \E e \in heap : LiveEntry(c, e)

(* cancelled_ does not leak: it only names entries still in the heap, each *)
(* of which will be popped and its id erased.                              *)
CancelledInHeap == \A id \in cancelled : \E e \in heap : e.id = id

(* The loop does not sleep past the first entry (timer.h, nextTimeoutMs).  *)
NeverOversleeps == \A e \in heap : now <= e.when

(* An open connection has been idle for less than two timeouts: the first  *)
(* expiry may find it active, the second one cannot.                       *)
IdleBound ==
    IdleTimeout > 0 =>
        \A c \in Conns :
            state[c] = "open" =>
                now - lastActivity[c] < 2 * IdleTimeout

(* What /stats reads of a sleeping loop lags by one pass and no more: it   *)
(* counts no entry that is gone, and misses only the entries of            *)
(* connections the pass attached after the store, still as they were then. *)
ReportLags ==
    pc = "wait" =>
        /\ reported \subseteq heap
        /\ \A e \in heap \ reported :
               /\ state[e.conn] = "open"
               /\ e.when = lastActivity[e.conn] + IdleTimeout

=============================================================================
