---------------------------- MODULE AsyncLogger ----------------------------
(***************************************************************************)
(* AsyncLogger of ws-server: threads append lines to current_ under a      *)
(* mutex, a writer thread swaps it for to_write_ and writes that out       *)
(* without the mutex, stop() ends the writer and flushes what is left.     *)
(*                                                                         *)
(* A line stands for the bytes of one append().  The condition variable    *)
(* is modelled with its lock: stop() sets its flag and notifies without    *)
(* holding the mutex, so the notification can fall between the writer's    *)
(* look at the flag and its going to sleep.                                *)
(*                                                                         *)
(* fd_ is a number, and when a file cannot be opened it is 1, stdout's.  A *)
(* roll closes fd_ whatever it is, so number 1 may be closed and given to  *)
(* whoever opens something next: what is behind it is a variable.          *)
(***************************************************************************)
EXTENDS Integers, Sequences, SequencesExt

CONSTANTS
    Lines,       \* lines logged, each by one call of append()
    BufferSize,  \* kBufferSize, in lines
    RollBytes,   \* roll_bytes_, in lines
    MaxSecond,   \* bound: seconds the clock counts
    Faults       \* whether open(), rename() and write() may fail

ASSUME SizesAssumption ==
    /\ BufferSize \in Nat \ {0} /\ RollBytes \in Nat /\ MaxSecond \in Nat
    /\ Faults \in BOOLEAN

VARIABLES
    running,        \* running_
    stopRequested,  \* stop_requested_
    mutex,          \* who holds mutex_: "free", "writer" or "stop"
    current,        \* current_
    toWrite,        \* what is left to write of to_write_ (or of current_,
                    \* while threadFunc's end or stop() writes that)
    call,           \* call[l]: where append(l) is
    writer,         \* where threadFunc is
    stopper,        \* where the thread that calls start() and stop() is
    path,           \* path_: a file, or "-" for stdout
    fd,             \* the number fd_ holds: "none" (-1), "one" (1) or "other"
    one,            \* what is behind number 1
    client,         \* a connection of the server was given number 1
    exists,         \* whether there is a file at path_
    file,           \* lines in it
    written,        \* written_this_file_
    archives,       \* archives[s]: lines in the file rolled in second s
    console,        \* lines on stdout
    strayed,        \* lines sent to a client
    second,         \* the clock, as rollIfNeeded stamps it
    out,            \* lines write() took, in order (for the properties)
    dropped,        \* lines a hard error threw away (for the properties)
    early           \* lines queued before running_ was reset (likewise)

queueVars == <<current, toWrite, call>>
fdVars == <<fd, one, client>>
fileVars == <<path, fdVars, exists, file, written, archives, console, strayed>>
ctlVars == <<running, stopRequested, mutex, writer, stopper>>
vars == <<queueVars, fileVars, ctlVars, second, out, dropped, early>>

Seconds == 0 .. MaxSecond

Init ==
    /\ running = FALSE /\ stopRequested = FALSE /\ mutex = "free"
    /\ current = <<>> /\ toWrite = <<>>
    /\ call = [l \in Lines |-> "new"]
    /\ writer = "unborn" /\ stopper = "start"
    /\ path \in {"file", "-"} /\ exists \in BOOLEAN
    /\ fd = "none" /\ one = "stdout" /\ client = FALSE
    /\ file = {} /\ written = 0 /\ console = {} /\ strayed = {}
    /\ archives = [s \in Seconds |-> {}]
    /\ second = 0 /\ out = <<>> /\ dropped = {} /\ early = {}

-----------------------------------------------------------------------------
(* append(): the unlocked look at running_, then the locked push, with a   *)
(* notification when the buffer is full.                                   *)
AppendCheck(l) ==
    /\ call[l] = "new"
    /\ call' = [call EXCEPT ![l] = IF running THEN "checked" ELSE "refused"]
    /\ UNCHANGED <<current, toWrite, fileVars, ctlVars, second, out, dropped,
                   early>>

Notified(w) == IF w = "blocked" THEN "top" ELSE w

AppendPush(l) ==
    /\ call[l] = "checked"
    /\ mutex = "free"
    /\ call' = [call EXCEPT ![l] = "queued"]
    /\ current' = Append(current, l)
    /\ writer' = IF Len(current') >= BufferSize THEN Notified(writer)
                 ELSE writer
    /\ UNCHANGED <<toWrite, fileVars, running, stopRequested, mutex, stopper,
                   second, out, dropped, early>>

-----------------------------------------------------------------------------
(* start(): open the file, or fall back to stdout; start the writer.       *)
Start ==
    /\ stopper = "start"
    /\ \/ path = "file" /\ fd' = "other"
       \/ (path = "-" \/ Faults) /\ fd' = "one"
    /\ exists' = (exists \/ fd' = "other")
    /\ running' = TRUE
    /\ writer' = "top"
    /\ stopper' = "started"
    /\ UNCHANGED <<queueVars, path, one, client, file, written, archives,
                   console, strayed, stopRequested, mutex, second, out,
                   dropped, early>>

(* threadFunc(), its locked part: take the buffer if there is something in *)
(* it, leave the loop if told to stop, otherwise wait.  wait_for() returns *)
(* into the same three cases.                                              *)
SwapsNow_WhenFull == Len(current) >= BufferSize
SwapsNow == current # <<>>

WriterCheck ==
    /\ writer = "top"
    /\ mutex = "free"
    /\ IF SwapsNow
       THEN /\ toWrite' = current
            /\ current' = <<>>
            /\ writer' = "roll"
            /\ UNCHANGED mutex
       ELSE /\ writer' = IF stopRequested THEN "drain" ELSE "blocking"
            /\ mutex' = IF stopRequested THEN "free" ELSE "writer"
            /\ UNCHANGED <<toWrite, current>>
    /\ UNCHANGED <<call, fileVars, running, stopRequested, stopper, second,
                   out, dropped, early>>

(* The wait lets go of the mutex and sleeps, until a notification or until *)
(* flush_ms_ have passed.                                                  *)
WriterBlock ==
    /\ writer = "blocking"
    /\ writer' = "blocked"
    /\ mutex' = "free"
    /\ UNCHANGED <<queueVars, fileVars, running, stopRequested, stopper,
                   second, out, dropped, early>>

WaitTimesOut_Never == FALSE
WaitTimesOut == writer = "blocked"

WriterTimeout ==
    /\ WaitTimesOut
    /\ writer' = "top"
    /\ UNCHANGED <<queueVars, fileVars, running, stopRequested, mutex,
                   stopper, second, out, dropped, early>>

(* After the loop: once more current_, under the mutex.                    *)
WriterDrain ==
    /\ writer = "drain"
    /\ mutex = "free"
    /\ IF current = <<>>
       THEN /\ writer' = "exited"
            /\ UNCHANGED <<toWrite, current, mutex>>
       ELSE /\ toWrite' = current
            /\ current' = <<>>
            /\ mutex' = "writer"
            /\ writer' = "roll"
    /\ UNCHANGED <<call, fileVars, running, stopRequested, stopper, second,
                   out, dropped, early>>

-----------------------------------------------------------------------------
(* writeAll(), called by the writer or by stop(): "roll", "reopen" in the  *)
(* middle of a roll, then "write".                                         *)
At(c, phase) == IF c = "writer" THEN writer = phase ELSE stopper = phase
Goto(c, phase) ==
    IF c = "writer" THEN writer' = phase /\ UNCHANGED stopper
                    ELSE stopper' = phase /\ UNCHANGED writer

(* rollIfNeeded().                                                         *)
Rolls == path = "file" /\ written + Len(toWrite) > RollBytes

RollSkip(c) ==
    /\ At(c, "roll")
    /\ ~Rolls
    /\ Goto(c, "write")
    /\ UNCHANGED <<queueVars, fileVars, running, stopRequested, mutex, second,
                   out, dropped, early>>

(* close(fd_): the file, or number 1 with whatever is behind it.           *)
RollClose(c) ==
    /\ At(c, "roll")
    /\ Rolls
    /\ one' = IF fd = "one" THEN "closed" ELSE one
    /\ Goto(c, "reopen")
    /\ UNCHANGED <<queueVars, path, fd, client, file, written, archives,
                   console, strayed, exists, running, stopRequested, mutex,
                   second, out, dropped, early>>

(* rename(), which replaces an archive of the same second and whose        *)
(* failure is not looked at, and open(), which takes the lowest number     *)
(* that is free and empties a file that is still there.                    *)
Stamp_Constant == 0
Stamp_Backwards == MaxSecond - second
Stamp == second

RollReopen(c, moved, opens) ==
    /\ At(c, "reopen")
    /\ moved => exists
    /\ Faults \/ (opens /\ moved = exists)
    /\ exists' = (opens \/ (exists /\ ~moved))
    /\ archives' = IF moved THEN [archives EXCEPT ![Stamp] = file] ELSE archives
    /\ file' = IF moved \/ opens THEN {} ELSE file
    /\ fd' = IF opens /\ one # "closed" THEN "other" ELSE "one"
    /\ one' = IF opens /\ one = "closed" THEN "file" ELSE one
    /\ written' = 0
    /\ Goto(c, "write")
    /\ UNCHANGED <<queueVars, path, client, console, strayed, running,
                   stopRequested, mutex, second, out, dropped, early>>

(* write() takes some of the buffer, to whatever fd_ stands for now.       *)
Target == IF fd = "other" THEN "file" ELSE one

WriteSome(c) ==
    /\ At(c, "write")
    /\ toWrite # <<>>
    /\ Target # "closed"
    /\ LET l == Head(toWrite)
           To(target, lines) ==
               IF Target = target THEN lines \cup {l} ELSE lines
       IN  /\ out' = Append(out, l)
           /\ file' = To("file", file)
           /\ console' = To("stdout", console)
           /\ strayed' = To("socket", strayed)
    /\ toWrite' = Tail(toWrite)
    /\ written' = written + 1
    /\ UNCHANGED <<current, call, path, fdVars, exists, archives, ctlVars,
                   second, dropped, early>>

(* A hard error (disk full, closed descriptor): the rest is thrown away.   *)
WriteFails(c) ==
    /\ At(c, "write")
    /\ toWrite # <<>>
    /\ Faults \/ Target = "closed"
    /\ dropped' = dropped \cup ToSet(toWrite)
    /\ toWrite' = <<>>
    /\ UNCHANGED <<current, call, fileVars, ctlVars, second, out, early>>

(* writeAll() returns, the buffer is cleared; whoever held the mutex for   *)
(* it was at the end of threadFunc, or in stop().                          *)
WriteDone(c) ==
    /\ At(c, "write")
    /\ toWrite = <<>>
    /\ IF c = "writer"
       THEN Goto(c, IF mutex = "writer" THEN "exited" ELSE "top")
       ELSE Goto(c, "close")
    /\ mutex' = IF mutex = c THEN "free" ELSE mutex
    /\ UNCHANGED <<queueVars, fileVars, running, stopRequested, second, out,
                   dropped, early>>

(* Meanwhile the server runs: accept4() gives a client number 1 when it is *)
(* free, and its connection closes that number, whoever has it by then.    *)
(* Bound: one connection at a time believes that number 1 is its own.      *)
AcceptTakesOne ==
    /\ stopper = "started"
    /\ one = "closed" /\ ~client
    /\ one' = "socket" /\ client' = TRUE
    /\ UNCHANGED <<queueVars, path, fd, exists, file, written, archives,
                   console, strayed, ctlVars, second, out, dropped, early>>

ConnectionClosesOne ==
    /\ stopper \in {"started", "stopped"}
    /\ client
    /\ one' = "closed" /\ client' = FALSE
    /\ UNCHANGED <<queueVars, path, fd, exists, file, written, archives,
                   console, strayed, ctlVars, second, out, dropped, early>>

ClockTick ==
    /\ second < MaxSecond
    /\ second' = second + 1
    /\ UNCHANGED <<queueVars, fileVars, ctlVars, out, dropped, early>>

-----------------------------------------------------------------------------
(* stop(): set the flag, notify, join, and flush once more.                *)
StopRequest ==
    /\ stopper = "started"
    /\ stopRequested' = TRUE
    /\ stopper' = "notify"
    /\ UNCHANGED <<queueVars, fileVars, running, mutex, writer, second, out,
                   dropped, early>>

StopNotify ==
    /\ stopper = "notify"
    /\ writer' = Notified(writer)
    /\ stopper' = "join"
    /\ UNCHANGED <<queueVars, fileVars, running, stopRequested, mutex, second,
                   out, dropped, early>>

Joined_Skipped == TRUE
Joined == writer = "exited"

StopJoin ==
    /\ stopper = "join"
    /\ Joined
    /\ running' = FALSE
    /\ early' = {l \in Lines : call[l] = "queued"}
    /\ stopper' = "flush"
    /\ UNCHANGED <<queueVars, fileVars, stopRequested, mutex, writer, second,
                   out, dropped>>

FlushTakes_OnlyToWrite == toWrite
FlushTakes == current \o toWrite

StopFlush ==
    /\ stopper = "flush"
    /\ mutex = "free"
    /\ toWrite' = FlushTakes
    /\ current' = <<>>
    /\ IF toWrite' = <<>>
       THEN stopper' = "close" /\ UNCHANGED mutex
       ELSE stopper' = "roll" /\ mutex' = "stop"
    /\ UNCHANGED <<call, fileVars, running, stopRequested, writer, second,
                   out, dropped, early>>

(* Number 1 is left open.                                                  *)
StopClose ==
    /\ stopper = "close"
    /\ fd' = "none"
    /\ stopper' = "stopped"
    /\ UNCHANGED <<queueVars, path, one, client, exists, file, written,
                   archives, console, strayed, running, stopRequested, mutex,
                   writer, second, out, dropped, early>>

(* stop() has returned and every call of append() has, too.                *)
Done ==
    /\ stopper = "stopped"
    /\ \A l \in Lines : call[l] \in {"queued", "refused"}
    /\ UNCHANGED vars

-----------------------------------------------------------------------------
WriteAll(c) ==
    \/ RollSkip(c) \/ RollClose(c)
    \/ \E moved, opens \in BOOLEAN : RollReopen(c, moved, opens)
    \/ WriteSome(c) \/ WriteFails(c) \/ WriteDone(c)

Writer == WriterCheck \/ WriterBlock \/ WriterDrain \/ WriteAll("writer")
Stop == StopNotify \/ StopJoin \/ StopFlush \/ StopClose \/ WriteAll("stop")

Next ==
    \/ \E l \in Lines : AppendCheck(l) \/ AppendPush(l)
    \/ Start \/ Writer \/ WriterTimeout \/ StopRequest \/ Stop
    \/ AcceptTakesOne \/ ConnectionClosesOne \/ ClockTick \/ Done

Spec == Init /\ [][Next]_vars

(* The two threads run when they can, and wait_for() does time out.        *)
FairSpec ==
    Spec /\ WF_vars(Writer) /\ WF_vars(WriterTimeout) /\ WF_vars(Stop)

-----------------------------------------------------------------------------
(* Every variable has its type.                                            *)
TypeOK ==
    /\ {running, stopRequested, client, exists} \subseteq BOOLEAN
    /\ mutex \in {"free", "writer", "stop"}
    /\ {current, toWrite, out} \subseteq Seq(Lines)
    /\ call \in [Lines -> {"new", "checked", "queued", "refused"}]
    /\ writer \in {"unborn", "top", "blocking", "blocked", "roll", "reopen",
                   "write", "drain", "exited"}
    /\ stopper \in {"start", "started", "notify", "join", "flush", "roll",
                    "reopen", "write", "close", "stopped"}
    /\ path \in {"file", "-"} /\ fd \in {"none", "one", "other"}
    /\ one \in {"stdout", "closed", "file", "socket"}
    /\ {file, console, strayed, dropped, early} \subseteq SUBSET Lines
    /\ archives \in [Seconds -> SUBSET Lines]
    /\ written \in Nat /\ second \in Seconds

(* The two buffers behave as one queue: whatever the swaps, rolls, errors  *)
(* and the flush in stop() do, lines come out once and in the order they   *)
(* were appended.                                                          *)
Q == INSTANCE LogQueue WITH queue <- toWrite \o current
IsLogQueue == Q!Spec

(* The last lines are not lost: what was queued while running_ was true    *)
(* has been written when stop() returns, unless a write failed.  (A call   *)
(* that saw running_ true may still push after that.)                      *)
Settled(l) == l \in ToSet(out) \cup dropped
EarlierLinesWritten ==
    stopper = "stopped" =>
        \A l \in early : Settled(l)

(* Reading the archives by their time stamps and then the file gives the   *)
(* lines in the order they were logged, however rolls, failed renames and  *)
(* failed opens followed each other (and as long as the clock does not go  *)
(* back).                                                                  *)
Before(k, l) ==
    \E i, j \in DOMAIN out : i < j /\ out[i] = k /\ out[j] = l
FilesInOrder ==
    \A s \in Seconds : \A k \in archives[s] :
        /\ \A l \in file : Before(k, l)
        /\ \A r \in Seconds : s < r => \A l \in archives[r] : Before(k, l)

(* No step takes a line off the disk, except a roll that replaces the      *)
(* archive of its own second, or whose rename() failed.                    *)
Archived == UNION {archives[s] : s \in Seconds}
RollsKeepLines ==
    [][\A l \in file \cup Archived :
          \/ l \in (file \cup Archived)'
          \/ l \in archives[second]
          \/ l \in file /\ UNCHANGED archives]_vars

(* What tests/test_logger.cpp asks: every line queued is on disk in the    *)
(* end, none is missing.  Here of the lines that write() took.  It fails,  *)
(* with no call of the system failing: the second of two rolls in one      *)
(* second renames its file over the first one's archive.                   *)
WrittenIsKept ==
    ToSet(out) \subseteq file \cup Archived \cup console \cup strayed

(* The log goes to a file or to stdout, says the README.  After a roll     *)
(* closed number 1 it goes to the client that was given that number.       *)
LogStaysOutOfSockets == strayed = {}

(* stop() returns, although its notification may be lost: wait_for() times *)
(* out.                                                                    *)
StopReturns == stopRequested ~> stopper = "stopped"

(* A queued line is written, or dropped, without any further logging, as   *)
(* long as the writer lives.                                               *)
LineIsSettled ==
    \A l \in Lines : call[l] = "queued" ~> Settled(l) \/ stopper = "stopped"

=============================================================================
