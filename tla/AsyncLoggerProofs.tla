------------------------- MODULE AsyncLoggerProofs -------------------------
(***************************************************************************)
(* Theorems about AsyncLogger, for any lines, buffer and file sizes: it    *)
(* implements LogQueue, stop() loses nothing queued before it, and rolls   *)
(* keep the lines and their order, but for the two cases they do not look  *)
(* at.                                                                     *)
(***************************************************************************)
EXTENDS AsyncLogger, SequenceTheorems, TLAPS

Callers == {"writer", "stop"}
Writing(at) == at \in {"roll", "reopen", "write"}

(* Where the two threads are together: the writer is gone when stop() has  *)
(* joined it, the mutex is held by the one who is inside, and to_write_    *)
(* has something in it only while somebody writes it out.                  *)
ControlInv ==
    /\ writer = "unborn" <=> stopper = "start"
    /\ stopper \in {"flush", "roll", "reopen", "write", "close", "stopped"} =>
           writer = "exited"
    /\ mutex = "stop" <=> Writing(stopper)
    /\ mutex = "writer" => writer = "blocking" \/ Writing(writer)
    /\ toWrite # <<>> => Writing(writer) \/ Writing(stopper)

(* A queued line is somewhere; once stop() has taken its last look at      *)
(* current_, the early ones are not there.                                 *)
Ahead == ToSet(out) \cup dropped \cup ToSet(toWrite)

LinesInv ==
    /\ \A l \in Lines : call[l] = "queued" => l \in Ahead \cup ToSet(current)
    /\ stopper = "flush" => early \subseteq Ahead \cup ToSet(current)
    /\ stopper \in {"roll", "reopen", "write", "close", "stopped"} =>
           early \subseteq Ahead
    /\ stopper \in {"start", "started", "notify", "join"} => early = {}

IInv == TypeOK /\ ControlInv /\ LinesInv

(* What is on disk was written, and nothing was rolled in a second that is *)
(* still to come.                                                          *)
DiskInv ==
    /\ FilesInOrder
    /\ file \cup Archived \subseteq ToSet(out)
    /\ \A s \in Seconds : second < s => archives[s] = {}

-----------------------------------------------------------------------------
(* Append adds its element to the elements of a sequence.                  *)
LEMMA ToSetAppend ==
    ASSUME NEW S, NEW s \in Seq(S), NEW e \in S
    PROVE  ToSet(Append(s, e)) = ToSet(s) \cup {e}
<1> DEFINE t == Append(s, e)
<1>1. /\ DOMAIN s = 1 .. Len(s) /\ DOMAIN t = 1 .. Len(s) + 1 /\ Len(s) \in Nat
      /\ \A i \in 1 .. Len(s) : t[i] = s[i]
      /\ t[Len(s) + 1] = e
  OBVIOUS
<1> HIDE DEF t
<1>2. \A x \in ToSet(s) \cup {e} : x \in ToSet(t)
  BY <1>1 DEF ToSet
<1>3. \A x \in ToSet(t) : x \in ToSet(s) \cup {e}
  BY <1>1 DEF ToSet
<1> QED
  BY <1>2, <1>3 DEF t

(* A sequence holds its head and what its tail holds.                      *)
LEMMA ToSetHeadTail ==
    ASSUME NEW S, NEW s \in Seq(S), s # <<>>
    PROVE  ToSet(s) = {Head(s)} \cup ToSet(Tail(s))
<1> DEFINE t == Tail(s)
<1>1. /\ DOMAIN s = 1 .. Len(s) /\ DOMAIN t = 1 .. Len(s) - 1
      /\ Len(s) \in Nat \ {0} /\ Head(s) = s[1]
      /\ \A i \in 1 .. Len(s) - 1 : t[i] = s[i + 1]
  OBVIOUS
<1> HIDE DEF t
<1>2. \A x \in {Head(s)} \cup ToSet(t) : x \in ToSet(s)
  BY <1>1 DEF ToSet
<1>3. ASSUME NEW i \in 1 .. Len(s)
      PROVE  s[i] \in {Head(s)} \cup ToSet(t)
  <2>1. CASE i = 1
    BY <1>1, <2>1
  <2>2. CASE i # 1
    <3>1. i - 1 \in DOMAIN t /\ t[i - 1] = s[i]
      BY <1>1, <2>2
    <3> QED
      BY <3>1 DEF ToSet
  <2> QED
    BY <2>1, <2>2
<1>4. \A x \in ToSet(s) : x \in {Head(s)} \cup ToSet(t)
  BY <1>1, <1>3 DEF ToSet
<1> QED
  BY <1>2, <1>4 DEF t

(* The empty buffer holds no line.                                         *)
LEMMA ToSetEmpty == ToSet(<<>>) = {}
  BY DEF ToSet

(* A buffer of lines holds lines.                                          *)
LEMMA ToSetType ==
    ASSUME NEW S, NEW s \in Seq(S)
    PROVE  ToSet(s) \subseteq S
  BY DEF ToSet

(* A line pushed behind current_ is pushed behind the whole queue.         *)
LEMMA ConcatAppend ==
    ASSUME NEW S, NEW s \in Seq(S), NEW t \in Seq(S), NEW e \in S
    PROVE  s \o Append(t, e) = Append(s \o t, e)
  OBVIOUS

(* The first of to_write_ is the first of the whole queue.                 *)
LEMMA ConcatHeadTail ==
    ASSUME NEW S, NEW s \in Seq(S), NEW t \in Seq(S), s # <<>>
    PROVE  /\ s \o t # <<>>
           /\ Head(s \o t) = Head(s)
           /\ Tail(s \o t) = Tail(s) \o t
  OBVIOUS

(* Dropping all of to_write_ leaves current_.                              *)
LEMMA ConcatDrop ==
    ASSUME NEW S, NEW s \in Seq(S), NEW t \in Seq(S)
    PROVE  SubSeq(s \o t, Len(s) + 1, Len(s \o t)) = t
  OBVIOUS

-----------------------------------------------------------------------------
(* It holds at the start, before start() was called.                       *)
LEMMA InitIInv == Init => IInv
<1> SUFFICES ASSUME Init PROVE IInv
  OBVIOUS
<1> USE SizesAssumption DEF Init
<1>1. TypeOK
  <2>1. {running, stopRequested, client, exists} \subseteq BOOLEAN
    BY Zenon
  <2> QED
    BY <2>1 DEF TypeOK, Seconds
<1>2. ControlInv
  BY DEF ControlInv, Writing
<1>3. LinesInv
  BY DEF LinesInv
<1> QED
  BY <1>1, <1>2, <1>3 DEF IInv

(* Every step keeps the invariant.                                         *)
LEMMA NextIInv == IInv /\ [Next]_vars => IInv'
<1> SUFFICES ASSUME IInv, [Next]_vars PROVE IInv'
  OBVIOUS
<1> TypeOK /\ ControlInv /\ LinesInv
  BY DEF IInv
<1> USE SizesAssumption DEF queueVars, fdVars, fileVars, ctlVars
<1>1. CASE \E l \in Lines : AppendCheck(l)
  <2>1. TypeOK'
    BY <1>1 DEF AppendCheck, TypeOK
  <2>2. ControlInv'
    BY <1>1 DEF AppendCheck, ControlInv, Writing, TypeOK
  <2>3. LinesInv'
    BY <1>1 DEF AppendCheck, LinesInv, Ahead, TypeOK,
        ControlInv, Writing
  <2> QED
    BY <2>1, <2>2, <2>3 DEF IInv
<1>2. CASE \E l \in Lines : AppendPush(l)
  <2>1. TypeOK'
    BY <1>2, ToSetAppend DEF AppendPush, Notified, TypeOK
  <2>2. ControlInv'
    BY <1>2, ToSetAppend DEF AppendPush, Notified, ControlInv, Writing, TypeOK
  <2>3. LinesInv'
    BY <1>2, ToSetAppend DEF AppendPush, Notified, LinesInv, Ahead, TypeOK,
        ControlInv, Writing
  <2> QED
    BY <2>1, <2>2, <2>3 DEF IInv
<1>3. CASE Start
  <2>1. TypeOK'
    BY <1>3 DEF Start, TypeOK
  <2>2. ControlInv'
    BY <1>3 DEF Start, ControlInv, Writing, TypeOK
  <2>3. LinesInv'
    BY <1>3 DEF Start, LinesInv, Ahead, TypeOK, ControlInv,
        Writing
  <2> QED
    BY <2>1, <2>2, <2>3 DEF IInv
<1>4. CASE WriterCheck
  <2>1. TypeOK'
    <3>1. current' \in Seq(Lines) /\ toWrite' \in Seq(Lines)
      <4>1. current' \in {current, <<>>} /\ toWrite' \in {toWrite, current}
        BY <1>4 DEF WriterCheck
      <4>2. /\ current \in Seq(Lines) /\ toWrite \in Seq(Lines)
            /\ <<>> \in Seq(Lines)
        BY DEF TypeOK
      <4> QED
        BY <4>1, <4>2
    <3>2. /\ UNCHANGED <<running, stopRequested, client, exists, out, call,
                         stopper, path, fd, one, file, console, strayed,
                         dropped, early, archives, written, second>>
          /\ mutex' \in {"free", "writer"}
          /\ writer' \in {"roll", "drain", "blocking"}
      BY <1>4 DEF WriterCheck
    <3> QED
      BY <3>1, <3>2 DEF TypeOK
  <2>2. ControlInv'
    BY <1>4, ToSetEmpty DEF WriterCheck, SwapsNow, ControlInv, Writing, TypeOK
  <2>3. LinesInv'
    BY <1>4, ToSetEmpty DEF WriterCheck, SwapsNow, LinesInv, Ahead, TypeOK,
        ControlInv, Writing
  <2> QED
    BY <2>1, <2>2, <2>3 DEF IInv
<1>5. CASE WriterBlock
  <2>1. TypeOK'
    BY <1>5 DEF WriterBlock, TypeOK
  <2>2. ControlInv'
    BY <1>5 DEF WriterBlock, ControlInv, Writing, TypeOK
  <2>3. LinesInv'
    BY <1>5 DEF WriterBlock, LinesInv, Ahead, TypeOK,
        ControlInv, Writing
  <2> QED
    BY <2>1, <2>2, <2>3 DEF IInv
<1>6. CASE WriterTimeout
  <2>1. TypeOK'
    BY <1>6 DEF WriterTimeout, WaitTimesOut, TypeOK
  <2>2. ControlInv'
    BY <1>6 DEF WriterTimeout, WaitTimesOut, ControlInv, Writing, TypeOK
  <2>3. LinesInv'
    BY <1>6 DEF WriterTimeout, WaitTimesOut, LinesInv, Ahead,
        TypeOK, ControlInv, Writing
  <2> QED
    BY <2>1, <2>2, <2>3 DEF IInv
<1>7. CASE WriterDrain
  <2>1. TypeOK'
    <3>1. current' \in Seq(Lines) /\ toWrite' \in Seq(Lines)
      <4>1. current' \in {current, <<>>} /\ toWrite' \in {toWrite, current}
        BY <1>7 DEF WriterDrain
      <4>2. /\ current \in Seq(Lines) /\ toWrite \in Seq(Lines)
            /\ <<>> \in Seq(Lines)
        BY DEF TypeOK
      <4> QED
        BY <4>1, <4>2
    <3>2. /\ UNCHANGED <<running, stopRequested, client, exists, out, call,
                         stopper, path, fd, one, file, console, strayed,
                         dropped, early, archives, written, second>>
          /\ mutex' \in {"free", "writer"}
          /\ writer' \in {"roll", "exited"}
      BY <1>7 DEF WriterDrain
    <3> QED
      BY <3>1, <3>2 DEF TypeOK
  <2>2. ControlInv'
    BY <1>7, ToSetEmpty DEF WriterDrain, ControlInv, Writing, TypeOK
  <2>3. LinesInv'
    BY <1>7, ToSetEmpty DEF WriterDrain, LinesInv, Ahead,
        TypeOK, ControlInv, Writing
  <2> QED
    BY <2>1, <2>2, <2>3 DEF IInv
<1>8. CASE \E c \in Callers : RollSkip(c)
  <2>1. TypeOK'
    BY <1>8 DEF RollSkip, Callers, At, Goto, TypeOK
  <2>2. ControlInv'
    BY <1>8 DEF RollSkip, Callers, At, Goto, ControlInv, Writing,
        TypeOK
  <2>3. LinesInv'
    BY <1>8 DEF RollSkip, Callers, At, Goto, LinesInv, Ahead, TypeOK,
        ControlInv, Writing
  <2> QED
    BY <2>1, <2>2, <2>3 DEF IInv
<1>9. CASE \E c \in Callers, moved, opens \in BOOLEAN :
              RollReopen(c, moved, opens)
  <2>1. TypeOK'
    <3>1. /\ UNCHANGED <<running, stopRequested, client, mutex, current,
                         toWrite, out, call, path, console, strayed, dropped,
                         early, second>>
          /\ written' = 0 /\ file' \in {{}, file}
          /\ fd' \in {"one", "other"} /\ one' \in {one, "file"}
          /\ writer' \in {writer, "write"} /\ stopper' \in {stopper, "write"}
      BY <1>9 DEF RollReopen, Goto
    <3>2. archives' \in [Seconds -> SUBSET Lines]
      BY <1>9 DEF RollReopen, Stamp, TypeOK
    <3>3. exists' \in BOOLEAN
      BY <1>9, Zenon DEF RollReopen
    <3>4. {running, stopRequested, client, exists}' \subseteq BOOLEAN
      BY <3>1, <3>3, Zenon DEF TypeOK
    <3> QED
      BY <3>1, <3>2, <3>4 DEF TypeOK
  <2>2. ControlInv'
    BY <1>9 DEF RollReopen, Callers, At, Goto, ControlInv, Writing, TypeOK
  <2>3. LinesInv'
    BY <1>9 DEF RollReopen, Callers, At, Goto, LinesInv, Ahead, TypeOK,
        ControlInv, Writing
  <2> QED
    BY <2>1, <2>2, <2>3 DEF IInv
<1>10. CASE \E c \in Callers : WriteSome(c)
  <2>0. /\ toWrite # <<>> /\ toWrite' = Tail(toWrite)
        /\ out' = Append(out, Head(toWrite)) /\ written' = written + 1
        /\ \A lines \in {<<file, file'>>, <<console, console'>>,
                          <<strayed, strayed'>>} :
               lines[2] \in {lines[1], lines[1] \cup {Head(toWrite)}}
        /\ UNCHANGED <<current, call, path, fdVars, exists, archives, ctlVars,
                       second, dropped, early>>
    BY <1>10 DEF WriteSome
  <2>1. TypeOK'
    <3>1. /\ toWrite \in Seq(Lines) /\ out \in Seq(Lines)
          /\ Head(toWrite) \in Lines
      BY <2>0 DEF TypeOK
    <3>2. toWrite' \in Seq(Lines) /\ out' \in Seq(Lines)
      BY <2>0, <3>1
    <3>3. {file, console, strayed}' \subseteq SUBSET Lines
      BY <2>0, <3>1 DEF TypeOK
    <3> QED
      BY <2>0, <3>2, <3>3 DEF TypeOK
  <2>2. ControlInv'
    BY <1>10, <2>0 DEF WriteSome, Callers, At, ControlInv, Writing, TypeOK
  <2>3. Ahead' = Ahead
    BY <2>0, ToSetAppend, ToSetHeadTail DEF Ahead, TypeOK
  <2>4. LinesInv'
    BY <2>0, <2>3 DEF LinesInv
  <2> QED
    BY <2>1, <2>2, <2>4 DEF IInv
<1>11. CASE \E c \in Callers : WriteFails(c)
  <2>1. TypeOK'
    BY <1>11, ToSetEmpty, ToSetType DEF WriteFails, Callers, At, Goto, TypeOK
  <2>2. ControlInv'
    BY <1>11, ToSetEmpty, ToSetType DEF WriteFails, Callers, At, Goto,
        ControlInv, Writing, TypeOK
  <2>3. LinesInv'
    BY <1>11, ToSetEmpty, ToSetType DEF WriteFails, Callers, At, Goto,
        LinesInv, Ahead, TypeOK, ControlInv, Writing
  <2> QED
    BY <2>1, <2>2, <2>3 DEF IInv
<1>12. CASE \E c \in Callers : WriteDone(c)
  <2>1. TypeOK'
    BY <1>12 DEF WriteDone, Callers, At, Goto, TypeOK
  <2>2. ControlInv'
    BY <1>12 DEF WriteDone, Callers, At, Goto, ControlInv, Writing, TypeOK
  <2>3. LinesInv'
    BY <1>12 DEF WriteDone, Callers, At, Goto, LinesInv, Ahead, TypeOK,
        ControlInv, Writing
  <2> QED
    BY <2>1, <2>2, <2>3 DEF IInv
<1>13. CASE ClockTick
  <2>1. TypeOK'
    BY <1>13 DEF ClockTick, Seconds, TypeOK
  <2>2. ControlInv'
    BY <1>13 DEF ClockTick, Seconds, ControlInv, Writing, TypeOK
  <2>3. LinesInv'
    BY <1>13 DEF ClockTick, Seconds, LinesInv, Ahead, TypeOK,
        ControlInv, Writing
  <2> QED
    BY <2>1, <2>2, <2>3 DEF IInv
<1>14. CASE StopRequest
  <2>1. TypeOK'
    BY <1>14 DEF StopRequest, TypeOK
  <2>2. ControlInv'
    BY <1>14 DEF StopRequest, ControlInv, Writing, TypeOK
  <2>3. LinesInv'
    BY <1>14 DEF StopRequest, LinesInv, Ahead, TypeOK,
        ControlInv, Writing
  <2> QED
    BY <2>1, <2>2, <2>3 DEF IInv
<1>15. CASE StopNotify
  <2>1. TypeOK'
    BY <1>15 DEF StopNotify, Notified, TypeOK
  <2>2. ControlInv'
    BY <1>15 DEF StopNotify, Notified, ControlInv, Writing, TypeOK
  <2>3. LinesInv'
    BY <1>15 DEF StopNotify, Notified, LinesInv, Ahead,
        TypeOK, ControlInv, Writing
  <2> QED
    BY <2>1, <2>2, <2>3 DEF IInv
<1>16. CASE StopJoin
  <2>1. TypeOK'
    BY <1>16 DEF StopJoin, Joined, TypeOK
  <2>2. ControlInv'
    BY <1>16 DEF StopJoin, Joined, ControlInv, Writing, TypeOK
  <2>3. LinesInv'
    BY <1>16 DEF StopJoin, Joined, LinesInv, Ahead, TypeOK,
        ControlInv, Writing
  <2> QED
    BY <2>1, <2>2, <2>3 DEF IInv
<1>17. CASE StopFlush
  <2>1. TypeOK'
    BY <1>17, ToSetEmpty DEF StopFlush, FlushTakes, TypeOK
  <2>2. ControlInv'
    BY <1>17, ToSetEmpty DEF StopFlush, FlushTakes, ControlInv, Writing,
        TypeOK
  <2>3. toWrite = <<>> /\ toWrite' = current /\ current' = <<>>
    <3>1. toWrite = <<>>
      BY <1>17 DEF StopFlush, ControlInv, Writing
    <3> QED
      BY <1>17, <3>1 DEF StopFlush, FlushTakes, TypeOK
  <2>4. LinesInv'
    BY <1>17, <2>3, ToSetEmpty DEF StopFlush, LinesInv, Ahead, TypeOK
  <2> QED
    BY <2>1, <2>2, <2>4 DEF IInv
<1>18. CASE StopClose
  <2>1. TypeOK'
    BY <1>18 DEF StopClose, TypeOK
  <2>2. ControlInv'
    BY <1>18 DEF StopClose, ControlInv, Writing, TypeOK
  <2>3. LinesInv'
    BY <1>18 DEF StopClose, LinesInv, Ahead, TypeOK,
        ControlInv, Writing
  <2> QED
    BY <2>1, <2>2, <2>3 DEF IInv
<1>19. CASE \E c \in Callers : RollClose(c)
  <2>1. TypeOK'
    BY <1>19 DEF RollClose, Callers, At, Goto, TypeOK
  <2>2. ControlInv'
    BY <1>19 DEF RollClose, Callers, At, Goto, ControlInv, Writing, TypeOK
  <2>3. LinesInv'
    BY <1>19 DEF RollClose, Callers, At, Goto, LinesInv, Ahead, TypeOK,
        ControlInv, Writing
  <2> QED
    BY <2>1, <2>2, <2>3 DEF IInv
<1>20. CASE AcceptTakesOne \/ ConnectionClosesOne
  <2>1. /\ UNCHANGED <<queueVars, path, fd, exists, file, written, archives,
                       console, strayed, ctlVars, second, out, dropped, early>>
        /\ one' \in {"socket", "closed"} /\ client' \in {TRUE, FALSE}
    BY <1>20 DEF AcceptTakesOne, ConnectionClosesOne
  <2>2. {running, stopRequested, client, exists}' \subseteq BOOLEAN
    BY <2>1, Zenon DEF TypeOK
  <2>3. TypeOK'
    BY <2>1, <2>2 DEF TypeOK
  <2>4. ControlInv' /\ LinesInv'
    BY <2>1 DEF ControlInv, Writing, LinesInv, Ahead
  <2> QED
    BY <2>3, <2>4 DEF IInv
<1>21. CASE Done \/ UNCHANGED vars
  BY <1>21 DEF Done, vars, IInv, TypeOK, ControlInv, Writing, LinesInv, Ahead
<1> QED
  BY <1>1, <1>2, <1>3, <1>4, <1>5, <1>6, <1>7, <1>8, <1>9, <1>10, <1>11,
     <1>12, <1>13, <1>14, <1>15, <1>16, <1>17, <1>18, <1>19, <1>20, <1>21
     DEF Next, Writer, Stop, WriteAll, Callers

-----------------------------------------------------------------------------
(* The inductive invariant holds in every reachable state.                 *)
THEOREM IInvariant == Spec => []IInv
  BY InitIInv, NextIInv, PTL DEF Spec

(* Every variable of the logger keeps its type.                            *)
THEOREM TypeCorrect == Spec => []TypeOK
<1>1. IInv => TypeOK
  BY DEF IInv
<1> QED
  BY <1>1, IInvariant, PTL

(* stop() loses no line that was queued while running_ was true: when it   *)
(* has returned, each was written or fell to a hard write error.           *)
THEOREM StopFlushesAll == Spec => []EarlierLinesWritten
<1>1. IInv => EarlierLinesWritten
  <2> SUFFICES ASSUME IInv, stopper = "stopped"
               PROVE  early \subseteq ToSet(out) \cup dropped
    BY DEF EarlierLinesWritten, Settled
  <2>1. toWrite = <<>>
    BY DEF IInv, ControlInv, Writing
  <2>2. early \subseteq Ahead
    BY DEF IInv, LinesInv
  <2> QED
    BY <2>1, <2>2, ToSetEmpty DEF Ahead
<1> QED
  BY <1>1, IInvariant, PTL

-----------------------------------------------------------------------------
(* The steps that touch the files, the output or the clock.                *)
LEMMA DiskSteps ==
    ASSUME [Next]_vars
    PROVE  \/ \E c \in Callers, moved, opens \in BOOLEAN :
                  RollReopen(c, moved, opens)
           \/ \E c \in Callers : WriteSome(c)
           \/ ClockTick
           \/ UNCHANGED <<file, archives, out, second>>
<1> USE DEF queueVars, fdVars, fileVars, ctlVars
<1>1. ASSUME \/ \E l \in Lines : AppendCheck(l) \/ AppendPush(l)
             \/ Start \/ WriterCheck \/ WriterBlock \/ WriterDrain
             \/ WriterTimeout
      PROVE  UNCHANGED <<file, archives, out, second>>
  BY <1>1 DEF AppendCheck, AppendPush, Start, WriterCheck, WriterBlock,
      WriterDrain, WriterTimeout
<1>2. ASSUME \E c \in Callers : \/ RollSkip(c) \/ RollClose(c)
                               \/ WriteFails(c) \/ WriteDone(c)
      PROVE  UNCHANGED <<file, archives, out, second>>
  BY <1>2 DEF RollSkip, RollClose, WriteFails, WriteDone
<1>3. ASSUME \/ StopRequest \/ StopNotify \/ StopJoin \/ StopFlush
             \/ StopClose \/ AcceptTakesOne \/ ConnectionClosesOne \/ Done
             \/ UNCHANGED vars
      PROVE  UNCHANGED <<file, archives, out, second>>
  BY <1>3 DEF StopRequest, StopNotify, StopJoin, StopFlush, StopClose,
      AcceptTakesOne, ConnectionClosesOne, Done, vars
<1> QED
  BY <1>1, <1>2, <1>3 DEF Next, Writer, Stop, WriteAll, Callers

(* What a line at the end of the output follows.                           *)
LEMMA AppendedIsLast ==
    ASSUME out \in Seq(Lines), NEW l \in Lines, out' = Append(out, l)
    PROVE  /\ \A j, k : Before(j, k) => Before(j, k)'
           /\ \A k \in ToSet(out) : Before(k, l)'
<1>1. /\ DOMAIN out = 1 .. Len(out) /\ DOMAIN out' = 1 .. Len(out) + 1
      /\ Len(out) \in Nat /\ out'[Len(out) + 1] = l
      /\ \A i \in 1 .. Len(out) : out'[i] = out[i]
  OBVIOUS
<1>2. ASSUME NEW j, NEW k, Before(j, k)
      PROVE  Before(j, k)'
  BY <1>1, <1>2 DEF Before
<1>3. ASSUME NEW k \in ToSet(out)
      PROVE  Before(k, l)'
  <2>1. PICK i \in DOMAIN out : out[i] = k
    BY DEF ToSet
  <2>2. /\ i \in DOMAIN out' /\ Len(out) + 1 \in DOMAIN out'
        /\ i < Len(out) + 1 /\ out'[i] = k
    BY <1>1, <2>1
  <2> QED
    BY <1>1, <2>2 DEF Before
<1> QED
  BY <1>2, <1>3

(* Every step keeps what is known of the disk.                             *)
LEMMA NextDiskInv == IInv /\ DiskInv /\ [Next]_vars => DiskInv'
<1> SUFFICES ASSUME IInv, DiskInv, [Next]_vars PROVE DiskInv'
  OBVIOUS
<1>0. /\ archives \in [Seconds -> SUBSET Lines] /\ second \in Seconds
      /\ out \in Seq(Lines) /\ toWrite \in Seq(Lines)
      /\ MaxSecond \in Nat
  BY SizesAssumption DEF IInv, TypeOK
<1>1. ASSUME NEW c \in Callers, NEW moved \in BOOLEAN, NEW opens \in BOOLEAN,
             RollReopen(c, moved, opens)
      PROVE  DiskInv'
  <2>1. /\ archives' = IF moved THEN [archives EXCEPT ![second] = file]
                                ELSE archives
        /\ file' = IF moved \/ opens THEN {} ELSE file
        /\ UNCHANGED <<out, second>>
    BY <1>1 DEF RollReopen, Stamp
  <2>2. \A k, l : Before(k, l)' <=> Before(k, l)
    BY <2>1 DEF Before
  <2>3. CASE ~moved
    <3>1. archives' = archives /\ file' \subseteq file
      BY <2>1, <2>3
    <3> QED
      BY <2>1, <2>2, <3>1 DEF DiskInv, FilesInOrder, Archived
  <2>4. CASE moved
    <3>1. /\ file' = {} /\ archives'[second] = file
          /\ \A s \in Seconds \ {second} : archives'[s] = archives[s]
      BY <1>0, <2>1, <2>4
    <3>2. \A s \in Seconds : s < second \/ s = second \/ second < s
      BY <1>0 DEF Seconds
    <3>3. \A s \in Seconds : second < s => archives'[s] = {}
      BY <1>0, <3>1 DEF DiskInv, Seconds
    <3>4. (file \cup Archived)' \subseteq file \cup Archived
      BY <1>0, <3>1 DEF Archived
    <3>5. ASSUME NEW s \in Seconds, NEW k \in archives'[s],
                 NEW r \in Seconds, s < r, NEW l \in archives'[r]
          PROVE  Before(k, l)
      <4>1. CASE r = second
        <5>1. s # second /\ k \in archives[s] /\ l \in file
          BY <1>0, <3>1, <3>5, <4>1 DEF Seconds
        <5> QED
          BY <5>1 DEF DiskInv, FilesInOrder
      <4>2. CASE r # second
        <5>1. l \in archives[r] /\ r < second
          BY <3>1, <3>2, <3>3, <3>5, <4>2 DEF DiskInv
        <5>2. s # second /\ k \in archives[s]
          BY <1>0, <3>1, <3>5, <5>1 DEF Seconds
        <5> QED
          BY <3>5, <5>1, <5>2 DEF DiskInv, FilesInOrder
      <4> QED
        BY <4>1, <4>2
    <3>6. FilesInOrder'
      BY <2>2, <3>1, <3>5 DEF FilesInOrder
    <3> QED
      BY <2>1, <3>3, <3>4, <3>6 DEF DiskInv
  <2> QED
    BY <2>3, <2>4
<1>2. ASSUME NEW c \in Callers, WriteSome(c)
      PROVE  DiskInv'
  <2>0. PICK l \in Lines : l = Head(toWrite)
    BY <1>0, <1>2 DEF WriteSome
  <2>1. /\ out' = Append(out, l)
        /\ file' \in {file, file \cup {l}}
        /\ UNCHANGED <<archives, second>>
    BY <1>2, <2>0 DEF WriteSome
  <2>3. /\ \A j, k : Before(j, k) => Before(j, k)'
        /\ \A k \in ToSet(out) : Before(k, l)'
        /\ ToSet(out') = ToSet(out) \cup {l}
    BY <1>0, <2>1, AppendedIsLast, ToSetAppend
  <2>4. \A s \in Seconds : archives[s] \subseteq ToSet(out)
    BY DEF DiskInv, Archived
  <2>5. FilesInOrder'
    BY <2>1, <2>3, <2>4 DEF DiskInv, FilesInOrder
  <2> QED
    BY <2>1, <2>3, <2>5 DEF DiskInv, Archived
<1>3. CASE ClockTick
  <2>1. /\ UNCHANGED <<file, archives, out>> /\ second' = second + 1
    BY <1>3 DEF ClockTick, fileVars
  <2>2. \A s \in Seconds : second + 1 < s => second < s
    BY <1>0 DEF Seconds
  <2> QED
    BY <2>1, <2>2 DEF DiskInv, FilesInOrder, Before, Archived
<1>4. CASE UNCHANGED <<file, archives, out, second>>
  BY <1>4 DEF DiskInv, FilesInOrder, Before, Archived
<1> QED
  BY <1>1, <1>2, <1>3, <1>4, DiskSteps

(* Archives read by their stamps, then the file, give the lines in the     *)
(* order they were logged, whichever renames and opens failed.             *)
THEOREM RollsKeepOrder == Spec => []FilesInOrder
<1>1. Init => DiskInv
  BY DEF Init, DiskInv, FilesInOrder, Archived
<1>2. DiskInv => FilesInOrder
  BY DEF DiskInv
<1> QED
  BY <1>1, <1>2, NextDiskInv, IInvariant, PTL DEF Spec

(* rollIfNeeded() takes lines off the disk in two cases only: it replaces  *)
(* the archive of its own second, or rename() failed and open() truncates. *)
THEOREM RollsLoseOnlyThose == Spec => RollsKeepLines
<1> DEFINE Keeps == \A l \in file \cup Archived :
                       \/ l \in (file \cup Archived)'
                       \/ l \in archives[second]
                       \/ l \in file /\ UNCHANGED archives
<1>1. IInv /\ [Next]_vars => [Keeps]_vars
  <2> SUFFICES ASSUME IInv, [Next]_vars PROVE Keeps
    OBVIOUS
  <2>0. archives \in [Seconds -> SUBSET Lines] /\ second \in Seconds
    BY DEF IInv, TypeOK
  <2>1. ASSUME NEW c \in Callers, NEW moved \in BOOLEAN,
               NEW opens \in BOOLEAN, RollReopen(c, moved, opens)
        PROVE  Keeps
    <3>1. archives' = IF moved THEN [archives EXCEPT ![second] = file]
                               ELSE archives
      BY <2>1 DEF RollReopen, Stamp
    <3>2. CASE ~moved
      BY <3>1, <3>2 DEF Archived
    <3>3. CASE moved
      <4>1. /\ archives'[second] = file
            /\ \A s \in Seconds \ {second} : archives'[s] = archives[s]
        BY <2>0, <3>1, <3>3
      <4> QED
        BY <2>0, <4>1 DEF Archived
    <3> QED
      BY <3>2, <3>3
  <2>2. ASSUME NEW c \in Callers, WriteSome(c)
        PROVE  Keeps
    <3>1. file \subseteq file' /\ archives' = archives
      BY <2>2 DEF WriteSome
    <3> QED
      BY <3>1 DEF Archived
  <2>3. CASE ClockTick \/ UNCHANGED <<file, archives, out, second>>
    BY <2>3 DEF ClockTick, fileVars, Archived
  <2> QED
    BY <2>1, <2>2, <2>3, DiskSteps
<1> QED
  BY <1>1, IInvariant, PTL DEF Spec, RollsKeepLines

-----------------------------------------------------------------------------
(* A step that hands current_ over to be written leaves the whole queue as *)
(* it was, because to_write_ was empty by then.                            *)
LEMMA HandOver ==
    ASSUME current \in Seq(Lines), toWrite = <<>>,
           toWrite' = current, current' = <<>>
    PROVE  UNCHANGED (toWrite \o current)
  OBVIOUS

(* Each step of the logger is a step of the abstract queue, or leaves it   *)
(* and the output as they are.                                             *)
LEMMA StepRefines ==
    ASSUME IInv, [Next]_vars
    PROVE  [Q!Next]_<<toWrite \o current, out>>
<1> USE DEF queueVars, fdVars, fileVars, ctlVars
<1>0. current \in Seq(Lines) /\ toWrite \in Seq(Lines)
  BY DEF IInv, TypeOK
<1>1. ASSUME NEW l \in Lines, AppendPush(l)
      PROVE  Q!Accept(l)
  BY <1>0, <1>1, ConcatAppend DEF AppendPush, Q!Accept
<1>2. ASSUME NEW c \in Callers, WriteSome(c)
      PROVE  Q!Emit
  <2>1. /\ toWrite # <<>> /\ toWrite' = Tail(toWrite) /\ current' = current
        /\ out' = Append(out, Head(toWrite))
    BY <1>2 DEF WriteSome
  <2> QED
    BY <1>0, <2>1, ConcatHeadTail DEF Q!Emit
<1>3. ASSUME NEW c \in Callers, WriteFails(c)
      PROVE  \E n \in 1 .. Len(toWrite \o current) : Q!Lose(n)
  <2>1. toWrite # <<>> /\ toWrite' = <<>> /\ current' = current /\ out' = out
    BY <1>3 DEF WriteFails
  <2>2. Len(toWrite) \in 1 .. Len(toWrite \o current)
    BY <1>0, <2>1
  <2>3. toWrite' \o current' = current
    BY <1>0, <2>1
  <2>4. Q!Lose(Len(toWrite))
    BY <1>0, <2>1, <2>3, ConcatDrop DEF Q!Lose
  <2> QED
    BY <2>2, <2>4
<1>4. ASSUME WriterCheck \/ WriterDrain \/ StopFlush
      PROVE  UNCHANGED <<toWrite \o current, out>>
  <2>1. toWrite = <<>>
    BY <1>4 DEF IInv, ControlInv, Writing, WriterCheck, WriterDrain, StopFlush
  <2>2. current \o <<>> = current
    BY <1>0
  <2>3. \/ toWrite' = current /\ current' = <<>>
        \/ UNCHANGED <<toWrite, current>>
    BY <1>4, <2>1, <2>2
       DEF WriterCheck, WriterDrain, StopFlush, FlushTakes
  <2>4. UNCHANGED out
    BY <1>4 DEF WriterCheck, WriterDrain, StopFlush
  <2> QED
    BY <1>0, <2>1, <2>3, <2>4, HandOver
<1>5. ASSUME \/ \E l \in Lines : AppendCheck(l)
             \/ Start \/ WriterBlock \/ WriterTimeout
             \/ \E c \in Callers : RollSkip(c) \/ RollClose(c) \/ WriteDone(c)
             \/ \E c \in Callers, moved, opens \in BOOLEAN :
                    RollReopen(c, moved, opens)
             \/ AcceptTakesOne \/ ConnectionClosesOne
             \/ StopRequest \/ StopNotify \/ StopJoin \/ StopClose
             \/ ClockTick \/ Done \/ UNCHANGED vars
      PROVE  UNCHANGED <<toWrite \o current, out>>
  <2>1. UNCHANGED <<toWrite, current, out>>
    BY <1>5 DEF AppendCheck, Start, WriterBlock, WriterTimeout, RollSkip,
        WriteDone, RollClose, RollReopen, AcceptTakesOne,
        ConnectionClosesOne, StopRequest, StopNotify, StopJoin, StopClose,
        ClockTick, Done, vars
  <2> QED
    BY <2>1
<1> QED
  BY <1>1, <1>2, <1>3, <1>4, <1>5
     DEF Next, Writer, Stop, WriteAll, Callers, Q!Next

(* AsyncLogger implements LogQueue: whatever the swaps, rolls, errors and  *)
(* the last flush do, accepted lines come out once and in order.           *)
THEOREM ImplementsLogQueue == Spec => IsLogQueue
<1>1. Init => Q!Init
  BY DEF Init, Q!Init
<1>2. IInv /\ [Next]_vars => [Q!Next]_<<toWrite \o current, out>>
  BY StepRefines
<1> QED
  BY <1>1, <1>2, IInvariant, PTL DEF Spec, IsLogQueue, Q!Spec

=============================================================================
