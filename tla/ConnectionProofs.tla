------------------------- MODULE ConnectionProofs -------------------------
(***************************************************************************)
(* Theorems about Connection, for any number of requests of any kind, any  *)
(* send buffer and any peer.                                               *)
(***************************************************************************)
EXTENDS Connection, TLAPS

(* A closed connection is in no handler that uses its socket, and on no    *)
(* ready list; why says what closed it.                                    *)
ClosedInv ==
    /\ pc \in {"read", "write", "arm"} => ~closed
    /\ ready => ~closed
    /\ closed <=> why # "open"

(* Nothing is left in the socket without an event once handleRead() has    *)
(* read until EAGAIN.                                                      *)
InputInv == pc # "read" /\ ~closed /\ Readable => ready

(* Where handleRequest() has returned, or will without another turn.       *)
Served ==
    \/ pc \in {"idle", "finish"}
    \/ pc \in {"write", "arm"} /\ after # "sent"

RequestInv ==
    /\ ~keepAlive => closeAfterWrite
    /\ Served /\ ~closed /\ Complete => closeAfterWrite

(* Something brings handleWrite() back: a queued event, the kernel's       *)
(* callback, or the event in hand.                                         *)
Called == ready \/ (nospace /\ ~Writable)

OutputInv ==
    /\ pc \notin {"write", "arm"} /\ ~closed /\ Output > 0 =>
           interestOut /\ (Called \/ (pc # "idle" /\ outEvent))
    /\ pc = "arm" /\ Output > 0 /\ writing => Called

(* writing_, the registration and the output.                              *)
ArmedInv ==
    /\ ~closed => (writing <=> interestOut)
    /\ pc # "arm" /\ ~closed /\ writing => Output > 0

CloseInv ==
    /\ why = "done" => Output = 0
    /\ pc \notin {"write", "arm"} /\ ~closed /\ closeAfterWrite => Output > 0

IInv ==
    /\ TypeOK /\ ClosedInv /\ InputInv /\ RequestInv /\ OutputInv /\ ArmedInv
    /\ CloseInv

-----------------------------------------------------------------------------
(* A connection just attached satisfies the invariant.                      *)
LEMMA InitIInv == Init => IInv
<1> SUFFICES ASSUME Init PROVE IInv
  OBVIOUS
<1> USE NRequestsAssumption, SndBufAssumption DEF Init, Size
<1>1. TypeOK
  <2>1. {fin, reset, parserError, ready, nospace, interestOut, writing,
         keepAlive, closeAfterWrite, closed, outEvent} \subseteq BOOLEAN
    BY Zenon
  <2>2. /\ kind \in [Requests -> Kinds]
        /\ why = "open" /\ after = "event" /\ pc = "idle"
    OBVIOUS
  <2> QED
    BY <2>1, <2>2 DEF TypeOK, SndQueue
<1>2. ClosedInv /\ InputInv /\ RequestInv
  BY DEF ClosedInv, InputInv, RequestInv, Readable, RcvQueue, Complete, Current
<1>3. OutputInv /\ ArmedInv /\ CloseInv
  BY DEF OutputInv, ArmedInv, CloseInv, Output
<1> QED
  BY <1>1, <1>2, <1>3 DEF IInv

(* Every step of the handlers, the kernel and the peer keeps it.            *)
LEMMA NextIInv == IInv /\ [Next]_vars => IInv'
<1> SUFFICES ASSUME IInv, [Next]_vars PROVE IInv'
  OBVIOUS
<1> /\ TypeOK /\ ClosedInv /\ InputInv /\ RequestInv /\ OutputInv
    /\ ArmedInv /\ CloseInv
  BY DEF IInv
<1> USE NRequestsAssumption, SndBufAssumption
    DEF peerVars, epollVars, inVars, outVars, flagVars, ctlVars, Size
<1>1. CASE PeerSend
  BY <1>1 DEF PeerSend, Notify, IInv, TypeOK, Output, SndQueue, RcvQueue,
      ClosedInv, InputInv, Readable, RequestInv, Served, Complete, Current,
      OutputInv, Called, Writable, ArmedInv, CloseInv
<1>2. CASE PeerFin
  BY <1>2 DEF PeerFin, Notify, IInv, TypeOK, Output, SndQueue, RcvQueue,
      ClosedInv, InputInv, Readable, RequestInv, Served, Complete, Current,
      OutputInv, Called, Writable, ArmedInv, CloseInv
<1>3. CASE PeerReset
  BY <1>3 DEF PeerReset, Notify, IInv, TypeOK, Output, SndQueue, RcvQueue,
      ClosedInv, InputInv, Readable, RequestInv, Served, Complete, Current,
      OutputInv, Called, Writable, ArmedInv, CloseInv
<1>4. CASE PeerRead
  <2>1. TypeOK'
    <3>1. ready' \in BOOLEAN /\ nospace' \in BOOLEAN
      BY <1>4 DEF PeerRead
    <3>2. /\ nDelivered' = nDelivered + 1 /\ SndQueue > 0
          /\ UNCHANGED <<kind, nSent, fin, reset, interestOut, inVars, outVars,
                         flagVars, ctlVars>>
      BY <1>4 DEF PeerRead
    <3> QED
      BY <3>1, <3>2 DEF TypeOK, SndQueue
  <2>2. ClosedInv' /\ InputInv' /\ RequestInv' /\ ArmedInv' /\ CloseInv'
    BY <1>4 DEF PeerRead, ClosedInv, InputInv, Readable, RcvQueue, RequestInv,
        Served, Complete, Current, ArmedInv, Output, CloseInv, TypeOK
  <2>3. OutputInv'
    BY <1>4 DEF PeerRead, OutputInv, Called, Output, Writable, SndQueue,
        TypeOK, ClosedInv, ArmedInv
  <2> QED
    BY <2>1, <2>2, <2>3 DEF IInv
<1>5. CASE Dispatch
  <2>1. TypeOK'
    BY <1>5 DEF Dispatch, Close, PollNospace, Writable, Readable, TypeOK,
        Output, SndQueue, RcvQueue, ClosedInv
  <2>2. ClosedInv' /\ InputInv' /\ RequestInv'
    BY <1>5 DEF Dispatch, Close, PollNospace, Writable, Readable, ClosedInv,
        InputInv, RcvQueue, RequestInv, Served, Complete, Current, TypeOK
  <2>3. OutputInv' /\ ArmedInv' /\ CloseInv'
    BY <1>5 DEF Dispatch, Close, PollNospace, Writable, Readable, OutputInv,
        Called, Output, SndQueue, ArmedInv, CloseInv, TypeOK, ClosedInv
  <2> QED
    BY <2>1, <2>2, <2>3 DEF IInv
<1>6. CASE \E n \in 1 .. Size * NRequests : ReadSome(n)
  <2>1. TypeOK'
    BY <1>6 DEF ReadSome, ReadsAgain, TypeOK, Output, SndQueue, RcvQueue,
        ClosedInv
  <2>2. ClosedInv' /\ InputInv' /\ RequestInv'
    BY <1>6 DEF ReadSome, ReadsAgain, ClosedInv, InputInv, Readable, RcvQueue,
        RequestInv, Served, Complete, Current, TypeOK
  <2>3. OutputInv' /\ ArmedInv' /\ CloseInv'
    BY <1>6 DEF ReadSome, ReadsAgain, OutputInv, Called, Output, Writable,
        SndQueue, ArmedInv, CloseInv, TypeOK, ClosedInv
  <2> QED
    BY <2>1, <2>2, <2>3 DEF IInv
<1>7. CASE ReadEnd
  <2>1. TypeOK'
    BY <1>7 DEF ReadEnd, Close, TypeOK, Output, SndQueue, RcvQueue, ClosedInv
  <2>2. ClosedInv' /\ InputInv' /\ RequestInv'
    BY <1>7 DEF ReadEnd, Close, ClosedInv, InputInv, Readable, RcvQueue,
        RequestInv, Served, Complete, Current, TypeOK
  <2>3. OutputInv' /\ ArmedInv' /\ CloseInv'
    BY <1>7 DEF ReadEnd, Close, OutputInv, Called, Output, Writable, SndQueue,
        ArmedInv, CloseInv, TypeOK, ClosedInv
  <2> QED
    BY <2>1, <2>2, <2>3 DEF IInv
<1>8. CASE ReadError
  BY <1>8 DEF ReadError, Close, IInv, TypeOK, Output, SndQueue, RcvQueue,
      ClosedInv, InputInv, Readable, RequestInv, Served, Complete, Current,
      OutputInv, Called, Writable, ArmedInv, CloseInv
<1>9. CASE ParseIncomplete
  <2>1. TypeOK'
    BY <1>9 DEF ParseIncomplete, Complete, Current, TypeOK, Output, SndQueue,
        RcvQueue, ClosedInv
  <2>2. ClosedInv' /\ InputInv' /\ RequestInv'
    BY <1>9 DEF ParseIncomplete, Complete, Current, ClosedInv, InputInv,
        Readable, RcvQueue, RequestInv, Served, TypeOK
  <2>3. OutputInv' /\ ArmedInv' /\ CloseInv'
    BY <1>9 DEF ParseIncomplete, Complete, Current, OutputInv, Called, Output,
        Writable, SndQueue, ArmedInv, CloseInv, TypeOK, ClosedInv
  <2> QED
    BY <2>1, <2>2, <2>3 DEF IInv
<1>10. CASE ParseError
  <2>1. TypeOK'
    <3>1. CASE closed
      BY <1>10, <3>1 DEF ParseError, Send, SendSkips, TypeOK, SndQueue
    <3>2. CASE ~closed
      <4>1. /\ nProduced' = nProduced + 2 /\ pc' = "write" /\ after' = "finish"
            /\ parserError' \in BOOLEAN /\ closeAfterWrite' \in BOOLEAN
            /\ keepAlive' \in BOOLEAN
            /\ UNCHANGED <<peerVars, epollVars, nRead, nParsed, nWritten,
                           writing, closed, why, outEvent>>
        BY <1>10, <3>2 DEF ParseError, Send, SendSkips
      <4> QED
        BY <4>1 DEF TypeOK, SndQueue
    <3> QED
      BY <3>1, <3>2
  <2>2. ClosedInv' /\ InputInv' /\ RequestInv'
    BY <1>10 DEF ParseError, Send, SendSkips, ClosedInv, InputInv, Readable,
        RcvQueue, RequestInv, Served, Complete, Current, TypeOK
  <2>3. OutputInv' /\ ArmedInv' /\ CloseInv'
    BY <1>10 DEF ParseError, Send, SendSkips, OutputInv, Called, Output,
        Writable, SndQueue, ArmedInv, CloseInv, TypeOK, ClosedInv
  <2> QED
    BY <2>1, <2>2, <2>3 DEF IInv
<1>11. CASE ParseOk
  <2>1. TypeOK'
    BY <1>11 DEF ParseOk, Send, SendSkips, Complete, Current, TypeOK, Output,
        SndQueue, RcvQueue, ClosedInv
  <2>2. ClosedInv' /\ InputInv' /\ RequestInv'
    BY <1>11 DEF ParseOk, Send, SendSkips, Complete, Current, ClosedInv,
        InputInv, Readable, RcvQueue, RequestInv, Served, TypeOK
  <2>3. OutputInv' /\ ArmedInv' /\ CloseInv'
    BY <1>11 DEF ParseOk, Send, SendSkips, Complete, Current, OutputInv,
        Called, Output, Writable, SndQueue, ArmedInv, CloseInv, TypeOK,
        ClosedInv
  <2> QED
    BY <2>1, <2>2, <2>3 DEF IInv
<1>12. CASE Sent
  BY <1>12 DEF Sent, LeavesLoop, Input, IInv, TypeOK, Output, SndQueue,
      RcvQueue, ClosedInv, InputInv, Readable, RequestInv, Served, Complete,
      Current, OutputInv, Called, Writable, ArmedInv, CloseInv
<1>13. CASE Finish
  BY <1>13 DEF Finish, IInv, TypeOK, Output, SndQueue, RcvQueue, ClosedInv,
      InputInv, Readable, RequestInv, Served, Complete, Current, OutputInv,
      Called, Writable, ArmedInv, CloseInv
<1>14. CASE WriteSome
  <2>1. TypeOK'
    BY <1>14 DEF WriteSome, TypeOK, Output, SndQueue, RcvQueue, ClosedInv
  <2>2. ClosedInv' /\ InputInv' /\ RequestInv'
    BY <1>14 DEF WriteSome, ClosedInv, InputInv, Readable, RcvQueue,
        RequestInv, Served, Complete, Current, TypeOK
  <2>3. OutputInv' /\ ArmedInv' /\ CloseInv'
    BY <1>14 DEF WriteSome, OutputInv, Called, Output, Writable, SndQueue,
        ArmedInv, CloseInv, TypeOK, ClosedInv
  <2> QED
    BY <2>1, <2>2, <2>3 DEF IInv
<1>15. CASE WriteError
  <2>1. TypeOK'
    BY <1>15 DEF WriteError, Close, ReturnTo, TypeOK, Output, SndQueue,
        RcvQueue, ClosedInv
  <2>2. ClosedInv' /\ InputInv' /\ RequestInv'
    BY <1>15 DEF WriteError, Close, ReturnTo, ClosedInv, InputInv, Readable,
        RcvQueue, RequestInv, Served, Complete, Current, TypeOK
  <2>3. OutputInv' /\ ArmedInv' /\ CloseInv'
    BY <1>15 DEF WriteError, Close, ReturnTo, OutputInv, Called, Output,
        Writable, SndQueue, ArmedInv, CloseInv, TypeOK, ClosedInv
  <2> QED
    BY <2>1, <2>2, <2>3 DEF IInv
<1>16. CASE Arm
  <2>1. TypeOK'
    BY <1>16, ZenonT(60) DEF Arm, Close, ClosesNow, Disarms, WantsOut, EnableWriting,
        PollNospace, ReturnTo, Readable, TypeOK, Output, SndQueue, RcvQueue,
        ClosedInv
  <2>2. ClosedInv' /\ InputInv' /\ RequestInv'
    BY <1>16 DEF Arm, Close, ClosesNow, Disarms, WantsOut, EnableWriting,
        PollNospace, ReturnTo, Readable, ClosedInv, InputInv, RcvQueue,
        RequestInv, Served, Complete, Current, TypeOK
  <2>3. OutputInv'
    <3>1. CASE ClosesNow
      BY <1>16, <3>1 DEF Arm, Close, ReturnTo, OutputInv, TypeOK
    <3>2. CASE ~ClosesNow /\ Disarms
      BY <1>16, <3>2 DEF Arm, Disarms, EnableWriting, ReturnTo, OutputInv,
          Output, TypeOK
    <3>3. CASE ~ClosesNow /\ ~Disarms /\ WantsOut
      BY <1>16, <3>3 DEF Arm, WantsOut, EnableWriting, PollNospace, ReturnTo,
          OutputInv, Called, Output, Writable, SndQueue, TypeOK
    <3>4. CASE ~ClosesNow /\ ~Disarms /\ ~WantsOut
      BY <1>16, <3>4 DEF Arm, Disarms, WantsOut, ReturnTo, OutputInv, Called,
          ArmedInv, ClosedInv, Output, Writable, SndQueue, TypeOK
    <3> QED
      BY <3>1, <3>2, <3>3, <3>4
  <2>4. ArmedInv' /\ CloseInv'
    BY <1>16 DEF Arm, Close, ClosesNow, Disarms, WantsOut, EnableWriting,
        PollNospace, ReturnTo, Readable, ArmedInv, Output, CloseInv, TypeOK,
        ClosedInv
  <2> QED
    BY <2>1, <2>2, <2>3, <2>4 DEF IInv
<1>17. CASE IdleTimeout
  BY <1>17 DEF IdleTimeout, Close, IInv, TypeOK, Output, SndQueue, RcvQueue,
      ClosedInv, InputInv, Readable, RequestInv, Served, Complete, Current,
      OutputInv, Called, Writable, ArmedInv, CloseInv
<1>18. CASE Over \/ UNCHANGED vars
  BY <1>18 DEF Over, vars, IInv, TypeOK, Output, SndQueue, RcvQueue,
      ClosedInv, InputInv, Readable, RequestInv, Served, Complete, Current,
      OutputInv, Called, Writable, ArmedInv, CloseInv
<1> QED
  BY <1>1, <1>2, <1>3, <1>4, <1>5, <1>6, <1>7, <1>8, <1>9, <1>10, <1>11,
     <1>12, <1>13, <1>14, <1>15, <1>16, <1>17, <1>18
     DEF Next, Peer, Loop

-----------------------------------------------------------------------------
(* IInv always holds.                                                      *)
THEOREM IInvariant == Spec => []IInv
  BY InitIInv, NextIInv, PTL DEF Spec

(* Types; every place between the peer and the handlers holds what went in *)
(* and has not come out.                                                   *)
THEOREM TypeCorrect == Spec => []TypeOK
  BY IInvariant, PTL DEF IInv

(* Edge-triggered reading leaves no input without an event (handleRead).   *)
THEOREM InputIsSeen == Spec => []NoStrandedInput
  <1>1. IInv => NoStrandedInput
    BY DEF IInv, InputInv, NoStrandedInput
  <1> QED
    BY <1>1, IInvariant, PTL

(* No whole request waits in input_ for an event that need not come        *)
(* (handleRequest).                                                        *)
THEOREM RequestsAreServed == Spec => []NoStrandedRequest
  <1>1. IInv => NoStrandedRequest
    BY DEF IInv, RequestInv, Served, NoStrandedRequest
  <1> QED
    BY <1>1, IInvariant, PTL

(* Output that did not fit has EPOLLOUT armed and an event to come         *)
(* (handleWrite, enableWriting).                                           *)
THEOREM OutputIsCalledFor == Spec => []NoStuckOutput
  <1>1. IInv => NoStuckOutput
    BY DEF IInv, OutputInv, Called, NoStuckOutput
  <1> QED
    BY <1>1, IInvariant, PTL

(* The orderly close comes with the last unit of output, not before it and *)
(* not later.                                                              *)
THEOREM ClosesWhenDrained == Spec => []CloseAfterDrain
  <1>1. IInv => CloseAfterDrain
    BY DEF IInv, CloseInv, CloseAfterDrain
  <1> QED
    BY <1>1, IInvariant, PTL

(* writing_, the registration and the presence of output agree.            *)
THEOREM RegistrationIsRight == Spec => []RegistrationMatches
  <1>1. IInv => RegistrationMatches
    BY DEF IInv, ArmedInv, RegistrationMatches
  <1> QED
    BY <1>1, IInvariant, PTL

(* close() is final: no handler still on the stack reads, appends, writes  *)
(* or registers after it.                                                  *)
THEOREM ClosingIsFinal == Spec => ClosedIsFinal
  <1>1. ASSUME IInv, closed, [Next]_vars
        PROVE  closed' /\ UNCHANGED <<nRead, nProduced, nWritten, why, interestOut>>
    <2>1. /\ pc \notin {"read", "write", "arm"}
          /\ ~ready
      BY <1>1 DEF IInv, ClosedInv
    <2> QED
      BY <1>1, <2>1
      DEF Next, Peer, Loop, PeerSend, PeerFin, PeerReset, PeerRead, Dispatch,
          ReadEnd, ReadError, ReadSome, ParseIncomplete, ParseError, ParseOk,
          Send, SendSkips, Sent, Finish, WriteSome, WriteError, Arm,
          IdleTimeout, Over, vars, peerVars, epollVars, inVars, outVars,
          flagVars, ctlVars
  <1>2. IInv /\ [Next]_vars =>
            [closed => /\ closed'
                       /\ UNCHANGED <<nRead, nProduced, nWritten, why,
                                      interestOut>>]_vars
    BY <1>1
  <1> QED
    BY <1>2, IInvariant, PTL DEF Spec, ClosedIsFinal

=============================================================================
