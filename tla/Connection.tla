---------------------------- MODULE Connection ----------------------------
(***************************************************************************)
(* One Connection of ws-server: its edge-triggered epoll registration, the *)
(* read loop, the request loop with pipelining, the write path that arms   *)
(* and disarms EPOLLOUT, and the closing of the socket, interleaved with a *)
(* peer that sends, reads, half-closes and resets at any moment, in the    *)
(* middle of a handler too.                                                *)
(*                                                                         *)
(* Bytes are counted, not spelled: a request is two units (its first line, *)
(* the rest) and so is a response.  Units move through the kernel's        *)
(* receive queue, input_, the parser; output_, the kernel's send queue,    *)
(* the peer; each place holds the difference of two running totals.        *)
(***************************************************************************)
EXTENDS Integers, FiniteSets

CONSTANTS
    NRequests,        \* bound: how many requests the peer sends
    SndBuf            \* units the kernel's send queue holds

ASSUME NRequestsAssumption == NRequests \in Nat
ASSUME SndBufAssumption == SndBuf \in Nat \ {0}

Requests == 1 .. NRequests
Kinds == {"keep", "close", "bad"}  \* keepAlive(), not keepAlive(), malformed
Size == 2                          \* units of a request and of a response

VARIABLES
    kind,             \* what the peer's requests are
    nSent,            \* units the peer has sent
    fin,              \* the peer has shut down its sending side
    reset,            \* the peer has reset the connection
    nRead,            \* units read into input_
    nParsed,          \* units the parser has consumed
    parserError,      \* parser_ is in State::ERROR
    nProduced,        \* units appended to output_
    nWritten,         \* units write() has taken
    nDelivered,       \* units the peer has read
    ready,            \* the fd is on its epoll's ready list
    nospace,          \* the kernel owes a writability callback (SOCK_NOSPACE)
    interestOut,      \* EPOLLOUT is in the fd's epoll registration
    writing,          \* Connection::writing_
    keepAlive,        \* Connection::keep_alive_
    closeAfterWrite,  \* Connection::close_after_write_
    closed,           \* Connection::closed_ (fd_ = -1 with it)
    why,              \* what closed the connection (for the properties)
    outEvent,         \* the event in hand has EPOLLOUT
    after,            \* where handleWrite() returns to
    pc

peerVars == <<kind, nSent, fin, reset, nDelivered>>
epollVars == <<ready, nospace, interestOut>>
inVars == <<nRead, nParsed, parserError>>
outVars == <<nProduced, nWritten, writing>>
flagVars == <<keepAlive, closeAfterWrite, closed, why>>
ctlVars == <<outEvent, after, pc>>
vars == <<peerVars, epollVars, inVars, outVars, flagVars, ctlVars>>

RcvQueue == nSent - nRead
Input == nRead - nParsed
Output == nProduced - nWritten
SndQueue == nWritten - nDelivered

Readable == RcvQueue > 0 \/ fin \/ reset
Writable == SndQueue < SndBuf \/ reset

(* attachConnection() has just registered the fd with                      *)
(* EPOLLIN | EPOLLET | EPOLLRDHUP; nothing has arrived yet.                *)
Init ==
    /\ kind \in [Requests -> Kinds]
    /\ nSent = 0 /\ nRead = 0 /\ nParsed = 0
    /\ nProduced = 0 /\ nWritten = 0 /\ nDelivered = 0
    /\ fin = FALSE /\ reset = FALSE /\ parserError = FALSE
    /\ ready = FALSE /\ nospace = FALSE /\ interestOut = FALSE
    /\ writing = FALSE /\ keepAlive = TRUE /\ closeAfterWrite = FALSE
    /\ closed = FALSE /\ why = "open"
    /\ outEvent = FALSE /\ after = "event" /\ pc = "idle"

-----------------------------------------------------------------------------
(* The peer and the kernel.  A callback of the socket puts a registered fd *)
(* on the ready list; one for free send space only if the kernel owes it,  *)
(* and only to a registration that asks for EPOLLOUT.                      *)
Notify == ready' = (ready \/ ~closed)

PeerSend ==
    /\ nSent < Size * NRequests
    /\ ~fin /\ ~reset
    /\ nSent' = nSent + 1
    /\ Notify
    /\ UNCHANGED <<kind, fin, reset, nDelivered, nospace, interestOut, inVars,
                   outVars, flagVars, ctlVars>>

PeerFin ==
    /\ ~fin /\ ~reset
    /\ fin' = TRUE
    /\ Notify
    /\ UNCHANGED <<kind, nSent, reset, nDelivered, nospace, interestOut,
                   inVars, outVars, flagVars, ctlVars>>

PeerReset ==
    /\ ~reset
    /\ reset' = TRUE
    /\ Notify
    /\ UNCHANGED <<kind, nSent, fin, nDelivered, nospace, interestOut, inVars,
                   outVars, flagVars, ctlVars>>

PeerRead ==
    /\ SndQueue > 0
    /\ ~reset
    /\ nDelivered' = nDelivered + 1
    /\ nospace' = FALSE
    /\ ready' = (ready \/ (nospace /\ interestOut /\ ~closed))
    /\ UNCHANGED <<kind, nSent, fin, reset, interestOut, inVars, outVars,
                   flagVars, ctlVars>>

(* epoll_ctl(MOD) and epoll_wait poll the socket; a poll that finds no     *)
(* send space asks for the callback.                                       *)
PollNospace == nospace \/ ~Writable

-----------------------------------------------------------------------------
(* Connection::close().                                                    *)
Close(reason) ==
    /\ closed' = TRUE
    /\ why' = reason
    /\ ready' = FALSE
    /\ interestOut' = FALSE

(* The idle timer closes the connection between two events.                *)
IdleTimeout ==
    /\ pc = "idle"
    /\ ~closed
    /\ Close("idle")
    /\ UNCHANGED <<peerVars, nospace, inVars, outVars, keepAlive,
                   closeAfterWrite, ctlVars>>

(* EventLoop::loop(), the events of one connection: HUP or ERR is          *)
(* handleError(), otherwise IN or RDHUP is handleRead() and then, if the   *)
(* connection is still open, OUT is handleWrite().                         *)
Dispatch ==
    /\ pc = "idle"
    /\ ready
    /\ nospace' = PollNospace
    /\ IF reset
       THEN /\ Close("error")
            /\ UNCHANGED ctlVars
       ELSE /\ ready' = FALSE
            /\ LET out == interestOut /\ Writable
               IN  /\ outEvent' = (Readable /\ out)
                   /\ pc' = IF Readable THEN "read"
                            ELSE IF out THEN "write" ELSE "idle"
            /\ after' = "event"
            /\ UNCHANGED <<interestOut, closed, why>>
    /\ UNCHANGED <<peerVars, inVars, outVars, keepAlive, closeAfterWrite>>

(* handleRead(): one readFd() per step.  The loop is left on EAGAIN only,  *)
(* so a short read reads again; 0 is the peer's FIN.                       *)
ReadsAgain_Once(n) == FALSE
ReadsAgain(n) == n > 0

ReadSome(n) ==
    /\ pc = "read"
    /\ n \in 1 .. RcvQueue
    /\ nRead' = nRead + n
    /\ pc' = IF ReadsAgain(n) THEN "read" ELSE "parse"
    /\ UNCHANGED <<peerVars, epollVars, nParsed, parserError, outVars,
                   flagVars, outEvent, after>>

ReadEnd ==
    /\ pc = "read"
    /\ RcvQueue = 0
    /\ ~reset
    /\ IF fin
       THEN /\ Close("fin")
            /\ pc' = "finish"
       ELSE /\ pc' = "parse"
            /\ UNCHANGED <<ready, interestOut, closed, why>>
    /\ UNCHANGED <<peerVars, nospace, inVars, outVars, keepAlive,
                   closeAfterWrite, outEvent, after>>

ReadError ==
    /\ pc = "read"
    /\ reset
    /\ Close("error")
    /\ pc' = "finish"
    /\ UNCHANGED <<peerVars, nospace, inVars, outVars, keepAlive,
                   closeAfterWrite, outEvent, after>>

-----------------------------------------------------------------------------
(* handleRequest(): one turn of its loop, up to the call of handleWrite()  *)
(* in send().  The parser keeps a consumed first line, stops at the first  *)
(* malformed one, and answers ERROR from then on.                          *)
Current == nParsed \div Size + 1
Complete == nRead >= Size * Current
Malformed == parserError \/ (Input > 0 /\ kind[Current] = "bad")

ParseIncomplete ==
    /\ pc = "parse"
    /\ ~Malformed
    /\ ~Complete
    /\ nParsed' = nRead
    /\ pc' = "finish"
    /\ UNCHANGED <<peerVars, epollVars, nRead, parserError, outVars, flagVars,
                   outEvent, after>>

(* send(): nothing once closed; otherwise append and try to write.         *)
SendSkips_Never == FALSE
SendSkips == closed

Send(next, skipTo) ==
    IF SendSkips
    THEN /\ pc' = skipTo
         /\ UNCHANGED <<nProduced, after>>
    ELSE /\ nProduced' = nProduced + Size
         /\ pc' = "write"
         /\ after' = next

ParseError ==
    /\ pc = "parse"
    /\ Malformed
    /\ parserError' = TRUE
    /\ closeAfterWrite' = TRUE
    /\ keepAlive' = FALSE
    /\ Send("finish", "finish")
    /\ UNCHANGED <<peerVars, epollVars, nRead, nParsed, nWritten, writing,
                   closed, why, outEvent>>

ParseOk ==
    /\ pc = "parse"
    /\ ~Malformed
    /\ Complete
    /\ nParsed' = Size * Current
    /\ keepAlive' = (kind[Current] = "keep")
    /\ closeAfterWrite' = (closeAfterWrite \/ ~keepAlive')
    /\ Send("sent", "sent")
    /\ UNCHANGED <<peerVars, epollVars, nRead, parserError, nWritten, writing,
                   closed, why, outEvent>>

(* After send(): leave on close, leave when input_ is used up, else parse  *)
(* the next pipelined request.                                             *)
LeavesLoop_Always == TRUE
LeavesLoop == ~keepAlive \/ Input = 0

Sent ==
    /\ pc = "sent"
    /\ pc' = IF LeavesLoop THEN "finish" ELSE "parse"
    /\ UNCHANGED <<peerVars, epollVars, inVars, outVars, flagVars, outEvent,
                   after>>

(* handleRead() has returned: EPOLLOUT of the same event, if still open.   *)
Finish ==
    /\ pc = "finish"
    /\ IF outEvent /\ ~closed
       THEN pc' = "write" /\ after' = "event"
       ELSE pc' = "idle" /\ UNCHANGED after
    /\ outEvent' = FALSE
    /\ UNCHANGED <<peerVars, epollVars, inVars, outVars, flagVars>>

-----------------------------------------------------------------------------
(* handleWrite(): one write() with all of output_, then epoll_ctl.         *)
ReturnTo == IF after = "event" THEN "idle" ELSE after

(* write() takes what fits; what does not fit makes the kernel owe a       *)
(* callback.  EAGAIN is the case where nothing fits.                       *)
WriteSome ==
    /\ pc = "write"
    /\ ~(reset /\ Output > 0)
    /\ LET room == SndBuf - SndQueue
           n == IF Output <= room THEN Output ELSE room
       IN  /\ nWritten' = nWritten + n
           /\ nospace' = (nospace \/ n < Output)
    /\ pc' = "arm"
    /\ UNCHANGED <<peerVars, ready, interestOut, inVars, nProduced, writing,
                   flagVars, outEvent, after>>

(* EPIPE, ECONNRESET: handleError().  EINTR, on which handleWrite()        *)
(* returns, is not among what Linux gives a nonblocking socket's write().  *)
WriteError ==
    /\ pc = "write"
    /\ reset
    /\ Output > 0
    /\ Close("error")
    /\ pc' = ReturnTo
    /\ UNCHANGED <<peerVars, nospace, inVars, outVars, keepAlive,
                   closeAfterWrite, outEvent, after>>

(* enableWriting(on): epoll_ctl(MOD) puts the fd on the ready list if what *)
(* it asks for is there already, so space that came free between write()   *)
(* and epoll_ctl() is not missed.                                          *)
EnableWriting(on) ==
    /\ writing' = on
    /\ interestOut' = on
    /\ nospace' = PollNospace
    /\ ready' = (ready \/ Readable \/ (on /\ Writable))

(* The rest of handleWrite(): output_ drained, or EPOLLOUT wanted.         *)
WantsOut_Never == FALSE
WantsOut == Output > 0 /\ ~writing

Disarms_Never == FALSE
Disarms == Output = 0 /\ writing

ClosesNow_Never == FALSE
ClosesNow_Undrained == closeAfterWrite
ClosesNow == closeAfterWrite /\ Output = 0

Arm ==
    /\ pc = "arm"
    /\ pc' = ReturnTo
    /\ IF ClosesNow
       THEN /\ Close("done")
            /\ writing' = FALSE
            /\ UNCHANGED nospace
       ELSE /\ IF Disarms THEN EnableWriting(FALSE)
               ELSE IF WantsOut THEN EnableWriting(TRUE)
               ELSE UNCHANGED <<writing, interestOut, nospace, ready>>
            /\ UNCHANGED <<closed, why>>
    /\ UNCHANGED <<peerVars, inVars, nProduced, nWritten, keepAlive,
                   closeAfterWrite, outEvent, after>>

-----------------------------------------------------------------------------
(* Both sides are done: the connection is closed and nothing is left.      *)
Over ==
    /\ closed /\ pc = "idle"
    /\ UNCHANGED vars

Peer == PeerSend \/ PeerFin \/ PeerReset
Loop ==
    \/ Dispatch
    \/ ReadEnd \/ ReadError \/ \E n \in 1 .. Size * NRequests : ReadSome(n)
    \/ ParseIncomplete \/ ParseError \/ ParseOk \/ Sent \/ Finish
    \/ WriteSome \/ WriteError \/ Arm

Next == Peer \/ PeerRead \/ Loop \/ IdleTimeout \/ Over

Spec == Init /\ [][Next]_vars

(* The loop thread runs, and the peer reads what reaches it; it need not   *)
(* send, and no timer need fire.                                           *)
FairSpec == Spec /\ WF_vars(Loop) /\ WF_vars(PeerRead)

-----------------------------------------------------------------------------
(* Every place holds a non-negative number of units, the send queue no     *)
(* more than its capacity, and control is at a place the code has.         *)
TypeOK ==
    /\ kind \in [Requests -> Kinds]
    /\ {nSent, nRead, nParsed, nProduced, nWritten, nDelivered} \subseteq Nat
    /\ nParsed <= nRead /\ nRead <= nSent /\ nSent <= Size * NRequests
    /\ nDelivered <= nWritten /\ nWritten <= nProduced
    /\ SndQueue <= SndBuf
    /\ {fin, reset, parserError, ready, nospace, interestOut, writing,
        keepAlive, closeAfterWrite, closed, outEvent} \subseteq BOOLEAN
    /\ why \in {"open", "idle", "error", "fin", "done"}
    /\ after \in {"event", "sent", "finish"}
    /\ pc \in {"idle", "read", "parse", "sent", "finish", "write", "arm"}

(* Edge triggering never strands input: when the loop goes back to wait    *)
(* while bytes or a FIN sit in the socket, the fd is on the ready list     *)
(* (handleRead reads until EAGAIN).                                        *)
NoStrandedInput == pc = "idle" /\ ~closed /\ Readable => ready

(* Nor is a request stranded in input_: a whole request that was read is   *)
(* served before the loop waits again, unless the connection is to close.  *)
NoStrandedRequest ==
    pc = "idle" /\ ~closed /\ Complete => closeAfterWrite

(* Nor is output stranded: when the loop waits with bytes in output_,      *)
(* EPOLLOUT is registered, and an event is queued or the kernel owes one   *)
(* (the peer's reading may free space between write() and epoll_ctl()).    *)
NoStuckOutput ==
    pc = "idle" /\ ~closed /\ Output > 0 =>
        /\ interestOut
        /\ ready \/ (nospace /\ ~Writable)

(* A connection that is to close after its response is closed when the     *)
(* response is out, not before and not never: the orderly close leaves no  *)
(* output behind, and the loop never waits with nothing left to write.     *)
CloseAfterDrain ==
    /\ why = "done" => Output = 0
    /\ pc = "idle" /\ ~closed /\ closeAfterWrite => Output > 0

(* writing_ and the epoll registration never disagree, and EPOLLOUT is     *)
(* registered only while there is output to wait for (the ET socket would  *)
(* otherwise wake the loop for nothing).                                   *)
RegistrationMatches ==
    pc = "idle" /\ ~closed =>
        (writing <=> interestOut) /\ (writing => Output > 0)

(* After close() nothing touches the fd or the buffers behind it, although *)
(* the request loop may go on over pipelined requests.                     *)
ClosedIsFinal ==
    [][closed => closed' /\ UNCHANGED <<nRead, nProduced, nWritten, why,
                                        interestOut>>]_vars

(* Every request that arrives whole is answered, to the last unit, or the  *)
(* connection is closed.                                                   *)
AnsweredOrClosed ==
    \A i \in Requests :
        nSent >= Size * i ~> nDelivered >= Size * i \/ closed

(* Once a response said Connection: close, the connection does close.      *)
CloseHappens == closeAfterWrite ~> closed

=============================================================================
