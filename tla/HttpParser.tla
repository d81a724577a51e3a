---------------------------- MODULE HttpParser ----------------------------
(***************************************************************************)
(* The incremental HTTP/1.1 parser of a connection (class HttpParser) over *)
(* its input buffer: bytes of a pipelined stream arrive in pieces of any   *)
(* size, and after each drain of the socket parse() is called until it     *)
(* reports INCOMPLETE.                                                     *)
(*                                                                         *)
(* A line is its length and what the parser makes of it; bytes are         *)
(* positions in the stream.                                                *)
(***************************************************************************)
EXTENDS Integers, Sequences, FiniteSets, Buffer

CONSTANTS
    kMaxRequestLine, kMaxHeaderCount, kMaxBody,
    InputSize,        \* what Connection's constructor asks input_ to hold
    Keys,             \* header names, lower case and trimmed
    Streams           \* the streams a peer may send: sequences of requests

ContentLength == "content-length"
TransferEncoding == "transfer-encoding"
NoKey == "none"       \* a header line with no colon, or nothing before it
CRLF == 2             \* bytes of a line's end

(* A request line is wellFormed (three parts, HTTP/1.x) or not.  A header  *)
(* has a val: the number strtoll() makes of a Content-Length, negative if  *)
(* it makes none; 0 for a Transfer-Encoding that is empty or identity, 1   *)
(* for any other; anything else is not looked at.                          *)
HeaderLine == [key : Keys \cup {NoKey}, val : Int, len : Nat \ {0}]
Request == [wellFormed : BOOLEAN, len : Nat, headers : Seq(HeaderLine)]

ASSUME LimitsAssumption ==
    /\ kMaxRequestLine \in Nat /\ kMaxHeaderCount \in Nat /\ kMaxBody \in Nat
    /\ InputSize \in Nat
ASSUME KeysAssumption ==
    /\ {ContentLength, TransferEncoding} \subseteq Keys
    /\ NoKey \notin Keys
ASSUME StreamsAssumption == Streams \subseteq Seq(Request)

VARIABLES
    stream,           \* what the peer sends
    input,            \* Connection::input_
    nIn,              \* bytes of the stream that entered input_
    nOut,             \* bytes of the stream that were retrieved from it
    state,            \* HttpParser::state_
    headers,          \* request_.headers
    contentLength,    \* content_length_
    line,             \* lines of the current request already taken
    reported,         \* requests parse() has reported
    pc                \* "wait" in epoll_wait, "read", "parse"

wireVars == <<stream, nIn>>
bufVars == <<input, nOut>>
parserVars == <<state, headers, contentLength, line>>
vars == <<wireVars, bufVars, parserVars, reported, pc>>

-----------------------------------------------------------------------------
(* How the stream is laid out.  The last of several headers of one name    *)
(* counts; a body follows only a Content-Length the parser accepts.        *)
LastVal(req, key) ==
    LET at == {i \in DOMAIN req.headers : req.headers[i].key = key}
    IN  IF at = {} THEN 0
        ELSE req.headers[CHOOSE i \in at : \A j \in at : j <= i].val

BodyLen(req) ==
    IF LastVal(req, ContentLength) \in 0 .. kMaxBody
    THEN LastVal(req, ContentLength) ELSE 0

(* Length of a request's line n: 0 the request line, then the headers,     *)
(* then the blank line.                                                    *)
LineLen(req, n) ==
    IF n = 0 THEN req.len
    ELSE IF n <= Len(req.headers) THEN req.headers[n].len
    ELSE 0

(* Where each line of a request ends, counted from its first byte; its     *)
(* head ends with the blank line.                                          *)
LineEnd(req) ==
    LET end[n \in 0 .. Len(req.headers) + 1] ==
            LineLen(req, n) + CRLF + IF n = 0 THEN 0 ELSE end[n - 1]
    IN  end
HeadLen(req) == LineEnd(req)[Len(req.headers) + 1]

(* Where each request of a stream ends.                                    *)
RequestEnd(reqs) ==
    LET end[k \in 0 .. Len(reqs)] ==
            IF k = 0 THEN 0
            ELSE end[k - 1] + HeadLen(reqs[k]) + BodyLen(reqs[k])
    IN  end
StreamEnd == RequestEnd(stream)

-----------------------------------------------------------------------------
Current == stream[reported + 1]
MoreInStream == reported < Len(stream)

(* peekLine(): findCRLF() sees the whole line and both bytes of its end.   *)
LineIsWhole ==
    /\ MoreInStream
    /\ ReadableBytes(input) >= LineLen(Current, line) + CRLF

InLines == state \in {"REQUEST_LINE", "HEADERS"}
InHeader == state = "HEADERS" /\ line <= Len(Current.headers)
CurrentHeader == Current.headers[line]

Init ==
    /\ stream \in Streams
    /\ input = EnsureWritableBytes(NewBuffer, InputSize)
    /\ nIn = 0 /\ nOut = 0
    /\ state = "REQUEST_LINE" /\ headers = <<>> /\ contentLength = 0
    /\ line = 0 /\ reported = 0
    /\ pc = "wait"

(* Connection::handleRead(): readFd() until EAGAIN.                        *)
Read(n) ==
    /\ pc \in {"wait", "read"}
    /\ nIn + n <= StreamEnd[Len(stream)]
    /\ n <= ReadRoom(input)
    /\ input' = ReadFd(input, nIn, n)
    /\ nIn' = nIn + n
    /\ pc' = "read"
    /\ UNCHANGED <<stream, nOut, parserVars, reported>>

ReadEagain ==
    /\ pc \in {"wait", "read"}
    /\ pc' = "parse"
    /\ UNCHANGED <<wireVars, bufVars, parserVars, reported>>

(* retrieve(len), with the stream position it stands for.                  *)
Take(len) ==
    /\ input' = Retrieve(input, len)
    /\ nOut' = nOut + len

Fail ==
    /\ state' = "ERROR"
    /\ UNCHANGED <<headers, contentLength, line>>

-----------------------------------------------------------------------------
(* parseRequestLine() and parseHeaders() without a whole line: wait for    *)
(* the rest, unless too much has come without an end.                      *)
Overlong_Never == FALSE
Overlong == ReadableBytes(input) > kMaxRequestLine

LineIncomplete ==
    /\ pc = "parse" /\ InLines
    /\ ~LineIsWhole
    /\ ~Overlong
    /\ pc' = "wait"
    /\ UNCHANGED <<wireVars, bufVars, parserVars, reported>>

LineOverlong ==
    /\ pc = "parse" /\ InLines
    /\ ~LineIsWhole
    /\ Overlong
    /\ Fail
    /\ UNCHANGED <<wireVars, bufVars, reported, pc>>

(* parseRequestLine().                                                     *)
RequestLineOk ==
    Current.wellFormed /\ Current.len > 0 /\ Current.len <= kMaxRequestLine

RequestLineGood ==
    /\ pc = "parse" /\ state = "REQUEST_LINE"
    /\ LineIsWhole
    /\ RequestLineOk
    /\ Take(LineLen(Current, line) + CRLF)
    /\ state' = "HEADERS"
    /\ line' = line + 1
    /\ UNCHANGED <<wireVars, headers, contentLength, reported, pc>>

RequestLineBad ==
    /\ pc = "parse" /\ state = "REQUEST_LINE"
    /\ LineIsWhole
    /\ ~RequestLineOk
    /\ Fail
    /\ UNCHANGED <<wireVars, bufVars, reported, pc>>

(* parseHeaders(), one header line.  The limit counts names, and is        *)
(* checked also for a name that is there already.                          *)
HeaderOk ==
    /\ Cardinality(DOMAIN headers) < kMaxHeaderCount
    /\ CurrentHeader.key # NoKey
    /\ CurrentHeader.key = ContentLength => CurrentHeader.val >= 0

HeaderGood ==
    /\ pc = "parse" /\ InHeader
    /\ LineIsWhole
    /\ HeaderOk
    /\ Take(LineLen(Current, line) + CRLF)
    /\ headers' = [k \in DOMAIN headers \cup {CurrentHeader.key} |->
                      IF k = CurrentHeader.key
                      THEN CurrentHeader.val ELSE headers[k]]
    /\ contentLength' = IF CurrentHeader.key = ContentLength
                        THEN CurrentHeader.val ELSE contentLength
    /\ line' = line + 1
    /\ UNCHANGED <<wireVars, state, reported, pc>>

HeaderBad ==
    /\ pc = "parse" /\ InHeader
    /\ LineIsWhole
    /\ ~HeaderOk
    /\ Take(LineLen(Current, line) + CRLF)
    /\ Fail
    /\ UNCHANGED <<wireVars, reported, pc>>

(* parseHeaders(), the blank line.                                         *)
Chunked == TransferEncoding \in DOMAIN headers /\ headers[TransferEncoding] = 1

AfterHeaders ==
    IF Chunked THEN "ERROR"
    ELSE IF contentLength = 0 THEN "COMPLETE"
    ELSE IF contentLength > kMaxBody THEN "ERROR"
    ELSE "BODY"

HeadersEnd ==
    /\ pc = "parse" /\ state = "HEADERS" /\ ~InHeader
    /\ LineIsWhole
    /\ Take(LineLen(Current, line) + CRLF)
    /\ state' = AfterHeaders
    /\ line' = line + 1
    /\ UNCHANGED <<wireVars, headers, contentLength, reported, pc>>

(* parseBody().                                                            *)
BodyIncomplete ==
    /\ pc = "parse" /\ state = "BODY"
    /\ ReadableBytes(input) < contentLength
    /\ pc' = "wait"
    /\ UNCHANGED <<wireVars, bufVars, parserVars, reported>>

BodyWhole ==
    /\ pc = "parse" /\ state = "BODY"
    /\ ReadableBytes(input) >= contentLength
    /\ Take(contentLength)
    /\ state' = "COMPLETE"
    /\ UNCHANGED <<wireVars, headers, contentLength, line, reported, pc>>

-----------------------------------------------------------------------------
(* parse() returns OK; Connection::handleRequest() answers the request,    *)
(* resets the parser and goes on if input_ has more.  (The requests here   *)
(* keep the connection alive; Connection has those that close it.)         *)
ResetLength_Not == contentLength
ResetLength == 0

ReturnOk ==
    /\ pc = "parse" /\ state = "COMPLETE"
    /\ reported' = reported + 1
    /\ state' = "REQUEST_LINE" /\ headers' = <<>> /\ line' = 0
    /\ contentLength' = ResetLength
    /\ pc' = IF ReadableBytes(input) = 0 THEN "wait" ELSE "parse"
    /\ UNCHANGED <<wireVars, bufVars>>

(* parse() returns ERROR, now and whenever it is called again before the   *)
(* connection is closed.                                                   *)
ReturnError ==
    /\ pc = "parse" /\ state = "ERROR"
    /\ pc' = "wait"
    /\ UNCHANGED <<wireVars, bufVars, parserVars, reported>>

Next ==
    \/ \E n \in 1 .. ReadRoom(input) : Read(n)
    \/ ReadEagain
    \/ LineIncomplete \/ LineOverlong
    \/ RequestLineGood \/ RequestLineBad
    \/ HeaderGood \/ HeaderBad \/ HeadersEnd
    \/ BodyIncomplete \/ BodyWhole
    \/ ReturnOk \/ ReturnError

Spec == Init /\ [][Next]_vars

-----------------------------------------------------------------------------
(* The buffer's indices stay in order, the parser is in one of its states, *)
(* and no byte leaves the buffer that did not enter it.                    *)
TypeOK ==
    /\ stream \in Seq(Request)
    /\ IsBuffer(input)
    /\ nIn \in Nat /\ nOut \in Nat /\ nOut <= nIn
    /\ state \in {"REQUEST_LINE", "HEADERS", "BODY", "COMPLETE", "ERROR"}
    /\ DOMAIN headers \subseteq Keys
    /\ contentLength \in Nat
    /\ line \in Nat /\ reported \in 0 .. Len(stream)
    /\ pc \in {"wait", "read", "parse"}

(* What can be read from input_ is exactly the part of the stream that has *)
(* arrived and was not parsed yet, byte for byte, however often            *)
(* makeSpace() moved it and readFd() split it over its two areas.          *)
ReadableIsStream == Holds(input, nOut, nIn)

(* Memory is bounded once parse() has asked for more: a line without an    *)
(* end, or a body short of its length, and never more headers than         *)
(* kMaxHeaderCount.                                                        *)
InputBounded ==
    /\ pc = "wait" /\ state # "ERROR" =>
        \/ ReadableBytes(input) <= kMaxRequestLine
        \/ /\ state = "BODY"
           /\ ReadableBytes(input) < contentLength /\ contentLength <= kMaxBody
    /\ Cardinality(DOMAIN headers) <= kMaxHeaderCount

(* A request the parser is meant to accept, stated over the request as a   *)
(* whole.                                                                  *)
Acceptable(req) ==
    /\ req.wellFormed /\ req.len \in 1 .. kMaxRequestLine
    /\ \A i \in DOMAIN req.headers :
        /\ Cardinality({req.headers[j].key : j \in 1 .. i - 1})
               < kMaxHeaderCount
        /\ req.headers[i].key # NoKey
        /\ req.headers[i].key = ContentLength => req.headers[i].val >= 0
    /\ LastVal(req, TransferEncoding) # 1
    /\ LastVal(req, ContentLength) <= kMaxBody

(* A request with a line long enough for the limit on unfinished lines.    *)
HasLongLine(req) ==
    \E n \in 0 .. Len(req.headers) : LineLen(req, n) >= kMaxRequestLine

(* The parser's verdicts do not depend on how the bytes were cut: when it  *)
(* waits, every whole request before the first unacceptable one has been   *)
(* reported, none that is not whole or not acceptable has, and ERROR means *)
(* an unacceptable request or one with a line at the limit.                *)
VerdictsAreRight ==
    pc = "wait" =>
        /\ \A k \in 1 .. reported :
              Acceptable(stream[k]) /\ StreamEnd[k] <= nIn
        /\ IF state = "ERROR"
           THEN MoreInStream /\ (~Acceptable(Current) \/ HasLongLine(Current))
           ELSE MoreInStream => StreamEnd[reported + 1] > nIn

(* How the segments of a request were cut never decides whether it is      *)
(* refused: parse() goes on from where it stopped.                         *)
SplitIndependent == state = "ERROR" => ~Acceptable(Current)

=============================================================================
