------------------------- MODULE HttpServiceProofs -------------------------
(***************************************************************************)
(* Theorems about HttpService, for any files, lengths and requests: every  *)
(* response is framed as its client expects, says close when it should,    *)
(* and is right for some moment of the request's handling.                 *)
(***************************************************************************)
EXTENDS HttpService, TLAPS

HandlingPhases == {"route", "open", "read"}

(* While a request is handled the parser is done with it, and what its     *)
(* name stands for now is among what was seen.                             *)
HandlingInv ==
    /\ pc \in HandlingPhases =>
           /\ parsed < inBuffer /\ Req # Malformed
           /\ Rel(Req.path) \in Files => disk[Rel(Req.path)] \in seen
    /\ pc \in {"open", "read"} => GetLike /\ Name \in Files

(* What the stream reads is among it, too, and unless a change was seen    *)
(* the stream has not read beyond its end.                                 *)
StreamInv ==
    pc = "read" =>
        /\ stream.file \in seen
        /\ seen = {stream.file} => stream.offset <= stream.file.length

(* The responses so far are one per request as long as none said close,    *)
(* and a connection that closes has said so.                               *)
WireInv ==
    /\ \A i \in 1 .. Len(wire) : wire[i].of \in 1 .. Len(sent)
    /\ ~closing => /\ open /\ Len(wire) = parsed
                   /\ \A i \in 1 .. Len(wire) : ~wire[i].msg.close
    /\ closing => \E i \in 1 .. Len(wire) : wire[i].msg.close

IInv ==
    /\ TypeOK /\ HandlingInv /\ StreamInv /\ WireInv
    /\ FramingAgrees /\ AnswersAreOfTheMoment /\ ClosesAsAnnounced

-----------------------------------------------------------------------------
Units == [msg : Messages, of : Nat \ {0}, seen : SUBSET Entries]

(* keepAlive() tells persistence in whichever case: iequals() ignores it.  *)
LEMMA KeepAliveIsPersistence ==
    ASSUME NEW r \in Requests
    PROVE  KeepAlive(r) <=> Persists(r)
<1>1. /\ r # Malformed /\ r.version \in Versions
      /\ r.connection \in ConnectionValues
  BY ServiceAssumption
<1>2. \A a \in ConnectionValues :
         /\ Iequals(a, "keep-alive") <=> a \in {"keep-alive", "Keep-Alive"}
         /\ Iequals(a, "close") <=> a \in {"close", "Close"}
  BY DEF ConnectionValues, Iequals, Lower
<1> QED
  BY <1>1, <1>2 DEF KeepAlive, Persists

(* What a path leads to is a file unless a route or a check takes it.      *)
LEMMA PathsLeadToFiles ==
    ASSUME NEW r \in Requests
    PROVE  /\ r.path \notin {"/stats", "/echo", "/hello"} /\ Rel(r.path) # "/../"
                  => Rel(r.path) \in Files
           /\ Rel(r.path) \in Files
                  => /\ r.path \notin {"/stats", "/echo", "/hello"}
                     /\ Rel(r.path) # "/../"
<1>1. r.path \in Paths
  BY ServiceAssumption
<1> QED
  BY <1>1, ServiceAssumption DEF Paths, Rel

(* send(): a response to the request at hand keeps what is said of the     *)
(* responses, if its frame, its close and its answer are right.            *)
LEMMA SendKeeps ==
    ASSUME TypeOK, WireInv, FramingAgrees, AnswersAreOfTheMoment,
           ClosesAsAnnounced,
           parsed < inBuffer, UNCHANGED sent,
           NEW u \in Units, NEW close \in BOOLEAN,
           u.of = parsed + 1, u.msg.close = close,
           close <=> ~Persists(Req),
           u.msg.body = IF Req # Malformed /\ Req.method = "HEAD" THEN 0
                        ELSE u.msg.length,
           IsForFile(Req) =>
               u.msg.status \in {200, 404} /\ AnswerFits(u.msg, u.seen),
           ~close => parsed' = parsed + 1,
           wire' = IF open THEN Append(wire, u) ELSE wire,
           closing' = (closing \/ close),
           open' = open \/ (closing' /\ open' = FALSE)
    PROVE  /\ wire' \in Seq(Units)
           /\ closing' \in BOOLEAN /\ open' \in BOOLEAN
           /\ WireInv' /\ FramingAgrees' /\ AnswersAreOfTheMoment'
           /\ ClosesAsAnnounced'
<1>0. /\ wire \in Seq(Units) /\ sent \in Seq(Requests \cup {Malformed})
      /\ parsed \in Nat /\ parsed + 1 \in 1 .. Len(sent) /\ Len(wire) \in Nat
  BY DEF TypeOK, Units
<1>1. /\ closing' \in BOOLEAN /\ open' \in BOOLEAN
      /\ closing' <=> closing \/ close
      /\ ~open => ~open' /\ closing
      /\ ~open' => ~open \/ closing'
  <2>0. ~open => closing
    BY DEF WireInv
  <2>1. closing \in BOOLEAN /\ open \in BOOLEAN
    BY Zenon DEF TypeOK
  <2>2. closing' \in BOOLEAN /\ (closing' <=> closing \/ close)
    BY <2>1, Zenon
  <2>3. open' \in BOOLEAN /\ (~open => ~open') /\ (~open' => ~open \/ closing')
    <3>1. CASE open' = open
      BY <2>1, <3>1
    <3>2. CASE closing' /\ open' = FALSE
      BY <3>2
    <3> QED
      BY <3>1, <3>2
  <2> QED
    BY <2>0, <2>2, <2>3, Zenon
<1>2. CASE ~open
  <2>1. wire' = wire /\ closing /\ closing' /\ ~open'
    BY <1>1, <1>2
  <2>2. WireInv' /\ FramingAgrees' /\ AnswersAreOfTheMoment'
    <3>1. WireInv'
      BY <2>1 DEF WireInv
    <3>2. FramingAgrees'
      BY <2>1 DEF FramingAgrees, Reads, ClientTakes
    <3>3. AnswersAreOfTheMoment'
      BY <2>1 DEF AnswersAreOfTheMoment
    <3> QED
      BY <3>1, <3>2, <3>3
  <2>3. ClosesAsAnnounced'
    BY <1>2, <2>1 DEF ClosesAsAnnounced, Reads
  <2> QED
    BY <1>0, <1>1, <2>1, <2>2, <2>3
<1>3. CASE open
  <2>0. PICK n \in Nat \ {0} : n = Len(wire) + 1
    BY <1>0
  <2>1. /\ wire' \in Seq(Units) /\ Len(wire') = n /\ wire'[n] = u
        /\ \A i \in 1 .. Len(wire) : wire'[i] = wire[i]
        /\ 1 .. Len(wire') = (1 .. Len(wire)) \cup {n}
    BY <1>0, <1>3, <2>0
  <2>2. \A i \in 1 .. Len(wire) : Reads(i)' <=> Reads(i)
    BY <1>0, <2>1 DEF Reads
  <2>3. Reads(n)' => ~closing /\ n = parsed + 1
    <3> SUFFICES ASSUME Reads(n)' PROVE ~closing
      BY <2>0 DEF WireInv
    <3>1. \A i \in 1 .. Len(wire) : ~wire[i].msg.close
      BY <1>0, <2>0, <2>1 DEF Reads
    <3> QED
      BY <3>1 DEF WireInv
  <2>4. WireInv'
    <3>1. \A i \in 1 .. Len(wire') : wire'[i].of \in 1 .. Len(sent')
      BY <1>0, <2>1 DEF WireInv
    <3>2. ~closing' => /\ open' /\ Len(wire') = parsed'
                       /\ \A i \in 1 .. Len(wire') : ~wire'[i].msg.close
      <4> SUFFICES ASSUME ~closing'
                   PROVE  /\ open' /\ Len(wire') = parsed'
                          /\ \A i \in 1 .. Len(wire') : ~wire'[i].msg.close
        OBVIOUS
      <4>1. ~closing /\ ~close /\ open'
        BY <1>1, <1>3
      <4>2. Len(wire) = parsed /\ \A i \in 1 .. Len(wire) : ~wire[i].msg.close
        BY <4>1 DEF WireInv
      <4> QED
        BY <2>0, <2>1, <4>1, <4>2
    <3>3. closing' => \E i \in 1 .. Len(wire') : wire'[i].msg.close
      BY <2>1 DEF WireInv
    <3> QED
      BY <3>1, <3>2, <3>3 DEF WireInv
  <2>5. FramingAgrees'
    <3>1. \A i \in 1 .. Len(wire) : ClientTakes(i)' = ClientTakes(i)
      BY <2>1 DEF ClientTakes
    <3>2. n = parsed + 1 => ClientTakes(n)' = u.msg.body
      <4> SUFFICES ASSUME n = parsed + 1 PROVE ClientTakes(n)' = u.msg.body
        OBVIOUS
      <4>1. sent'[n] = Req /\ wire'[n] = u
        BY <2>1 DEF Req
      <4> QED
        BY <4>1, ZenonT(60) DEF ClientTakes
    <3>3. Reads(n)' => wire'[n].of = n /\ wire'[n].msg.body = ClientTakes(n)'
      BY <2>1, <2>3, <3>2
    <3>4. \A i \in 1 .. Len(wire) : Reads(i)' =>
             wire'[i].of = i /\ wire'[i].msg.body = ClientTakes(i)'
      BY <2>1, <2>2, <3>1 DEF FramingAgrees
    <3> QED
      BY <2>1, <3>3, <3>4 DEF FramingAgrees
  <2>6. AnswersAreOfTheMoment'
    BY <2>1 DEF AnswersAreOfTheMoment, Req
  <2>7. ClosesAsAnnounced'
    <3>1. \A i \in 1 .. Len(wire') :
             Reads(i)' => (wire'[i].msg.close <=> ~Persists(sent'[i]))
      <4>1. \A i \in 1 .. Len(wire) :
               Reads(i)' => (wire'[i].msg.close <=> ~Persists(sent'[i]))
        BY <2>1, <2>2 DEF ClosesAsAnnounced
      <4>2. n = parsed + 1 => sent'[n] = Req
        BY DEF Req
      <4>3. Reads(n)' => (wire'[n].msg.close <=> ~Persists(sent'[n]))
        BY <2>1, <2>3, <4>2
      <4> QED
        BY <2>1, <4>1, <4>3
    <3>2. ~open' => \E i \in 1 .. Len(wire') : wire'[i].msg.close
      BY <1>1, <1>3, <2>4 DEF WireInv
    <3> QED
      BY <3>1, <3>2 DEF ClosesAsAnnounced
  <2> QED
    BY <1>1, <2>1, <2>4, <2>5, <2>6, <2>7
<1> QED
  BY <1>2, <1>3

(* The request at hand is one of those sent.                               *)
LEMMA ReqIsRequest ==
    ASSUME TypeOK, parsed < inBuffer, Req # Malformed
    PROVE  Req \in Requests
<1>1. sent \in Seq(Requests \cup {Malformed}) /\ parsed + 1 \in 1 .. Len(sent)
  BY DEF TypeOK
<1>2. sent[parsed + 1] \in Requests \cup {Malformed}
  BY <1>1
<1> QED
  BY <1>2 DEF Req

Statuses == {200, 400, 403, 404, 405}
Answers == [status : Statuses, body : Nat, length : Nat \cup {Unset},
            close : BOOLEAN]

(* What a handler answers stays an answer when its body is cut for HEAD    *)
(* and when it is marked.                                                  *)
LEMMA HeadAnswer ==
    ASSUME NEW r \in Answers
    PROVE  ForHead(r) \in Answers
<1>1. PICK n \in Nat : n = r.body
  BY DEF Answers
<1>2. PICK h : h = [r EXCEPT !.length = n, !.body = 0]
  OBVIOUS
<1>3. h \in [status : Statuses, body : Nat, length : Nat, close : BOOLEAN]
  BY <1>2 DEF Answers
<1>4. h \in Answers
  BY <1>3 DEF Answers
<1> QED
  BY <1>1, <1>2, <1>4 DEF ForHead

(* Connection: close is a header, whatever else the answer has.            *)
LEMMA MarkedAnswer ==
    ASSUME NEW r \in Answers, NEW keep \in BOOLEAN
    PROVE  MarkClose(r, keep) \in Answers /\ MarkClose(r, keep).close = ~keep
<1>1. PICK c \in BOOLEAN : c = ~keep
  BY Zenon
<1>2. [r EXCEPT !.close = c] \in Answers /\ [r EXCEPT !.close = c].close = c
  BY DEF Answers, Unset
<1> QED
  BY <1>1, <1>2 DEF MarkClose

(* toString() sends the answer with the length it has, or its body's.      *)
LEMMA SentAnswer ==
    ASSUME NEW r \in Answers
    PROVE  /\ ToString(r).status = r.status /\ ToString(r).body = r.body
           /\ ToString(r).close = r.close
           /\ ToString(r).length = IF r.length = Unset THEN r.body ELSE r.length
           /\ ToString(r) \in Messages
<1>1. ToString(r).length = IF r.length = Unset THEN r.body ELSE r.length
  BY DEF ToString, Answers
<1>2. /\ ToString(r).status = r.status /\ ToString(r).body = r.body
      /\ ToString(r).close = r.close
  BY DEF ToString, Answers
<1>3. PICK n \in Nat : n = IF r.length = Unset THEN r.body ELSE r.length
  BY DEF Answers
<1>4. [r EXCEPT !.length = n] \in Messages
  BY DEF Answers, Statuses, Messages
<1>5. ToString(r) \in Messages
  BY <1>3, <1>4 DEF ToString
<1> QED
  BY <1>1, <1>2, <1>5

(* Whatever the handler answers, Connection::handleRequest makes a frame   *)
(* of it that fits the request, HEAD included, and says close if it must.  *)
LEMMA RespondKeeps ==
    ASSUME IInv, pc \in HandlingPhases, NEW resp \in Answers,
           resp.length \in {Unset, resp.body},
           IsForFile(Req) =>
               /\ resp.status \in {200, 404}
               /\ AnswerFits([status |-> resp.status, length |-> resp.body],
                             seen),
           Respond(resp)
    PROVE  IInv'
<1> DEFINE answer == IF Req.method = "HEAD" THEN ForHead(resp) ELSE resp
           keep == KeepAlive(Req)
           m == ToString(MarkClose(answer, keep))
           u == [msg |-> m, of |-> parsed + 1, seen |-> seen]
<1>0. /\ TypeOK /\ WireInv /\ FramingAgrees /\ AnswersAreOfTheMoment
      /\ ClosesAsAnnounced /\ parsed < inBuffer /\ Req # Malformed
  BY DEF IInv, HandlingInv
<1>1. Req \in Requests
  BY <1>0, ReqIsRequest
<1>2. /\ parsed' = parsed + 1
      /\ wire' = IF open THEN Append(wire, u) ELSE wire
      /\ seen' = {}
      /\ closing' = (closing \/ ~keep)
      /\ open' = open \/ (closing' /\ open' = FALSE)
      /\ pc' \in {"parse", "idle"}
      /\ stream' = NoStream
      /\ UNCHANGED <<sent, inBuffer, disk, changes>>
  BY DEF Respond, Send
<1>3. keep <=> Persists(Req)
  BY <1>1, KeepAliveIsPersistence
<1>4. (~keep) \in BOOLEAN /\ keep \in BOOLEAN
  BY Zenon DEF KeepAlive, Iequals
<1> HIDE DEF keep
<1>5. /\ m.status = resp.status /\ m.length = resp.body /\ m.close = ~keep
      /\ m.body = IF Req.method = "HEAD" THEN 0 ELSE resp.body
      /\ m \in Messages
  <2>1. /\ answer \in Answers /\ answer.status = resp.status
        /\ answer.length \in {Unset, resp.body}
        /\ answer.body = IF Req.method = "HEAD" THEN 0 ELSE resp.body
        /\ answer.length = Unset => answer.body = resp.body
    <3>1. resp.body \in Nat /\ resp.body # Unset
      BY DEF Answers, Unset
    <3>2. CASE Req.method = "HEAD"
      <4>1. ForHead(resp).length = resp.body /\ ForHead(resp).body = 0
        BY DEF Answers, ForHead
      <4>2. ForHead(resp).status = resp.status
        BY DEF Answers, ForHead
      <4>3. ForHead(resp) \in Answers
        BY HeadAnswer
      <4> QED
        BY <3>1, <3>2, <4>1, <4>2, <4>3
    <3>3. CASE Req.method # "HEAD"
      BY <3>3
    <3> QED
      BY <3>2, <3>3
  <2> DEFINE mc == MarkClose(answer, keep)
  <2> HIDE DEF answer
  <2>2. mc \in Answers /\ mc.close = ~keep
    BY <1>4, <2>1, MarkedAnswer
  <2>3. /\ mc.status = answer.status /\ mc.body = answer.body
        /\ mc.length = answer.length
    BY <2>1 DEF Answers, MarkClose
  <2> HIDE DEF mc
  <2> QED
    BY <2>1, <2>2, <2>3, SentAnswer DEF mc
<1> HIDE DEF m
<1>6. u \in Units /\ u.of = parsed + 1 /\ u.msg = m /\ u.seen = seen
  BY <1>0, <1>5 DEF Units, TypeOK
<1>7. u.msg.body = IF Req # Malformed /\ Req.method = "HEAD" THEN 0
                   ELSE u.msg.length
  BY <1>0, <1>5, <1>6
<1>8. IsForFile(Req) =>
          u.msg.status \in {200, 404} /\ AnswerFits(u.msg, u.seen)
  BY <1>5, <1>6 DEF AnswerFits
<1>9. /\ wire' \in Seq(Units)
      /\ closing' \in BOOLEAN /\ open' \in BOOLEAN
      /\ WireInv' /\ FramingAgrees' /\ AnswersAreOfTheMoment'
      /\ ClosesAsAnnounced'
  <2> HIDE DEF u
  <2>1. PICK v \in Units : v = u
    BY <1>6
  <2>2. PICK cl \in BOOLEAN : cl = ~keep
    BY <1>4
  <2>3. /\ v.of = parsed + 1 /\ v.msg.close = cl /\ (cl <=> ~Persists(Req))
        /\ v.msg.body = IF Req # Malformed /\ Req.method = "HEAD" THEN 0
                        ELSE v.msg.length
        /\ IsForFile(Req) =>
               v.msg.status \in {200, 404} /\ AnswerFits(v.msg, v.seen)
        /\ wire' = IF open THEN Append(wire, v) ELSE wire
        /\ closing' = (closing \/ cl)
    BY <1>2, <1>3, <1>5, <1>6, <1>7, <1>8, <2>1, <2>2, ZenonT(60)
  <2> QED
    BY <1>0, <1>2, <2>3, SendKeeps, ZenonT(60)
<1>10. TypeOK'
  <2>1. inBuffer' \in 0 .. Len(sent') /\ parsed' \in 0 .. inBuffer'
    BY <1>0, <1>2 DEF TypeOK
  <2>2. stream' \in [file : Entries, linked : BOOLEAN, offset : Nat]
    BY <1>2 DEF NoStream, Entries
  <2> QED
    BY <1>0, <1>2, <1>9, <2>1, <2>2 DEF TypeOK, Units
<1>11. HandlingInv' /\ StreamInv'
  BY <1>2 DEF HandlingInv, StreamInv, HandlingPhases
<1> QED
  BY <1>9, <1>10, <1>11 DEF IInv

-----------------------------------------------------------------------------
OutputInv ==
    WireInv /\ FramingAgrees /\ AnswersAreOfTheMoment /\ ClosesAsAnnounced

(* A step that sends nothing keeps what is said of the responses.          *)
LEMMA SilentKeeps ==
    ASSUME OutputInv, UNCHANGED <<wire, sent, closing, open, parsed>>
    PROVE  OutputInv'
<1>1. \A i : Reads(i)' <=> Reads(i)
  BY DEF Reads
<1>2. \A i : ClientTakes(i)' = ClientTakes(i)
  BY DEF ClientTakes
<1>3. FramingAgrees'
  BY <1>1, <1>2 DEF OutputInv, FramingAgrees
<1>4. ClosesAsAnnounced'
  BY <1>1 DEF OutputInv, ClosesAsAnnounced
<1>5. WireInv' /\ AnswersAreOfTheMoment'
  BY DEF OutputInv, WireInv, AnswersAreOfTheMoment
<1> QED
  BY <1>3, <1>4, <1>5 DEF OutputInv

(* So does a request that is only sent: the earlier ones stay.             *)
LEMMA SendingKeeps ==
    ASSUME TypeOK, OutputInv, NEW r \in Requests \cup {Malformed},
           sent' = Append(sent, r), UNCHANGED <<wire, closing, open, parsed>>
    PROVE  OutputInv'
<1>1. \A i \in 1 .. Len(sent) : sent'[i] = sent[i]
  BY DEF TypeOK
<1>2. \A i : Reads(i)' <=> Reads(i)
  BY DEF Reads
<1>3. \A i \in 1 .. Len(wire) : Reads(i) => i \in 1 .. Len(sent)
  BY DEF OutputInv, FramingAgrees, WireInv
<1>4. FramingAgrees'
  BY <1>1, <1>2, <1>3 DEF OutputInv, FramingAgrees, ClientTakes
<1>5. ClosesAsAnnounced'
  BY <1>1, <1>2, <1>3 DEF OutputInv, ClosesAsAnnounced
<1>6. Len(sent') = Len(sent) + 1 /\ Len(sent) \in Nat
  BY DEF TypeOK
<1>7. WireInv'
  BY <1>6 DEF OutputInv, WireInv
<1>8. AnswersAreOfTheMoment'
  BY <1>1 DEF OutputInv, WireInv, AnswersAreOfTheMoment
<1> QED
  BY <1>4, <1>5, <1>7, <1>8 DEF OutputInv

(* It holds when a connection is new.                                      *)
LEMMA InitIInv == Init => IInv
<1> SUFFICES ASSUME Init PROVE IInv
  OBVIOUS
<1>1. TypeOK
  <2>1. closing \in BOOLEAN /\ open \in BOOLEAN
    BY Zenon DEF Init
  <2>2. stream \in [file : Entries, linked : BOOLEAN, offset : Nat]
    BY DEF Init, NoStream, Entries
  <2> QED
    BY <2>1, <2>2, ServiceAssumption DEF Init, TypeOK
<1>2. HandlingInv /\ StreamInv
  BY DEF Init, HandlingInv, HandlingPhases, StreamInv
<1>3. WireInv /\ FramingAgrees /\ AnswersAreOfTheMoment /\ ClosesAsAnnounced
  BY DEF Init, WireInv, FramingAgrees, AnswersAreOfTheMoment,
      ClosesAsAnnounced
<1> QED
  BY <1>1, <1>2, <1>3 DEF IInv

(* A malformed request is answered 400, and close.                         *)
LEMMA ParseErrorKeeps ==
    ASSUME IInv, ParseError
    PROVE  IInv'
<1> DEFINE m == ToString(MarkClose(Page(400), FALSE))
           u == [msg |-> m, of |-> parsed + 1, seen |-> seen]
<1>0. /\ TypeOK /\ WireInv /\ FramingAgrees /\ AnswersAreOfTheMoment
      /\ ClosesAsAnnounced /\ parsed < inBuffer /\ Req = Malformed
  BY DEF IInv, ParseError
<1>1. /\ UNCHANGED <<sent, inBuffer, parsed, disk, stream, changes>>
      /\ wire' = IF open THEN Append(wire, u) ELSE wire
      /\ seen' = {}
      /\ closing' = (closing \/ TRUE)
      /\ open' = open \/ (closing' /\ open' = FALSE)
      /\ pc' = "idle"
  BY DEF ParseError, Send
<1>2. Page(400) \in Answers /\ Page(400).length = Unset
  <2>1. PageLength \in Nat /\ FALSE \in BOOLEAN
    BY ServiceAssumption
  <2> QED
    BY <2>1 DEF Page, Make, Answers, Statuses
<1>3. m \in Messages /\ m.body = m.length /\ m.close = TRUE
  <2> DEFINE mc == MarkClose(Page(400), FALSE)
  <2>1. mc \in Answers /\ mc.close = TRUE
    <3>1. PICK keep \in BOOLEAN : keep = FALSE
      OBVIOUS
    <3>2. (~keep) = TRUE
      BY <3>1
    <3> QED
      BY <1>2, <3>1, <3>2, MarkedAnswer, ZenonT(60)
  <2>2. mc.length = Unset
    BY <1>2 DEF MarkClose, Answers
  <2> HIDE DEF mc
  <2>3. /\ ToString(mc) \in Messages /\ ToString(mc).close = TRUE
        /\ ToString(mc).length = mc.body /\ ToString(mc).body = mc.body
    BY <2>1, <2>2, SentAnswer
  <2> QED
    BY <2>3, ZenonT(60) DEF mc
<1> HIDE DEF m
<1>4. u \in Units /\ u.of = parsed + 1 /\ u.msg = m
  BY <1>0, <1>3 DEF Units, TypeOK
<1>5. TRUE <=> ~Persists(Req)
  BY <1>0 DEF Persists
<1>6. ~IsForFile(Req)
  BY <1>0 DEF IsForFile
<1>7. /\ wire' \in Seq(Units)
      /\ closing' \in BOOLEAN /\ open' \in BOOLEAN
      /\ WireInv' /\ FramingAgrees' /\ AnswersAreOfTheMoment'
      /\ ClosesAsAnnounced'
  <2> HIDE DEF u
  <2>1. PICK v \in Units : v = u
    BY <1>4
  <2>2. PICK cl \in BOOLEAN : cl = TRUE
    OBVIOUS
  <2>3. /\ v.of = parsed + 1 /\ v.msg.close = cl /\ (cl <=> ~Persists(Req))
        /\ v.msg.body = IF Req # Malformed /\ Req.method = "HEAD" THEN 0
                        ELSE v.msg.length
        /\ wire' = IF open THEN Append(wire, v) ELSE wire
        /\ closing' = (closing \/ cl)
    BY <1>0, <1>1, <1>3, <1>4, <1>5, <2>1, <2>2
  <2> QED
    BY <1>0, <1>1, <1>6, <2>2, <2>3, SendKeeps
<1>8. TypeOK'
  BY <1>0, <1>1, <1>7 DEF TypeOK, Units
<1>9. HandlingInv' /\ StreamInv'
  BY <1>1 DEF HandlingInv, StreamInv, HandlingPhases
<1> QED
  BY <1>7, <1>8, <1>9 DEF IInv

(* The handlers' answers are answers.                                      *)
LEMMA MakeIsAnswer ==
    ASSUME NEW st \in Statuses, NEW n \in Nat
    PROVE  /\ Make(st, n) \in Answers
           /\ Make(st, n).status = st /\ Make(st, n).body = n
           /\ Make(st, n).length = Unset
<1>1. FALSE \in BOOLEAN
  OBVIOUS
<1> QED
  BY <1>1 DEF Make, Answers

(* The routes answer without looking at a file, and no file has their name.*)
LEMMA RouteKeeps ==
    ASSUME IInv, Stats \/ Echo \/ Hello \/ MethodNotAllowed \/ Forbidden
    PROVE  IInv'
<1>1. /\ pc \in HandlingPhases /\ Req \in Requests
  BY ReqIsRequest DEF IInv, HandlingInv, HandlingPhases, Stats, Echo, Hello,
      MethodNotAllowed, Forbidden
<1>2. ~IsForFile(Req)
  BY <1>1, PathsLeadToFiles
     DEF Stats, Echo, Hello, MethodNotAllowed, Forbidden, IsForFile, GetLike,
         Static, Name
<1>3. PICK st \in Statuses, n \in Nat : Respond(Make(st, n))
  <2>1. PageLength \in Nat /\ StatsLengths \subseteq Nat /\ Req.body \in Nat
    BY <1>1, ServiceAssumption
  <2>2. {200, 403, 405} \subseteq Statuses
    BY DEF Statuses
  <2>3. CASE Stats
    BY <2>1, <2>2, <2>3 DEF Stats
  <2>4. CASE Echo
    BY <2>1, <2>2, <2>4 DEF Echo, Page
  <2>5. CASE Hello \/ MethodNotAllowed \/ Forbidden
    BY <2>1, <2>2, <2>5 DEF Hello, MethodNotAllowed, Forbidden, Page
  <2> QED
    BY <2>3, <2>4, <2>5
<1> QED
  BY <1>1, <1>2, <1>3, MakeIsAnswer, RespondKeeps

(* A file that is not found, or not opened, is answered 404.               *)
LEMMA NotFoundKeeps ==
    ASSUME IInv, pc \in {"route", "open"}, Name \in Files, IsForFile(Req),
           disk[Name].kind # "readable", Respond(Page(404))
    PROVE  IInv'
<1>1. disk[Name] \in seen
  BY DEF IInv, HandlingInv, HandlingPhases, Name
<1>2. /\ Page(404) \in Answers /\ Page(404).length = Unset
      /\ Page(404).status = 404
  BY MakeIsAnswer, ServiceAssumption DEF Page, Statuses
<1>3. AnswerFits([status |-> Page(404).status, length |-> Page(404).body], seen)
  BY <1>1, <1>2 DEF AnswerFits
<1> QED
  BY <1>2, <1>3, RespondKeeps DEF HandlingPhases

(* stat(): not a file, or on to opening it.                                *)
LEMMA StatKeeps ==
    ASSUME IInv, Stat
    PROVE  IInv'
<1>1. Req \in Requests /\ TypeOK /\ HandlingInv /\ pc = "route"
  BY ReqIsRequest DEF IInv, HandlingInv, HandlingPhases, Stat
<1>2. GetLike /\ Name \in Files
  BY <1>1, PathsLeadToFiles DEF Stat, Static, Name
<1>3. CASE IsRegular(disk[Name])
  <2>1. pc' = "open" /\ UNCHANGED <<connVars, disk, stream, seen, changes>>
    BY <1>3 DEF Stat
  <2>2. OutputInv'
    BY <2>1, SilentKeeps DEF IInv, OutputInv, connVars
  <2>3. TypeOK'
    BY <1>1, <2>1 DEF TypeOK, connVars
  <2>4. HandlingInv' /\ StreamInv'
    BY <1>1, <1>2, <2>1 DEF HandlingInv, HandlingPhases, StreamInv, GetLike,
        Name, Req, connVars
  <2> QED
    BY <2>2, <2>3, <2>4 DEF IInv, OutputInv
<1>4. CASE ~IsRegular(disk[Name])
  <2>1. Respond(Page(404)) /\ disk[Name].kind # "readable"
    BY <1>4 DEF Stat, IsRegular
  <2>2. IsForFile(Req)
    BY <1>1, <1>2 DEF IsForFile, GetLike, Name, HandlingInv, HandlingPhases
  <2> QED
    BY <1>1, <1>2, <2>1, <2>2, NotFoundKeeps
<1> QED
  BY <1>3, <1>4

(* Whatever a name stands for has a length.                                *)
LEMMA EntryLength ==
    ASSUME NEW e \in Entries
    PROVE  e.length \in Nat
<1>1. CASE e \in {NoFile, Directory}
  BY <1>1 DEF NoFile, Directory
<1>2. CASE e \in [kind : {"sealed", "readable"}, length : Lengths]
  BY <1>2, ServiceAssumption
<1> QED
  BY <1>1, <1>2 DEF Entries

(* Opening it, as it is by then.                                           *)
LEMMA OpenKeeps ==
    ASSUME IInv, Open
    PROVE  IInv'
<1>1. /\ TypeOK /\ HandlingInv /\ pc = "open" /\ GetLike /\ Name \in Files
      /\ disk[Name] \in seen /\ disk[Name] \in Entries
  BY DEF IInv, HandlingInv, HandlingPhases, Open, Name, TypeOK
<1>2. CASE disk[Name].kind \in {"readable", "directory"}
  <2>1. /\ stream' = [file |-> disk[Name], linked |-> TRUE, offset |-> 0]
        /\ pc' = "read" /\ UNCHANGED <<connVars, disk, seen, changes>>
    BY <1>2 DEF Open
  <2>2. OutputInv'
    BY <2>1, SilentKeeps DEF IInv, OutputInv, connVars
  <2>3. stream' \in [file : Entries, linked : BOOLEAN, offset : Nat]
    BY <1>1, <2>1
  <2>4. TypeOK'
    BY <1>1, <2>1, <2>3 DEF TypeOK, connVars
  <2>5. HandlingInv'
    BY <1>1, <2>1 DEF HandlingInv, HandlingPhases, GetLike, Name, Req,
        connVars
  <2>6. stream'.file = disk[Name] /\ stream'.offset = 0
    BY <2>1
  <2>7. disk[Name].length >= 0
    BY <1>1, EntryLength
  <2>8. StreamInv'
    BY <1>1, <2>1, <2>6, <2>7 DEF StreamInv
  <2> QED
    BY <2>2, <2>4, <2>5, <2>8 DEF IInv, OutputInv
<1>3. CASE disk[Name].kind \notin {"readable", "directory"}
  <2>1. Respond(Page(404)) /\ disk[Name].kind # "readable"
    BY <1>3 DEF Open
  <2>2. IsForFile(Req)
    BY <1>1 DEF IsForFile, GetLike, Name, HandlingInv, HandlingPhases
  <2> QED
    BY <1>1, <2>1, <2>2, NotFoundKeeps
<1> QED
  BY <1>2, <1>3

(* The end of the file: the length announced is that of the data read.     *)
LEMMA ReadEndKeeps ==
    ASSUME IInv, ReadEnd
    PROVE  IInv'
<1> DEFINE n == stream.offset
           resp == [Make(200, n) EXCEPT !.length = n]
<1>1. /\ TypeOK /\ HandlingInv /\ StreamInv /\ pc = "read" /\ GetLike
      /\ Name \in Files /\ n \in Nat /\ Respond(resp)
      /\ stream.file.kind = "readable" /\ n >= stream.file.length
      /\ stream.file \in Entries
  BY DEF IInv, HandlingInv, ReadEnd, TypeOK, DataLength
<1>2. /\ resp \in Answers /\ resp.status = 200 /\ resp.body = n
      /\ resp.length = n
  <2>1. PICK k \in Nat : k = n
    BY <1>1
  <2>2. 200 \in Statuses
    BY DEF Statuses
  <2>3. PICK r \in Answers : r = Make(200, k)
    BY <2>2, MakeIsAnswer
  <2>4. r.status = 200 /\ r.body = k
    BY <2>2, <2>3, MakeIsAnswer
  <2>5. [r EXCEPT !.length = k] \in Answers
    BY DEF Answers
  <2>6. /\ [r EXCEPT !.length = k].status = r.status
        /\ [r EXCEPT !.length = k].body = r.body
        /\ [r EXCEPT !.length = k].length = k
    BY DEF Answers
  <2> QED
    BY <2>1, <2>3, <2>4, <2>5, <2>6
<1>3. AnswerFits([status |-> resp.status, length |-> resp.body], seen)
  <2>1. stream.file \in seen
    BY <1>1 DEF StreamInv
  <2>2. ASSUME NEW e \in seen, seen = {e}
        PROVE  n = e.length
    <3>1. e = stream.file /\ n <= stream.file.length
      BY <1>1, <2>1, <2>2 DEF StreamInv
    <3>2. stream.file.length \in Nat
      BY <1>1, EntryLength
    <3> QED
      BY <1>1, <3>1, <3>2
  <2> HIDE DEF resp
  <2> QED
    BY <1>1, <1>2, <2>1, <2>2 DEF AnswerFits
<1> HIDE DEF resp
<1> QED
  BY <1>1, <1>2, <1>3, RespondKeeps DEF HandlingPhases

(* Another program's change is among what was seen, if it matters.         *)
LEMMA FileChangesKeeps ==
    ASSUME IInv, NEW f \in Files, NEW entry \in Entries,
           NEW inPlace \in BOOLEAN, FileChanges(f, entry, inPlace)
    PROVE  IInv'
<1>1. /\ UNCHANGED <<connVars, pc>> /\ entry # disk[f]
      /\ disk' = [disk EXCEPT ![f] = entry]
      /\ stream' = IF ~Streamed(f) THEN stream
                   ELSE IF inPlace THEN [stream EXCEPT !.file = entry]
                   ELSE [stream EXCEPT !.linked = FALSE]
      /\ seen' = IF Handling(f) THEN seen \cup {entry} ELSE seen
      /\ changes < MaxChanges /\ changes' = changes + 1
  BY DEF FileChanges
<1>2. TypeOK /\ HandlingInv /\ StreamInv /\ UNCHANGED Req
  BY <1>1 DEF IInv, Req, connVars
<1>3. OutputInv'
  BY <1>1, SilentKeeps DEF IInv, OutputInv, connVars
<1>4. stream' \in [file : Entries, linked : BOOLEAN, offset : Nat]
  <2>1. stream \in [file : Entries, linked : BOOLEAN, offset : Nat]
    BY <1>2 DEF TypeOK
  <2>2. [stream EXCEPT !.file = entry]
            \in [file : Entries, linked : BOOLEAN, offset : Nat]
    BY <2>1
  <2>3. [stream EXCEPT !.linked = FALSE]
            \in [file : Entries, linked : BOOLEAN, offset : Nat]
    BY <2>1
  <2> QED
    BY <1>1, <2>1, <2>2, <2>3
<1>5. TypeOK'
  BY <1>1, <1>2, <1>4, ServiceAssumption DEF TypeOK, connVars
<1>6. HandlingInv'
  <2>1. /\ pc' \in HandlingPhases => parsed' < inBuffer' /\ Req' # Malformed
        /\ pc' \in {"open", "read"} => GetLike' /\ Name' \in Files
    BY <1>1, <1>2 DEF HandlingInv, GetLike, Name, connVars
  <2>2. ASSUME pc' \in HandlingPhases, Rel(Req'.path) \in Files
        PROVE  disk'[Rel(Req'.path)] \in seen'
    <3>1. pc \in HandlingPhases /\ disk[Rel(Req.path)] \in seen
      BY <1>1, <1>2, <2>2 DEF HandlingInv
    <3>2. CASE Rel(Req.path) = f
      BY <1>1, <1>2, <3>1, <3>2 DEF Handling, HandlingPhases, TypeOK
    <3>3. CASE Rel(Req.path) # f
      BY <1>1, <1>2, <3>1, <3>3 DEF TypeOK
    <3> QED
      BY <3>2, <3>3
  <2> QED
    BY <2>1, <2>2 DEF HandlingInv
<1>7. StreamInv'
  <2> SUFFICES ASSUME pc = "read" PROVE StreamInv'
    BY <1>1 DEF StreamInv
  <2>1. stream.file \in seen /\ disk[Name] \in seen /\ Name = Rel(Req.path)
    BY <1>2 DEF StreamInv, HandlingInv, HandlingPhases, Name
  <2>2. CASE Name = f
    <3>1. seen' = seen \cup {entry}
      BY <1>1, <2>1, <2>2 DEF Handling
    <3>2. \A e : seen' # {e}
      BY <1>1, <2>1, <2>2, <3>1
    <3>3. stream'.file \in {stream.file, entry}
      BY <1>1, <1>2 DEF TypeOK
    <3> QED
      BY <2>1, <3>1, <3>2, <3>3 DEF StreamInv
  <2>3. CASE Name # f
    BY <1>1, <1>2, <2>1, <2>3 DEF Handling, Streamed, StreamInv
  <2> QED
    BY <2>2, <2>3
<1> QED
  BY <1>3, <1>5, <1>6, <1>7 DEF IInv, OutputInv

(* Every step keeps the invariant.                                         *)
LEMMA NextIInv == IInv /\ [Next]_vars => IInv'
<1> SUFFICES ASSUME IInv, [Next]_vars PROVE IInv'
  OBVIOUS
<1>0. TypeOK /\ HandlingInv /\ StreamInv /\ OutputInv
  BY DEF IInv, OutputInv
<1> USE DEF connVars
<1>1. CASE HandleRead \/ ParseIncomplete
  <2>1. OutputInv'
    BY <1>0, <1>1, SilentKeeps DEF HandleRead, ParseIncomplete
  <2>2. TypeOK'
    BY <1>0, <1>1 DEF HandleRead, ParseIncomplete, TypeOK
  <2>3. HandlingInv' /\ StreamInv'
    BY <1>1 DEF HandleRead, ParseIncomplete, HandlingInv, HandlingPhases,
        StreamInv
  <2> QED
    BY <2>1, <2>2, <2>3 DEF IInv, OutputInv
<1>2. CASE ParseError
  BY <1>2, ParseErrorKeeps
<1>3. CASE ParseComplete
  <2>1. OutputInv'
    BY <1>0, <1>3, SilentKeeps DEF ParseComplete
  <2>2. TypeOK'
    BY <1>0, <1>3 DEF ParseComplete, TypeOK
  <2>3. HandlingInv' /\ StreamInv'
    BY <1>3 DEF ParseComplete, HandlingInv, HandlingPhases, StreamInv, Req
  <2> QED
    BY <2>1, <2>2, <2>3 DEF IInv, OutputInv
<1>4. CASE Stats \/ Echo \/ Hello \/ MethodNotAllowed \/ Forbidden
  BY <1>4, RouteKeeps
<1>5. CASE Stat \/ Open \/ ReadEnd
  BY <1>5, StatKeeps, OpenKeeps, ReadEndKeeps
<1>6. CASE Read
  <2>1. OutputInv'
    BY <1>0, <1>6, SilentKeeps DEF Read
  <2>2. /\ stream' \in [file : Entries, linked : BOOLEAN, offset : Nat]
        /\ stream'.file = stream.file /\ stream'.offset = stream.offset + 1
    BY <1>0, <1>6 DEF Read, TypeOK
  <2>3. TypeOK'
    BY <1>0, <1>6, <2>2 DEF Read, TypeOK
  <2>4. HandlingInv'
    BY <1>0, <1>6 DEF Read, HandlingInv, HandlingPhases, GetLike, Name, Req
  <2>5. StreamInv'
    <3>1. stream.file.length \in Nat /\ stream.offset \in Nat
      BY <1>0, EntryLength DEF TypeOK
    <3> QED
      BY <1>0, <1>6, <2>2, <3>1 DEF Read, StreamInv
  <2> QED
    BY <2>1, <2>3, <2>4, <2>5 DEF IInv, OutputInv
<1>7. CASE ReadThrows
  <2>1. OutputInv'
    BY <1>0, <1>7, SilentKeeps DEF ReadThrows
  <2>2. TypeOK'
    BY <1>0, <1>7 DEF ReadThrows, TypeOK
  <2>3. HandlingInv' /\ StreamInv'
    BY <1>7 DEF ReadThrows, HandlingInv, HandlingPhases, StreamInv
  <2> QED
    BY <2>1, <2>2, <2>3 DEF IInv, OutputInv
<1>8. CASE Drained
  <2>1. UNCHANGED <<sent, inBuffer, parsed, closing, wire, pc, disk, stream,
                    seen, changes>> /\ closing /\ pc = "idle" /\ open' = FALSE
    BY <1>8 DEF Drained
  <2>2. WireInv' /\ ClosesAsAnnounced'
    BY <1>0, <2>1 DEF OutputInv, WireInv, ClosesAsAnnounced, Reads
  <2>3. FramingAgrees' /\ AnswersAreOfTheMoment'
    BY <1>0, <2>1 DEF OutputInv, FramingAgrees, AnswersAreOfTheMoment, Reads,
        ClientTakes
  <2>4. open' \in BOOLEAN
    BY <2>1, Zenon
  <2>5. TypeOK'
    BY <1>0, <2>1, <2>4 DEF TypeOK
  <2>6. HandlingInv' /\ StreamInv'
    BY <2>1 DEF HandlingInv, HandlingPhases, StreamInv
  <2> QED
    BY <2>2, <2>3, <2>5, <2>6 DEF IInv
<1>9. ASSUME NEW r \in Requests \cup {Malformed}, ClientSends(r)
      PROVE  IInv'
  <2>1. /\ UNCHANGED <<inBuffer, parsed, closing, open, wire, pc, disk, stream,
                       seen, changes>>
        /\ sent' = Append(sent, r)
    BY <1>9 DEF ClientSends
  <2>2. OutputInv'
    BY <1>0, <2>1, SendingKeeps
  <2>3. /\ Len(sent') = Len(sent) + 1 /\ Len(sent) \in Nat
        /\ sent' \in Seq(Requests \cup {Malformed})
        /\ \A i \in 1 .. Len(sent) : sent'[i] = sent[i]
    BY <1>0, <2>1 DEF TypeOK
  <2>4. TypeOK'
    BY <1>0, <2>1, <2>3 DEF TypeOK
  <2>5. parsed < inBuffer => Req' = Req
    BY <1>0, <2>1, <2>3 DEF TypeOK, Req
  <2>6. pc \in {"open", "read"} => pc \in HandlingPhases
    BY DEF HandlingPhases
  <2>7. HandlingInv' /\ StreamInv'
    BY <1>0, <2>1, <2>5, <2>6 DEF HandlingInv, StreamInv, GetLike, Name
  <2> QED
    BY <2>2, <2>4, <2>7 DEF IInv, OutputInv
<1>10. CASE \E f \in Files, entry \in Entries, inPlace \in BOOLEAN :
               FileChanges(f, entry, inPlace)
  BY <1>10, FileChangesKeeps
<1>11. CASE Quiet \/ UNCHANGED vars
  <2>1. UNCHANGED vars
    BY <1>11 DEF Quiet
  <2>2. OutputInv'
    BY <1>0, <2>1, SilentKeeps DEF vars
  <2>3. TypeOK' /\ HandlingInv' /\ StreamInv'
    BY <1>0, <2>1 DEF vars, TypeOK, HandlingInv, StreamInv, GetLike, Name, Req
  <2> QED
    BY <2>2, <2>3 DEF IInv, OutputInv
<1> QED
  BY <1>1, <1>2, <1>3, <1>4, <1>5, <1>6, <1>7, <1>8, <1>9, <1>10, <1>11
     DEF Next

-----------------------------------------------------------------------------
(* The inductive invariant holds in every reachable state.                 *)
THEOREM IInvariant == Spec => []IInv
  BY InitIInv, NextIInv, PTL DEF Spec

(* Every variable of the service keeps its type.                           *)
THEOREM TypeCorrect == Spec => []TypeOK
<1>1. IInv => TypeOK
  BY DEF IInv
<1> QED
  BY <1>1, IInvariant, PTL

(* A client that pipelines finds the k-th response where the k-th is, and  *)
(* its end where Content-Length says, HEAD and changing files included.    *)
THEOREM ResponsesAreFramed == Spec => []FramingAgrees
<1>1. IInv => FramingAgrees
  BY DEF IInv
<1> QED
  BY <1>1, IInvariant, PTL

(* What serveStatic() answers was right at some moment between the end of  *)
(* parsing and the answer, whatever other programs do to the file.         *)
THEOREM FilesAreAnswered == Spec => []AnswersAreOfTheMoment
<1>1. IInv => AnswersAreOfTheMoment
  BY DEF IInv
<1> QED
  BY <1>1, IInvariant, PTL

(* The server says close exactly when the request does not persist, and    *)
(* closes only after it said so.                                           *)
THEOREM CloseIsAnnounced == Spec => []ClosesAsAnnounced
<1>1. IInv => ClosesAsAnnounced
  BY DEF IInv
<1> QED
  BY <1>1, IInvariant, PTL

=============================================================================
