---------------------------- MODULE HttpService ----------------------------
(***************************************************************************)
(* What the server answers: Server::handleRequest and serveStatic between  *)
(* Connection::handleRequest and the bytes HttpResponse::toString() makes, *)
(* on one connection whose client may pipeline, while other programs       *)
(* change the files under the document root.                               *)
(*                                                                         *)
(* A body is its length.  What HttpParser makes of the input is a request  *)
(* or an error here; the transport neither fails nor times out, both of    *)
(* which module Connection has.                                            *)
(***************************************************************************)
EXTENDS Integers, Sequences

CONSTANTS
    Requests,     \* requests a client may send
    Malformed,    \* what the parser refuses
    Files,        \* relative paths below doc_root that no route hides
    Lengths,      \* lengths of a file, in reads of the stream's buffer
    PageLength,   \* length of the built-in texts
    StatsLengths, \* lengths of the statistics, whose numbers vary
    MaxRequests,  \* bound: requests on the connection
    MaxChanges    \* bound: changes to the files

Methods == {"GET", "HEAD", "POST", "DELETE"}    \* PUT is treated as POST
Paths == {"/stats", "/echo", "/hello", "/", "/../"} \cup Files
Versions == {"HTTP/1.0", "HTTP/1.1"}
ConnectionValues == {"", "close", "Close", "keep-alive", "Keep-Alive", "upgrade"}

ASSUME ServiceAssumption ==
    /\ Requests \subseteq [method : Methods, path : Paths, version : Versions,
                           connection : ConnectionValues, body : Nat]
    /\ "/index.html" \in Files
    /\ Files \cap {"/stats", "/echo", "/hello", "/", "/../"} = {}
    /\ Lengths \subseteq Nat
    /\ PageLength \in Nat /\ StatsLengths \subseteq Nat
    /\ Malformed \notin Requests
    /\ MaxRequests \in Nat /\ MaxChanges \in Nat

(* What stat() and open() find under a name: nothing, something that is    *)
(* not a file, a file that may not be read, or a file.                     *)
NoFile == [kind |-> "none", length |-> 0]
Directory == [kind |-> "directory", length |-> 0]
Entries == {NoFile, Directory}
           \cup [kind : {"sealed", "readable"}, length : Lengths]

VARIABLES
    sent,      \* requests the client has sent
    inBuffer,  \* how many of them input_ has received
    parsed,    \* how many of them the parser is done with
    closing,   \* close_after_write_
    open,      \* not closed_
    pc,        \* where the thread is: "idle", "parse", "route", "open",
               \* "read" or "crashed"
    disk,      \* disk[f]: what the name f stands for
    stream,    \* serveStatic's ifstream: the file it has open, whether its
               \* name still leads to it, and how much has been read
    seen,      \* what the requested name stood for while it was handled
    wire,      \* the responses written to output_
    changes    \* changes to the files so far

connVars == <<sent, inBuffer, parsed, closing, open, wire>>
vars == <<connVars, pc, disk, stream, seen, changes>>

NoStream == [file |-> NoFile, linked |-> FALSE, offset |-> 0]

Init ==
    /\ sent = <<>> /\ inBuffer = 0 /\ parsed = 0
    /\ closing = FALSE /\ open = TRUE
    /\ pc = "idle"
    /\ disk \in [Files -> Entries]
    /\ stream = NoStream
    /\ seen = {}
    /\ wire = <<>>
    /\ changes = 0

Req == sent[parsed + 1]

-----------------------------------------------------------------------------
(* HttpRequest and HttpResponse.                                           *)

Lower(token) ==
    CASE token = "Close" -> "close"
      [] token = "Keep-Alive" -> "keep-alive"
      [] OTHER -> token

Iequals_SameCase(a, b) == a = b
Iequals(a, b) == Lower(a) = Lower(b)

KeepAlive(req) ==
    IF req.version = "HTTP/1.0"
    THEN Iequals(req.connection, "keep-alive")
    ELSE ~Iequals(req.connection, "close")

Unset == -1

(* make(): no Content-Length yet.                                          *)
Make(status, body) ==
    [status |-> status, body |-> body, length |-> Unset, close |-> FALSE]

Page(status) == Make(status, PageLength)

(* toString(): a Content-Length that is missing is the body's.             *)
ToString(resp) ==
    [resp EXCEPT !.length = IF @ = Unset THEN resp.body ELSE @]

-----------------------------------------------------------------------------
(* Connection::handleRequest around the handler.                           *)

(* send(): nothing goes out on a closed connection.  The write may leave   *)
(* the output empty, and then a closing connection closes.                 *)
Send(resp, close) ==
    /\ wire' = IF open
               THEN Append(wire, [msg |-> ToString(resp), of |-> parsed + 1,
                                  seen |-> seen])
               ELSE wire
    /\ seen' = {}
    /\ closing' = (closing \/ close)
    /\ \/ open' = open
       \/ closing' /\ open' = FALSE

(* After the handler: Server header, Content-Length for HEAD and no body,  *)
(* Connection: close for a request that does not persist.                  *)
ForHead_ClearedFirst(resp) == [resp EXCEPT !.length = 0, !.body = 0]
ForHead(resp) == [resp EXCEPT !.length = resp.body, !.body = 0]

MarkClose(resp, keep) == [resp EXCEPT !.close = ~keep]

Respond(resp) ==
    LET answer == IF Req.method = "HEAD" THEN ForHead(resp) ELSE resp
        keep == KeepAlive(Req)
    IN  /\ parsed' = parsed + 1
        /\ Send(MarkClose(answer, keep), ~keep)
        /\ pc' = IF keep THEN "parse" ELSE "idle"
        /\ stream' = NoStream
        /\ UNCHANGED <<sent, inBuffer, disk, changes>>

(* handleRead(): all that has arrived goes into input_.                    *)
HandleRead ==
    /\ pc = "idle" /\ open
    /\ inBuffer < Len(sent)
    /\ inBuffer' = Len(sent)
    /\ pc' = "parse"
    /\ UNCHANGED <<sent, parsed, closing, open, wire, disk, stream, seen, changes>>

(* Nothing left in the buffer.                                             *)
ParseIncomplete ==
    /\ pc = "parse"
    /\ parsed = inBuffer
    /\ pc' = "idle"
    /\ UNCHANGED <<connVars, disk, stream, seen, changes>>

(* A malformed request.  The parser stays in its error state: it never     *)
(* gets past the request, and whatever comes next is refused like it.      *)
ParseError ==
    /\ pc = "parse"
    /\ parsed < inBuffer /\ Req = Malformed
    /\ Send(MarkClose(Page(400), FALSE), TRUE)
    /\ pc' = "idle"
    /\ UNCHANGED <<sent, inBuffer, parsed, disk, stream, changes>>

Rel(path) == IF path = "/" THEN "/index.html" ELSE path

ParseComplete ==
    /\ pc = "parse"
    /\ parsed < inBuffer /\ Req # Malformed
    /\ pc' = "route"
    /\ seen' = IF Rel(Req.path) \in Files THEN {disk[Rel(Req.path)]} ELSE {}
    /\ UNCHANGED <<connVars, disk, stream, changes>>

-----------------------------------------------------------------------------
(* Server::handleRequest.                                                  *)
GetLike == Req.method \in {"GET", "HEAD"}
Static == GetLike /\ Req.path \notin {"/stats", "/echo", "/hello"}

Stats ==
    /\ pc = "route"
    /\ Req.path = "/stats"
    /\ \E n \in StatsLengths : Respond(Make(200, n))

Echo ==
    /\ pc = "route"
    /\ Req.path = "/echo"
    /\ Respond(IF Req.method = "POST" THEN Make(200, Req.body) ELSE Page(405))

Hello ==
    /\ pc = "route"
    /\ GetLike /\ Req.path = "/hello"
    /\ Respond(Page(200))

MethodNotAllowed ==
    /\ pc = "route"
    /\ ~GetLike /\ Req.path \notin {"/stats", "/echo"}
    /\ Respond(Page(405))

(* serveStatic(): the checks on the name and stat().                       *)
Name == Rel(Req.path)

Forbidden ==
    /\ pc = "route"
    /\ Static /\ Name = "/../"
    /\ Respond(Page(403))

IsRegular(entry) == entry.kind \in {"sealed", "readable"}

Stat ==
    /\ pc = "route"
    /\ Static /\ Name # "/../"
    /\ IF IsRegular(disk[Name])
       THEN pc' = "open" /\ UNCHANGED <<connVars, disk, stream, seen, changes>>
       ELSE Respond(Page(404))

(* The ifstream, on whatever the name stands for by now.  A directory can  *)
(* be opened.                                                              *)
Open ==
    /\ pc = "open"
    /\ IF disk[Name].kind \in {"readable", "directory"}
       THEN /\ stream' = [file |-> disk[Name], linked |-> TRUE, offset |-> 0]
            /\ pc' = "read"
            /\ UNCHANGED <<connVars, disk, seen, changes>>
       ELSE Respond(Page(404))

(* The iterators over it, one fill of the stream's buffer at a time.       *)
Read ==
    /\ pc = "read"
    /\ stream.file.kind = "readable"
    /\ stream.offset < stream.file.length
    /\ stream' = [stream EXCEPT !.offset = @ + 1]
    /\ UNCHANGED <<connVars, pc, disk, seen, changes>>

(* read() refuses a directory, the stream buffer throws, and nothing on    *)
(* the thread's stack catches it.                                          *)
ReadThrows ==
    /\ pc = "read"
    /\ stream.file.kind = "directory"
    /\ pc' = "crashed"
    /\ UNCHANGED <<connVars, disk, stream, seen, changes>>

(* The length announced is that of the data read.                          *)
DataLength_OfFile == stream.file.length
DataLength == stream.offset

ReadEnd ==
    /\ pc = "read"
    /\ stream.file.kind = "readable"
    /\ stream.offset >= stream.file.length
    /\ Respond([Make(200, stream.offset) EXCEPT !.length = DataLength])

-----------------------------------------------------------------------------
(* The environment.                                                        *)

(* A write to the socket empties output_ later on.                         *)
Drained ==
    /\ pc = "idle" /\ open /\ closing
    /\ open' = FALSE
    /\ UNCHANGED <<sent, inBuffer, parsed, closing, wire, pc, disk,
                   stream, seen, changes>>

ClientSends(r) ==
    /\ open
    /\ Len(sent) < MaxRequests
    /\ sent' = Append(sent, r)
    /\ UNCHANGED <<inBuffer, parsed, closing, open, wire, pc, disk,
                   stream, seen, changes>>

(* Another program changes a file: writes to it in place, where an open    *)
(* stream sees it, or puts something else under its name.                  *)
Handling(f) == pc \in {"route", "open", "read"} /\ Rel(Req.path) = f
Streamed(f) == pc = "read" /\ stream.linked /\ Rel(Req.path) = f

FileChanges(f, entry, inPlace) ==
    /\ changes < MaxChanges
    /\ entry # disk[f]
    /\ inPlace => disk[f].kind = "readable" /\ entry.kind = "readable"
    /\ disk' = [disk EXCEPT ![f] = entry]
    /\ stream' = IF ~Streamed(f) THEN stream
                 ELSE IF inPlace THEN [stream EXCEPT !.file = entry]
                 ELSE [stream EXCEPT !.linked = FALSE]
    /\ seen' = IF Handling(f) THEN seen \cup {entry} ELSE seen
    /\ changes' = changes + 1
    /\ UNCHANGED <<connVars, pc>>

(* Nothing more happens: the client waits, or there is nobody to talk to.  *)
Quiet ==
    /\ pc \in {"crashed", "idle"}
    /\ UNCHANGED vars

Next ==
    \/ HandleRead \/ ParseIncomplete \/ ParseError \/ ParseComplete
    \/ Stats \/ Echo \/ Hello \/ MethodNotAllowed \/ Forbidden
    \/ Stat \/ Open \/ Read \/ ReadThrows \/ ReadEnd
    \/ Drained
    \/ \E r \in Requests \cup {Malformed} : ClientSends(r)
    \/ \E f \in Files, entry \in Entries, inPlace \in BOOLEAN :
           FileChanges(f, entry, inPlace)
    \/ Quiet

Spec == Init /\ [][Next]_vars

-----------------------------------------------------------------------------
Messages == [status : {200, 400, 403, 404, 405}, close : BOOLEAN,
             length : Nat, body : Nat]

(* Every variable has its type.                                            *)
TypeOK ==
    /\ sent \in Seq(Requests \cup {Malformed})
    /\ inBuffer \in 0 .. Len(sent) /\ parsed \in 0 .. inBuffer
    /\ closing \in BOOLEAN /\ open \in BOOLEAN
    /\ pc \in {"idle", "parse", "route", "open", "read", "crashed"}
    /\ disk \in [Files -> Entries]
    /\ stream \in [file : Entries, linked : BOOLEAN, offset : Nat]
    /\ seen \subseteq Entries
    /\ wire \in Seq([msg : Messages, of : Nat \ {0}, seen : SUBSET Entries])
    /\ changes \in 0 .. MaxChanges

(* The responses a client reads: those up to the first that says close.    *)
Reads(i) == i \in 1 .. Len(wire) /\ \A j \in 1 .. i - 1 : ~wire[j].msg.close

(* A client that pipelines matches the k-th response with its k-th request *)
(* and finds the end of each by Content-Length, or by knowing it asked     *)
(* with HEAD: the bytes that follow each head are exactly those it takes,  *)
(* whatever happened to the file while it was read.                        *)
ClientTakes(i) ==
    IF sent[i] # Malformed /\ sent[i].method = "HEAD" THEN 0
    ELSE wire[i].msg.length
FramingAgrees ==
    \A i \in 1 .. Len(wire) :
        Reads(i) => wire[i].of = i /\ wire[i].msg.body = ClientTakes(i)

(* The answer for a file is right for some moment of the request's         *)
(* handling, though stat, open and read look at three moments: found only  *)
(* if it could be read at one, refused only if it could not; and a file    *)
(* that stayed as it was is announced with its length, to HEAD as to GET.  *)
AnswerFits(msg, entries) ==
    /\ msg.status = 200 => \E e \in entries : e.kind = "readable"
    /\ msg.status = 404 => \E e \in entries : e.kind # "readable"
    /\ \A e \in entries :
           entries = {e} /\ msg.status = 200 => msg.length = e.length
IsForFile(r) ==
    r # Malformed /\ r.method \in {"GET", "HEAD"} /\ Rel(r.path) \in Files
AnswersAreOfTheMoment ==
    \A i \in 1 .. Len(wire) :
        LET unit == wire[i]
        IN  IsForFile(sent[unit.of]) =>
                unit.msg.status \in {200, 404} /\ AnswerFits(unit.msg, unit.seen)

(* A response the client reads says close exactly when its request does    *)
(* not persist (http.cpp:28: HTTP/1.0 only on request, HTTP/1.1 unless     *)
(* asked not to), and the server closes only after saying so.              *)
Persists(r) ==
    /\ r # Malformed
    /\ IF r.version = "HTTP/1.0" THEN r.connection \in {"keep-alive", "Keep-Alive"}
       ELSE r.connection \notin {"close", "Close"}
ClosesAsAnnounced ==
    /\ \A i \in 1 .. Len(wire) :
           Reads(i) => (wire[i].msg.close <=> ~Persists(sent[i]))
    /\ ~open => \E i \in 1 .. Len(wire) : wire[i].msg.close

=============================================================================
