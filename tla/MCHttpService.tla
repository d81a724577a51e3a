--------------------------- MODULE MCHttpService ---------------------------
(* Small instances of HttpService for TLC.                                 *)
EXTENDS HttpService

Request(m, p, v, c, b) ==
    [method |-> m, path |-> p, version |-> v, connection |-> c, body |-> b]

(* Every method on every path, and every way to ask for persistence.       *)
MCRequests ==
    {Request(m, p, "HTTP/1.1", "", 2) : m \in Methods, p \in Paths}
        \cup {Request("GET", "/hello", v, c, 0) :
                 v \in Versions, c \in ConnectionValues}

=============================================================================
