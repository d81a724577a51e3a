--------------------------- MODULE MCHttpParser ---------------------------
(* Small instances of HttpParser for TLC: every request with up to three   *)
(* headers, most followed by a short request, and every bad request line.  *)
EXTENDS HttpParser

CONSTANTS
    Lens              \* lengths of a request line

MCKeys == {ContentLength, TransferEncoding, "host"}

Header(key, val, len) == [key |-> key, val |-> val, len |-> len]

(* A Content-Length that is no number, none, within and over the limit;    *)
(* identity and chunked; plain headers below and over the line limit.      *)
Headers ==
    {Header(ContentLength, v, 1) : v \in -1 .. kMaxBody + 1}
        \cup {Header(TransferEncoding, v, 1) : v \in {0, 1}}
        \cup {Header("host", 0, 1), Header("host", 0, kMaxRequestLine + 1),
              Header(NoKey, 0, 1)}

RequestOf(w, l, h) == [wellFormed |-> w, len |-> l, headers |-> h]
Short == RequestOf(TRUE, 1, <<>>)

MCStreams ==
    {<<RequestOf(w, l, <<>>), Short>> : w \in BOOLEAN, l \in Lens}
        \cup {<<RequestOf(TRUE, 1, <<a>>), Short>> : a \in Headers}
        \cup {<<RequestOf(TRUE, 1, <<a, b>>), Short>> : a, b \in Headers}
        \cup {<<RequestOf(TRUE, 1, <<a, b, Header("host", 0, 1)>>)>> :
                a, b \in Headers}

=============================================================================
