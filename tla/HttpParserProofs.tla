------------------------- MODULE HttpParserProofs -------------------------
(***************************************************************************)
(* Proofs about Buffer and HttpParser, for every size, limit and stream.   *)
(***************************************************************************)
EXTENDS HttpParser, FiniteSetTheorems, WellFoundedInduction, TLAPS

(* A buffer with the stream's bytes lo .. hi - 1 in it.                    *)
Full(b, lo, hi) == IsBuffer(b) /\ Holds(b, lo, hi)

-----------------------------------------------------------------------------
(* resize() to no less than write_idx_ keeps what can be read.             *)
LEMMA ResizeKeeps ==
    ASSUME NEW b, NEW lo \in Nat, NEW hi \in Nat, NEW n \in Nat,
           Full(b, lo, hi), b.write_idx <= n
    PROVE  /\ Full(Resize(b, n), lo, hi)
           /\ WritableBytes(Resize(b, n)) = n - b.write_idx
<1> DEFINE c == Resize(b, n)
<1>1. c.size = n /\ c.read_idx = b.read_idx /\ c.write_idx = b.write_idx
  BY DEF Resize, BufferOf
<1>2. c.data = [i \in 0 .. n - 1 |-> IF i < b.size THEN b.data[i] ELSE Zero]
  BY DEF Resize, BufferOf
<1> HIDE DEF c
<1>3. IsBuffer(c)
  <2>1. ASSUME NEW i \in 0 .. n - 1
        PROVE  (IF i < b.size THEN b.data[i] ELSE Zero) \in Int
    BY DEF Zero, Full, IsBuffer
  <2>2. c.data \in [0 .. n - 1 -> Int]
    BY <1>2, <2>1
  <2> QED
    BY <1>1, <2>2 DEF Full, IsBuffer
<1>4. Holds(c, lo, hi)
  <2>1. ReadableBytes(c) = hi - lo
    BY <1>1 DEF Full, Holds, ReadableBytes
  <2>2. ASSUME NEW i \in 0 .. hi - lo - 1
        PROVE  c.data[c.read_idx + i] = lo + i
    <3>1. b.read_idx + i \in 0 .. n - 1 /\ b.read_idx + i < b.size
      BY DEF Full, IsBuffer, Holds, ReadableBytes
    <3>2. c.data[b.read_idx + i] = b.data[b.read_idx + i]
      BY <1>2, <3>1
    <3> QED
      BY <1>1, <3>2 DEF Full, Holds
  <2> QED
    BY <2>1, <2>2 DEF Holds
<1> QED
  BY <1>1, <1>3, <1>4 DEF Full, WritableBytes, c

(* Writing behind the readable bytes, within the free tail, appends.       *)
LEMMA FillAppends ==
    ASSUME NEW b, NEW lo \in Nat, NEW hi \in Nat, NEW n \in Nat,
           Full(b, lo, hi), n <= WritableBytes(b)
    PROVE  /\ Full(Fill(b, hi, n), lo, hi + n)
           /\ WritableBytes(Fill(b, hi, n)) = WritableBytes(b) - n
<1> DEFINE c == Fill(b, hi, n)
<1>1. /\ c.size = b.size /\ c.read_idx = b.read_idx
      /\ c.write_idx = b.write_idx + n
  BY DEF Fill, BufferOf
<1>2. c.data = [i \in 0 .. b.size - 1 |->
                   IF b.write_idx <= i /\ i < b.write_idx + n
                   THEN hi + (i - b.write_idx) ELSE b.data[i]]
  BY DEF Fill, BufferOf
<1>3. b.write_idx - b.read_idx = hi - lo
  BY DEF Full, Holds, ReadableBytes
<1> HIDE DEF c
<1>4. IsBuffer(c)
  <2>1. c.data \in [0 .. b.size - 1 -> Int]
    BY <1>2 DEF Full, IsBuffer
  <2> QED
    BY <1>1, <2>1, SMTT(60) DEF Full, IsBuffer, WritableBytes
<1>5. ReadableBytes(c) = (hi + n) - lo
  BY <1>1, <1>3 DEF Full, IsBuffer, ReadableBytes
<1>6. ASSUME NEW i \in 0 .. (hi + n) - lo - 1
      PROVE  c.data[c.read_idx + i] = lo + i
  <2> DEFINE at == b.read_idx + i
  <2>1. at \in 0 .. b.size - 1
    BY <1>3 DEF Full, IsBuffer, WritableBytes
  <2>2. CASE i < hi - lo
    <3>1. ~(b.write_idx <= at) /\ i \in 0 .. hi - lo - 1
      BY <1>3, <2>2 DEF Full, IsBuffer
    <3> QED
      BY <1>1, <1>2, <2>1, <3>1 DEF Full, Holds
  <2>3. CASE ~(i < hi - lo)
    <3>1. /\ b.write_idx <= at /\ at < b.write_idx + n
          /\ hi + (at - b.write_idx) = lo + i
      <4>1. b.read_idx \in Nat /\ b.write_idx \in Nat
        BY DEF Full, IsBuffer
      <4> QED
        BY <1>3, <2>3, <4>1
    <3> QED
      BY <1>1, <1>2, <2>1, <3>1
  <2> QED
    BY <2>2, <2>3
<1> QED
  BY <1>1, <1>4, <1>5, <1>6 DEF Full, IsBuffer, Holds, WritableBytes, c

(* makeSpace() moves the readable bytes only towards the front: std::copy  *)
(* is never given a destination inside the range it copies.                *)
LEMMA CompactMovesDown ==
    ASSUME NEW b, NEW len \in Nat, IsBuffer(b),
           WritableBytes(b) < len, ~NeedsResize(b, len)
    PROVE  kPrependSize < b.read_idx
  BY SizesAssumption DEF NeedsResize, PrependableBytes, WritableBytes, IsBuffer

(* makeSpace() keeps the readable bytes and makes the room asked for.      *)
LEMMA MakeSpaceKeeps ==
    ASSUME NEW b, NEW lo \in Nat, NEW hi \in Nat, NEW len \in Nat,
           Full(b, lo, hi), WritableBytes(b) < len
    PROVE  /\ Full(MakeSpace(b, len), lo, hi)
           /\ len <= WritableBytes(MakeSpace(b, len))
<1>1. CASE NeedsResize(b, len)
  <2>1. b.write_idx + len \in Nat /\ b.write_idx <= b.write_idx + len
    BY DEF Full, IsBuffer
  <2>2. /\ Full(Resize(b, b.write_idx + len), lo, hi)
        /\ WritableBytes(Resize(b, b.write_idx + len))
               = (b.write_idx + len) - b.write_idx
    BY <2>1, ResizeKeeps
  <2>3. (b.write_idx + len) - b.write_idx = len
    BY DEF Full, IsBuffer
  <2> QED
    BY <1>1, <2>2, <2>3 DEF MakeSpace
<1>2. CASE ~NeedsResize(b, len)
  <2> DEFINE c == Compact(b)
  <2>1. /\ c.size = b.size /\ c.read_idx = kPrependSize
        /\ c.write_idx = kPrependSize + ReadableBytes(b)
        /\ c.data = [i \in 0 .. b.size - 1 |->
                        IF kPrependSize <= i
                           /\ i < kPrependSize + ReadableBytes(b)
                        THEN b.data[b.read_idx + (i - kPrependSize)]
                        ELSE b.data[i]]
    BY DEF Compact, BufferOf
  <2>2. kPrependSize < b.read_idx /\ kPrependSize \in Nat
    BY <1>2, CompactMovesDown, SizesAssumption DEF Full
  <2> HIDE DEF c
  <2>3. c.data \in [0 .. b.size - 1 -> Int]
    <3>1. ASSUME NEW i \in 0 .. b.size - 1, kPrependSize <= i,
                 i < kPrependSize + ReadableBytes(b)
          PROVE  b.data[b.read_idx + (i - kPrependSize)] \in Int
      <4>1. b.read_idx + (i - kPrependSize) \in 0 .. b.size - 1
        BY <2>2, <3>1, SMTT(60) DEF Full, IsBuffer, ReadableBytes
      <4> QED
        BY <4>1 DEF Full, IsBuffer
    <3> QED
      BY <2>1, <3>1 DEF Full, IsBuffer
  <2>4. IsBuffer(c)
    BY <2>1, <2>2, <2>3 DEF Full, IsBuffer, ReadableBytes
  <2>5. Holds(c, lo, hi)
    <3>1. ReadableBytes(c) = hi - lo
      BY <2>1, <2>2 DEF Full, IsBuffer, Holds, ReadableBytes
    <3>2. ASSUME NEW i \in 0 .. hi - lo - 1
          PROVE  c.data[c.read_idx + i] = lo + i
      <4>1. /\ kPrependSize + i \in 0 .. b.size - 1
            /\ i < ReadableBytes(b)
            /\ b.read_idx + ((kPrependSize + i) - kPrependSize)
                   = b.read_idx + i
        BY <2>2 DEF Full, IsBuffer, Holds, ReadableBytes
      <4>2. c.data[kPrependSize + i] = b.data[b.read_idx + i]
        BY <2>1, <2>2, <4>1 DEF Full, IsBuffer, ReadableBytes
      <4> QED
        BY <2>1, <4>2 DEF Full, Holds
    <3> QED
      BY <3>1, <3>2 DEF Holds
  <2>6. len <= WritableBytes(c)
    BY <1>2, <2>1, <2>2
    DEF Full, IsBuffer, NeedsResize, WritableBytes, PrependableBytes,
        ReadableBytes
  <2> QED
    BY <1>2, <2>4, <2>5, <2>6 DEF MakeSpace, Full, c
<1> QED
  BY <1>1, <1>2

(* ensureWritableBytes() keeps the readable bytes and makes room.          *)
LEMMA EnsureKeeps ==
    ASSUME NEW b, NEW lo \in Nat, NEW hi \in Nat, NEW len \in Nat,
           Full(b, lo, hi)
    PROVE  /\ Full(EnsureWritableBytes(b, len), lo, hi)
           /\ len <= WritableBytes(EnsureWritableBytes(b, len))
<1>1. CASE WritableBytes(b) < len
  BY <1>1, MakeSpaceKeeps DEF EnsureWritableBytes
<1>2. CASE ~(WritableBytes(b) < len)
  BY <1>2 DEF EnsureWritableBytes, WritableBytes, Full, IsBuffer
<1> QED
  BY <1>1, <1>2

(* append() puts its bytes behind those that can be read.                  *)
LEMMA AppendAppends ==
    ASSUME NEW b, NEW lo \in Nat, NEW hi \in Nat, NEW len \in Nat,
           Full(b, lo, hi)
    PROVE  Full(AppendBytes(b, hi, len), lo, hi + len)
  BY EnsureKeeps, FillAppends DEF AppendBytes

(* readFd() appends all that readv() returned, over both its areas.        *)
LEMMA ReadFdAppends ==
    ASSUME NEW b, NEW lo \in Nat, NEW hi \in Nat, NEW n \in Nat,
           Full(b, lo, hi)
    PROVE  Full(ReadFd(b, hi, n), lo, hi + n)
<1> DEFINE w == WritableBytes(b)
<1>1. CASE n <= w
  BY <1>1, FillAppends DEF ReadFd
<1>2. CASE ~(n <= w)
  <2>1. w \in Nat /\ InExtra(b, n) \in Nat /\ hi + w \in Nat
        /\ (hi + w) + InExtra(b, n) = hi + n
    BY <1>2 DEF Full, IsBuffer, WritableBytes, InExtra
  <2>2. Full(Fill(b, hi, w), lo, hi + w)
    BY <2>1, FillAppends
  <2>3. Full(AppendBytes(Fill(b, hi, w), hi + w, InExtra(b, n)),
             lo, (hi + w) + InExtra(b, n))
    BY <2>1, <2>2, AppendAppends
  <2> QED
    BY <1>2, <2>1, <2>3 DEF ReadFd
<1> QED
  BY <1>1, <1>2

(* retrieve() takes the first bytes and leaves the rest.                   *)
LEMMA RetrieveTakes ==
    ASSUME NEW b, NEW lo \in Nat, NEW hi \in Nat, NEW len \in Nat,
           Full(b, lo, hi), len <= ReadableBytes(b)
    PROVE  Full(Retrieve(b, len), lo + len, hi) /\ lo + len <= hi
<1> DEFINE c == Retrieve(b, len)
<1>1. CASE len = ReadableBytes(b)
  <2>1. c.data = b.data /\ c.size = b.size
        /\ c.read_idx = 0 /\ c.write_idx = 0
    BY <1>1 DEF Retrieve, BufferOf, ReadableBytes, Full, IsBuffer
  <2> HIDE DEF c
  <2>2. lo + len = hi
    BY <1>1 DEF Full, Holds
  <2> QED
    BY <2>1, <2>2 DEF Full, IsBuffer, Holds, ReadableBytes, c
<1>2. CASE len < ReadableBytes(b)
  <2>1. c.data = b.data /\ c.size = b.size
        /\ c.read_idx = b.read_idx + len /\ c.write_idx = b.write_idx
    BY <1>2 DEF Retrieve, BufferOf, ReadableBytes, Full, IsBuffer
  <2> HIDE DEF c
  <2>2. IsBuffer(c)
    BY <1>2, <2>1 DEF Full, IsBuffer, ReadableBytes
  <2>3. ReadableBytes(c) = hi - (lo + len) /\ lo + len <= hi
    <3>1. b.write_idx - b.read_idx = hi - lo
      BY DEF Full, Holds, ReadableBytes
    <3> QED
      BY <1>2, <2>1, <3>1 DEF Full, IsBuffer, ReadableBytes
  <2>4. ASSUME NEW i \in 0 .. hi - (lo + len) - 1
        PROVE  c.data[c.read_idx + i] = lo + len + i
    <3>1. len + i \in 0 .. hi - lo - 1
      BY <2>3
    <3>2. b.data[b.read_idx + (len + i)] = lo + (len + i)
      BY <3>1 DEF Full, Holds
    <3> QED
      BY <2>1, <3>2 DEF Full, IsBuffer
  <2> QED
    BY <2>2, <2>3, <2>4 DEF Full, Holds, c
<1> QED
  BY <1>1, <1>2 DEF Full, IsBuffer, ReadableBytes

(* shrink() keeps the readable bytes and the reserve asked for.            *)
LEMMA ShrinkKeeps ==
    ASSUME NEW b, NEW lo \in Nat, NEW hi \in Nat, NEW reserve \in Nat,
           Full(b, lo, hi)
    PROVE  /\ Full(Shrink(b, reserve), lo, hi)
           /\ WritableBytes(Shrink(b, reserve)) = reserve
<1>1. b.write_idx + reserve \in Nat /\ b.write_idx <= b.write_idx + reserve
      /\ (b.write_idx + reserve) - b.write_idx = reserve
  BY DEF Full, IsBuffer
<1> QED
  BY <1>1, ResizeKeeps DEF Shrink

-----------------------------------------------------------------------------
(* Where the parser is in its request, beyond its type: past the request   *)
(* line there is a request; among the headers it is past the first line;   *)
(* a body it waits for is within the limit.                                *)
StateInv ==
    /\ state \in {"HEADERS", "BODY", "COMPLETE"} => MoreInStream
    /\ state = "HEADERS" => line >= 1
    /\ state = "BODY" => contentLength <= kMaxBody
    /\ IsFiniteSet(DOMAIN headers)

(* The inductive invariant: the bytes in the buffer are those the parser   *)
(* thinks they are, so its arithmetic on lengths is about the stream.      *)
IInv == TypeOK /\ ReadableIsStream /\ StateInv /\ InputBounded

(* The lengths the parser computes with are numbers.                       *)
LEMMA LineLenType ==
    ASSUME TypeOK, MoreInStream
    PROVE  /\ Current \in Request
           /\ LineLen(Current, line) \in Nat
<1>1. Current \in Request
  BY DEF TypeOK, MoreInStream, Current
<1>2. Current.headers \in Seq(HeaderLine)
  BY <1>1 DEF Request
<1>3. CASE line = 0
  BY <1>1, <1>3 DEF LineLen, Request
<1>4. CASE line \in 1 .. Len(Current.headers)
  <2>1. Current.headers[line] \in HeaderLine
    BY <1>2, <1>4
  <2>2. Current.headers[line].len \in Nat
    BY <2>1 DEF HeaderLine
  <2>3. line # 0 /\ line <= Len(Current.headers)
    BY <1>2, <1>4
  <2> QED
    BY <1>1, <2>2, <2>3 DEF LineLen
<1>5. CASE line # 0 /\ ~(line <= Len(Current.headers))
  <2>1. LineLen(Current, line) = 0
    BY <1>5 DEF LineLen
  <2> QED
    BY <1>1, <2>1
<1>6. Len(Current.headers) \in Nat
  BY <1>2
<1> QED
  BY <1>1, <1>3, <1>4, <1>5, <1>6 DEF TypeOK

(* Taking bytes that are there keeps buffer and stream in step.            *)
LEMMA TakeKeeps ==
    ASSUME TypeOK, ReadableIsStream, NEW len \in Nat,
           len <= ReadableBytes(input), Take(len), nIn' = nIn
    PROVE  /\ IsBuffer(input') /\ nOut' \in Nat /\ nOut' <= nIn'
           /\ ReadableIsStream'
<1>1. Full(input, nOut, nIn) /\ nOut \in Nat /\ nIn \in Nat
  BY DEF TypeOK, ReadableIsStream, Full
<1>2. Full(Retrieve(input, len), nOut + len, nIn) /\ nOut + len <= nIn
  BY <1>1, RetrieveTakes
<1> QED
  BY <1>1, <1>2 DEF Take, Full, ReadableIsStream

(* Taking a whole line is taking bytes that are there.                     *)
LEMMA TakeLineKeeps ==
    ASSUME TypeOK, ReadableIsStream, LineIsWhole,
           Take(LineLen(Current, line) + CRLF), nIn' = nIn
    PROVE  /\ IsBuffer(input') /\ nOut' \in Nat /\ nOut' <= nIn'
           /\ ReadableIsStream'
<1>1. /\ LineLen(Current, line) + CRLF \in Nat
      /\ LineLen(Current, line) + CRLF <= ReadableBytes(input)
  BY LineLenType DEF LineIsWhole, CRLF, TypeOK, IsBuffer, ReadableBytes
<1> QED
  BY <1>1, TakeKeeps

-----------------------------------------------------------------------------
(* A connection starts with an empty buffer and a parser at rest.          *)
LEMMA InitIInv == Init => IInv
<1> SUFFICES ASSUME Init PROVE IInv
  OBVIOUS
<1>1. Full(NewBuffer, 0, 0)
  <2>1. /\ NewBuffer.size = kInitialSize
        /\ NewBuffer.read_idx = 0 /\ NewBuffer.write_idx = 0
        /\ NewBuffer.data = [i \in 0 .. kInitialSize - 1 |-> Zero]
    BY DEF NewBuffer, BufferOf
  <2> QED
    BY <2>1, SizesAssumption DEF Full, IsBuffer, Holds, ReadableBytes, Zero
<1>2. Full(input, 0, 0)
  BY <1>1, EnsureKeeps, LimitsAssumption DEF Init
<1>3. DOMAIN headers = {}
  BY DEF Init
<1>4. TypeOK
  BY <1>2, <1>3, StreamsAssumption DEF Init, TypeOK, Full
<1>5. ReadableIsStream
  BY <1>2 DEF Init, ReadableIsStream, Full
<1>6. StateInv
  BY <1>3, FS_EmptySet DEF Init, StateInv
<1>7. InputBounded
  <2>1. ReadableBytes(input) <= kMaxRequestLine
    BY <1>2, LimitsAssumption DEF Full, Holds
  <2> QED
    BY <1>3, <2>1, FS_EmptySet, LimitsAssumption DEF InputBounded
<1> QED
  BY <1>4, <1>5, <1>6, <1>7 DEF IInv

(* Every step of the read loop and the parser keeps the invariant.         *)
LEMMA NextIInv == IInv /\ [Next]_vars => IInv'
<1> SUFFICES ASSUME IInv, [Next]_vars PROVE IInv'
  OBVIOUS
<1> USE DEF IInv
<1>1. ASSUME NEW n \in 1 .. ReadRoom(input), Read(n) PROVE IInv'
  <2>1. n \in Nat
    BY DEF TypeOK, IsBuffer, ReadRoom, WritableBytes
  <2>2. Full(input', nOut, nIn + n)
    BY <1>1, <2>1, ReadFdAppends DEF Read, TypeOK, ReadableIsStream, Full
  <2>3. TypeOK' /\ ReadableIsStream'
    BY <1>1, <2>1, <2>2 DEF Read, TypeOK, ReadableIsStream, Full, parserVars
  <2>4. StateInv' /\ InputBounded'
    BY <1>1 DEF Read, StateInv, InputBounded, MoreInStream, parserVars
  <2> QED
    BY <2>3, <2>4
<1>2. CASE ReadEagain
  BY <1>2 DEF ReadEagain, TypeOK, ReadableIsStream, StateInv, InputBounded,
              MoreInStream, wireVars, bufVars, parserVars
<1>3. CASE LineIncomplete
  <2>1. TypeOK' /\ ReadableIsStream' /\ StateInv'
    BY <1>3 DEF LineIncomplete, TypeOK, ReadableIsStream, StateInv,
                MoreInStream, wireVars, bufVars, parserVars
  <2>2. ReadableBytes(input') <= kMaxRequestLine
    BY <1>3, LimitsAssumption
    DEF LineIncomplete, Overlong, TypeOK, IsBuffer, ReadableBytes, bufVars
  <2>3. InputBounded'
    BY <1>3, <2>2 DEF LineIncomplete, InputBounded, parserVars
  <2> QED
    BY <2>1, <2>3
<1>4. CASE LineOverlong
  BY <1>4 DEF LineOverlong, Fail, TypeOK, ReadableIsStream, StateInv,
              InputBounded, MoreInStream, wireVars, bufVars
<1>5. CASE RequestLineGood
  <2>1. /\ IsBuffer(input') /\ nOut' \in Nat /\ nOut' <= nIn'
        /\ ReadableIsStream'
    BY <1>5, TakeLineKeeps DEF RequestLineGood, wireVars
  <2>2. TypeOK' /\ StateInv' /\ InputBounded'
    BY <1>5, <2>1 DEF RequestLineGood, TypeOK, StateInv, InputBounded,
                      LineIsWhole, MoreInStream, wireVars
  <2> QED
    BY <2>1, <2>2
<1>6. CASE RequestLineBad
  BY <1>6 DEF RequestLineBad, Fail, TypeOK, ReadableIsStream, StateInv,
              InputBounded, MoreInStream, wireVars, bufVars
<1>7. CASE HeaderGood
  <2>1. /\ IsBuffer(input') /\ nOut' \in Nat /\ nOut' <= nIn'
        /\ ReadableIsStream'
    BY <1>7, TakeLineKeeps DEF HeaderGood, wireVars
  <2>2. CurrentHeader.key \in Keys /\ CurrentHeader.val \in Int
    <3>1. Current \in Request
      BY <1>7, LineLenType DEF HeaderGood, LineIsWhole
    <3>2. line \in 1 .. Len(Current.headers)
      BY <1>7 DEF HeaderGood, InHeader, TypeOK, StateInv
    <3>3. Current.headers \in Seq(HeaderLine)
      BY <3>1 DEF Request
    <3>4. CurrentHeader \in HeaderLine
      BY <3>2, <3>3 DEF CurrentHeader
    <3> QED
      BY <1>7, <3>4 DEF HeaderGood, HeaderOk, HeaderLine
  <2>3. DOMAIN headers' = DOMAIN headers \cup {CurrentHeader.key}
    BY <1>7 DEF HeaderGood
  <2>4. TypeOK'
    BY <1>7, <2>1, <2>2, <2>3 DEF HeaderGood, HeaderOk, TypeOK, wireVars
  <2>5. /\ IsFiniteSet(DOMAIN headers')
        /\ Cardinality(DOMAIN headers') <= kMaxHeaderCount
    <3> DEFINE D == DOMAIN headers
    <3>1. IsFiniteSet(D) /\ Cardinality(D) < kMaxHeaderCount
      BY <1>7 DEF StateInv, HeaderGood, HeaderOk
    <3> HIDE DEF D
    <3>2. Cardinality(D) \in Nat
      BY <3>1, FS_CardinalityType
    <3>3. /\ IsFiniteSet(D \cup {CurrentHeader.key})
          /\ Cardinality(D \cup {CurrentHeader.key})
                 \in {Cardinality(D), Cardinality(D) + 1}
      BY <3>1, FS_AddElement
    <3>4. Cardinality(D \cup {CurrentHeader.key}) <= kMaxHeaderCount
      BY <3>1, <3>2, <3>3, LimitsAssumption
    <3> QED
      BY <2>3, <3>3, <3>4 DEF D
  <2>6. StateInv'
    BY <1>7, <2>5
    DEF HeaderGood, InHeader, TypeOK, StateInv, MoreInStream, wireVars
  <2>7. InputBounded'
    BY <1>7, <2>5 DEF HeaderGood, InputBounded
  <2> QED
    BY <2>1, <2>4, <2>6, <2>7
<1>8. CASE HeaderBad
  <2>1. /\ IsBuffer(input') /\ nOut' \in Nat /\ nOut' <= nIn'
        /\ ReadableIsStream'
    BY <1>8, TakeLineKeeps DEF HeaderBad, wireVars
  <2>2. TypeOK' /\ StateInv' /\ InputBounded'
    BY <1>8, <2>1 DEF HeaderBad, Fail, TypeOK, StateInv, InputBounded,
                      MoreInStream, wireVars
  <2> QED
    BY <2>1, <2>2
<1>9. CASE HeadersEnd
  <2>1. /\ IsBuffer(input') /\ nOut' \in Nat /\ nOut' <= nIn'
        /\ ReadableIsStream'
    BY <1>9, TakeLineKeeps DEF HeadersEnd, wireVars
  <2>2. /\ state' \in {"COMPLETE", "BODY", "ERROR"}
        /\ state' = "BODY" => contentLength <= kMaxBody
    BY <1>9, LimitsAssumption DEF HeadersEnd, AfterHeaders, TypeOK
  <2>3. TypeOK' /\ StateInv' /\ InputBounded'
    BY <1>9, <2>1, <2>2 DEF HeadersEnd, TypeOK, StateInv, InputBounded,
                            LineIsWhole, MoreInStream, wireVars
  <2> QED
    BY <2>1, <2>3
<1>10. CASE BodyIncomplete
  BY <1>10 DEF BodyIncomplete, TypeOK, ReadableIsStream, StateInv,
               InputBounded, MoreInStream, wireVars, bufVars, parserVars
<1>11. CASE BodyWhole
  <2>1. /\ contentLength \in Nat /\ contentLength <= ReadableBytes(input)
        /\ Take(contentLength) /\ nIn' = nIn
    BY <1>11 DEF BodyWhole, TypeOK, IsBuffer, ReadableBytes, wireVars
  <2>2. /\ IsBuffer(input') /\ nOut' \in Nat /\ nOut' <= nIn'
        /\ ReadableIsStream'
    BY <2>1, TakeKeeps
  <2>3. TypeOK' /\ StateInv' /\ InputBounded'
    BY <1>11, <2>2 DEF BodyWhole, TypeOK, StateInv, InputBounded,
                       MoreInStream, wireVars
  <2> QED
    BY <2>2, <2>3
<1>12. CASE ReturnOk
  <2>1. DOMAIN headers' = {}
    BY <1>12 DEF ReturnOk
  <2>2. TypeOK' /\ ReadableIsStream'
    BY <1>12, <2>1 DEF ReturnOk, ResetLength, TypeOK, ReadableIsStream,
                       StateInv, MoreInStream, wireVars, bufVars
  <2>3. StateInv'
    BY <1>12, <2>1, FS_EmptySet DEF ReturnOk, StateInv
  <2>4. InputBounded'
    BY <1>12, <2>1, FS_EmptySet, LimitsAssumption
    DEF ReturnOk, InputBounded, bufVars, ReadableBytes
  <2> QED
    BY <2>2, <2>3, <2>4
<1>13. CASE ReturnError
  BY <1>13 DEF ReturnError, TypeOK, ReadableIsStream, StateInv, InputBounded,
               MoreInStream, wireVars, bufVars, parserVars
<1>14. CASE UNCHANGED vars
  BY <1>14 DEF TypeOK, ReadableIsStream, StateInv, InputBounded,
               MoreInStream, vars, wireVars, bufVars, parserVars
<1> QED
  BY <1>1, <1>2, <1>3, <1>4, <1>5, <1>6, <1>7, <1>8, <1>9, <1>10, <1>11,
     <1>12, <1>13, <1>14 DEF Next

-----------------------------------------------------------------------------
(* IInv always holds, whatever the limits, the buffer's sizes and the way  *)
(* the bytes arrive.                                                       *)
THEOREM IInvariant == Spec => []IInv
  BY InitIInv, NextIInv, PTL DEF Spec

(* Types, the order of the buffer's indices included.                      *)
THEOREM TypeCorrect == Spec => []TypeOK
  BY IInvariant, PTL DEF IInv

(* The parser reads the stream and nothing else: makeSpace() and readFd()  *)
(* lose, repeat and reorder no byte.                                       *)
THEOREM ReadsTheStream == Spec => []ReadableIsStream
  BY IInvariant, PTL DEF IInv

(* What a connection holds while it waits for more input is bounded.       *)
THEOREM MemoryIsBounded == Spec => []InputBounded
  BY IInvariant, PTL DEF IInv

-----------------------------------------------------------------------------
(* Sums along a sequence, for the positions of lines and requests in the   *)
(* stream.  Any nonempty set of naturals has a least element; that is the  *)
(* induction below.                                                        *)
LEMMA LeastNumber ==
    ASSUME NEW T, T \subseteq Nat, T # {}
    PROVE  \E n \in T : \A m \in T : n <= m
<1>1. PICK n \in T : \A m \in T : ~(<<m, n>> \in OpToRel(<, Nat))
  BY WFMin, NatLessThanWellFounded, Zenon
<1>2. \A m \in T : ~(m < n)
  BY <1>1 DEF OpToRel
<1> QED
  BY <1>2

(* sums[n] is inc[0] + ... + inc[n].                                       *)
AreSums(sums, inc, N) ==
    \A n \in 0 .. N : sums[n] = inc[n] + IF n = 0 THEN 0 ELSE sums[n - 1]

(* Such sums exist: a recursive definition of this form defines something. *)
LEMMA SumsExist ==
    ASSUME NEW N \in Nat, NEW inc \in [0 .. N -> Nat]
    PROVE  \E g \in [0 .. N -> Nat] : AreSums(g, inc, N)
<1> DEFINE Good(n) == \E g \in [0 .. n -> Nat] : AreSums(g, inc, n)
           Bad == {n \in 0 .. N : ~Good(n)}
<1>1. ASSUME Bad # {} PROVE FALSE
  <2>1. PICK n \in Bad : \A m \in Bad : n <= m
    <3>1. Bad \subseteq Nat
      OBVIOUS
    <3> HIDE DEF Bad
    <3> QED
      BY <1>1, <3>1, LeastNumber
  <2>2. n \in 0 .. N /\ ~\E g \in [0 .. n -> Nat] : AreSums(g, inc, n)
    OBVIOUS
  <2>3. CASE n = 0
    <3> DEFINE g == [m \in 0 .. 0 |-> inc[0]]
    <3>1. g \in [0 .. n -> Nat]
      BY <2>3
    <3>2. AreSums(g, inc, n)
      BY <2>3 DEF AreSums
    <3> HIDE DEF g
    <3> QED
      BY <2>2, <3>1, <3>2
  <2>4. CASE n # 0
    <3>1. PICK k \in 0 .. N : k = n - 1
      BY <2>2, <2>4
    <3>2. Good(k)
      <4> HIDE DEF Good
      <4> QED
        BY <2>1, <3>1
    <3>3. PICK g \in [0 .. k -> Nat] : AreSums(g, inc, k)
      BY <3>2
    <3> DEFINE h == [m \in 0 .. n |-> IF m = n THEN inc[n] + g[k] ELSE g[m]]
    <3>4. h \in [0 .. n -> Nat]
      BY <2>2, <3>1
    <3>5. AreSums(h, inc, n)
      <4> SUFFICES ASSUME NEW m \in 0 .. n
                   PROVE  h[m] = inc[m] + IF m = 0 THEN 0 ELSE h[m - 1]
        BY DEF AreSums
      <4>1. CASE m = n
        BY <2>2, <2>4, <3>1, <4>1
      <4>2. CASE m # n
        <5>1. m \in 0 .. k /\ (m # 0 => m - 1 \in 0 .. k)
          BY <2>2, <3>1, <4>2
        <5>2. g[m] = inc[m] + IF m = 0 THEN 0 ELSE g[m - 1]
          BY <3>3, <5>1 DEF AreSums
        <5>3. h[m] = g[m] /\ (m # 0 => h[m - 1] = g[m - 1])
          BY <2>2, <3>1, <5>1
        <5> QED
          BY <5>2, <5>3
      <4> QED
        BY <4>1, <4>2
    <3> HIDE DEF h
    <3> QED
      BY <2>2, <3>4, <3>5
  <2> QED
    BY <2>3, <2>4
<1>2. N \in 0 .. N
  OBVIOUS
<1> QED
  BY <1>1, <1>2

(* Sums of naturals are naturals, and the last is the largest.             *)
LEMMA SumsGrow ==
    ASSUME NEW N \in Nat, NEW inc \in [0 .. N -> Nat], NEW g,
           AreSums(g, inc, N)
    PROVE  /\ \A n \in 0 .. N : g[n] \in Nat
           /\ \A n \in 0 .. N : g[n] <= g[N]
<1>1. ASSUME NEW n \in 0 .. N PROVE g[n] \in Nat
  <2> DEFINE Bad == {m \in 0 .. N : g[m] \notin Nat}
  <2>1. ASSUME Bad # {} PROVE FALSE
    <3>1. Bad \subseteq Nat
      OBVIOUS
    <3>2. PICK m \in Bad : \A k \in Bad : m <= k
      <4> HIDE DEF Bad
      <4> QED
        BY <2>1, <3>1, LeastNumber
    <3>3. m # 0 => m - 1 \in 0 .. N /\ m - 1 \notin Bad
      BY <3>2
    <3> QED
      BY <3>2, <3>3 DEF AreSums
  <2> QED
    BY <2>1
<1>2. ASSUME NEW n \in 0 .. N PROVE g[n] <= g[N]
  <2> DEFINE Bad == {d \in 0 .. N : ~(g[N - d] <= g[N])}
  <2>1. ASSUME Bad # {} PROVE FALSE
    <3>1. Bad \subseteq Nat
      OBVIOUS
    <3>2. PICK d \in Bad : \A k \in Bad : d <= k
      <4> HIDE DEF Bad
      <4> QED
        BY <2>1, <3>1, LeastNumber
    <3>3. d # 0
      BY <1>1
    <3>4. d - 1 \in 0 .. N /\ d - 1 \notin Bad
      BY <3>2, <3>3
    <3>5. g[N - (d - 1)] <= g[N]
      BY <3>4
    <3>6. /\ N - (d - 1) \in 0 .. N /\ N - (d - 1) # 0
          /\ N - (d - 1) - 1 = N - d /\ N - d \in 0 .. N
      BY <3>4
    <3>7. g[N - (d - 1)] = inc[N - (d - 1)] + g[N - d]
      BY <3>6 DEF AreSums
    <3> QED
      BY <1>1, <3>2, <3>5, <3>6, <3>7
  <2>2. N - n \in 0 .. N /\ N - (N - n) = n
    OBVIOUS
  <2> QED
    BY <2>1, <2>2
<1> QED
  BY <1>1, <1>2

-----------------------------------------------------------------------------
(* The parts of a request are what their names say.                        *)
LEMMA RequestParts ==
    ASSUME NEW req \in Request
    PROVE  /\ Len(req.headers) \in Nat
           /\ DOMAIN req.headers = 1 .. Len(req.headers)
           /\ req.len \in Nat
           /\ \A i \in 1 .. Len(req.headers) :
                 /\ req.headers[i].key \in Keys \cup {NoKey}
                 /\ req.headers[i].val \in Int
                 /\ req.headers[i].len \in Nat
<1>1. req.headers \in Seq(HeaderLine) /\ req.len \in Nat
  BY DEF Request
<1>2. \A i \in 1 .. Len(req.headers) : req.headers[i] \in HeaderLine
  BY <1>1
<1> QED
  BY <1>1, <1>2 DEF HeaderLine

(* Every line's length is a number.                                        *)
LEMMA LineLens ==
    ASSUME NEW req \in Request, NEW n \in 0 .. Len(req.headers) + 1
    PROVE  LineLen(req, n) \in Nat
<1>1. CASE n = 0
  BY <1>1, RequestParts DEF LineLen
<1>2. CASE n \in 1 .. Len(req.headers)
  <2>1. req.headers[n].len \in Nat
    BY <1>2, RequestParts
  <2> QED
    BY <1>2, <2>1, RequestParts DEF LineLen
<1>3. CASE n = Len(req.headers) + 1
  BY <1>3, RequestParts DEF LineLen
<1> QED
  BY <1>1, <1>2, <1>3, RequestParts

(* Line ends grow line by line up to the end of the head.                  *)
LEMMA LineEnds ==
    ASSUME NEW req \in Request
    PROVE  /\ LineEnd(req)[0] = LineLen(req, 0) + CRLF
           /\ \A n \in 1 .. Len(req.headers) + 1 :
                 LineEnd(req)[n] = LineLen(req, n) + CRLF + LineEnd(req)[n - 1]
           /\ \A n \in 0 .. Len(req.headers) + 1 :
                 LineEnd(req)[n] \in Nat /\ LineEnd(req)[n] <= HeadLen(req)
           /\ HeadLen(req) \in Nat /\ HeadLen(req) > 0
<1> DEFINE N == Len(req.headers) + 1
           inc == [n \in 0 .. N |-> LineLen(req, n) + CRLF]
<1>1. N \in Nat /\ inc \in [0 .. N -> Nat]
  BY RequestParts, LineLens DEF CRLF
<1>2. PICK g \in [0 .. N -> Nat] : AreSums(g, inc, N)
  <2> HIDE DEF N, inc
  <2> QED
    BY <1>1, SumsExist
<1>3. g = [n \in 0 .. N |-> LineLen(req, n) + CRLF
                                + IF n = 0 THEN 0 ELSE g[n - 1]]
  BY <1>2 DEF AreSums
<1>4. LineEnd(req) = [n \in 0 .. N |-> LineLen(req, n) + CRLF
                                + IF n = 0 THEN 0 ELSE LineEnd(req)[n - 1]]
  <2> HIDE DEF inc
  <2> QED
    BY <1>3 DEF LineEnd
<1>5. AreSums(LineEnd(req), inc, N)
  BY <1>4 DEF AreSums
<1>6. \A n \in 0 .. N : LineEnd(req)[n] \in Nat /\ LineEnd(req)[n] <= LineEnd(req)[N]
  <2> HIDE DEF N, inc
  <2> QED
    BY <1>1, <1>5, SumsGrow
<1>7. LineEnd(req)[0] = LineLen(req, 0) + CRLF
  BY <1>1, <1>4, LineLens DEF CRLF
<1>8. ASSUME NEW n \in 1 .. N
      PROVE  LineEnd(req)[n] = LineLen(req, n) + CRLF + LineEnd(req)[n - 1]
  <2>1. n \in 0 .. N /\ n # 0
    BY <1>1
  <2> HIDE DEF N
  <2> QED
    BY <1>4, <2>1
<1>9. HeadLen(req) \in Nat /\ HeadLen(req) > 0
  <2>1. LineLen(req, 0) \in Nat /\ 0 \in 0 .. N
    BY <1>1, LineLens
  <2> QED
    BY <1>6, <1>7, <2>1 DEF HeadLen, CRLF
<1> QED
  BY <1>6, <1>7, <1>8, <1>9 DEF HeadLen

(* Request ends grow request by request.                                   *)
LEMMA RequestEnds ==
    ASSUME NEW reqs \in Seq(Request)
    PROVE  /\ RequestEnd(reqs)[0] = 0
           /\ \A k \in 1 .. Len(reqs) :
                 RequestEnd(reqs)[k] = RequestEnd(reqs)[k - 1]
                                       + HeadLen(reqs[k]) + BodyLen(reqs[k])
           /\ \A k \in 0 .. Len(reqs) : RequestEnd(reqs)[k] \in Nat
           /\ \A k \in 1 .. Len(reqs) : BodyLen(reqs[k]) \in Nat
<1> DEFINE N == Len(reqs)
           inc == [k \in 0 .. N |-> IF k = 0 THEN 0
                                   ELSE HeadLen(reqs[k]) + BodyLen(reqs[k])]
<1>0. ASSUME NEW k \in 1 .. N
      PROVE  HeadLen(reqs[k]) \in Nat /\ BodyLen(reqs[k]) \in Nat
  <2>1. reqs[k] \in Request
    OBVIOUS
  <2> QED
    BY <2>1, LineEnds, LimitsAssumption DEF BodyLen
<1>1. N \in Nat /\ inc \in [0 .. N -> Nat]
  BY <1>0
<1>2. PICK g \in [0 .. N -> Nat] : AreSums(g, inc, N)
  <2> HIDE DEF N, inc
  <2> QED
    BY <1>1, SumsExist
<1>3. g = [k \in 0 .. N |-> IF k = 0 THEN 0
                           ELSE g[k - 1] + HeadLen(reqs[k]) + BodyLen(reqs[k])]
  <2>1. ASSUME NEW k \in 0 .. N
        PROVE  g[k] = IF k = 0 THEN 0
                      ELSE g[k - 1] + HeadLen(reqs[k]) + BodyLen(reqs[k])
    <3>1. g[k] = inc[k] + IF k = 0 THEN 0 ELSE g[k - 1]
      BY <1>2 DEF AreSums
    <3>2. CASE k = 0
      BY <3>1, <3>2
    <3>3. CASE k # 0
      <4>1. k \in 1 .. N /\ k - 1 \in 0 .. N
        BY <3>3
      <4>2. g[k - 1] \in Nat
        BY <1>2, <4>1
      <4> QED
        BY <1>0, <3>1, <3>3, <4>1, <4>2
    <3> QED
      BY <3>2, <3>3
  <2> HIDE DEF inc
  <2> QED
    BY <2>1
<1>4. RequestEnd(reqs) =
          [k \in 0 .. N |-> IF k = 0 THEN 0
                           ELSE RequestEnd(reqs)[k - 1] + HeadLen(reqs[k])
                                    + BodyLen(reqs[k])]
  <2> HIDE DEF inc
  <2> QED
    BY <1>3 DEF RequestEnd
<1>5. ASSUME NEW k \in 0 .. N PROVE RequestEnd(reqs)[k] \in Nat
  <2> DEFINE Bad == {m \in 0 .. N : RequestEnd(reqs)[m] \notin Nat}
  <2>1. ASSUME Bad # {} PROVE FALSE
    <3>1. Bad \subseteq Nat
      OBVIOUS
    <3>2. PICK m \in Bad : \A j \in Bad : m <= j
      <4> HIDE DEF Bad
      <4> QED
        BY <2>1, <3>1, LeastNumber
    <3>3. m # 0
      BY <1>4
    <3>4. m - 1 \in 0 .. N /\ m - 1 \notin Bad /\ m \in 1 .. N
      BY <3>2, <3>3
    <3>5. RequestEnd(reqs)[m - 1] \in Nat
      BY <3>4
    <3>6. RequestEnd(reqs)[m] = RequestEnd(reqs)[m - 1] + HeadLen(reqs[m])
                                    + BodyLen(reqs[m])
      BY <1>4, <3>4
    <3>7. RequestEnd(reqs)[m] \in Nat
      BY <1>0, <3>4, <3>5, <3>6
    <3> QED
      BY <3>7
  <2> QED
    BY <2>1
<1>6. RequestEnd(reqs)[0] = 0
  BY <1>1, <1>4
<1>7. ASSUME NEW k \in 1 .. N
      PROVE  RequestEnd(reqs)[k] = RequestEnd(reqs)[k - 1]
                                       + HeadLen(reqs[k]) + BodyLen(reqs[k])
  BY <1>4
<1> QED
  BY <1>0, <1>5, <1>6, <1>7

-----------------------------------------------------------------------------
(* What the first n headers of a request say: the names among them, the    *)
(* value the last one of a name has, and whether each passes.              *)
NamesUpTo(req, n) == {req.headers[j].key : j \in 1 .. n}
LastAmong(req, at) ==
    IF at = {} THEN 0
    ELSE req.headers[CHOOSE i \in at : \A j \in at : j <= i].val
ValUpTo(req, key, n) ==
    LastAmong(req, {i \in 1 .. n : req.headers[i].key = key})
Passes(req, i) ==
    /\ Cardinality(NamesUpTo(req, i - 1)) < kMaxHeaderCount
    /\ req.headers[i].key # NoKey
    /\ req.headers[i].key = ContentLength => req.headers[i].val >= 0
PassesUpTo(req, n) ==
    /\ req.wellFormed /\ req.len \in 1 .. kMaxRequestLine
    /\ \A i \in 1 .. n : Passes(req, i)

(* How far the parser is: the requests reported so far were acceptable and *)
(* have arrived; it has taken the bytes up to the line it is at; it knows  *)
(* of the current request what its headers so far say; and it waits only   *)
(* for a request that is not whole.                                        *)
HeadersInv ==
    /\ line \in 1 .. Len(Current.headers) + 1
    /\ nOut = StreamEnd[reported] + LineEnd(Current)[line - 1]
    /\ PassesUpTo(Current, line - 1)
    /\ DOMAIN headers = NamesUpTo(Current, line - 1)
    /\ contentLength = ValUpTo(Current, ContentLength, line - 1)
    /\ TransferEncoding \in DOMAIN headers =>
           headers[TransferEncoding] =
               ValUpTo(Current, TransferEncoding, line - 1)
BodyInv ==
    /\ nOut = StreamEnd[reported] + HeadLen(Current)
    /\ Acceptable(Current)
    /\ contentLength = BodyLen(Current)
ParseInv ==
    /\ nIn <= StreamEnd[Len(stream)]
    /\ \A k \in 1 .. reported : Acceptable(stream[k]) /\ StreamEnd[k] <= nIn
    /\ state = "REQUEST_LINE" =>
           line = 0 /\ nOut = StreamEnd[reported] /\ headers = <<>>
           /\ contentLength = 0
    /\ state = "HEADERS" => HeadersInv
    /\ state = "BODY" => BodyInv
    /\ state = "COMPLETE" =>
           nOut = StreamEnd[reported + 1] /\ Acceptable(Current)
    /\ state = "ERROR" =>
           MoreInStream /\ (~Acceptable(Current) \/ HasLongLine(Current))
    /\ pc = "wait" /\ state # "ERROR" /\ MoreInStream =>
           StreamEnd[reported + 1] > nIn

(* Before the first header nothing is said.                                *)
LEMMA ValOfNone ==
    ASSUME NEW req, NEW key
    PROVE  ValUpTo(req, key, 0) = 0 /\ NamesUpTo(req, 0) = {}
  BY DEF ValUpTo, LastAmong, NamesUpTo

(* A name that is not among the first n headers has the value 0.           *)
LEMMA ValOfAbsent ==
    ASSUME NEW req, NEW key, NEW n \in Nat, key \notin NamesUpTo(req, n)
    PROVE  ValUpTo(req, key, n) = 0
<1>1. {i \in 1 .. n : req.headers[i].key = key} = {}
  BY DEF NamesUpTo
<1> QED
  BY <1>1 DEF ValUpTo, LastAmong

(* The next header adds its name, and replaces the value of that name.     *)
LEMMA ValOfNext ==
    ASSUME NEW req, NEW key, NEW n \in Nat
    PROVE  /\ NamesUpTo(req, n + 1) =
                  NamesUpTo(req, n) \cup {req.headers[n + 1].key}
           /\ ValUpTo(req, key, n + 1) =
                  IF req.headers[n + 1].key = key THEN req.headers[n + 1].val
                  ELSE ValUpTo(req, key, n)
<1> DEFINE at(m) == {i \in 1 .. m : req.headers[i].key = key}
<1>1. NamesUpTo(req, n + 1) = NamesUpTo(req, n) \cup {req.headers[n + 1].key}
  <2>1. 1 .. n + 1 = (1 .. n) \cup {n + 1}
    OBVIOUS
  <2> QED
    BY <2>1 DEF NamesUpTo
<1>2. CASE req.headers[n + 1].key = key
  <2>1. n + 1 \in at(n + 1) /\ \A j \in at(n + 1) : j <= n + 1
    BY <1>2
  <2>2. \A i \in at(n + 1) : (\A j \in at(n + 1) : j <= i) => i = n + 1
    BY <2>1
  <2>3. (CHOOSE i \in at(n + 1) : \A j \in at(n + 1) : j <= i) = n + 1
    <3> DEFINE A == at(n + 1)
               z == n + 1
    <3>1. z \in A /\ (\A j \in A : j <= z)
          /\ \A i \in A : (\A j \in A : j <= i) => i = z
      BY <2>1, <2>2
    <3> HIDE DEF A, z
    <3>2. (CHOOSE i \in A : \A j \in A : j <= i) = z
      BY <3>1
    <3> QED
      BY <3>2 DEF A, z
  <2>4. at(n + 1) # {}
    BY <2>1
  <2> QED
    BY <1>1, <1>2, <2>3, <2>4 DEF ValUpTo, LastAmong
<1>3. CASE req.headers[n + 1].key # key
  <2>1. at(n + 1) = at(n)
    <3>1. 1 .. n + 1 = (1 .. n) \cup {n + 1}
      OBVIOUS
    <3> QED
      BY <1>3, <3>1
  <2>2. ValUpTo(req, key, n + 1) = ValUpTo(req, key, n)
    BY <2>1, Zenon DEF ValUpTo
  <2> QED
    BY <1>1, <1>3, <2>2
<1> QED
  BY <1>2, <1>3

(* All headers together decide: LastVal() and Acceptable() are what the    *)
(* headers up to the last one say.                                         *)
LEMMA AllOfThem ==
    ASSUME NEW req \in Request
    PROVE  /\ \A key : LastVal(req, key) = ValUpTo(req, key, Len(req.headers))
           /\ Acceptable(req) <=>
                 /\ PassesUpTo(req, Len(req.headers))
                 /\ LastVal(req, TransferEncoding) # 1
                 /\ LastVal(req, ContentLength) <= kMaxBody
<1>1. DOMAIN req.headers = 1 .. Len(req.headers)
  BY RequestParts
<1>2. ASSUME NEW key
      PROVE  LastVal(req, key) = ValUpTo(req, key, Len(req.headers))
  BY <1>1 DEF LastVal, ValUpTo, LastAmong
<1>3. Acceptable(req) <=>
         /\ PassesUpTo(req, Len(req.headers))
         /\ LastVal(req, TransferEncoding) # 1
         /\ LastVal(req, ContentLength) <= kMaxBody
  BY <1>1 DEF Acceptable, PassesUpTo, Passes, NamesUpTo
<1> QED
  BY <1>2, <1>3

(* A header that does not pass makes the request unacceptable.             *)
LEMMA OneBadHeader ==
    ASSUME NEW req \in Request, NEW i \in 1 .. Len(req.headers), ~Passes(req, i)
    PROVE  ~Acceptable(req)
  BY AllOfThem DEF PassesUpTo

(* Where the current request lies in the stream, and what is readable.     *)
LEMMA Positions ==
    ASSUME IInv
    PROVE  /\ nIn \in Nat /\ nOut \in Nat /\ nOut <= nIn
           /\ ReadableBytes(input) = nIn - nOut
           /\ reported \in 0 .. Len(stream) /\ Len(stream) \in Nat
           /\ StreamEnd[0] = 0
           /\ \A k \in 0 .. Len(stream) : StreamEnd[k] \in Nat
           /\ MoreInStream =>
                 /\ reported + 1 \in 1 .. Len(stream)
                 /\ Current \in Request
                 /\ HeadLen(Current) \in Nat /\ BodyLen(Current) \in Nat
                 /\ HeadLen(Current) > 0
                 /\ StreamEnd[reported + 1] =
                        StreamEnd[reported] + HeadLen(Current)
                            + BodyLen(Current)
<1>1. TypeOK /\ ReadableIsStream
  BY DEF IInv
<1>2. stream \in Seq(Request) /\ Len(stream) \in Nat
      /\ reported \in 0 .. Len(stream)
  BY <1>1 DEF TypeOK
<1>3. /\ StreamEnd[0] = 0
      /\ \A k \in 0 .. Len(stream) : StreamEnd[k] \in Nat
      /\ \A k \in 1 .. Len(stream) : BodyLen(stream[k]) \in Nat
      /\ \A k \in 1 .. Len(stream) :
            StreamEnd[k] = StreamEnd[k - 1] + HeadLen(stream[k])
                               + BodyLen(stream[k])
  BY <1>2, RequestEnds DEF StreamEnd
<1>4. ASSUME MoreInStream
      PROVE  /\ reported + 1 \in 1 .. Len(stream)
             /\ Current \in Request
             /\ HeadLen(Current) \in Nat /\ BodyLen(Current) \in Nat
             /\ HeadLen(Current) > 0
             /\ StreamEnd[reported + 1] =
                    StreamEnd[reported] + HeadLen(Current) + BodyLen(Current)
  <2>1. reported + 1 \in 1 .. Len(stream) /\ (reported + 1) - 1 = reported
    BY <1>2, <1>4 DEF MoreInStream
  <2>2. Current \in Request
    BY <1>2, <2>1 DEF Current
  <2>3. HeadLen(Current) \in Nat /\ HeadLen(Current) > 0
    BY <2>2, LineEnds
  <2> QED
    BY <1>3, <2>1, <2>2, <2>3 DEF Current
<1>5. /\ nIn \in Nat /\ nOut \in Nat /\ nOut <= nIn
      /\ ReadableBytes(input) = nIn - nOut
  BY <1>1 DEF TypeOK, ReadableIsStream, Holds
<1> QED
  BY <1>2, <1>3, <1>4, <1>5

(* A line that is not whole ends beyond what has arrived; so does its      *)
(* request.                                                                *)
LEMMA LineAhead ==
    ASSUME IInv, ParseInv, InLines, MoreInStream
    PROVE  /\ line \in 0 .. Len(Current.headers) + 1
           /\ LineLen(Current, line) \in Nat
           /\ nOut + LineLen(Current, line) + CRLF =
                  StreamEnd[reported] + LineEnd(Current)[line]
           /\ LineEnd(Current)[line] \in Nat
           /\ LineEnd(Current)[line] <= HeadLen(Current)
<1> DEFINE L == Len(Current.headers)
<1>1. Current \in Request /\ L \in Nat /\ nOut \in Nat
      /\ StreamEnd[reported] \in Nat
  BY Positions, RequestParts
<1>2. line \in 0 .. L + 1
  BY <1>1 DEF ParseInv, HeadersInv, InLines
<1>3. /\ LineLen(Current, line) \in Nat /\ LineEnd(Current)[line] \in Nat
      /\ LineEnd(Current)[line] <= HeadLen(Current)
  BY <1>1, <1>2, LineLens, LineEnds
<1>4. CASE state = "REQUEST_LINE"
  <2>1. line = 0 /\ nOut = StreamEnd[reported]
    BY <1>4 DEF ParseInv
  <2>2. LineEnd(Current)[0] = LineLen(Current, 0) + CRLF
    BY <1>1, LineEnds
  <2> QED
    BY <1>1, <1>2, <1>3, <2>1, <2>2 DEF CRLF
<1>5. CASE state = "HEADERS"
  <2>1. line \in 1 .. L + 1
        /\ nOut = StreamEnd[reported] + LineEnd(Current)[line - 1]
    BY <1>5 DEF ParseInv, HeadersInv
  <2>2. LineEnd(Current)[line] =
            LineLen(Current, line) + CRLF + LineEnd(Current)[line - 1]
    BY <1>1, <2>1, LineEnds
  <2>3. line - 1 \in 0 .. L + 1
    BY <1>1, <2>1
  <2>4. LineEnd(Current)[line - 1] \in Nat
    BY <1>1, <2>3, LineEnds
  <2> QED
    BY <1>1, <1>2, <1>3, <2>1, <2>2, <2>4, SMTT(60) DEF CRLF
<1> QED
  BY <1>4, <1>5 DEF InLines

(* A step within a request leaves the stream where it was.                 *)
LEMMA SameRequest ==
    ASSUME stream' = stream, reported' = reported
    PROVE  /\ StreamEnd' = StreamEnd /\ Current' = Current
           /\ MoreInStream' = MoreInStream
  BY DEF StreamEnd, Current, MoreInStream

(* The parser starts at the first request.                                 *)
LEMMA InitParse == Init => ParseInv
<1> SUFFICES ASSUME Init PROVE ParseInv
  OBVIOUS
<1>1. IInv
  BY InitIInv
<1>2. StreamEnd[0] = 0 /\ \A k \in 0 .. Len(stream) : StreamEnd[k] \in Nat
      /\ Len(stream) \in Nat
  BY <1>1, Positions
<1>3. nIn = 0 /\ nOut = 0 /\ state = "REQUEST_LINE" /\ headers = <<>>
      /\ contentLength = 0 /\ line = 0 /\ reported = 0
  BY DEF Init
<1>4. MoreInStream => StreamEnd[reported + 1] > nIn
  <2> SUFFICES ASSUME MoreInStream PROVE StreamEnd[reported + 1] > 0
    BY <1>3
  <2> QED
    BY <1>1, <1>2, <1>3, Positions
<1> QED
  BY <1>2, <1>3, <1>4 DEF ParseInv

(* A header the parser takes passes, and is added to what it knows.        *)
LEMMA HeaderGoodParse == IInv /\ ParseInv /\ HeaderGood => HeadersInv'
<1> SUFFICES ASSUME IInv, ParseInv, HeaderGood PROVE HeadersInv'
  OBVIOUS
<1> DEFINE L == Len(Current.headers)
<1>1. /\ stream' = stream /\ reported' = reported /\ state = "HEADERS"
      /\ MoreInStream /\ InLines /\ HeadersInv /\ line <= L
  BY DEF HeaderGood, wireVars, InHeader, InLines, LineIsWhole, ParseInv
<1>2. Current \in Request /\ L \in Nat
  BY <1>1, Positions, RequestParts
<1>3. line \in 1 .. L /\ line' = line + 1 /\ line' - 1 = line
      /\ line - 1 \in Nat /\ (line - 1) + 1 = line
  BY <1>1, <1>2 DEF HeadersInv, HeaderGood
<1>4. StreamEnd' = StreamEnd /\ Current' = Current
  BY <1>1, SameRequest
<1>5. nOut' = StreamEnd[reported] + LineEnd(Current)[line]
  <2>1. nOut' = nOut + (LineLen(Current, line) + CRLF)
    BY DEF HeaderGood, Take
  <2>2. nOut \in Nat
    BY Positions
  <2> QED
    BY <1>1, <2>1, <2>2, LineAhead DEF CRLF
<1>6. PassesUpTo(Current, line)
  <2>1. Passes(Current, line)
    BY <1>1 DEF HeadersInv, HeaderGood, HeaderOk, CurrentHeader, Passes
  <2>2. PassesUpTo(Current, line - 1)
    BY <1>1 DEF HeadersInv
  <2>3. \A i \in 1 .. line : i \in 1 .. line - 1 \/ i = line
    BY <1>3
  <2> QED
    BY <2>1, <2>2, <2>3 DEF PassesUpTo
<1>7. \A key : /\ NamesUpTo(Current, line) =
                      NamesUpTo(Current, line - 1) \cup {CurrentHeader.key}
               /\ ValUpTo(Current, key, line) =
                      IF CurrentHeader.key = key THEN CurrentHeader.val
                      ELSE ValUpTo(Current, key, line - 1)
  <2> DEFINE m == line - 1
  <2>1. m \in Nat /\ m + 1 = line
    BY <1>3
  <2> HIDE DEF m
  <2>2. ASSUME NEW key
        PROVE  /\ NamesUpTo(Current, m + 1) =
                      NamesUpTo(Current, m) \cup {Current.headers[m + 1].key}
               /\ ValUpTo(Current, key, m + 1) =
                      IF Current.headers[m + 1].key = key
                      THEN Current.headers[m + 1].val
                      ELSE ValUpTo(Current, key, m)
    BY <2>1, ValOfNext
  <2> QED
    BY <2>1, <2>2 DEF CurrentHeader, m
<1>8. DOMAIN headers' = NamesUpTo(Current, line)
  <2>1. DOMAIN headers' = DOMAIN headers \cup {CurrentHeader.key}
    BY DEF HeaderGood
  <2> QED
    BY <1>1, <1>7, <2>1 DEF HeadersInv
<1>9. contentLength' = ValUpTo(Current, ContentLength, line)
  BY <1>1, <1>7 DEF HeadersInv, HeaderGood
<1>10. TransferEncoding \in DOMAIN headers' =>
           headers'[TransferEncoding] =
               ValUpTo(Current, TransferEncoding, line)
  <2>1. headers' = [k \in DOMAIN headers \cup {CurrentHeader.key} |->
                       IF k = CurrentHeader.key
                       THEN CurrentHeader.val ELSE headers[k]]
    BY DEF HeaderGood
  <2>2. TransferEncoding \in DOMAIN headers =>
           headers[TransferEncoding] =
               ValUpTo(Current, TransferEncoding, line - 1)
    BY <1>1 DEF HeadersInv
  <2> QED
    BY <1>7, <2>1, <2>2
<1> QED
  BY <1>1, <1>2, <1>3, <1>4, <1>5, <1>6, <1>8, <1>9, <1>10 DEF HeadersInv

(* The blank line: what the headers said decides what comes next.          *)
LEMMA HeadersEndParse ==
    ASSUME IInv, ParseInv, HeadersEnd
    PROVE  /\ MoreInStream
           /\ state' = "BODY" => BodyInv'
           /\ state' = "COMPLETE" =>
                 nOut' = StreamEnd[reported + 1] /\ Acceptable(Current)
           /\ state' = "ERROR" => ~Acceptable(Current)
           /\ state' \in {"BODY", "COMPLETE", "ERROR"}
<1> DEFINE L == Len(Current.headers)
<1>1. /\ stream' = stream /\ reported' = reported /\ state = "HEADERS"
      /\ MoreInStream /\ InLines /\ HeadersInv /\ ~(line <= L)
      /\ contentLength' = contentLength
  BY DEF HeadersEnd, wireVars, InHeader, InLines, LineIsWhole, ParseInv
<1>2. Current \in Request /\ L \in Nat
  BY <1>1, Positions, RequestParts
<1>3. line = L + 1 /\ line - 1 = L
  BY <1>1, <1>2 DEF HeadersInv
<1>4. StreamEnd' = StreamEnd /\ Current' = Current
  BY <1>1, SameRequest
<1>5. nOut' = StreamEnd[reported] + HeadLen(Current)
  <2>1. nOut' = nOut + (LineLen(Current, line) + CRLF)
    BY DEF HeadersEnd, Take
  <2>2. nOut \in Nat
    BY Positions
  <2>3. LineEnd(Current)[line] = HeadLen(Current)
    BY <1>3 DEF HeadLen
  <2> QED
    BY <1>1, <2>1, <2>2, <2>3, LineAhead DEF CRLF
<1>6. /\ contentLength = LastVal(Current, ContentLength)
      /\ PassesUpTo(Current, L)
      /\ contentLength \in Nat
  BY <1>1, <1>2, <1>3, AllOfThem DEF HeadersInv, IInv, TypeOK
<1>7. Chunked <=> LastVal(Current, TransferEncoding) = 1
  <2>1. LastVal(Current, TransferEncoding)
            = ValUpTo(Current, TransferEncoding, L)
    BY <1>2, AllOfThem
  <2>2. CASE TransferEncoding \in DOMAIN headers
    BY <1>1, <1>3, <2>1, <2>2 DEF HeadersInv, Chunked
  <2>3. CASE TransferEncoding \notin DOMAIN headers
    <3>1. ValUpTo(Current, TransferEncoding, L) = 0
      BY <1>1, <1>2, <1>3, <2>3, ValOfAbsent DEF HeadersInv
    <3> QED
      BY <2>1, <2>3, <3>1 DEF Chunked
  <2> QED
    BY <2>2, <2>3
<1>8. Acceptable(Current) <=> ~Chunked /\ contentLength <= kMaxBody
  BY <1>2, <1>6, <1>7, AllOfThem
<1>9. contentLength <= kMaxBody => BodyLen(Current) = contentLength
  BY <1>6, LimitsAssumption DEF BodyLen
<1>10. state' = AfterHeaders
  BY DEF HeadersEnd
<1>11. ASSUME state' = "BODY" PROVE BodyInv'
  <2>1. ~Chunked /\ contentLength <= kMaxBody
    BY <1>6, <1>10, <1>11, LimitsAssumption DEF AfterHeaders
  <2> QED
    BY <1>1, <1>4, <1>5, <1>8, <1>9, <2>1 DEF BodyInv
<1>12. ASSUME state' = "COMPLETE"
       PROVE  nOut' = StreamEnd[reported + 1] /\ Acceptable(Current)
  <2>1. ~Chunked /\ contentLength = 0
    BY <1>10, <1>12 DEF AfterHeaders
  <2>2. contentLength <= kMaxBody
    BY <2>1, LimitsAssumption
  <2>3. BodyLen(Current) = 0 /\ Acceptable(Current)
    BY <1>8, <1>9, <2>1, <2>2
  <2>4. /\ StreamEnd[reported + 1] =
              StreamEnd[reported] + HeadLen(Current) + BodyLen(Current)
        /\ StreamEnd[reported] \in Nat /\ HeadLen(Current) \in Nat
    BY <1>1, Positions
  <2> QED
    BY <1>5, <2>3, <2>4
<1>13. ASSUME state' = "ERROR" PROVE ~Acceptable(Current)
  BY <1>6, <1>8, <1>10, <1>13, LimitsAssumption DEF AfterHeaders
<1>14. state' \in {"BODY", "COMPLETE", "ERROR"}
  BY <1>10 DEF AfterHeaders
<1> QED
  BY <1>1, <1>11, <1>12, <1>13, <1>14

(* The verdicts stay right over a step within a request, if what the step  *)
(* makes of its state is right.                                            *)
LEMMA WithinRequest ==
    ASSUME IInv, ParseInv, stream' = stream, reported' = reported, nIn' = nIn,
           state' = "REQUEST_LINE" =>
               line' = 0 /\ nOut' = StreamEnd[reported] /\ headers' = <<>>
               /\ contentLength' = 0,
           state' = "HEADERS" => HeadersInv',
           state' = "BODY" => BodyInv',
           state' = "COMPLETE" =>
               nOut' = StreamEnd[reported + 1] /\ Acceptable(Current),
           state' = "ERROR" =>
               MoreInStream /\ (~Acceptable(Current) \/ HasLongLine(Current)),
           pc' = "wait" /\ state' # "ERROR" /\ MoreInStream =>
               StreamEnd[reported + 1] > nIn
    PROVE  ParseInv'
<1>1. StreamEnd' = StreamEnd /\ Current' = Current
      /\ MoreInStream' = MoreInStream
  BY SameRequest
<1> QED
  BY <1>1 DEF ParseInv

(* A step that changes nothing of the parser's state keeps what it knows.  *)
LEMMA SameState ==
    ASSUME ParseInv, stream' = stream, reported' = reported, nOut' = nOut,
           UNCHANGED parserVars
    PROVE  /\ state' = "HEADERS" => HeadersInv'
           /\ state' = "BODY" => BodyInv'
<1>1. StreamEnd' = StreamEnd /\ Current' = Current
  BY SameRequest
<1> QED
  BY <1>1 DEF ParseInv, HeadersInv, BodyInv, parserVars

(* Every step keeps the verdicts right.                                    *)
LEMMA ParseStep == IInv /\ ParseInv /\ [Next]_vars => ParseInv'
<1> SUFFICES ASSUME IInv, ParseInv, [Next]_vars PROVE ParseInv'
  OBVIOUS
<1>1. ASSUME NEW n \in 1 .. ReadRoom(input), Read(n) PROVE ParseInv'
  <2>1. /\ stream' = stream /\ reported' = reported /\ nOut' = nOut
        /\ UNCHANGED parserVars /\ pc' = "read" /\ nIn' = nIn + n
        /\ nIn + n <= StreamEnd[Len(stream)]
    BY <1>1 DEF Read
  <2>2. StreamEnd' = StreamEnd /\ Current' = Current
        /\ MoreInStream' = MoreInStream
    BY <2>1, SameRequest
  <2>3. /\ state' = "HEADERS" => HeadersInv'
        /\ state' = "BODY" => BodyInv'
    BY <2>1, SameState
  <2>4. ASSUME NEW k \in 1 .. reported PROVE StreamEnd[k] <= nIn'
    <3>1. StreamEnd[k] <= nIn /\ nIn \in Nat /\ n \in Nat
      BY Positions DEF ParseInv, IInv, TypeOK, IsBuffer, ReadRoom,
                       WritableBytes
    <3>2. StreamEnd[k] \in Nat
      BY Positions
    <3> QED
      BY <2>1, <3>1, <3>2
  <2> QED
    BY <2>1, <2>2, <2>3, <2>4 DEF ParseInv, parserVars
<1>2. ASSUME ReadEagain \/ ReturnError \/ UNCHANGED vars PROVE ParseInv'
  <2>1. /\ stream' = stream /\ reported' = reported /\ nOut' = nOut
        /\ UNCHANGED parserVars /\ nIn' = nIn
        /\ pc' = "wait" /\ state' # "ERROR" => pc = "wait"
    BY <1>2 DEF ReadEagain, ReturnError, vars, wireVars, bufVars, parserVars
  <2>2. /\ state' = "HEADERS" => HeadersInv'
        /\ state' = "BODY" => BodyInv'
    BY <2>1, SameState
  <2> QED
    BY <2>1, <2>2, WithinRequest DEF ParseInv, parserVars
<1>3. ASSUME LineIncomplete PROVE ParseInv'
  <2>1. /\ stream' = stream /\ reported' = reported /\ nOut' = nOut
        /\ UNCHANGED parserVars /\ nIn' = nIn /\ InLines /\ ~LineIsWhole
    BY <1>3 DEF LineIncomplete, wireVars, bufVars
  <2>2. /\ state' = "HEADERS" => HeadersInv'
        /\ state' = "BODY" => BodyInv'
    BY <2>1, SameState
  <2>3. ASSUME MoreInStream PROVE StreamEnd[reported + 1] > nIn
    <3>1. nIn - nOut < LineLen(Current, line) + CRLF
      BY <2>1, <2>3, Positions, LineAhead DEF LineIsWhole, CRLF
    <3>2. /\ StreamEnd[reported + 1] =
                StreamEnd[reported] + HeadLen(Current) + BodyLen(Current)
          /\ StreamEnd[reported] \in Nat /\ HeadLen(Current) \in Nat
          /\ BodyLen(Current) \in Nat /\ nIn \in Nat /\ nOut \in Nat
      BY <2>3, Positions
    <3> QED
      BY <2>1, <2>3, <3>1, <3>2, LineAhead, SMTT(60) DEF CRLF
  <2> QED
    BY <2>1, <2>2, <2>3, WithinRequest DEF ParseInv, parserVars, InLines
<1>4. ASSUME LineOverlong PROVE ParseInv'
  <2>1. /\ stream' = stream /\ reported' = reported /\ nIn' = nIn
        /\ state' = "ERROR" /\ InLines /\ ~LineIsWhole
        /\ ReadableBytes(input) > kMaxRequestLine
    BY <1>4 DEF LineOverlong, Fail, Overlong, wireVars
  <2>2. MoreInStream
    <3>1. ASSUME ~MoreInStream PROVE FALSE
      <4>1. state = "REQUEST_LINE"
        BY <2>1, <3>1 DEF InLines, IInv, StateInv
      <4>2. reported = Len(stream)
        BY <3>1, Positions DEF MoreInStream
      <4>3. nIn <= nOut
        BY <4>1, <4>2 DEF ParseInv
      <4> QED
        BY <2>1, <4>3, Positions, LimitsAssumption
    <3> QED
      BY <3>1
  <2>3. /\ LineLen(Current, line) \in Nat /\ Len(Current.headers) \in Nat
        /\ line \in 0 .. Len(Current.headers) + 1 /\ Current \in Request
    BY <2>1, <2>2, LineAhead, Positions, RequestParts
  <2>4. LineLen(Current, line) >= kMaxRequestLine
    <3>1. ReadableBytes(input) < LineLen(Current, line) + CRLF
      BY <2>1, <2>2, <2>3, Positions DEF LineIsWhole, CRLF
    <3> QED
      BY <2>1, <2>3, <3>1, Positions, LimitsAssumption DEF CRLF
  <2>5. HasLongLine(Current)
    <3>1. CASE line \in 0 .. Len(Current.headers)
      BY <2>4, <3>1 DEF HasLongLine
    <3>2. CASE line = Len(Current.headers) + 1
      <4>1. LineLen(Current, line) = 0
        BY <2>3, <3>2 DEF LineLen
      <4>2. LineLen(Current, 0) \in Nat /\ 0 \in 0 .. Len(Current.headers)
        BY <2>3, LineLens
      <4>3. LineLen(Current, 0) >= kMaxRequestLine
        BY <2>4, <4>1, <4>2, LimitsAssumption
      <4> QED
        BY <4>2, <4>3 DEF HasLongLine
    <3> QED
      BY <2>3, <3>1, <3>2
  <2> QED
    BY <2>1, <2>2, <2>5, WithinRequest
<1>5. ASSUME RequestLineGood PROVE ParseInv'
  <2>1. /\ stream' = stream /\ reported' = reported /\ nIn' = nIn
        /\ state' = "HEADERS" /\ state = "REQUEST_LINE" /\ InLines
        /\ MoreInStream /\ RequestLineOk /\ line' = line + 1 /\ pc' # "wait"
        /\ UNCHANGED <<headers, contentLength>>
        /\ nOut' = nOut + (LineLen(Current, line) + CRLF)
    BY <1>5 DEF RequestLineGood, wireVars, InLines, LineIsWhole, Take
  <2>2. Current \in Request /\ Len(Current.headers) \in Nat
        /\ Current.len \in Nat
    BY <2>1, Positions, RequestParts
  <2>3. line = 0 /\ headers = <<>> /\ contentLength = 0
    BY <2>1 DEF ParseInv
  <2>4. StreamEnd' = StreamEnd /\ Current' = Current
    BY <2>1, SameRequest
  <2>5. nOut' = StreamEnd[reported] + LineEnd(Current)[0]
    BY <2>1, <2>3, LineAhead, Positions DEF CRLF
  <2>6. PassesUpTo(Current, 0)
    BY <2>1, <2>2, LimitsAssumption DEF PassesUpTo, RequestLineOk
  <2>7. DOMAIN headers' = {} /\ contentLength' = 0
    BY <2>1, <2>3
  <2>8. HeadersInv'
    <3>1. line' = 1 /\ line' - 1 = 0
      BY <2>1, <2>3
    <3> QED
      BY <2>1, <2>2, <2>4, <2>5, <2>6, <2>7, <3>1, ValOfNone DEF HeadersInv
  <2> QED
    BY <2>1, <2>8, WithinRequest
<1>6. ASSUME RequestLineBad PROVE ParseInv'
  <2>1. /\ stream' = stream /\ reported' = reported /\ nIn' = nIn
        /\ state' = "ERROR" /\ MoreInStream /\ ~RequestLineOk
    BY <1>6 DEF RequestLineBad, Fail, LineIsWhole, wireVars
  <2>2. ~Acceptable(Current)
    <3>1. Current \in Request /\ Current.len \in Nat
      BY <2>1, Positions, RequestParts
    <3> QED
      BY <2>1, <3>1, LimitsAssumption DEF RequestLineOk, Acceptable
  <2> QED
    BY <2>1, <2>2, WithinRequest
<1>7. ASSUME HeaderGood PROVE ParseInv'
  <2>1. /\ stream' = stream /\ reported' = reported /\ nIn' = nIn
        /\ state' = "HEADERS" /\ pc' # "wait"
    BY <1>7 DEF HeaderGood, InHeader, wireVars
  <2> QED
    BY <1>7, <2>1, HeaderGoodParse, WithinRequest
<1>8. ASSUME HeaderBad PROVE ParseInv'
  <2>1. /\ stream' = stream /\ reported' = reported /\ nIn' = nIn
        /\ state' = "ERROR" /\ MoreInStream /\ ~HeaderOk /\ HeadersInv
        /\ line <= Len(Current.headers)
    BY <1>8 DEF HeaderBad, Fail, LineIsWhole, InHeader, ParseInv, wireVars
  <2>2. line \in 1 .. Len(Current.headers) /\ Current \in Request
    BY <2>1, Positions, RequestParts DEF HeadersInv
  <2>3. ~Passes(Current, line)
    BY <2>1 DEF HeaderOk, Passes, CurrentHeader, HeadersInv
  <2>4. ~Acceptable(Current)
    BY <2>2, <2>3, OneBadHeader
  <2> QED
    BY <2>1, <2>4, WithinRequest
<1>9. ASSUME HeadersEnd PROVE ParseInv'
  <2>1. /\ stream' = stream /\ reported' = reported /\ nIn' = nIn
        /\ pc' # "wait"
    BY <1>9 DEF HeadersEnd, wireVars
  <2> QED
    BY <1>9, <2>1, HeadersEndParse, WithinRequest
<1>10. ASSUME BodyIncomplete PROVE ParseInv'
  <2>1. /\ stream' = stream /\ reported' = reported /\ nOut' = nOut
        /\ UNCHANGED parserVars /\ nIn' = nIn /\ state = "BODY" /\ BodyInv
        /\ ReadableBytes(input) < contentLength
    BY <1>10 DEF BodyIncomplete, ParseInv, wireVars, bufVars
  <2>2. BodyInv' /\ state' = "BODY"
    BY <2>1, SameState DEF parserVars
  <2>3. ASSUME MoreInStream PROVE StreamEnd[reported + 1] > nIn
    BY <2>1, <2>3, Positions, SMTT(60) DEF BodyInv
  <2> QED
    BY <2>1, <2>2, <2>3, WithinRequest
<1>11. ASSUME BodyWhole PROVE ParseInv'
  <2>1. /\ stream' = stream /\ reported' = reported /\ nIn' = nIn
        /\ state' = "COMPLETE" /\ BodyInv /\ nOut' = nOut + contentLength
        /\ pc' # "wait" /\ MoreInStream
    BY <1>11 DEF BodyWhole, Take, ParseInv, IInv, StateInv, wireVars
  <2>2. nOut' = StreamEnd[reported + 1] /\ Acceptable(Current)
    BY <2>1, Positions DEF BodyInv
  <2> QED
    BY <2>1, <2>2, WithinRequest
<1>12. ASSUME ReturnOk PROVE ParseInv'
  <2>1. /\ stream' = stream /\ nIn' = nIn /\ nOut' = nOut /\ input' = input
        /\ reported' = reported + 1 /\ state' = "REQUEST_LINE"
        /\ headers' = <<>> /\ line' = 0 /\ contentLength' = 0
        /\ pc' = "wait" => ReadableBytes(input) = 0
        /\ state = "COMPLETE" /\ MoreInStream
    BY <1>12 DEF ReturnOk, ResetLength, IInv, StateInv, wireVars, bufVars
  <2>2. nOut = StreamEnd[reported + 1] /\ Acceptable(Current)
    BY <2>1 DEF ParseInv
  <2>3. StreamEnd' = StreamEnd
    BY <2>1 DEF StreamEnd
  <2>4. ASSUME NEW k \in 1 .. reported + 1
        PROVE  Acceptable(stream[k]) /\ StreamEnd[k] <= nIn
    <3>1. k \in 1 .. reported \/ k = reported + 1
      BY Positions
    <3> QED
      BY <2>2, <3>1, Positions DEF ParseInv, Current
  <2>5. ASSUME pc' = "wait", MoreInStream'
        PROVE  StreamEnd'[reported' + 1] > nIn'
    <3>1. PICK k \in 1 .. Len(stream) :
             k = reported + 2 /\ k - 1 = reported + 1
      BY <2>1, <2>5, Positions DEF MoreInStream
    <3>2. stream \in Seq(Request) /\ stream[k] \in Request
      BY <3>1 DEF IInv, TypeOK
    <3>3. /\ StreamEnd[k] = StreamEnd[k - 1] + HeadLen(stream[k])
                                + BodyLen(stream[k])
          /\ BodyLen(stream[k]) \in Nat
      BY <3>2, RequestEnds DEF StreamEnd
    <3>4. HeadLen(stream[k]) \in Nat /\ HeadLen(stream[k]) > 0
      BY <3>2, LineEnds
    <3>5. nIn = nOut /\ nOut \in Nat
      BY <2>1, <2>5, Positions
    <3>6. StreamEnd[k] > nIn
      BY <2>2, <3>1, <3>3, <3>4, <3>5
    <3>7. reported' + 1 = k
      BY <2>1, <3>1, Positions
    <3> QED
      BY <2>1, <2>3, <3>6, <3>7
  <2> QED
    BY <2>1, <2>2, <2>3, <2>4, <2>5 DEF ParseInv
<1> QED
  BY <1>1, <1>2, <1>3, <1>4, <1>5, <1>6, <1>7, <1>8, <1>9, <1>10, <1>11,
     <1>12 DEF Next

(* The parser reports exactly the whole acceptable requests, and refuses   *)
(* only what is unacceptable or has a line at the limit, however parse()   *)
(* was called on pieces of the stream.                                     *)
THEOREM ParsesAsMeant == Spec => []VerdictsAreRight
<1>1. ParseInv => VerdictsAreRight
  BY DEF ParseInv, VerdictsAreRight
<1> QED
  BY IInvariant, InitParse, ParseStep, <1>1, PTL DEF Spec

=============================================================================
