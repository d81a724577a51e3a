------------------------------ MODULE Buffer ------------------------------
(***************************************************************************)
(* The byte buffer behind a connection (class Buffer): a vector with a     *)
(* read and a write index, the reuse of the space already read, and the    *)
(* scatter read into the free tail and a spare area on the stack.          *)
(*                                                                         *)
(* A buffer is a record; each operation maps a buffer to the one it        *)
(* leaves.  A byte is named by its position in the stream it belongs to,   *)
(* so that what a cell holds says where it came from.                      *)
(***************************************************************************)
EXTENDS Integers

CONSTANTS
    kInitialSize,     \* Buffer::kInitialSize
    kPrependSize,     \* Buffer::kPrependSize
    ExtraSize         \* sizeof(extrabuf) of readFd()

ASSUME SizesAssumption ==
    /\ kInitialSize \in Nat /\ kPrependSize \in Nat
    /\ ExtraSize \in Nat \ {0}

Zero == -1            \* what vector::resize() fills new cells with

BufferOf(data, size, read_idx, write_idx) ==
    [data |-> data, size |-> size,
     read_idx |-> read_idx, write_idx |-> write_idx]

NewBuffer ==
    BufferOf([i \in 0 .. kInitialSize - 1 |-> Zero], kInitialSize, 0, 0)

ReadableBytes(b) == b.write_idx - b.read_idx
WritableBytes(b) == b.size - b.write_idx
PrependableBytes(b) == b.read_idx

-----------------------------------------------------------------------------
(* vector::resize(), which also cuts.                                      *)
Resize(b, n) ==
    BufferOf([i \in 0 .. n - 1 |-> IF i < b.size THEN b.data[i] ELSE Zero],
             n, b.read_idx, b.write_idx)

(* The readable bytes are moved to the cells from kPrependSize on.         *)
Compact(b) ==
    BufferOf([i \in 0 .. b.size - 1 |->
                 IF kPrependSize <= i /\ i < kPrependSize + ReadableBytes(b)
                 THEN b.data[b.read_idx + (i - kPrependSize)]
                 ELSE b.data[i]],
             b.size, kPrependSize, kPrependSize + ReadableBytes(b))

(* Bytes first .. first + n - 1 are written behind the readable ones;      *)
(* there are no cells beyond the vector's end.                             *)
Fill(b, first, n) ==
    BufferOf([i \in 0 .. b.size - 1 |->
                 IF b.write_idx <= i /\ i < b.write_idx + n
                 THEN first + (i - b.write_idx) ELSE b.data[i]],
             b.size, b.read_idx, b.write_idx + n)

NeedsResize(b, len) ==
    WritableBytes(b) + PrependableBytes(b) < len + kPrependSize

MakeSpace(b, len) ==
    IF NeedsResize(b, len) THEN Resize(b, b.write_idx + len) ELSE Compact(b)

EnsureWritableBytes(b, len) ==
    IF WritableBytes(b) < len THEN MakeSpace(b, len) ELSE b

AppendBytes(b, first, len) == Fill(EnsureWritableBytes(b, len), first, len)

-----------------------------------------------------------------------------
(* readFd(): readv() fills the free tail and then, only if the tail is     *)
(* smaller than the spare area, the spare area, which is appended.         *)
ReadRoom(b) ==
    WritableBytes(b) + IF WritableBytes(b) < ExtraSize THEN ExtraSize ELSE 0

InExtra_Whole(b, n) == n
InExtra(b, n) == n - WritableBytes(b)

ReadFd(b, first, n) ==
    IF n <= WritableBytes(b) THEN Fill(b, first, n)
    ELSE AppendBytes(Fill(b, first, WritableBytes(b)),
                     first + WritableBytes(b), InExtra(b, n))

(* retrieve(): reading everything starts over at the front.                *)
Retrieve(b, len) ==
    IF len >= ReadableBytes(b) THEN BufferOf(b.data, b.size, 0, 0)
    ELSE BufferOf(b.data, b.size, b.read_idx + len, b.write_idx)

Shrink(b, reserve) == Resize(b, b.write_idx + reserve)

-----------------------------------------------------------------------------
(* A buffer whose indices and cells are in order.                          *)
IsBuffer(b) ==
    /\ b.size \in Nat /\ b.read_idx \in Nat /\ b.write_idx \in Nat
    /\ b.read_idx <= b.write_idx /\ b.write_idx <= b.size
    /\ b.data \in [0 .. b.size - 1 -> Int]

(* The readable bytes are the stream's bytes lo .. hi - 1, in order.       *)
Holds(b, lo, hi) ==
    /\ ReadableBytes(b) = hi - lo
    /\ \A i \in 0 .. hi - lo - 1 : b.data[b.read_idx + i] = lo + i

=============================================================================
