----------------------------- MODULE MemoryPool -----------------------------
(***************************************************************************)
(* The fixed-size block pools of ws-server.  tlsPoolFor() keeps one pool   *)
(* per thread and size class; a pool takes chunks from the system, cuts    *)
(* them into blocks and hands blocks out and takes them back without any   *)
(* lock.  PoolAllocator frees into the pools of the thread that frees, so  *)
(* a block may move to another thread's list, and a pool gives its chunks  *)
(* back to the system when its thread ends, whatever still points there.   *)
(*                                                                         *)
(* A free list is a set here: which of its blocks comes out next is left   *)
(* open.  A block is named by its chunk, which is a piece of memory that   *)
(* the system may give out again once it is freed, and its index in it.    *)
(* Blocks whose memory was freed under them are kept apart: stale on the   *)
(* lists, lost in the program's hands.                                     *)
(***************************************************************************)
EXTENDS Integers, FiniteSets, FiniteSetsExt

CONSTANTS
    Threads,      \* threads that use the pools
    Chunks,       \* bound: the memory aligned_alloc() can give
    Align,        \* kAlign
    Classes,      \* kClasses
    ClassBlocks,  \* blocks in a chunk of a size class (512)
    BigBlocks,    \* blocks in a chunk of a larger size (16)
    Sizes,        \* the sizeof(T) asked for
    Width         \* bits of size_t

ASSUME PoolAssumption ==
    /\ {Align, ClassBlocks, BigBlocks} \subseteq Nat \ {0}
    /\ Classes \subseteq Nat /\ IsFiniteSet(Classes)
    /\ Sizes \subseteq Nat \ {0}
    /\ Width \in Nat

(* size_t counts whatever fits into memory, though not negative numbers.   *)
ASSUME MemoryAssumption ==
    /\ IsFiniteSet(Chunks)
    /\ \A n \in {ClassBlocks, BigBlocks} : n * Cardinality(Chunks) < 2 ^ Width

(* normalizeBlockSize(): room for the list's pointer, then up to alignment.*)
NormalizeBlockSize(n) ==
    LET m == IF n < Align THEN Align ELSE n
    IN  ((m + Align - 1) \div Align) * Align

(* The pool tlsPoolFor(n) picks: the first class that is large enough, or  *)
(* for larger sizes one pool per rounded size.                             *)
Fits_Below(n, class) == class <= n
Fits(n, class) == n <= class

BlockSizeFor(n) ==
    LET fitting == {class \in Classes : Fits(n, class)}
    IN  IF fitting # {} THEN Min(fitting) ELSE NormalizeBlockSize(n)

BlockSizes == {BlockSizeFor(n) : n \in Sizes}
PerChunk(s) == IF s \in Classes THEN ClassBlocks ELSE BigBlocks
Pools == Threads \X BlockSizes

VARIABLES
    alive,   \* threads that run
    chunks,  \* chunks[p]: chunks_ of pool p; a pool that exists has one
    free,    \* free[p]: the blocks on free_list_
    stale,   \* stale[p]: those on it whose memory has been freed since
    inUse,   \* inUse[p]: in_use_, before it wraps
    peak,    \* the most blocks p ever lacked on its list (for FewChunks)
    held,    \* blocks the program holds: [block, size asked for]
    lost,    \* those whose memory was freed while it held them
    outcome  \* "runs"; "aborted": bad_alloc left a noexcept function;
             \* "undefined": freed memory was read or written as a link

vars == <<alive, chunks, free, stale, inUse, peak, held, lost, outcome>>

Init ==
    /\ alive = Threads
    /\ chunks = [p \in Pools |-> {}]
    /\ free = [p \in Pools |-> {}]
    /\ stale = [p \in Pools |-> {}]
    /\ inUse = [p \in Pools |-> 0]
    /\ peak = [p \in Pools |-> 0]
    /\ held = {}
    /\ lost = {}
    /\ outcome = "runs"

BlocksOf(k, s) == {[chunk |-> k, index |-> i] : i \in 0 .. PerChunk(s) - 1}
Home(p) == UNION {BlocksOf(k, p[2]) : k \in chunks[p]}
Capacity(p) == PerChunk(p[2]) * Cardinality(chunks[p])
BlocksInUse(p) == inUse[p] % 2 ^ Width
HeldBlocks == {h.block : h \in held}
Runs(t) == t \in alive /\ outcome = "runs"

(* What aligned_alloc() may return: memory no pool has.                    *)
Unused == Chunks \ UNION {chunks[p] : p \in Pools}

-----------------------------------------------------------------------------
(* allocate() on thread t for an object of n bytes: from the list, or, on  *)
(* an empty list or for the thread's first use of the pool, after grow().  *)
Dry_Early(p) == Cardinality(free[p]) <= 1
Dry(p) == free[p] = {} /\ stale[p] = {}

Take(p, n, list) ==
    \E b \in list :
        /\ free' = [free EXCEPT ![p] = list \ {b}]
        /\ inUse' = [inUse EXCEPT ![p] = @ + 1]
        /\ held' = held \cup {[block |-> b, size |-> n]}

AllocateFromList(t, n) ==
    LET p == <<t, BlockSizeFor(n)>>
    IN  /\ Runs(t)
        /\ ~Dry(p)
        /\ Take(p, n, free[p])
        /\ peak' = [peak EXCEPT ![p] = Max({@, Capacity(p) - Cardinality(free'[p])})]
        /\ UNCHANGED <<alive, chunks, stale, lost, outcome>>

(* The block at the head of the list lies in memory that was freed: it is  *)
(* handed out, and the rest of the list is whatever that memory holds now. *)
AllocateStale(t, n) ==
    LET p == <<t, BlockSizeFor(n)>>
    IN  /\ Runs(t)
        /\ \E b \in stale[p] : held' = held \cup {[block |-> b, size |-> n]}
        /\ inUse' = [inUse EXCEPT ![p] = @ + 1]
        /\ outcome' = "undefined"
        /\ UNCHANGED <<alive, chunks, free, stale, peak, lost>>

AllocateGrow(t, n, k) ==
    LET p == <<t, BlockSizeFor(n)>>
    IN  /\ Runs(t)
        /\ Dry(p)
        /\ k \in Unused
        /\ chunks' = [chunks EXCEPT ![p] = @ \cup {k}]
        /\ Take(p, n, free[p] \cup BlocksOf(k, p[2]))
        /\ peak' = [peak EXCEPT ![p] =
                       Max({@, Capacity(p)' - Cardinality(free'[p])})]
        /\ UNCHANGED <<alive, stale, lost, outcome>>

(* aligned_alloc() fails: grow() throws before it changes anything, and a  *)
(* pool whose constructor throws is not kept.                              *)
BadAlloc(t, n) ==
    /\ Runs(t)
    /\ Dry(<<t, BlockSizeFor(n)>>)
    /\ Unused = {}
    /\ UNCHANGED vars

(* PoolAllocator::deallocate() on thread t, whichever thread allocated the *)
(* block.  tlsPoolFor() builds the pool first if t has none.               *)
InUseAfterFree_Kept(p) == inUse[p]
InUseAfterFree(p) == inUse[p] - 1

HasPool(p, new) ==
    \/ chunks[p] # {} /\ new = {}
    \/ chunks[p] = {} /\ \E k \in Unused : new = {k}

Deallocate(t, h, new) ==
    LET p == <<t, BlockSizeFor(h.size)>>
    IN  /\ Runs(t)
        /\ h \in held
        /\ HasPool(p, new)
        /\ chunks' = [chunks EXCEPT ![p] = @ \cup new]
        /\ free' = [free EXCEPT ![p] = (@ \cup {h.block})
                       \cup UNION {BlocksOf(k, p[2]) : k \in new}]
        /\ inUse' = [inUse EXCEPT ![p] = InUseAfterFree(p)]
        /\ held' = held \ {h}
        /\ UNCHANGED <<alive, stale, peak, lost, outcome>>

(* The object's memory went with the pools of the thread that allocated    *)
(* it: the link is written over whatever is there now.                     *)
DeallocateLost(t, h, new) ==
    LET p == <<t, BlockSizeFor(h.size)>>
    IN  /\ Runs(t)
        /\ h \in lost
        /\ HasPool(p, new)
        /\ chunks' = [chunks EXCEPT ![p] = @ \cup new]
        /\ free' = [free EXCEPT ![p] = @ \cup
                       UNION {BlocksOf(k, p[2]) : k \in new}]
        /\ stale' = [stale EXCEPT ![p] = @ \cup {h.block}]
        /\ inUse' = [inUse EXCEPT ![p] = InUseAfterFree(p)]
        /\ lost' = lost \ {h}
        /\ outcome' = "undefined"
        /\ UNCHANGED <<alive, peak, held>>

(* The pool cannot be built: bad_alloc out of a noexcept function.         *)
DeallocateThrows(t, h) ==
    /\ Runs(t)
    /\ h \in held \cup lost
    /\ chunks[<<t, BlockSizeFor(h.size)>>] = {}
    /\ Unused = {}
    /\ outcome' = "aborted"
    /\ UNCHANGED <<alive, chunks, free, stale, inUse, peak, held, lost>>

(* Thread t ends: its pools free their chunks and are gone, and with them  *)
(* their lists, blocks of other threads' chunks included.  Nothing asks    *)
(* whether a block of those chunks is still in use, or on a list of        *)
(* another thread, which keeps the pointer.                                *)
ChunksOf(t) == UNION {chunks[<<t, s>>] : s \in BlockSizes}

Exit(t) ==
    LET dead(b) == b.chunk \in ChunksOf(t)
    IN  /\ Runs(t)
        /\ alive' = alive \ {t}
        /\ chunks' = [p \in Pools |-> IF p[1] = t THEN {} ELSE chunks[p]]
        /\ free' = [p \in Pools |-> IF p[1] = t THEN {}
                                    ELSE {b \in free[p] : ~dead(b)}]
        /\ stale' = [p \in Pools |-> IF p[1] = t THEN {}
                       ELSE stale[p] \cup {b \in free[p] : dead(b)}]
        /\ inUse' = [p \in Pools |-> IF p[1] = t THEN 0 ELSE inUse[p]]
        /\ peak' = [p \in Pools |-> IF p[1] = t THEN 0 ELSE peak[p]]
        /\ held' = {h \in held : ~dead(h.block)}
        /\ lost' = lost \cup {h \in held : dead(h.block)}
        /\ UNCHANGED outcome

Ended ==
    /\ alive = {} \/ outcome # "runs"
    /\ UNCHANGED vars

Next ==
    \/ \E t \in Threads, n \in Sizes :
           \/ AllocateFromList(t, n) \/ AllocateStale(t, n) \/ BadAlloc(t, n)
           \/ \E k \in Chunks : AllocateGrow(t, n, k)
    \/ \E t \in Threads, h \in held \cup lost :
           \/ DeallocateThrows(t, h)
           \/ \E new \in {{}} \cup {{k} : k \in Chunks} :
                  Deallocate(t, h, new) \/ DeallocateLost(t, h, new)
    \/ \E t \in Threads : Exit(t)
    \/ Ended

Spec == Init /\ [][Next]_vars

-----------------------------------------------------------------------------
AllBlocks == [chunk : Chunks, index : Nat]
Objects == [block : AllBlocks, size : Sizes]

(* Every variable has its type.                                            *)
TypeOK ==
    /\ alive \subseteq Threads
    /\ chunks \in [Pools -> SUBSET Chunks]
    /\ free \in [Pools -> SUBSET AllBlocks]
    /\ stale \in [Pools -> SUBSET AllBlocks]
    /\ inUse \in [Pools -> Int]
    /\ peak \in [Pools -> Int]
    /\ held \subseteq Objects /\ lost \subseteq Objects
    /\ outcome \in {"runs", "aborted", "undefined"}

(* The bytes of a block within its chunk, and those an object occupies.    *)
Overlap(b1, n1, b2, n2, s1, s2) ==
    /\ b1.chunk = b2.chunk
    /\ b1.index * s1 < b2.index * s2 + n2
    /\ b2.index * s2 < b1.index * s1 + n1
Mapped(b, n, s) ==
    \E p \in Pools :
        b.chunk \in chunks[p] /\ b.index * s + n <= PerChunk(p[2]) * p[2]

(* Objects whose memory is still allocated share no byte with each other   *)
(* or with a block on some thread's list, where the list's links are, and  *)
(* objects and lists stay inside that memory, whichever threads freed what *)
(* and in whichever order, threads that ended with blocks elsewhere        *)
(* included: until one of those blocks, which dangle, is followed.         *)
NoOverlap ==
    outcome # "undefined" =>
        /\ \A h \in held :
               LET s == BlockSizeFor(h.size)
               IN  /\ Mapped(h.block, h.size, s)
                   /\ \A g \in held \ {h} :
                          ~Overlap(h.block, h.size, g.block, g.size,
                                   s, BlockSizeFor(g.size))
                   /\ \A p \in Pools : \A b \in free[p] :
                          ~Overlap(h.block, h.size, b, p[2], s, p[2])
        /\ \A p \in Pools : \A b \in free[p] : Mapped(b, p[2], p[2])

(* What the tests ask of a single pool ("same block handed out twice"), of *)
(* all of them: allocate() never hands out memory in which an object that  *)
(* the program rightly holds already lies.  It does, when a block was      *)
(* freed on another thread than its own and its own thread has ended.      *)
HandedOutOnce ==
    \A g, h \in held :
        g # h => ~Overlap(g.block, g.size, h.block, h.size,
                          BlockSizeFor(g.size), BlockSizeFor(h.size))

(* blocksInUse() is the number of blocks of the pool in use, as long as    *)
(* none of them moved to another thread's list (or none of theirs here).   *)
AtHome(p) ==
    /\ stale[p] = {} /\ free[p] \subseteq Home(p)
    /\ Home(p) \subseteq free[p] \cup HeldBlocks
AccountsAgree ==
    \A p \in Pools :
        outcome # "undefined" /\ AtHome(p) =>
            BlocksInUse(p) = Cardinality(Home(p) \cap HeldBlocks)

(* A pool asks the system for a chunk only when it needs one: N blocks out *)
(* at a time cost no more than the N / PerChunk chunks, rounded up, that   *)
(* the test ManyAllocationsNeedFewChunks counts (one at least).            *)
FewChunks ==
    \A p \in Pools :
        Capacity(p) > PerChunk(p[2]) => Capacity(p) - PerChunk(p[2]) < peak[p]

=============================================================================
