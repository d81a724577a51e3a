-------------------------- MODULE MemoryPoolProofs --------------------------
(***************************************************************************)
(* Theorems about MemoryPool, for any threads, sizes and size classes:     *)
(* objects in allocated memory do not share it, whichever thread frees     *)
(* what and whichever has ended, until a block that dangles is followed,   *)
(* and none dangles when threads end only after their memory came back;    *)
(* the pools' counters are right; a pool takes no chunk it does not need.  *)
(***************************************************************************)
EXTENDS MemoryPool, FiniteSetTheorems, TLAPS

(* The invariant is stated for any lists of chunks and free blocks and any *)
(* set of objects, so that growing a pool and taking a block from it, the  *)
(* two halves of an allocation, are two lemmas.                            *)
Within(b, s, ch) ==
    /\ b.index \in 0 .. PerChunk(s) - 1
    /\ \E t \in Threads : b.chunk \in ch[<<t, s>>]

(* A chunk belongs to one pool.  A free block is on one list, and lies in  *)
(* a chunk of a pool of the list's size, though maybe another thread's.    *)
(* So does a block in use, which is on no list and holds one object.       *)
Owned(ch) ==
    /\ ch \in [Pools -> SUBSET Chunks]
    /\ \A p, q \in Pools : p # q => ch[p] \cap ch[q] = {}
Listed(ch, fr) ==
    /\ fr \in [Pools -> SUBSET AllBlocks]
    /\ \A p \in Pools : \A b \in fr[p] : Within(b, p[2], ch)
    /\ \A p, q \in Pools : p # q => fr[p] \cap fr[q] = {}
Placed(ch, fr, hd) ==
    /\ hd \subseteq Objects
    /\ \A h \in hd : Within(h.block, BlockSizeFor(h.size), ch)
    /\ \A p \in Pools : \A h \in hd : h.block \notin fr[p]
    /\ \A g, h \in hd : g.block = h.block => g = h
Sound(ch, fr, hd) == Owned(ch) /\ Listed(ch, fr) /\ Placed(ch, fr, hd)

(* in_use_ is what the pool's chunks hold beyond its list, which blocks of *)
(* other threads make longer, as long as none on the list is stale (sl).   *)
Counted(ch, fr, iu, sl) ==
    \A p \in Pools :
        /\ IsFiniteSet(ch[p]) /\ IsFiniteSet(fr[p])
        /\ sl[p] = {} => iu[p] = PerChunk(p[2]) * Cardinality(ch[p])
                                    - Cardinality(fr[p])

(* While nothing undefined has happened; the rest holds afterwards too.    *)
Defined ==
    Sound(chunks, free, held) /\ Counted(chunks, free, inUse, stale)

IInv ==
    /\ TypeOK
    /\ outcome # "undefined" => Defined
    /\ FewChunks

-----------------------------------------------------------------------------
(* The largest of two numbers, and the smallest of a set of naturals.      *)
LEMMA MaxOfTwo ==
    ASSUME NEW a \in Int, NEW b \in Int
    PROVE  Max({a, b}) \in Int /\ a <= Max({a, b}) /\ b <= Max({a, b})
<1>1. \E x \in {a, b} : \A y \in {a, b} : x >= y
  OBVIOUS
<1> QED
  BY <1>1 DEF Max

(* Min() of a set of sizes is one of them.                                 *)
LEMMA MinIsElement ==
    ASSUME NEW S \in SUBSET Nat, S # {}
    PROVE  Min(S) \in S
<1> DEFINE R == {ss \in Nat \X Nat : ss[1] < ss[2]}
<1>1. IsWellFoundedOn(R, Nat)
  BY NatLessThanWellFounded DEF OpToRel
<1>2. PICK x \in S : \A y \in S : <<y, x>> \notin R
  <2> HIDE DEF R
  <2> QED
    BY <1>1, WFMin
<1>3. \A y \in S : x <= y
  <2> SUFFICES ASSUME NEW y \in S PROVE x <= y
    OBVIOUS
  <2>1. x \in Nat /\ y \in Nat /\ <<y, x>> \notin R
    BY <1>2
  <2> QED
    BY <2>1
<1> QED
  BY <1>3 DEF Min

(* Rounding up to a multiple.                                              *)
LEMMA RoundUp ==
    ASSUME NEW m \in Nat, NEW a \in Nat \ {0}
    PROVE  /\ ((m + a - 1) \div a) * a \in Nat
           /\ m <= ((m + a - 1) \div a) * a
<1> DEFINE q == (m + a - 1) \div a
           r == (m + a - 1) % a
<1>1. q \in Int /\ r \in 0 .. a - 1 /\ m + a - 1 = a * q + r
  OBVIOUS
<1> HIDE DEF q, r
<1> SUFFICES q * a \in Nat /\ m <= q * a
  BY DEF q
<1>2. a * q = q * a /\ a * q \in Int
  BY <1>1
<1> QED
  BY <1>1, <1>2

(* An object fits into the block it is given: BlockSizeFor() rounds up.    *)
LEMMA ObjectFits ==
    ASSUME NEW n \in Sizes
    PROVE  BlockSizeFor(n) \in Nat /\ n <= BlockSizeFor(n)
<1> DEFINE fitting == {class \in Classes : Fits(n, class)}
<1>0. n \in Nat /\ Align \in Nat \ {0} /\ fitting \in SUBSET Nat
  BY PoolAssumption
<1>1. CASE fitting # {}
  <2>1. Min(fitting) \in fitting
    <3> HIDE DEF fitting
    <3> QED
      BY <1>0, <1>1, MinIsElement
  <2> QED
    BY <1>0, <1>1, <2>1 DEF BlockSizeFor, Fits
<1>2. CASE fitting = {}
  <2> DEFINE m == IF n < Align THEN Align ELSE n
  <2>1. m \in Nat /\ n <= m
    BY <1>0
  <2>2. BlockSizeFor(n) = ((m + Align - 1) \div Align) * Align
    BY <1>2 DEF BlockSizeFor, NormalizeBlockSize
  <2> HIDE DEF m
  <2>3. /\ ((m + Align - 1) \div Align) * Align \in Nat
        /\ m <= ((m + Align - 1) \div Align) * Align
    BY <1>0, <2>1, RoundUp
  <2> QED
    BY <1>0, <2>1, <2>2, <2>3
<1> QED
  BY <1>1, <1>2

(* Blocks are numbered from 0 and do not overlap.                          *)
LEMMA BlocksApart ==
    ASSUME NEW i \in Nat, NEW j \in Nat, NEW s \in Nat, i < j
    PROVE  /\ i * s \in Nat /\ j * s \in Nat
           /\ i * s + s <= j * s
<1>1. PICK d \in Nat : j = i + 1 + d
  <2>1. j - i - 1 \in Nat
    OBVIOUS
  <2> QED
    BY <2>1
<1>2. j * s = i * s + s + d * s
  BY <1>1
<1>3. i * s \in Nat /\ d * s \in Nat
  OBVIOUS
<1> QED
  BY <1>2, <1>3

(* A chunk has room for one block at least.                                *)
LEMMA PerChunkType == \A s : PerChunk(s) \in Nat \ {0}
  BY PoolAssumption DEF PerChunk

(* Which blocks a chunk is cut into, and how many.                         *)
LEMMA BlocksOfChunk ==
    ASSUME NEW k \in Chunks, NEW s
    PROVE  /\ BlocksOf(k, s) \subseteq AllBlocks
           /\ \A b \in AllBlocks :
                  b \in BlocksOf(k, s) <=>
                      b.chunk = k /\ b.index \in 0 .. PerChunk(s) - 1
  BY PerChunkType DEF BlocksOf, AllBlocks

(* There are as many of them as the pool's constructor is told to cut.     *)
LEMMA BlocksOfCount ==
    ASSUME NEW k \in Chunks, NEW s
    PROVE  /\ IsFiniteSet(BlocksOf(k, s))
           /\ Cardinality(BlocksOf(k, s)) = PerChunk(s)
<1> DEFINE I == 0 .. PerChunk(s) - 1
           f == [i \in I |-> [chunk |-> k, index |-> i]]
<1>1. IsFiniteSet(I) /\ Cardinality(I) = PerChunk(s)
  BY PerChunkType, FS_Interval
<1>2. f \in Bijection(I, BlocksOf(k, s))
  BY DEF Bijection, Injection, Surjection, IsInjective, BlocksOf
<1> QED
  BY <1>1, <1>2, FS_Bijection DEF ExistsBijection

-----------------------------------------------------------------------------
(* grow(): a chunk nobody has, its blocks on the list of the pool.         *)
LEMMA GrowKeeps ==
    ASSUME NEW ch, NEW fr, NEW hd, Sound(ch, fr, hd),
           NEW p \in Pools, NEW k \in Chunks, \A q \in Pools : k \notin ch[q]
    PROVE  Sound([ch EXCEPT ![p] = @ \cup {k}],
                 [fr EXCEPT ![p] = @ \cup BlocksOf(k, p[2])], hd)
<1> DEFINE ch2 == [ch EXCEPT ![p] = @ \cup {k}]
           new == BlocksOf(k, p[2])
           fr2 == [fr EXCEPT ![p] = @ \cup new]
<1>0. /\ ch \in [Pools -> SUBSET Chunks] /\ fr \in [Pools -> SUBSET AllBlocks]
      /\ p = <<p[1], p[2]>> /\ p[1] \in Threads /\ p[2] \in BlockSizes
      /\ \A t \in Threads, s \in BlockSizes : <<t, s>> \in Pools
  BY DEF Sound, Owned, Listed, Pools
<1>1. /\ \A q \in Pools : ch[q] \subseteq ch2[q]
      /\ ch2[p] = ch[p] \cup {k} /\ \A q \in Pools \ {p} : ch2[q] = ch[q]
  BY <1>0
<1>2. /\ fr2[p] = fr[p] \cup new /\ \A q \in Pools \ {p} : fr2[q] = fr[q]
      /\ fr2 \in [Pools -> SUBSET AllBlocks]
  BY <1>0, BlocksOfChunk
<1>3. Owned(ch2)
  BY <1>0, <1>1 DEF Sound, Owned
<1>4. \A b, s : s \in BlockSizes /\ Within(b, s, ch) =>
         Within(b, s, ch2) /\ b.chunk # k
  BY <1>0, <1>1 DEF Within
<1>5. \A b \in new : Within(b, p[2], ch2) /\ b.chunk = k /\ b \in AllBlocks
  <2>1. \A b \in new :
           b \in AllBlocks /\ b.chunk = k /\ b.index \in 0 .. PerChunk(p[2]) - 1
    BY BlocksOfChunk
  <2>2. k \in ch2[<<p[1], p[2]>>]
    BY <1>0, <1>1
  <2> QED
    BY <1>0, <2>1, <2>2 DEF Within
<1>6. \A q \in Pools : q[2] \in BlockSizes
  BY DEF Pools
<1> HIDE DEF ch2, fr2, new
<1>7. Listed(ch2, fr2)
  <2>1. \A q \in Pools : \A b \in fr[q] : Within(b, q[2], ch2) /\ b.chunk # k
    BY <1>4, <1>6 DEF Sound, Listed
  <2>2. \A q \in Pools : \A b \in fr2[q] : Within(b, q[2], ch2)
    BY <1>2, <1>5, <2>1
  <2>3. \A q, r \in Pools : q # r => fr2[q] \cap fr2[r] = {}
    BY <1>2, <1>5, <2>1 DEF Sound, Listed
  <2> QED
    BY <1>2, <2>2, <2>3 DEF Listed
<1>8. Placed(ch2, fr2, hd)
  <2>1. \A h \in hd : /\ Within(h.block, BlockSizeFor(h.size), ch2)
                     /\ h.block.chunk # k
    BY <1>4 DEF Sound, Placed, Objects, BlockSizes
  <2>2. \A q \in Pools : \A h \in hd : h.block \notin fr2[q]
    BY <1>2, <1>5, <2>1 DEF Sound, Placed
  <2> QED
    BY <2>1, <2>2 DEF Sound, Placed
<1> QED
  BY <1>3, <1>7, <1>8 DEF Sound, ch2, fr2, new

(* allocate(): the block goes from the list to the object.                 *)
LEMMA TakeKeeps ==
    ASSUME NEW ch, NEW fr, NEW hd, Sound(ch, fr, hd),
           NEW p \in Pools, NEW n \in Sizes, p[2] = BlockSizeFor(n),
           NEW b \in fr[p]
    PROVE  Sound(ch, [fr EXCEPT ![p] = @ \ {b}],
                 hd \cup {[block |-> b, size |-> n]})
<1> DEFINE fr2 == [fr EXCEPT ![p] = @ \ {b}]
           o == [block |-> b, size |-> n]
<1>1. /\ b \in AllBlocks /\ Within(b, p[2], ch)
      /\ \A q \in Pools : q # p => b \notin fr[q]
      /\ \A h \in hd : h.block # b
  BY DEF Sound, Listed, Placed
<1>2. /\ fr2 \in [Pools -> SUBSET AllBlocks]
      /\ \A q \in Pools : fr2[q] \subseteq fr[q] /\ b \notin fr2[q]
  BY <1>1 DEF Sound, Listed
<1>3. o.block = b /\ o.size = n /\ o \in Objects
  BY <1>1 DEF Objects
<1> HIDE DEF fr2, o
<1>4. Listed(ch, fr2)
  BY <1>2 DEF Sound, Listed
<1>5. Placed(ch, fr2, hd \cup {o})
  BY <1>1, <1>2, <1>3 DEF Sound, Placed
<1> QED
  BY <1>4, <1>5 DEF Sound, fr2, o

(* deallocate(): the block goes to a list of its size, on whichever thread.*)
LEMMA GiveKeeps ==
    ASSUME NEW ch, NEW fr, NEW hd, Sound(ch, fr, hd),
           NEW h \in hd, NEW p \in Pools, p[2] = BlockSizeFor(h.size)
    PROVE  Sound(ch, [fr EXCEPT ![p] = @ \cup {h.block}], hd \ {h})
<1> DEFINE fr2 == [fr EXCEPT ![p] = @ \cup {h.block}]
<1>1. /\ h.block \in AllBlocks /\ Within(h.block, p[2], ch)
      /\ \A q \in Pools : h.block \notin fr[q]
      /\ \A g \in hd \ {h} : g.block # h.block
  BY DEF Sound, Placed, Objects
<1>2. /\ fr2 \in [Pools -> SUBSET AllBlocks]
      /\ fr2[p] = fr[p] \cup {h.block}
      /\ \A q \in Pools \ {p} : fr2[q] = fr[q]
  BY <1>1 DEF Sound, Listed
<1> HIDE DEF fr2
<1>3. Listed(ch, fr2)
  BY <1>1, <1>2 DEF Sound, Listed
<1>4. Placed(ch, fr2, hd \ {h})
  BY <1>1, <1>2 DEF Sound, Placed
<1> QED
  BY <1>3, <1>4 DEF Sound, fr2

(* The counts of the three: grow() adds as many blocks to the list as the  *)
(* chunk has, allocate() and deallocate() move one.                        *)
LEMMA GrowCounts ==
    ASSUME NEW ch, NEW fr, NEW hd, NEW iu \in [Pools -> Int],
           NEW sl, Sound(ch, fr, hd), Counted(ch, fr, iu, sl),
           NEW p \in Pools, NEW k \in Chunks, \A q \in Pools : k \notin ch[q]
    PROVE  /\ Counted([ch EXCEPT ![p] = @ \cup {k}],
                      [fr EXCEPT ![p] = @ \cup BlocksOf(k, p[2])], iu, sl)
           /\ Cardinality(ch[p] \cup {k}) = Cardinality(ch[p]) + 1
           /\ Cardinality(fr[p] \cup BlocksOf(k, p[2])) =
                  Cardinality(fr[p]) + PerChunk(p[2])
<1> DEFINE new == BlocksOf(k, p[2])
           c == Cardinality(ch[p])
           m == PerChunk(p[2])
<1>0. /\ ch \in [Pools -> SUBSET Chunks] /\ fr \in [Pools -> SUBSET AllBlocks]
      /\ IsFiniteSet(ch[p]) /\ IsFiniteSet(fr[p])
  BY DEF Sound, Owned, Listed, Counted
<1>1. IsFiniteSet(new) /\ Cardinality(new) = m
  BY BlocksOfCount
<1>2. fr[p] \cap new = {}
  <2>1. \A b \in fr[p] : b.chunk # k
    <3>1. \A b \in fr[p] : \E t \in Threads : b.chunk \in ch[<<t, p[2]>>]
      BY DEF Sound, Listed, Within
    <3>2. \A t \in Threads : <<t, p[2]>> \in Pools
      BY DEF Pools
    <3> QED
      BY <3>1, <3>2
  <2> QED
    BY <1>0, <2>1, BlocksOfChunk
<1>3. /\ IsFiniteSet(fr[p] \cup new)
      /\ Cardinality(fr[p] \cup new) = Cardinality(fr[p]) + m
  <2> DEFINE F == fr[p]
  <2> HIDE DEF new, m, F
  <2>1. /\ Cardinality(F \cup new) = Cardinality(F) + Cardinality(new)
                                           - Cardinality(F \cap new)
        /\ IsFiniteSet(F \cup new)
    BY <1>0, <1>1, FS_Union DEF F
  <2>2. Cardinality(F) \in Nat /\ m \in Nat
    BY <1>0, FS_CardinalityType, PerChunkType DEF F, m
  <2>3. Cardinality(F \cap new) = 0
    BY <1>2, FS_EmptySet DEF F
  <2>4. Cardinality(F \cup new) = Cardinality(F) + m
    BY <1>1, <2>1, <2>2, <2>3
  <2> QED
    BY <2>1, <2>4 DEF F
<1>4. IsFiniteSet(ch[p] \cup {k}) /\ Cardinality(ch[p] \cup {k}) = c + 1
  BY <1>0, FS_AddElement
<1>5. m * (c + 1) - (Cardinality(fr[p]) + m) = m * c - Cardinality(fr[p])
  <2>1. c \in Nat /\ m \in Nat /\ Cardinality(fr[p]) \in Nat
    BY <1>0, FS_CardinalityType, PerChunkType
  <2> HIDE DEF c, m
  <2> QED
    BY <2>1
<1> QED
  BY <1>0, <1>3, <1>4, <1>5 DEF Counted

(* A block taken from the list.                                            *)
LEMMA TakeCounts ==
    ASSUME NEW ch, NEW fr \in [Pools -> SUBSET AllBlocks],
           NEW iu \in [Pools -> Int], NEW sl, Counted(ch, fr, iu, sl),
           NEW p \in Pools, NEW b \in fr[p]
    PROVE  Counted(ch, [fr EXCEPT ![p] = @ \ {b}],
                   [iu EXCEPT ![p] = @ + 1], sl)
<1> DEFINE m == PerChunk(p[2]) * Cardinality(ch[p])
<1>1. IsFiniteSet(fr[p]) /\ (sl[p] = {} => iu[p] = m - Cardinality(fr[p]))
  BY DEF Counted
<1>2. /\ IsFiniteSet(fr[p] \ {b})
      /\ Cardinality(fr[p] \ {b}) = Cardinality(fr[p]) - 1
  BY <1>1, FS_RemoveElement
<1>3. sl[p] = {} => iu[p] + 1 = m - (Cardinality(fr[p]) - 1)
  <2>1. /\ Cardinality(fr[p]) \in Nat /\ PerChunk(p[2]) \in Nat
        /\ Cardinality(ch[p]) \in Nat
    BY FS_CardinalityType, PerChunkType DEF Counted
  <2>2. m \in Int
    BY <2>1
  <2> HIDE DEF m
  <2> QED
    BY <1>1, <2>1, <2>2
<1> QED
  BY <1>2, <1>3 DEF Counted

(* A block put on the list.                                                *)
LEMMA GiveCounts ==
    ASSUME NEW ch, NEW fr \in [Pools -> SUBSET AllBlocks],
           NEW iu \in [Pools -> Int], NEW sl, Counted(ch, fr, iu, sl),
           NEW p \in Pools, NEW b, b \notin fr[p]
    PROVE  Counted(ch, [fr EXCEPT ![p] = @ \cup {b}],
                   [iu EXCEPT ![p] = @ - 1], sl)
<1> DEFINE m == PerChunk(p[2]) * Cardinality(ch[p])
<1>1. IsFiniteSet(fr[p]) /\ (sl[p] = {} => iu[p] = m - Cardinality(fr[p]))
  BY DEF Counted
<1>2. /\ IsFiniteSet(fr[p] \cup {b})
      /\ Cardinality(fr[p] \cup {b}) = Cardinality(fr[p]) + 1
  BY <1>1, FS_AddElement
<1>3. sl[p] = {} => iu[p] - 1 = m - (Cardinality(fr[p]) + 1)
  <2>1. /\ Cardinality(fr[p]) \in Nat /\ PerChunk(p[2]) \in Nat
        /\ Cardinality(ch[p]) \in Nat
    BY FS_CardinalityType, PerChunkType DEF Counted
  <2>2. m \in Int
    BY <2>1
  <2> HIDE DEF m
  <2> QED
    BY <1>1, <2>1, <2>2
<1> QED
  BY <1>2, <1>3 DEF Counted

-----------------------------------------------------------------------------
(* What the counts are made of.                                            *)
LEMMA CountTypes ==
    ASSUME NEW ch, NEW fr, NEW iu, NEW sl, Counted(ch, fr, iu, sl),
           NEW p \in Pools
    PROVE  /\ Cardinality(ch[p]) \in Nat /\ Cardinality(fr[p]) \in Nat
           /\ PerChunk(p[2]) \in Nat \ {0}
           /\ PerChunk(p[2]) * Cardinality(ch[p]) \in Nat
<1>1. Cardinality(ch[p]) \in Nat /\ Cardinality(fr[p]) \in Nat
  BY FS_CardinalityType DEF Counted
<1>2. PerChunk(p[2]) \in Nat \ {0}
  BY PerChunkType
<1> QED
  BY <1>1, <1>2

(* It holds before any pool was built.                                     *)
LEMMA InitIInv == Init => IInv
<1> SUFFICES ASSUME Init PROVE IInv
  OBVIOUS
<1>1. Sound(chunks, free, held)
  BY DEF Init, Sound, Owned, Listed, Placed
<1>2. \A p \in Pools : PerChunk(p[2]) \in Nat /\ PerChunk(p[2]) * 0 = 0
  BY PerChunkType
<1>3. Counted(chunks, free, inUse, stale)
  BY <1>2, FS_EmptySet DEF Init, Counted
<1>4. FewChunks
  BY <1>2, FS_EmptySet DEF Init, FewChunks, Capacity
<1>5. TypeOK
  BY DEF Init, TypeOK
<1> QED
  BY <1>1, <1>3, <1>4, <1>5 DEF IInv, Defined

(* A pool's part of FewChunks.                                             *)
Few(p) == Capacity(p) > PerChunk(p[2]) => Capacity(p) - PerChunk(p[2]) < peak[p]

(* A pool that keeps its chunks and whose peak does not fall keeps its     *)
(* part of FewChunks.                                                      *)
LEMMA SameChunksFew ==
    ASSUME IInv, NEW p \in Pools, chunks'[p] = chunks[p],
           peak'[p] \in Int, peak[p] <= peak'[p]
    PROVE  Few(p)'
<1>1. /\ PerChunk(p[2]) \in Nat \ {0}
      /\ PerChunk(p[2]) * Cardinality(chunks[p]) \in Nat
      /\ peak[p] \in Int
  <2>1. chunks[p] \subseteq Chunks /\ peak[p] \in Int
    BY DEF IInv, TypeOK
  <2>2. Cardinality(chunks[p]) \in Nat
    BY <2>1, MemoryAssumption, FS_Subset, FS_CardinalityType
  <2> QED
    BY <2>1, <2>2, PerChunkType
<1>2. Few(p)
  BY DEF IInv, FewChunks, Few
<1> QED
  BY <1>1, <1>2 DEF Few, Capacity

(* The first chunk of a pool is not one too many.                          *)
LEMMA FirstChunkFew ==
    ASSUME NEW p \in Pools, NEW k, chunks'[p] = {k}
    PROVE  Few(p)'
<1>1. Cardinality(chunks'[p]) = 1
  BY FS_Singleton
<1>2. PerChunk(p[2]) \in Nat \ {0}
  BY PerChunkType
<1>3. Capacity(p)' = PerChunk(p[2])
  BY <1>1, <1>2 DEF Capacity
<1> QED
  BY <1>2, <1>3 DEF Few

(* A thread runs only while nothing undefined has happened.                *)
LEMMA RunsDefined ==
    ASSUME IInv, NEW t, Runs(t)
    PROVE  Sound(chunks, free, held) /\ Counted(chunks, free, inUse, stale)
  BY DEF IInv, Runs, Defined

(* The parts of the invariant after a step that is well defined.           *)
LEMMA DefinedStep ==
    ASSUME IInv, alive' \subseteq Threads, outcome' = outcome,
           Sound(chunks', free', held'),
           Counted(chunks', free', inUse', stale'),
           stale' \in [Pools -> SUBSET AllBlocks],
           inUse' \in [Pools -> Int], peak' \in [Pools -> Int],
           lost' \subseteq Objects, FewChunks'
    PROVE  IInv'
<1>1. TypeOK'
  BY DEF IInv, TypeOK, Sound, Owned, Listed, Placed
<1>2. Defined'
  BY DEF Defined
<1> QED
  BY <1>1, <1>2 DEF IInv

(* allocate() with something on the list.                                  *)
LEMMA AllocateFromListKeeps ==
    ASSUME IInv, NEW t \in Threads, NEW n \in Sizes, AllocateFromList(t, n)
    PROVE  IInv'
<1> DEFINE p == <<t, BlockSizeFor(n)>>
<1>0. p \in Pools /\ p[2] = BlockSizeFor(n)
  BY DEF Pools, BlockSizes
<1>1. PICK b \in free[p] :
         /\ free' = [free EXCEPT ![p] = @ \ {b}]
         /\ inUse' = [inUse EXCEPT ![p] = @ + 1]
         /\ held' = held \cup {[block |-> b, size |-> n]}
  BY DEF AllocateFromList, Take
<1>2. /\ UNCHANGED <<alive, chunks, stale, lost, outcome>> /\ Runs(t)
      /\ peak' = [peak EXCEPT ![p] =
                     Max({@, Capacity(p) - Cardinality(free'[p])})]
  BY DEF AllocateFromList
<1>d. Sound(chunks, free, held) /\ Counted(chunks, free, inUse, stale)
  BY <1>2, RunsDefined
<1> HIDE DEF p
<1>3. Sound(chunks', free', held')
  BY <1>0, <1>1, <1>2, <1>d, TakeKeeps
<1>4. /\ Counted(chunks', free', inUse', stale') /\ inUse' \in [Pools -> Int]
      /\ Cardinality(free'[p]) = Cardinality(free[p]) - 1
  <2>1. /\ free \in [Pools -> SUBSET AllBlocks] /\ inUse \in [Pools -> Int]
        /\ Counted(chunks, free, inUse, stale)
    BY <1>d DEF IInv, TypeOK
  <2>2. /\ Counted(chunks, [free EXCEPT ![p] = @ \ {b}],
                   [inUse EXCEPT ![p] = @ + 1], stale)
        /\ Cardinality(free[p] \ {b}) = Cardinality(free[p]) - 1
    <3>1. b \in free[p]
      OBVIOUS
    <3>2. Cardinality(free[p] \ {b}) = Cardinality(free[p]) - 1
      <4>1. IsFiniteSet(free[p])
        BY <1>0, <2>1 DEF Counted
      <4> QED
        BY <3>1, <4>1, FS_RemoveElement
    <3>3. Counted(chunks, [free EXCEPT ![p] = @ \ {b}],
                  [inUse EXCEPT ![p] = @ + 1], stale)
      BY <1>0, <2>1, <3>1, TakeCounts
    <3> QED
      BY <3>2, <3>3
  <2>3. free'[p] = free[p] \ {b} /\ inUse' \in [Pools -> Int]
    BY <1>0, <1>1, <2>1
  <2> QED
    BY <1>1, <1>2, <2>2, <2>3
<1>5. Capacity(p) - Cardinality(free'[p]) \in Int
  BY <1>0, <1>d, <1>4, CountTypes DEF Capacity
<1>6. /\ peak' \in [Pools -> Int]
      /\ \A q \in Pools : peak[q] <= peak'[q]
  <2> DEFINE x == Capacity(p) - Cardinality(free'[p])
             y == Max({peak[p], x})
  <2>1. peak \in [Pools -> Int] /\ x \in Int
    BY <1>5 DEF IInv, TypeOK
  <2>2. peak' = [peak EXCEPT ![p] = y]
    BY <1>2
  <2> HIDE DEF x
  <2>3. y \in Int /\ peak[p] <= y
    BY <1>0, <2>1, MaxOfTwo
  <2> HIDE DEF y
  <2> QED
    BY <1>0, <2>1, <2>2, <2>3
<1>7. \A q \in Pools : Few(q)'
  BY <1>2, <1>6, SameChunksFew
<1>8. FewChunks'
  BY <1>7 DEF FewChunks, Few
<1> QED
  BY <1>2, <1>3, <1>4, <1>6, <1>8, DefinedStep DEF IInv, TypeOK

(* allocate() on an empty list: grow(), then the same.                     *)
LEMMA AllocateGrowKeeps ==
    ASSUME IInv, NEW t \in Threads, NEW n \in Sizes, NEW k \in Chunks,
           AllocateGrow(t, n, k)
    PROVE  IInv'
<1> DEFINE p == <<t, BlockSizeFor(n)>>
           fr2 == [free EXCEPT ![p] = @ \cup BlocksOf(k, p[2])]
<1>0. /\ p \in Pools /\ p[2] = BlockSizeFor(n)
      /\ free \in [Pools -> SUBSET AllBlocks]
      /\ chunks \in [Pools -> SUBSET Chunks] /\ inUse \in [Pools -> Int]
      /\ peak \in [Pools -> Int]
  BY DEF Pools, BlockSizes, IInv, TypeOK
<1>1. /\ UNCHANGED <<alive, stale, lost, outcome>> /\ free[p] = {} /\ Runs(t)
      /\ chunks' = [chunks EXCEPT ![p] = @ \cup {k}]
      /\ \A q \in Pools : k \notin chunks[q]
      /\ peak' = [peak EXCEPT ![p] =
                     Max({@, Capacity(p)' - Cardinality(free'[p])})]
  BY DEF AllocateGrow, Dry, Unused
<1>2. PICK b \in free[p] \cup BlocksOf(k, p[2]) :
         /\ free' = [free EXCEPT ![p] = (free[p] \cup BlocksOf(k, p[2])) \ {b}]
         /\ inUse' = [inUse EXCEPT ![p] = @ + 1]
         /\ held' = held \cup {[block |-> b, size |-> n]}
  BY DEF AllocateGrow, Take
<1> HIDE DEF p
<1>d. Sound(chunks, free, held) /\ Counted(chunks, free, inUse, stale)
  BY <1>1, RunsDefined
<1>3. /\ fr2[p] = free[p] \cup BlocksOf(k, p[2]) /\ b \in fr2[p]
      /\ free' = [fr2 EXCEPT ![p] = @ \ {b}]
  BY <1>0, <1>2
<1>4. Sound(chunks', fr2, held)
  BY <1>0, <1>1, <1>d, GrowKeeps
<1>5. /\ Counted(chunks', fr2, inUse, stale')
      /\ Cardinality(chunks[p] \cup {k}) = Cardinality(chunks[p]) + 1
      /\ Cardinality(fr2[p]) = Cardinality(free[p]) + PerChunk(p[2])
  BY <1>0, <1>1, <1>3, <1>d, GrowCounts
<1> HIDE DEF fr2
<1>6. Sound(chunks', free', held')
  <2>1. Sound(chunks', [fr2 EXCEPT ![p] = @ \ {b}],
              held \cup {[block |-> b, size |-> n]})
    BY <1>0, <1>3, <1>4, TakeKeeps
  <2> QED
    BY <1>2, <1>3, <2>1
<1>7. /\ Counted(chunks', free', inUse', stale') /\ inUse' \in [Pools -> Int]
      /\ Cardinality(fr2[p] \ {b}) = Cardinality(fr2[p]) - 1
  <2>1. fr2 \in [Pools -> SUBSET AllBlocks]
    BY <1>4 DEF Sound, Listed
  <2>2. /\ Counted(chunks', [fr2 EXCEPT ![p] = @ \ {b}],
                   [inUse EXCEPT ![p] = @ + 1], stale')
        /\ Cardinality(fr2[p] \ {b}) = Cardinality(fr2[p]) - 1
    <3>1. b \in fr2[p]
      BY <1>3
    <3>2. Cardinality(fr2[p] \ {b}) = Cardinality(fr2[p]) - 1
      <4>1. IsFiniteSet(fr2[p])
        BY <1>0, <1>5 DEF Counted
      <4> QED
        BY <3>1, <4>1, FS_RemoveElement
    <3>3. Counted(chunks', [fr2 EXCEPT ![p] = @ \ {b}],
                  [inUse EXCEPT ![p] = @ + 1], stale')
      BY <1>0, <1>5, <2>1, <3>1, TakeCounts
    <3> QED
      BY <3>2, <3>3
  <2>3. inUse' \in [Pools -> Int]
    BY <1>0, <1>2
  <2> QED
    BY <1>2, <1>3, <2>2, <2>3
<1> DEFINE m == PerChunk(p[2])
           c == Cardinality(chunks[p])
<1>8. m \in Nat \ {0} /\ c \in Nat /\ m * (c + 1) = m * c + m /\ m * c \in Nat
  <2>1. m \in Nat \ {0} /\ c \in Nat
    BY <1>0, <1>d, CountTypes
  <2> HIDE DEF m, c
  <2> QED
    BY <2>1
<1>9. Cardinality(free'[p]) = m - 1 /\ Cardinality(chunks'[p]) = c + 1
  <2>1. Cardinality(free[p]) = 0
    BY <1>1, FS_EmptySet
  <2>2. free'[p] = fr2[p] \ {b}
    BY <1>0, <1>3, <1>4 DEF Sound, Listed
  <2>3. chunks'[p] = chunks[p] \cup {k}
    BY <1>0, <1>1
  <2> QED
    BY <1>5, <1>7, <1>8, <2>1, <2>2, <2>3
<1>10. Capacity(p)' = m * c + m
  BY <1>8, <1>9 DEF Capacity
<1> HIDE DEF m, c
<1>11. /\ peak' \in [Pools -> Int]
       /\ \A q \in Pools : peak[q] <= peak'[q]
       /\ m * c + 1 <= peak'[p]
  <2>1. /\ Capacity(p)' - Cardinality(free'[p]) = m * c + 1
        /\ m * c + 1 \in Int
    BY <1>8, <1>9, <1>10
  <2> DEFINE x == m * c + 1
             y == Max({peak[p], x})
  <2>2. peak' = [peak EXCEPT ![p] = y]
    BY <1>1, <2>1
  <2> HIDE DEF x
  <2>3. y \in Int /\ peak[p] <= y /\ x <= y
    BY <1>0, <2>1, MaxOfTwo DEF x
  <2> HIDE DEF y
  <2>4. /\ peak' \in [Pools -> Int] /\ peak'[p] = y
        /\ \A q \in Pools : peak[q] <= peak'[q]
    BY <1>0, <2>2, <2>3
  <2> QED
    BY <2>3, <2>4 DEF x
<1>12. \A q \in Pools : Few(q)'
  <2>1. Few(p)'
    <3>1. Capacity(p)' - m < peak'[p]
      BY <1>0, <1>8, <1>10, <1>11
    <3> QED
      BY <3>1 DEF Few, m
  <2>2. \A q \in Pools \ {p} : chunks'[q] = chunks[q]
    BY <1>0, <1>1
  <2> QED
    BY <1>11, <2>1, <2>2, SameChunksFew
<1>13. FewChunks'
  BY <1>12 DEF FewChunks, Few
<1> QED
  BY <1>1, <1>6, <1>7, <1>11, <1>13, DefinedStep DEF IInv, TypeOK

(* deallocate(), which builds the thread's pool first when there is none.  *)
LEMMA DeallocateKeeps ==
    ASSUME IInv, NEW t \in Threads, NEW h \in held, NEW new,
           Deallocate(t, h, new)
    PROVE  IInv'
<1> DEFINE p == <<t, BlockSizeFor(h.size)>>
<1>0. /\ p \in Pools /\ p[2] = BlockSizeFor(h.size)
      /\ free \in [Pools -> SUBSET AllBlocks]
      /\ chunks \in [Pools -> SUBSET Chunks] /\ inUse \in [Pools -> Int]
      /\ peak \in [Pools -> Int]
  BY DEF Pools, BlockSizes, IInv, TypeOK, Objects
<1>d. Sound(chunks, free, held) /\ Counted(chunks, free, inUse, stale)
  BY RunsDefined DEF Deallocate
<1>n. \A q \in Pools : h.block \notin free[q]
  BY <1>d DEF Sound, Placed
<1>1. /\ UNCHANGED <<alive, stale, lost, outcome, peak>>
      /\ \/ chunks[p] # {} /\ new = {}
         \/ chunks[p] = {} /\ \E k \in Unused : new = {k}
      /\ chunks' = [chunks EXCEPT ![p] = @ \cup new]
      /\ free' = [free EXCEPT ![p] = (@ \cup {h.block})
                     \cup UNION {BlocksOf(k, p[2]) : k \in new}]
      /\ inUse' = [inUse EXCEPT ![p] = @ - 1]
      /\ held' = held \ {h}
  BY DEF Deallocate, HasPool, InUseAfterFree
<1> HIDE DEF p
<1>2. CASE new = {}
  <2>1. /\ chunks' = chunks
        /\ free' = [free EXCEPT ![p] = @ \cup {h.block}]
    <3>1. UNION {BlocksOf(k, p[2]) : k \in new} = {}
      BY <1>2
    <3>2. chunks' = chunks
      <4>1. chunks[p] \cup new = chunks[p]
        BY <1>2
      <4> QED
        BY <1>0, <1>1, <4>1
    <3>3. free' = [free EXCEPT ![p] = @ \cup {h.block}]
      <4>1. (free[p] \cup {h.block}) \cup UNION {BlocksOf(k, p[2]) : k \in new}
                = free[p] \cup {h.block}
        BY <3>1
      <4> QED
        BY <1>1, <4>1
    <3> QED
      BY <3>2, <3>3
  <2>2. Sound(chunks', free', held')
    <3>1. Sound(chunks, [free EXCEPT ![p] = @ \cup {h.block}], held \ {h})
      BY <1>0, <1>d, GiveKeeps
    <3> QED
      BY <1>1, <2>1, <3>1
  <2>3. Counted(chunks', free', inUse', stale') /\ inUse' \in [Pools -> Int]
    <3>1. Counted(chunks, [free EXCEPT ![p] = @ \cup {h.block}],
                  [inUse EXCEPT ![p] = @ - 1], stale)
      BY <1>0, <1>d, <1>n, GiveCounts
    <3>2. inUse' \in [Pools -> Int]
      BY <1>0, <1>1
    <3> QED
      BY <1>1, <2>1, <3>1, <3>2
  <2>4. \A q \in Pools : Few(q)'
    BY <1>0, <1>1, <2>1, SameChunksFew
  <2>5. FewChunks'
    BY <2>4 DEF FewChunks, Few
  <2> QED
    BY <1>0, <1>1, <2>2, <2>3, <2>5, DefinedStep DEF IInv, TypeOK
<1>3. CASE new # {}
  <2>1. PICK k \in Chunks : new = {k} /\ \A q \in Pools : k \notin chunks[q]
    BY <1>1, <1>3 DEF Unused
  <2> DEFINE fr2 == [free EXCEPT ![p] = @ \cup BlocksOf(k, p[2])]
  <2>2. /\ chunks' = [chunks EXCEPT ![p] = @ \cup {k}] /\ chunks[p] = {}
        /\ free' = [fr2 EXCEPT ![p] = @ \cup {h.block}]
    <3>1. UNION {BlocksOf(j, p[2]) : j \in new} = BlocksOf(k, p[2])
      BY <2>1
    <3> QED
      BY <1>0, <1>1, <2>1, <3>1
  <2>3. Sound(chunks', fr2, held) /\ Counted(chunks', fr2, inUse, stale)
    BY <1>0, <1>d, <2>1, <2>2, GrowKeeps, GrowCounts
  <2> HIDE DEF fr2
  <2>4. Sound(chunks', free', held')
    <3>1. Sound(chunks', [fr2 EXCEPT ![p] = @ \cup {h.block}], held \ {h})
      BY <1>0, <2>3, GiveKeeps
    <3> QED
      BY <1>1, <2>2, <3>1
  <2>5. Counted(chunks', free', inUse', stale') /\ inUse' \in [Pools -> Int]
    <3>1. fr2 \in [Pools -> SUBSET AllBlocks] /\ h.block \notin fr2[p]
      BY <1>0, <2>3 DEF Sound, Listed, Placed
    <3>2. Counted(chunks', [fr2 EXCEPT ![p] = @ \cup {h.block}],
                  [inUse EXCEPT ![p] = @ - 1], stale)
      BY <1>0, <2>3, <3>1, GiveCounts
    <3>3. inUse' \in [Pools -> Int]
      BY <1>0, <1>1
    <3> QED
      BY <1>1, <2>2, <3>2, <3>3
  <2>6. Few(p)'
    <3>1. chunks'[p] = {k}
      BY <1>0, <2>2
    <3> QED
      BY <1>0, <3>1, FirstChunkFew
  <2>7. \A q \in Pools \ {p} : Few(q)'
    BY <1>0, <1>1, <2>2, SameChunksFew
  <2>8. FewChunks'
    BY <2>6, <2>7 DEF FewChunks, Few
  <2> QED
    BY <1>0, <1>1, <2>4, <2>5, <2>8, DefinedStep DEF IInv, TypeOK
<1> QED
  BY <1>2, <1>3

(* The two steps that follow a block that dangles leave the types and the  *)
(* number of chunks right; nothing else is said of what they leave.        *)
LEMMA UndefinedKeeps ==
    ASSUME IInv, NEW t \in Threads,
           \/ \E n \in Sizes : AllocateStale(t, n)
           \/ \E h \in lost, new \in {{}} \cup {{k} : k \in Chunks} :
                  DeallocateLost(t, h, new)
    PROVE  IInv'
<1>1. CASE \E n \in Sizes : AllocateStale(t, n)
  <2>1. PICK n \in Sizes : AllocateStale(t, n)
    BY <1>1
  <2> DEFINE p == <<t, BlockSizeFor(n)>>
  <2>2. p \in Pools
    BY DEF Pools, BlockSizes
  <2>3. PICK b \in stale[p] : held' = held \cup {[block |-> b, size |-> n]}
    BY <2>1 DEF AllocateStale
  <2>4. /\ inUse' = [inUse EXCEPT ![p] = @ + 1] /\ outcome' = "undefined"
        /\ UNCHANGED <<alive, chunks, free, stale, peak, lost>>
    BY <2>1 DEF AllocateStale
  <2> HIDE DEF p
  <2>5. TypeOK'
    <3>1. b \in AllBlocks
      BY <2>2 DEF IInv, TypeOK
    <3>2. held' \subseteq Objects
      BY <2>3, <3>1 DEF IInv, TypeOK, Objects
    <3>3. inUse' \in [Pools -> Int]
      BY <2>2, <2>4 DEF IInv, TypeOK
    <3> QED
      BY <2>4, <3>2, <3>3 DEF IInv, TypeOK
  <2>6. FewChunks'
    BY <2>4 DEF IInv, FewChunks, Capacity
  <2> QED
    BY <2>4, <2>5, <2>6 DEF IInv
<1>2. CASE \E h \in lost, new \in {{}} \cup {{k} : k \in Chunks} :
              DeallocateLost(t, h, new)
  <2>1. PICK h \in lost, new \in {{}} \cup {{k} : k \in Chunks} :
           DeallocateLost(t, h, new)
    BY <1>2
  <2> DEFINE p == <<t, BlockSizeFor(h.size)>>
  <2>2. p \in Pools /\ h \in Objects /\ h.block \in AllBlocks
    BY DEF Pools, BlockSizes, IInv, TypeOK, Objects
  <2>3. /\ \/ chunks[p] # {} /\ new = {}
           \/ chunks[p] = {} /\ \E k \in Unused : new = {k}
        /\ chunks' = [chunks EXCEPT ![p] = @ \cup new]
        /\ free' = [free EXCEPT ![p] = @ \cup
                       UNION {BlocksOf(k, p[2]) : k \in new}]
        /\ stale' = [stale EXCEPT ![p] = @ \cup {h.block}]
        /\ inUse' = [inUse EXCEPT ![p] = @ - 1]
        /\ lost' = lost \ {h} /\ outcome' = "undefined"
        /\ UNCHANGED <<alive, peak, held>>
    BY <2>1 DEF DeallocateLost, HasPool, InUseAfterFree
  <2> HIDE DEF p
  <2>4. TypeOK'
    <3>1. new \subseteq Chunks
      BY <2>1
    <3>2. UNION {BlocksOf(k, p[2]) : k \in new} \subseteq AllBlocks
      BY <3>1, BlocksOfChunk
    <3>3. chunks' \in [Pools -> SUBSET Chunks]
      BY <2>2, <2>3, <3>1 DEF IInv, TypeOK
    <3>4. free' \in [Pools -> SUBSET AllBlocks]
      BY <2>2, <2>3, <3>2 DEF IInv, TypeOK
    <3>5. /\ stale' \in [Pools -> SUBSET AllBlocks]
          /\ inUse' \in [Pools -> Int]
      BY <2>2, <2>3 DEF IInv, TypeOK
    <3> QED
      BY <2>3, <3>3, <3>4, <3>5 DEF IInv, TypeOK
  <2>5. \A q \in Pools : Few(q)'
    <3>1. /\ chunks \in [Pools -> SUBSET Chunks] /\ peak' = peak
          /\ peak \in [Pools -> Int]
      BY <2>3 DEF IInv, TypeOK
    <3>2. Few(p)'
      <4>1. CASE chunks[p] # {} /\ new = {}
        <5>1. chunks'[p] = chunks[p]
          BY <2>2, <2>3, <3>1, <4>1
        <5> QED
          BY <2>2, <3>1, <5>1, SameChunksFew
      <4>2. CASE chunks[p] = {} /\ \E k \in Unused : new = {k}
        <5>1. PICK k : chunks'[p] = {k}
          BY <2>2, <2>3, <3>1, <4>2
        <5> QED
          BY <2>2, <5>1, FirstChunkFew
      <4> QED
        BY <2>3, <4>1, <4>2
    <3>3. ASSUME NEW q \in Pools \ {p} PROVE Few(q)'
      <4>1. chunks'[q] = chunks[q]
        BY <2>2, <2>3, <3>1
      <4> QED
        BY <3>1, <4>1, SameChunksFew
    <3> QED
      BY <3>2, <3>3
  <2>6. FewChunks'
    BY <2>5 DEF FewChunks, Few
  <2> QED
    BY <2>3, <2>4, <2>6 DEF IInv
<1> QED
  BY <1>1, <1>2

(* The end of a thread: what it leaves on other lists and in the program's *)
(* hands becomes stale or lost, and what is neither lies in chunks that    *)
(* stay.                                                                   *)
LEMMA ExitKeeps ==
    ASSUME IInv, NEW t \in Threads, Exit(t)
    PROVE  IInv'
<1> DEFINE Dead == ChunksOf(t)
<1>0. /\ UNCHANGED outcome /\ alive' \subseteq Threads /\ Runs(t)
      /\ chunks' = [p \in Pools |-> IF p[1] = t THEN {} ELSE chunks[p]]
      /\ free' = [p \in Pools |-> IF p[1] = t THEN {}
                       ELSE {b \in free[p] : b.chunk \notin Dead}]
      /\ stale' = [p \in Pools |-> IF p[1] = t THEN {}
                       ELSE stale[p] \cup {b \in free[p] : b.chunk \in Dead}]
      /\ inUse' = [p \in Pools |-> IF p[1] = t THEN 0 ELSE inUse[p]]
      /\ peak' = [p \in Pools |-> IF p[1] = t THEN 0 ELSE peak[p]]
      /\ held' = {h \in held : h.block.chunk \notin Dead}
      /\ lost' = lost \cup {h \in held : h.block.chunk \in Dead}
  BY DEF Exit, IInv, TypeOK
<1>1. /\ free \in [Pools -> SUBSET AllBlocks]
      /\ stale \in [Pools -> SUBSET AllBlocks]
      /\ chunks \in [Pools -> SUBSET Chunks] /\ inUse \in [Pools -> Int]
      /\ peak \in [Pools -> Int]
      /\ held \subseteq Objects /\ lost \subseteq Objects
  BY DEF IInv, TypeOK
<1>d. Sound(chunks, free, held) /\ Counted(chunks, free, inUse, stale)
  BY <1>0, RunsDefined
<1>2. \A u \in Threads, s \in BlockSizes :
         <<u, s>> \in Pools /\ <<u, s>>[1] = u /\ <<u, s>>[2] = s
  BY DEF Pools
<1>3. \A s \in BlockSizes : chunks[<<t, s>>] \subseteq Dead
  BY DEF ChunksOf
<1> HIDE DEF Dead
<1>4. \A s \in BlockSizes, b \in AllBlocks :
         Within(b, s, chunks) /\ b.chunk \notin Dead =>
             Within(b, s, chunks')
  BY <1>0, <1>2, <1>3 DEF Within
<1>5. Owned(chunks')
  BY <1>0, <1>d DEF Sound, Owned
<1>6. Listed(chunks', free')
  <2>1. free' \in [Pools -> SUBSET AllBlocks]
    BY <1>0, <1>1
  <2>2. \A p, q \in Pools : p # q => free'[p] \cap free'[q] = {}
    BY <1>0, <1>d DEF Sound, Listed
  <2>3. ASSUME NEW p \in Pools, NEW b \in free'[p]
        PROVE  Within(b, p[2], chunks')
    <3>1. b \in free[p] /\ b \in AllBlocks /\ b.chunk \notin Dead
      BY <1>0, <1>1
    <3>2. p[2] \in BlockSizes
      BY DEF Pools
    <3>3. Within(b, p[2], chunks)
      BY <1>d, <3>1 DEF Sound, Listed
    <3> QED
      BY <1>4, <3>1, <3>2, <3>3
  <2> QED
    BY <2>1, <2>2, <2>3 DEF Listed
<1>7. Placed(chunks', free', held')
  <2>1. ASSUME NEW h \in held'
        PROVE  Within(h.block, BlockSizeFor(h.size), chunks')
    <3>1. /\ h \in held /\ h.block \in AllBlocks /\ h.block.chunk \notin Dead
          /\ BlockSizeFor(h.size) \in BlockSizes
      BY <1>0, <1>1 DEF BlockSizes, Objects
    <3>2. Within(h.block, BlockSizeFor(h.size), chunks)
      BY <1>d, <3>1 DEF Sound, Placed
    <3> QED
      BY <1>4, <3>1, <3>2
  <2>2. held' \subseteq held /\ \A p \in Pools : free'[p] \subseteq free[p]
    BY <1>0
  <2> QED
    BY <1>1, <1>d, <2>1, <2>2 DEF Sound, Placed
<1>8. \A p \in Pools : PerChunk(p[2]) \in Nat /\ PerChunk(p[2]) * 0 = 0
  BY PerChunkType
<1>9. Counted(chunks', free', inUse', stale')
  <2> SUFFICES ASSUME NEW p \in Pools
               PROVE  /\ IsFiniteSet(chunks'[p]) /\ IsFiniteSet(free'[p])
                      /\ stale'[p] = {} =>
                           inUse'[p] = PerChunk(p[2]) * Cardinality(chunks'[p])
                                         - Cardinality(free'[p])
    BY DEF Counted
  <2>1. CASE p[1] = t
    <3>1. chunks'[p] = {} /\ free'[p] = {} /\ inUse'[p] = 0
      BY <1>0, <2>1
    <3> QED
      BY <1>8, <3>1, FS_EmptySet
  <2>2. CASE p[1] # t
    <3>1. /\ chunks'[p] = chunks[p] /\ inUse'[p] = inUse[p]
          /\ free'[p] = {b \in free[p] : b.chunk \notin Dead}
          /\ stale'[p] = stale[p] \cup {b \in free[p] : b.chunk \in Dead}
      BY <1>0, <2>2
    <3>2. free'[p] \subseteq free[p] /\ IsFiniteSet(free'[p])
      BY <1>d, <3>1, FS_Subset DEF Counted
    <3>3. stale'[p] = {} => free'[p] = free[p] /\ stale[p] = {}
      BY <3>1
    <3> QED
      BY <1>d, <3>1, <3>2, <3>3 DEF Counted
  <2> QED
    BY <2>1, <2>2
<1>10. \A p \in Pools : Few(p)'
  <2> SUFFICES ASSUME NEW p \in Pools PROVE Few(p)'
    OBVIOUS
  <2>1. CASE p[1] = t
    <3>1. Capacity(p)' = 0
      BY <1>0, <1>8, <2>1, FS_EmptySet DEF Capacity
    <3> QED
      BY <1>8, <3>1 DEF Few
  <2>2. CASE p[1] # t
    BY <1>0, <1>1, <2>2, SameChunksFew
  <2> QED
    BY <2>1, <2>2
<1>11. FewChunks'
  BY <1>10 DEF FewChunks, Few
<1>12. /\ inUse' \in [Pools -> Int] /\ peak' \in [Pools -> Int]
       /\ stale' \in [Pools -> SUBSET AllBlocks] /\ lost' \subseteq Objects
  BY <1>0, <1>1
<1>13. Sound(chunks', free', held')
  BY <1>5, <1>6, <1>7 DEF Sound
<1> QED
  BY <1>0, <1>9, <1>11, <1>12, <1>13, DefinedStep

(* Every step keeps the invariant.                                         *)
LEMMA NextIInv == IInv /\ [Next]_vars => IInv'
<1> SUFFICES ASSUME IInv, [Next]_vars PROVE IInv'
  OBVIOUS
<1>1. CASE \E t \in Threads, n \in Sizes : AllocateFromList(t, n)
  BY <1>1, AllocateFromListKeeps
<1>2. CASE \E t \in Threads, n \in Sizes, k \in Chunks : AllocateGrow(t, n, k)
  BY <1>2, AllocateGrowKeeps
<1>3. CASE \E t \in Threads, h \in held \cup lost :
              \E new \in {{}} \cup {{k} : k \in Chunks} : Deallocate(t, h, new)
  <2>1. \A t, h, new : Deallocate(t, h, new) => h \in held
    BY DEF Deallocate
  <2> QED
    BY <1>3, <2>1, DeallocateKeeps
<1>4. CASE \E t \in Threads : Exit(t)
  BY <1>4, ExitKeeps
<1>5. CASE \E t \in Threads, h \in held \cup lost : DeallocateThrows(t, h)
  <2>1. /\ UNCHANGED <<alive, chunks, free, stale, inUse, peak, held, lost>>
        /\ outcome' = "aborted" /\ \E t : Runs(t)
    BY <1>5 DEF DeallocateThrows
  <2>2. FewChunks'
    BY <2>1 DEF IInv, FewChunks, Capacity
  <2>3. Defined'
    BY <2>1, RunsDefined DEF Defined
  <2>4. TypeOK'
    BY <2>1 DEF IInv, TypeOK
  <2> QED
    BY <2>2, <2>3, <2>4 DEF IInv
<1>6. CASE \/ \E t \in Threads, n \in Sizes : BadAlloc(t, n)
           \/ Ended \/ UNCHANGED vars
  <2>1. UNCHANGED vars
    BY <1>6 DEF BadAlloc, Ended
  <2>2. FewChunks'
    BY <2>1 DEF IInv, FewChunks, Capacity, vars
  <2>3. TypeOK' /\ (outcome' # "undefined" => Defined')
    BY <2>1 DEF IInv, TypeOK, Defined, vars
  <2> QED
    BY <2>2, <2>3 DEF IInv
<1>7. CASE \/ \E t \in Threads, n \in Sizes : AllocateStale(t, n)
           \/ \E t \in Threads, h \in held \cup lost :
                  \E new \in {{}} \cup {{k} : k \in Chunks} :
                      DeallocateLost(t, h, new)
  <2>1. \A t, h, new : DeallocateLost(t, h, new) => h \in lost
    BY DEF DeallocateLost
  <2> QED
    BY <1>7, <2>1, UndefinedKeeps
<1> QED
  BY <1>1, <1>2, <1>3, <1>4, <1>5, <1>6, <1>7 DEF Next

-----------------------------------------------------------------------------
(* The inductive invariant holds in every reachable state.                 *)
THEOREM IInvariant == Spec => []IInv
  BY InitIInv, NextIInv, PTL DEF Spec

(* Every variable of the pools keeps its type.                             *)
THEOREM TypeCorrect == Spec => []TypeOK
<1>1. IInv => TypeOK
  BY DEF IInv
<1> QED
  BY <1>1, IInvariant, PTL

(* A block lies inside memory some pool has, and so does whatever fits it. *)
LEMMA BlockIsMapped ==
    ASSUME NEW s \in BlockSizes, NEW b \in AllBlocks,
           Within(b, s, chunks), NEW n \in Nat, n <= s
    PROVE  Mapped(b, n, s)
<1>1. PICK t \in Threads : b.chunk \in chunks[<<t, s>>]
  BY DEF Within
<1>2. /\ <<t, s>> \in Pools /\ <<t, s>>[2] = s /\ s \in Nat
      /\ PerChunk(s) \in Nat /\ b.index \in Nat /\ b.index < PerChunk(s)
  BY ObjectFits, PerChunkType DEF Pools, BlockSizes, Within, AllBlocks
<1>3. b.index * s \in Nat /\ PerChunk(s) * s \in Nat
      /\ b.index * s + s <= PerChunk(s) * s
  BY <1>2, BlocksApart
<1>4. b.index * s + n <= PerChunk(s) * s
  BY <1>2, <1>3
<1> QED
  BY <1>1, <1>2, <1>4 DEF Mapped

(* Two blocks of which neither is the other share no byte: in one chunk    *)
(* they have the same size, and different places.                          *)
LEMMA BlocksAreApart ==
    ASSUME Defined, NEW s1 \in BlockSizes, NEW s2 \in BlockSizes,
           NEW b1 \in AllBlocks, NEW b2 \in AllBlocks, b1 # b2,
           Within(b1, s1, chunks), Within(b2, s2, chunks),
           NEW n1 \in Nat, NEW n2 \in Nat, n1 <= s1, n2 <= s2
    PROVE  ~Overlap(b1, n1, b2, n2, s1, s2)
<1> SUFFICES ASSUME b1.chunk = b2.chunk,
                    b1.index * s1 < b2.index * s2 + n2,
                    b2.index * s2 < b1.index * s1 + n1
             PROVE  FALSE
  BY DEF Overlap
<1>1. s1 = s2
  <2>1. PICK t1 \in Threads : b1.chunk \in chunks[<<t1, s1>>]
    BY DEF Within
  <2>2. PICK t2 \in Threads : b2.chunk \in chunks[<<t2, s2>>]
    BY DEF Within
  <2>3. <<t1, s1>> \in Pools /\ <<t2, s2>> \in Pools
    BY DEF Pools
  <2>4. <<t1, s1>> = <<t2, s2>>
    BY <2>1, <2>2, <2>3 DEF Defined, Sound, Owned
  <2> QED
    BY <2>4
<1>2. b1.index \in Nat /\ b2.index \in Nat /\ s1 \in Nat
  BY ObjectFits DEF AllBlocks, BlockSizes
<1>3. b1.index # b2.index
  BY DEF AllBlocks
<1>4. CASE b1.index < b2.index
  <2>1. /\ b1.index * s1 \in Nat /\ b2.index * s1 \in Nat
        /\ b1.index * s1 + s1 <= b2.index * s1
    BY <1>2, <1>4, BlocksApart
  <2> QED
    BY <1>1, <1>2, <2>1
<1>5. CASE b2.index < b1.index
  <2>1. /\ b1.index * s1 \in Nat /\ b2.index * s1 \in Nat
        /\ b2.index * s1 + s1 <= b1.index * s1
    BY <1>2, <1>5, BlocksApart
  <2> QED
    BY <1>1, <1>2, <2>1
<1> QED
  BY <1>2, <1>3, <1>4, <1>5

(* Whatever the threads allocate, free and leave behind when they end, no  *)
(* two objects whose memory is allocated share a byte, none lies over a    *)
(* link of a free list, and all lie inside allocated memory, until a block *)
(* that dangles is followed.                                               *)
THEOREM MemoryIsNotShared == Spec => []NoOverlap
<1>1. IInv => NoOverlap
  <2> SUFFICES ASSUME IInv, outcome # "undefined" PROVE NoOverlap
    BY DEF NoOverlap
  <2>0. Defined
    BY DEF IInv
  <2>1. /\ held \subseteq Objects
        /\ \A h \in held : Within(h.block, BlockSizeFor(h.size), chunks)
        /\ \A p \in Pools : \A h \in held : h.block \notin free[p]
        /\ \A g, h \in held : g.block = h.block => g = h
    BY <2>0 DEF Defined, Sound, Placed
  <2>2. \A p \in Pools : \A b \in free[p] :
           b \in AllBlocks /\ Within(b, p[2], chunks)
    BY <2>0 DEF Defined, Sound, Listed
  <2>3. \A n \in Sizes : /\ BlockSizeFor(n) \in BlockSizes
                         /\ n \in Nat /\ n <= BlockSizeFor(n)
    BY ObjectFits, PoolAssumption DEF BlockSizes
  <2>4. \A p \in Pools : p[2] \in BlockSizes /\ p[2] \in Nat /\ p[2] <= p[2]
    BY ObjectFits DEF Pools, BlockSizes
  <2>5. ASSUME NEW h \in held
        PROVE  Mapped(h.block, h.size, BlockSizeFor(h.size))
    BY <2>1, <2>3, BlockIsMapped DEF Objects
  <2>6. ASSUME NEW h \in held, NEW g \in held \ {h}
        PROVE  ~Overlap(h.block, h.size, g.block, g.size,
                        BlockSizeFor(h.size), BlockSizeFor(g.size))
    <3>1. h.block # g.block
      BY <2>1
    <3>2. /\ h.block \in AllBlocks /\ g.block \in AllBlocks
          /\ h.size \in Sizes /\ g.size \in Sizes
      BY <2>1 DEF Objects
    <3> QED
      BY <2>0, <2>1, <2>3, <3>1, <3>2, BlocksAreApart
  <2>7. ASSUME NEW h \in held, NEW p \in Pools, NEW b \in free[p]
        PROVE  ~Overlap(h.block, h.size, b, p[2],
                        BlockSizeFor(h.size), p[2])
    <3>1. h.block # b
      BY <2>1
    <3>2. h.block \in AllBlocks /\ h.size \in Sizes
      BY <2>1 DEF Objects
    <3> QED
      BY <2>0, <2>1, <2>2, <2>3, <2>4, <3>1, <3>2, BlocksAreApart
  <2>8. ASSUME NEW p \in Pools, NEW b \in free[p]
        PROVE  Mapped(b, p[2], p[2])
    BY <2>2, <2>4, BlockIsMapped
  <2> QED
    BY <2>5, <2>6, <2>7, <2>8 DEF NoOverlap
<1> QED
  BY <1>1, IInvariant, PTL

(* What a thread would have to wait for before it ends, and nothing in the *)
(* code does: no block of its chunks is in use or on another thread's list.*)
Outlived(t) ==
    \A b \in AllBlocks :
        b.chunk \in ChunksOf(t) =>
            /\ b \notin HeldBlocks
            /\ \A p \in Pools : b \in free[p] => p[1] = t

(* Threads ending in any other way are the only source of blocks that      *)
(* dangle: if no thread ends before its memory came back, no pointer into  *)
(* freed memory is ever kept, much less followed by allocate() or          *)
(* deallocate().                                                           *)
THEOREM TidyExitsAreSafe ==
    Spec /\ [][\A t \in Threads : Exit(t) => Outlived(t)]_vars
        => []((\A p \in Pools : stale[p] = {}) /\ lost = {}
              /\ outcome # "undefined")
<1> DEFINE Tidy == /\ stale = [p \in Pools |-> {}] /\ lost = {}
                   /\ outcome # "undefined"
           Waits == \A t \in Threads : Exit(t) => Outlived(t)
<1>1. Init => Tidy
  BY DEF Init
<1>2. IInv /\ Tidy /\ [Next]_vars /\ [Waits]_vars => Tidy'
  <2> SUFFICES ASSUME IInv, Tidy, [Next]_vars, [Waits]_vars PROVE Tidy'
    OBVIOUS
  <2>1. \A t \in Threads, n \in Sizes : ~AllocateStale(t, n)
    <3>1. \A t \in Threads, n \in Sizes : <<t, BlockSizeFor(n)>> \in Pools
      BY DEF Pools, BlockSizes
    <3> QED
      BY <3>1 DEF AllocateStale
  <2>2. \A t, h, new : ~DeallocateLost(t, h, new)
    BY DEF DeallocateLost
  <2>3. ASSUME NEW t \in Threads, Exit(t) PROVE Tidy'
    <3>1. Outlived(t)
      <4>1. CASE Waits
        BY <2>3, <4>1
      <4>2. CASE UNCHANGED vars
        <5>1. t \in alive /\ alive' = alive \ {t} /\ alive' = alive
          BY <2>3, <4>2 DEF Exit, Runs, vars
        <5> QED
          BY <5>1
      <4> QED
        BY <4>1, <4>2
    <3>2. /\ free \in [Pools -> SUBSET AllBlocks] /\ held \subseteq Objects
      BY DEF IInv, TypeOK
    <3>3. \A p \in Pools : p[1] # t =>
             {b \in free[p] : b.chunk \in ChunksOf(t)} = {}
      BY <3>1, <3>2 DEF Outlived
    <3>4. {h \in held : h.block.chunk \in ChunksOf(t)} = {}
      BY <3>1, <3>2 DEF Outlived, HeldBlocks, Objects
    <3>5. lost' = {}
      BY <2>3, <3>4 DEF Exit
    <3>6. stale' = [p \in Pools |-> {}]
      <4>1. stale' = [p \in Pools |-> IF p[1] = t THEN {}
                 ELSE stale[p] \cup {b \in free[p] : b.chunk \in ChunksOf(t)}]
        BY <2>3 DEF Exit
      <4> QED
        BY <3>3, <4>1
    <3>7. outcome' = outcome
      BY <2>3 DEF Exit
    <3> QED
      BY <3>5, <3>6, <3>7
  <2>4. CASE UNCHANGED vars
    BY <2>4 DEF vars
  <2>5. ASSUME NEW t \in Threads, NEW n \in Sizes,
               \/ AllocateFromList(t, n) \/ BadAlloc(t, n)
               \/ \E k \in Chunks : AllocateGrow(t, n, k)
        PROVE  Tidy'
    BY <2>5 DEF AllocateFromList, BadAlloc, AllocateGrow, vars
  <2>6. ASSUME NEW t \in Threads, NEW h, NEW new,
               DeallocateThrows(t, h) \/ Deallocate(t, h, new)
        PROVE  Tidy'
    BY <2>6 DEF DeallocateThrows, Deallocate
  <2>7. CASE Ended
    BY <2>7 DEF Ended, vars
  <2> QED
    BY <2>1, <2>2, <2>3, <2>4, <2>5, <2>6, <2>7 DEF Next
<1>3. Tidy => /\ \A p \in Pools : stale[p] = {}
              /\ lost = {} /\ outcome # "undefined"
  OBVIOUS
<1> QED
  BY <1>1, <1>2, <1>3, IInvariant, PTL DEF Spec

(* A pool has as many blocks as its chunks were cut into.                  *)
LEMMA HomeCount ==
    ASSUME Defined, NEW p \in Pools
    PROVE  /\ IsFiniteSet(Home(p))
           /\ Cardinality(Home(p)) = PerChunk(p[2]) * Cardinality(chunks[p])
<1> DEFINE I == 0 .. PerChunk(p[2]) - 1
           S == chunks[p] \X I
           f == [x \in S |-> [chunk |-> x[1], index |-> x[2]]]
<1>1. IsFiniteSet(chunks[p]) /\ Cardinality(chunks[p]) \in Nat
  BY FS_CardinalityType DEF Defined, Counted
<1>2. /\ PerChunk(p[2]) \in Nat
      /\ IsFiniteSet(I) /\ Cardinality(I) = PerChunk(p[2])
  BY PerChunkType, FS_Interval
<1>3. /\ IsFiniteSet(S)
      /\ Cardinality(S) = Cardinality(chunks[p]) * PerChunk(p[2])
  BY <1>1, <1>2, FS_Product
<1>4. f \in Bijection(S, Home(p))
  <2>1. \A x \in S : x[1] \in chunks[p] /\ x[2] \in I /\ x = <<x[1], x[2]>>
    OBVIOUS
  <2>2. \A x \in S : f[x] \in Home(p)
    BY <2>1 DEF Home, BlocksOf
  <2>3. \A b \in Home(p) : \E k \in chunks[p], i \in I :
           b = [chunk |-> k, index |-> i]
    BY DEF Home, BlocksOf
  <2>4. \A b \in Home(p) : \E x \in S : f[x] = b
    <3> SUFFICES ASSUME NEW b \in Home(p) PROVE \E x \in S : f[x] = b
      OBVIOUS
    <3>1. PICK k \in chunks[p], i \in I : b = [chunk |-> k, index |-> i]
      BY <2>3
    <3>2. <<k, i>> \in S /\ f[<<k, i>>] = b
      BY <3>1
    <3> QED
      BY <3>2
  <2>5. \A x, y \in S : f[x] = f[y] => x = y
    <3> SUFFICES ASSUME NEW x \in S, NEW y \in S, f[x] = f[y] PROVE x = y
      OBVIOUS
    <3>1. x[1] = y[1] /\ x[2] = y[2]
      OBVIOUS
    <3> QED
      BY <2>1, <3>1
  <2>6. f \in [S -> Home(p)]
    BY <2>2
  <2> HIDE DEF f, S
  <2> QED
    BY <2>4, <2>5, <2>6 DEF Bijection, Injection, Surjection, IsInjective
<1>5. IsFiniteSet(Home(p)) /\ Cardinality(Home(p)) = Cardinality(S)
  <2> HIDE DEF f, S
  <2> QED
    BY <1>3, <1>4, FS_Bijection DEF ExistsBijection
<1> QED
  BY <1>1, <1>2, <1>3, <1>5

(* blocksInUse() is the number of blocks of the pool in use, as long as no *)
(* block moved between its list and another thread's; size_t is wide       *)
(* enough for it (MemoryAssumption).                                       *)
THEOREM CountersAreRight == Spec => []AccountsAgree
<1>1. IInv => AccountsAgree
  <2> SUFFICES ASSUME IInv, NEW p \in Pools,
                      outcome # "undefined", AtHome(p)
               PROVE  BlocksInUse(p) = Cardinality(Home(p) \cap HeldBlocks)
    BY DEF AccountsAgree
  <2> DEFINE F == free[p]
             U == Home(p) \cap HeldBlocks
             m == PerChunk(p[2])
             c == Cardinality(chunks[p])
             H == Home(p)
  <2>0. Defined
    BY DEF IInv
  <2>1. H = F \cup U /\ F \cap U = {} /\ U \subseteq H
    BY <2>0 DEF AtHome, HeldBlocks, Defined, Sound, Placed
  <2>2. /\ IsFiniteSet(F) /\ inUse[p] = m * c - Cardinality(F)
        /\ m \in Nat \ {0} /\ c \in Nat /\ Cardinality(F) \in Nat
    <3>1. Counted(chunks, free, inUse, stale) /\ stale[p] = {}
      BY <2>0 DEF Defined, AtHome
    <3>2. m \in Nat \ {0} /\ c \in Nat /\ Cardinality(F) \in Nat
      BY <3>1, CountTypes
    <3> QED
      BY <3>1, <3>2 DEF Counted
  <2>3. IsFiniteSet(H) /\ Cardinality(H) = m * c
    BY <2>0, HomeCount
  <2> HIDE DEF F, U, H
  <2>4. IsFiniteSet(U) /\ Cardinality(U) \in Nat
    BY <2>1, <2>3, FS_Subset, FS_CardinalityType
  <2>5. Cardinality(H) = Cardinality(F) + Cardinality(U)
    <3>1. Cardinality(F \cup U) = Cardinality(F) + Cardinality(U)
                                       - Cardinality(F \cap U)
      BY <2>2, <2>4, FS_Union
    <3>2. Cardinality(F \cap U) = 0
      BY <2>1, FS_EmptySet
    <3> QED
      BY <2>1, <2>2, <2>4, <3>1, <3>2
  <2>6. inUse[p] = Cardinality(U) /\ Cardinality(U) <= m * c
    <3> HIDE DEF m, c
    <3>1. m * c \in Nat
      BY <2>2
    <3> QED
      BY <2>2, <2>3, <2>4, <2>5, <3>1
  <2>7. m * c < 2 ^ Width
    <3> DEFINE n == Cardinality(Chunks)
    <3>1. n \in Nat /\ c <= n
      <4>1. chunks[p] \subseteq Chunks
        BY <2>0 DEF Defined, Sound, Owned
      <4> QED
        BY <4>1, MemoryAssumption, FS_CardinalityType, FS_Subset
    <3>2. m * n < 2 ^ Width
      BY MemoryAssumption DEF PerChunk
    <3> HIDE DEF m, c, n
    <3>3. m * c <= m * n /\ m * c \in Nat /\ m * n \in Nat
      <4>1. PICK d \in Nat : n = c + d
        <5>1. n - c \in Nat
          BY <2>2, <3>1
        <5> QED
          BY <2>2, <3>1, <5>1
      <4>2. m * n = m * c + m * d
        BY <2>2, <4>1
      <4>3. m * d \in Nat /\ m * c \in Nat
        BY <2>2, <4>1
      <4> QED
        BY <4>2, <4>3
    <3>4. 2 ^ Width \in Int
      BY PoolAssumption
    <3> QED
      BY <3>2, <3>3, <3>4
  <2>8. 2 ^ Width \in Int
    BY PoolAssumption
  <2>9. Cardinality(U) < 2 ^ Width
    <3> HIDE DEF m, c
    <3>1. m * c \in Nat
      BY <2>2
    <3> QED
      BY <2>4, <2>6, <2>7, <2>8, <3>1
  <2>10. inUse[p] % 2 ^ Width = inUse[p]
    <3> DEFINE w == 2 ^ Width
               u == Cardinality(U)
    <3>1. w \in Int /\ u \in Nat /\ u < w /\ inUse[p] = u
      BY <2>4, <2>6, <2>8, <2>9
    <3> HIDE DEF w, u
    <3>2. u % w = u
      BY <3>1
    <3> QED
      BY <3>1, <3>2 DEF w
  <2> QED
    BY <2>6, <2>10 DEF BlocksInUse, U
<1> QED
  BY <1>1, IInvariant, PTL

(* A pool asks the system for a chunk only when all the blocks it has are  *)
(* taken, so it has at most one chunk more than its peak fills.            *)
THEOREM PoolsDoNotOvergrow == Spec => []FewChunks
<1>1. IInv => FewChunks
  BY DEF IInv
<1> QED
  BY <1>1, IInvariant, PTL

=============================================================================
