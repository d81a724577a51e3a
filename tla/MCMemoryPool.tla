---------------------------- MODULE MCMemoryPool ----------------------------
(* Small instances of MemoryPool for TLC; threads are interchangeable, and *)
(* so are the chunks the system can give.                                  *)
EXTENDS MemoryPool, TLC

Symmetry == Permutations(Threads) \cup Permutations(Chunks)

=============================================================================
