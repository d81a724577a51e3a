----------------------------- MODULE MCReactor -----------------------------
(* Small instances of Reactor for TLC.  Clients and descriptors are        *)
(* interchangeable; loops are not (round robin, thread 0 is the main one). *)
EXTENDS Reactor, TLC

Symmetry == Permutations(Clients) \cup Permutations(Fds)

=============================================================================
