---------------------------- MODULE MCIdleTimer ----------------------------
(* Small instances of IdleTimer for TLC; connections are interchangeable.  *)
EXTENDS IdleTimer, TLC

Symmetry == Permutations(Conns)

=============================================================================
