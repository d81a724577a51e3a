----------------------------- MODULE LogQueue -----------------------------
(***************************************************************************)
(* What AsyncLogger promises the threads that log: a first-in first-out    *)
(* queue of lines in front of the output.  A line that was accepted comes  *)
(* out once, in its turn; only a hard write error takes lines out of the   *)
(* queue without writing them, and then from its front.                    *)
(***************************************************************************)
EXTENDS Integers, Sequences

CONSTANT Lines

VARIABLES
    queue,   \* accepted, not yet written
    out      \* written, in the order of writing

Init == queue = <<>> /\ out = <<>>

Accept(l) ==
    /\ queue' = Append(queue, l)
    /\ UNCHANGED out

Emit ==
    /\ queue # <<>>
    /\ out' = Append(out, Head(queue))
    /\ queue' = Tail(queue)

Lose(n) ==
    /\ queue' = SubSeq(queue, n + 1, Len(queue))
    /\ UNCHANGED out

Next ==
    \/ \E l \in Lines : Accept(l)
    \/ Emit
    \/ \E n \in 1 .. Len(queue) : Lose(n)

Spec == Init /\ [][Next]_<<queue, out>>

=============================================================================
