-------------------------------- MODULE Fifo --------------------------------
(* What the transmit buffer promises: characters go out in the order in    *)
(* which they were written, every one once, at most Size are under way.    *)
EXTENDS Naturals, Sequences

CONSTANTS Chars, Size

VARIABLE q

Put(c) == Len(q) < Size /\ q' = Append(q, c)
Get == q # <<>> /\ q' = Tail(q)

Spec == q = <<>> /\ [][Get \/ \E c \in Chars : Put(c)]_q
=============================================================================
