------------------------------ MODULE FifoQueue ------------------------------
(* What the command queue promises: events come out in the order they went in, *)
(* each of them once.                                                          *)
EXTENDS Sequences

CONSTANT Events

VARIABLE q

Init == q = <<>>

Put(e) == q' = Append(q, e)

Get == q # <<>> /\ q' = Tail(q)

Next == Get \/ \E e \in Events : Put(e)

Spec == Init /\ [][Next]_q
=============================================================================
