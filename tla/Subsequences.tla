----------------------------- MODULE Subsequences -----------------------------
(***************************************************************************)
(* What is left of a list when elements are removed from it. The places of *)
(* the elements are chosen, not walked through, so that proofs about it    *)
(* need no induction.                                                      *)
(***************************************************************************)
EXTENDS Naturals, FiniteSets

\* The nth of some places in a list, from its front.
Nth(places, n) == CHOOSE p \in places : Cardinality({q \in places : q <= p}) = n

\* The elements of a list at some of its places, in their order.
Picked(list, places) == [n \in 1..Cardinality(places) |-> list[Nth(places, n)]]
=============================================================================
