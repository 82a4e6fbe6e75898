---------------------------- MODULE MCWhiteboard ----------------------------
(* Instances of Whiteboard for TLC. *)
EXTENDS Whiteboard, TLC

Elem(v, n, d) == [version |-> v, nonce |-> n, deleted |-> d]

\* Three values of one element: drawn, then two edits of the same version: a
\* deletion, and a change that wins against it.
MCElements == {Elem(1, 1, FALSE), Elem(2, 2, TRUE), Elem(2, 1, FALSE)}

MCSymmetry == Permutations(Persisters) \cup Permutations(Finalizers) \cup Permutations(Ids)

=============================================================================
