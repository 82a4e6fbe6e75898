------------------------------ MODULE MCWbSync ------------------------------
(* Instances of WbSync for TLC. *)
EXTENDS WbSync, TLC

CONSTANTS ann, bob

E(v, n, d) == [version |-> v, nonce |-> n, deleted |-> d]

\* Up to three versions; two users may give one version different nonces, and
\* version and nonce tell an element (nonces are random).
MCElements == {E(1, 1, FALSE), E(2, 1, FALSE), E(2, 2, TRUE), E(3, 1, FALSE)}

\* A board that holds a first version of its element.
MCBoards == {[id \in Ids |-> IF id \in LocalOnly THEN NoElement ELSE E(1, 1, FALSE)]}

\* Ann's connection may be replaced once, Bob's may not.
MCSockets == ann :> 2 @@ bob :> 1

=============================================================================
