----------------------------- MODULE MCPresence -----------------------------
(* Instances of Presence for TLC. *)
EXTENDS Presence, TLC

CONSTANTS u1, u2, s1, s2, s3

\* One user with two tabs, one with a single connection.
MCOwner == s1 :> u1 @@ s2 :> u1 @@ s3 :> u2

\* One connection.
MCOne == s1 :> u1

MCSymmetry == Permutations({s1, s2}) \cup Permutations(Hooks)

=============================================================================
