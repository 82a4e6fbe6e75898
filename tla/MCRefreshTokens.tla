-------------------------- MODULE MCRefreshTokens --------------------------
(* Instances of RefreshTokens for TLC. *)
EXTENDS RefreshTokens, TLC

MCSymmetry == Permutations(Browsers) \cup Permutations(Tokens) \cup Permutations(Calls)

=============================================================================
