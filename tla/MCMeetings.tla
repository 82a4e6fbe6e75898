----------------------------- MODULE MCMeetings -----------------------------
(* Instances of Meetings for TLC. *)
EXTENDS Meetings, TLC

MCSymmetry == Permutations(Meetings) \cup Permutations(Requests) \cup Permutations(Hooks)

=============================================================================
