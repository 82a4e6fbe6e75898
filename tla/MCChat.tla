------------------------------- MODULE MCChat -------------------------------
(* Instances of Chat for TLC: every socket and every message is of one     *)
(* member beside the host.                                                 *)
EXTENDS Chat, TLC

CONSTANT Guest

MCUsers == {Host, Guest}
MCOwner == [s \in Sockets |-> Guest]
MCAuthor == [m \in Messages |-> Guest]
MCSymmetry == Permutations(Calls) \cup Permutations(Sends)

=============================================================================
