-------------------------- MODULE MCCommunityPairing --------------------------
(* Instances of CommunityPairing for TLC: two PCs, which may share one member or not. *)
EXTENDS CommunityPairing, TLC

Symmetry == Permutations(Clients) \cup Permutations(Names)
=============================================================================
