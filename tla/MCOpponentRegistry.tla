-------------------------- MODULE MCOpponentRegistry --------------------------
(* Instances of OpponentRegistry for TLC: two members, whose tournaments share an     *)
(* opponent, and a tournament that may be sent with either of two lists.              *)
EXTENDS OpponentRegistry, TLC

CONSTANTS t1, t2, t3, m1, m2, ann, bob, cat

MCOwner     == t1 :> m1 @@ t2 :> m1 @@ t3 :> m2
MCStartedAt == t1 :> 1 @@ t2 :> 3 @@ t3 :> 2
MCLists     == t1 :> {<<ann, bob>>} @@ t2 :> {<<ann, cat>>} @@ t3 :> {<<bob, ann>>, <<cat>>}
Symmetry    == Permutations(Handlers)
=============================================================================
