--------------------------- MODULE MCCommunitySync ---------------------------
(* Instances of CommunitySync for TLC. *)
EXTENDS CommunitySync, TLC

Symmetry == Permutations(Clients) \cup Permutations(Tournaments) \cup Permutations(Versions)

(* Liveness is checked without symmetry, so a behaviour is bounded as a whole: one PC with *)
(* one tournament may meet MaxFaults faults in MaxPairings pairings, one with two           *)
(* tournaments a single fault in one pairing, two PCs with one tournament none, and these   *)
(* synchronise as the watcher does.  Only steps that nothing forces are bounded: no fair    *)
(* action imports, pairs, counts a fault or starts a sync that does not revalidate.         *)
MainPC == CHOOSE c \in Clients : TRUE
MainTournament == CHOOSE t \in Tournaments : TRUE
Holds(c, t) == local[c][t] # Absent
SecondPC == \E c \in Clients \ {MainPC} : cfg[c].secret # 0 \/ \E t \in Tournaments : Holds(c, t)
SecondTournament == \E c \in Clients, t \in Tournaments \ {MainTournament} : Holds(c, t)

WatchersOnly == \A c \in Clients : sess[c].pc \in {"idle", "read"} \/ sess[c].revalidate

Bounded ==
  /\ SecondPC => faults = 0 /\ ~SecondTournament /\ WatchersOnly
  /\ SecondTournament => faults <= 1 /\ pairings <= 1

LiveNext == Next /\ Bounded'
LiveSpec == Init /\ [][LiveNext]_vars /\ Fairness
=============================================================================
