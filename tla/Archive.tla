------------------------------- MODULE Archive -------------------------------
(***************************************************************************)
(* What the importer promises: a tournament is in the local database with   *)
(* all its hands or not at all, it gets there once it is over, and only the *)
(* user's request to delete everything takes it away again.                 *)
(***************************************************************************)
CONSTANTS Tournaments

VARIABLES
  over,    \* tournaments that are over
  archive  \* tournaments in the database

Init == over = {} /\ archive = {}

End(t) == over' = over \cup {t} /\ UNCHANGED archive
Add(t) == t \in over \ archive /\ archive' = archive \cup {t} /\ UNCHANGED over
Clear  == archive' = {} /\ UNCHANGED over

Next == (\E t \in Tournaments : End(t) \/ Add(t)) \/ Clear

Spec == Init /\ [][Next]_<<over, archive>>
=============================================================================
