------------------------------ MODULE Delivery -------------------------------
(***************************************************************************)
(* What a member may rely on: a tournament gets to the hub once in each     *)
(* content and stays there, and so do its opponents' names.  A PC takes a   *)
(* tournament for delivered only once it is, and from then on for delivered *)
(* in that content, until it forgets all it knows at once; it may come to   *)
(* doubt that the names were, and asks again.                               *)
(***************************************************************************)
CONSTANTS Clients, Tournaments, Versions, Nowhere

VARIABLES
  rows,   \* contents the hub has
  named,  \* those of which it has the opponents' names
  known,  \* PC, tournament -> the content it takes for delivered, or Nowhere
  told    \* PC -> the tournaments of which it takes the names for delivered

vars == <<rows, named, known, told>>

Nothing == [t \in Tournaments |-> Nowhere]

Init ==
  /\ rows = {} /\ named = {}
  /\ known = [c \in Clients |-> Nothing]
  /\ told = [c \in Clients |-> {}]

Share(t, v) ==
  /\ <<t, v>> \notin rows
  /\ rows' = rows \cup {<<t, v>>}
  /\ UNCHANGED <<named, known, told>>

Name(row) ==
  /\ row \in rows \ named
  /\ named' = named \cup {row}
  /\ UNCHANGED <<rows, known, told>>

Learn(c, t, v) ==
  /\ known[c][t] = Nowhere /\ <<t, v>> \in rows
  /\ known' = [known EXCEPT ![c][t] = <<t, v>>]
  /\ UNCHANGED <<rows, named, told>>

LearnNamed(c, t) ==
  /\ known[c][t] \in named
  /\ told' = [told EXCEPT ![c] = @ \cup {t}]
  /\ UNCHANGED <<rows, named, known>>

Doubt(c, ts) ==
  /\ told' = [told EXCEPT ![c] = @ \ ts]
  /\ UNCHANGED <<rows, named, known>>

Forget(c) ==
  /\ known' = [known EXCEPT ![c] = Nothing]
  /\ told' = [told EXCEPT ![c] = {}]
  /\ UNCHANGED <<rows, named>>

Next ==
  \/ \E t \in Tournaments, v \in Versions : Share(t, v)
  \/ \E row \in rows : Name(row)
  \/ \E c \in Clients :
       \/ \E t \in Tournaments : LearnNamed(c, t) \/ \E v \in Versions : Learn(c, t, v)
       \/ \E ts \in SUBSET Tournaments : Doubt(c, ts)
       \/ Forget(c)

Spec == Init /\ [][Next]_vars
=============================================================================
