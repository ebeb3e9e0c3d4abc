---------------------------- MODULE BooksProofs -----------------------------
(***************************************************************************)
(* The books of a hand match the table, whatever the stacks, the blinds    *)
(* and the bets: BooksMatchTable is an invariant of Analysis.              *)
(*                                                                         *)
(* The invariant says of the table who may still bet and that a live       *)
(* player has put in the most (Betting), and of the parser that it has     *)
(* followed every line (Follows), as has the importer's running pot.  At   *)
(* the end the lines are read in three parts: up to the showdown, the      *)
(* collections, the summary.                                               *)
(***************************************************************************)
EXTENDS AnalysisProofs

-----------------------------------------------------------------------------
(* The invariant                                                           *)

GameFields == {"setup", "bet", "paid", "won", "folded", "acted", "turn", "street", "over",
               "entered", "raisers", "flop", "shown", "lines"}

\* A hand at the table, as far as its books are concerned.
GameOK(g) ==
    /\ DOMAIN g = GameFields
    /\ g.setup \in Setups
    /\ g.bet \in [Seated(g) -> Nat] /\ g.paid \in [Seated(g) -> Nat] /\ g.won \in [Seated(g) -> Int]
    /\ g.folded \in SUBSET Seated(g)
    /\ g.turn \in 1 .. 4 /\ g.street \in ToSet(Streets) /\ g.over \in BOOLEAN

\* Nobody has put in more than q, on this street or in the hand.
Leads(g, q) == \A p \in Seated(g) : g.bet[p] =< g.bet[q] /\ g.paid[p] =< g.paid[q]

\* Who may still bet, or has bet on this street, had put in before it as much as anybody.
Abreast(g) ==
    \A p \in Seated(g) : p \in CanAct(g) \/ g.bet[p] > 0 =>
        \A q \in Seated(g) : g.paid[q] - g.bet[q] =< g.paid[p] - g.bet[p]

Betting(g) ==
    /\ \A p \in Seated(g) : g.bet[p] =< g.paid[p] /\ g.paid[p] =< g.setup.stack[p]
    /\ Abreast(g)
    /\ \E q \in Live(g) : Leads(g, q)

Kinds ==
    {"post_small_blind", "post_big_blind", "check", "call", "bet", "raise", "fold",
     "uncalled_return", "show", "muck", "collect"}
Sections == ToSet(Streets) \cup {"showdown"}

Acts(names) ==
    [street : Sections, who : names, kind : Kinds, amount : Int, to : Int, allIn : BOOLEAN]
Hands(setup) ==
    [names : {ToSet(setup.seats)}, seats : {setup.seats}, stack : {setup.stack},
     button : {Button(setup)}, bigBlind : {BigBlind}, hero : {NoOne, Hero}, cards : BOOLEAN,
     invested : [ToSet(setup.seats) -> Int], won : [ToSet(setup.seats) -> Int],
     showed : SUBSET ToSet(setup.seats), allIn : SUBSET ToSet(setup.seats),
     contributions : [ToSet(setup.seats) -> Int],
     street : Sections, summary : BOOLEAN, pot : Int, board : Int, actions : Seq(Acts(ToSet(setup.seats)))]

\* The importer's pass over the actions.
StartOfRun(names) == [put |-> Nothing(names), street |-> NoStreet, pot |-> 0, after |-> <<>>]
RunOf(names, actions) == FoldLeft(Run, StartOfRun(names), actions)

\* It has counted x so far.
HasCounted(run, x) == run.pot = x /\ Len(run.after) > 0 /\ run.after[Len(run.after)] = x

\* The streets still to come.
Later(street) ==
    CASE street = "preflop" -> {"flop", "turn", "river"}
      [] street = "flop" -> {"turn", "river"}
      [] street = "turn" -> {"river"}
      [] OTHER -> {}

\* What it takes for put in on this street is what the parser does.
SameStreet(run, h) ==
    /\ run.street \notin Later(h.street)
    /\ IF h.street \in BoardStreets /\ run.street # h.street
       THEN h.contributions = Nothing(h.names)
       ELSE run.put = h.contributions

\* What has been read is what has been done.
Follows(g, h) ==
    /\ h.invested = g.paid /\ h.contributions = g.bet /\ h.won = Nothing(Seated(g))
    /\ h.street = g.street /\ ~h.summary
    /\ HasCounted(RunOf(h.names, h.actions), SumFunction(g.paid))
    /\ SameStreet(RunOf(h.names, h.actions), h)

\* What is known at the end.
Settled(g, h) ==
    /\ h.invested = g.paid /\ h.won = g.won
    /\ h.summary /\ h.pot = SumFunction(g.paid) /\ h.pot = SumFunction(g.won)
    /\ HasCounted(RunOf(h.names, h.actions), h.pot)

Books(g, h) ==
    /\ GameOK(g) /\ h \in Hands(g.setup)
    /\ ~g.over => Betting(g) /\ Follows(g, h)
    /\ g.over => Settled(g, h)

BooksInv == table = NoTable \/ Books(table, hand)

-----------------------------------------------------------------------------
(* The table                                                               *)

LEMMA SetupFacts ==
  ASSUME NEW s \in Setups
  PROVE  /\ Len(s.seats) \in {2, 3} /\ s.seats \in Seq(ToSet(s.seats))
         /\ \A i \in 1 .. Len(s.seats) : s.seats[i] \in ToSet(s.seats)
         /\ \A p \in ToSet(s.seats) : \E i \in 1 .. Len(s.seats) : s.seats[i] = p
         /\ s.seats[1] # s.seats[2]
         /\ IsFiniteSet(ToSet(s.seats)) /\ ToSet(s.seats) # {}
         /\ s.stack \in [ToSet(s.seats) -> Nat] /\ s.returns \in BOOLEAN
         /\ Button(s) \in ToSet(s.seats)
<1>1. /\ Len(s.seats) \in {2, 3}
      /\ s.seats \in Seq(ToSet(s.seats))
      /\ \A i, j \in DOMAIN s.seats : s.seats[i] = s.seats[j] => i = j
      /\ s.stack \in [ToSet(s.seats) -> Nat]
      /\ s.returns \in BOOLEAN
  BY SetupsAssumption
<1>2. PICK seats, n, names : seats = s.seats /\ n = Len(seats) /\ names = ToSet(seats)
  OBVIOUS
<1>3. n \in {2, 3} /\ DOMAIN seats = 1 .. n /\ names = {seats[i] : i \in 1 .. n}
  BY <1>1, <1>2 DEF ToSet
<1>4. \A i \in 1 .. n : seats[i] \in names
  BY <1>3
<1>5. \A p \in names : \E i \in 1 .. n : seats[i] = p
  BY <1>3
<1>6. seats[1] # seats[2]
  BY <1>1, <1>2, <1>3, 1 \in 1 .. n, 2 \in 1 .. n
<1>7. IsFiniteSet(names)
  <2>1. IsFiniteSet(1 .. n)
    BY <1>3, FS_Interval
  <2>2. PICK f : f = [i \in 1 .. n |-> seats[i]]
    OBVIOUS
  <2>3. f \in Surjection(1 .. n, names)
    BY <1>3, <2>2 DEF Surjection
  <2>q. QED BY <2>1, <2>3, FS_Surjection
<1>8. names # {}
  BY <1>3, <1>4, 1 \in 1 .. n
<1>9. Button(s) \in names
  BY <1>2, <1>3, <1>4 DEF Button
<1>q. QED BY <1>1, <1>2, <1>3, <1>4, <1>5, <1>6, <1>7, <1>8, <1>9

LEMMA MaxOfFinite ==
  ASSUME NEW S, IsFiniteSet(S), S # {}, NEW f \in [S -> Int]
  PROVE  \E x \in S : Max({f[y] : y \in S}) = f[x] /\ \A y \in S : f[y] =< f[x]
<1> DEFINE P == {T \in SUBSET S : T = {} \/ \E x \in T : \A y \in T : f[y] =< f[x]}
<1>1. {} \in P
  OBVIOUS
<1>2. ASSUME NEW T \in SUBSET S, NEW x \in T, T \ {x} \in P PROVE T \in P
  <2>1. CASE T \ {x} = {}
    BY <2>1
  <2>2. CASE T \ {x} # {}
    <3>1. PICK z \in T \ {x} : \A y \in T \ {x} : f[y] =< f[z]
      BY <1>2, <2>2
    <3>2. f[x] \in Int /\ f[z] \in Int /\ \A y \in T : f[y] \in Int
      OBVIOUS
    <3>3. CASE f[x] =< f[z]
      BY <3>1, <3>2, <3>3
    <3>4. CASE f[z] =< f[x]
      BY <3>1, <3>2, <3>4
    <3>q. QED BY <3>2, <3>3, <3>4
  <2>q. QED BY <2>1, <2>2
<1>3. S \in P
  <2> HIDE DEF P
  <2>q. QED BY <1>1, <1>2, OneByOne
<1>4. PICK x \in S : \A y \in S : f[y] =< f[x]
  BY <1>3
<1>5. {f[y] : y \in S} \in SUBSET Int /\ f[x] \in {f[y] : y \in S} /\ \A v \in {f[y] : y \in S} : v =< f[x]
  BY <1>4
<1>6. Max({f[y] : y \in S}) = f[x]
  BY <1>5, GreatestIs
<1>q. QED BY <1>4, <1>6

LEMMA SeatedFacts ==
  ASSUME NEW g, GameOK(g)
  PROVE  /\ Seated(g) = ToSet(g.setup.seats) /\ IsFiniteSet(Seated(g)) /\ Seated(g) # {}
         /\ Live(g) \in SUBSET Seated(g) /\ CanAct(g) \in SUBSET Live(g)
         /\ g.setup.stack \in [Seated(g) -> Nat]
BY SetupFacts DEF GameOK, Seated, Live, CanAct

LEMMA PriceIs ==
  ASSUME NEW g, GameOK(g)
  PROVE  /\ Price(g) \in Nat
         /\ \E p \in Seated(g) : g.bet[p] = Price(g)
         /\ \A p \in Seated(g) : g.bet[p] =< Price(g)
<1>1. g.bet \in [Seated(g) -> Nat] /\ g.bet \in [Seated(g) -> Int]
  BY DEF GameOK
<1>2. PICK x \in Seated(g) : Max({g.bet[y] : y \in Seated(g)}) = g.bet[x] /\ \A y \in Seated(g) : g.bet[y] =< g.bet[x]
  BY <1>1, SeatedFacts, MaxOfFinite
<1>q. QED BY <1>1, <1>2 DEF Price

\* Somebody is awaited, and it is the next one's turn.
LEMMA ToActIs ==
  ASSUME NEW g, GameOK(g), Awaited(g) # {}
  PROVE  ToAct(g) \in Awaited(g)
<1>1. PICK seats, n, t : seats = g.setup.seats /\ n = Len(seats) /\ t = g.turn
  OBVIOUS
<1> DEFINE seat(k) == seats[((t - 1 + k) % n) + 1]
<1>2. n \in {2, 3} /\ t \in 1 .. 4 /\ \A p \in Seated(g) : \E i \in 1 .. n : seats[i] = p
  BY <1>1, SetupFacts DEF GameOK, Seated
<1>3. PICK q \in Seated(g) : q \in Awaited(g)
  BY DEF Awaited
<1>4. PICK i \in 1 .. n : seats[i] = q
  BY <1>2, <1>3
<1>5. \E k \in 0 .. n - 1 : ((t - 1 + k) % n) + 1 = i
  <2>1. CASE n = 2
    <3>1. \E k \in 0 .. 1 : ((t - 1 + k) % 2) + 1 = i
      BY <1>2, <1>4, <2>1
    <3>q. QED BY <2>1, <3>1
  <2>2. CASE n = 3
    <3>1. \E k \in 0 .. 2 : ((t - 1 + k) % 3) + 1 = i
      BY <1>2, <1>4, <2>2
    <3>q. QED BY <2>2, <3>1
  <2>q. QED BY <1>2, <2>1, <2>2
<1>6. \E k \in 0 .. n - 1 : seat(k) \in Awaited(g)
  BY <1>3, <1>4, <1>5
<1> HIDE DEF seat
<1>7. PICK K : K = {k \in 0 .. n - 1 : seat(k) \in Awaited(g)}
  OBVIOUS
<1>8. K \subseteq Nat /\ K # {}
  BY <1>2, <1>6, <1>7
<1>9. PICK m \in K : \A j \in K : m =< j
  BY <1>8, LeastNumber
<1>10. m \in 0 .. n - 1 /\ seat(m) \in Awaited(g) /\ \A j \in 0 .. m - 1 : seat(j) \notin Awaited(g)
  <2>1. m \in 0 .. n - 1 /\ seat(m) \in Awaited(g)
    BY <1>7, <1>9
  <2>2. ASSUME NEW j \in 0 .. m - 1 PROVE seat(j) \notin Awaited(g)
    <3>1. j \in 0 .. n - 1 /\ ~(m =< j)
      BY <1>2, <2>1
    <3>q. QED BY <1>7, <1>9, <3>1
  <2>q. QED BY <2>1, <2>2
<1>11. PICK c : c = CHOOSE k \in 0 .. n - 1 : seat(k) \in Awaited(g) /\ \A j \in 0 .. k - 1 : seat(j) \notin Awaited(g)
  OBVIOUS
<1>12. seat(c) \in Awaited(g)
  BY <1>10, <1>11
<1>q. QED BY <1>1, <1>11, <1>12 DEF ToAct, seat

LEMMA ToActFacts ==
  ASSUME NEW g, GameOK(g), Awaited(g) # {}, NEW p, p = ToAct(g)
  PROVE  /\ p \in Seated(g) /\ p \in CanAct(g) /\ p \in Live(g)
         /\ g.bet[p] \in Nat /\ g.paid[p] \in Nat /\ Chips(g, p) \in Nat /\ Chips(g, p) > 0
<1>1. p \in Awaited(g)
  BY ToActIs
<1>2. p \in Seated(g) /\ p \in CanAct(g)
  BY <1>1 DEF Awaited, MustAct
<1>3. g.bet[p] \in Nat /\ g.paid[p] \in Nat /\ g.setup.stack[p] \in Nat
  BY <1>2, SeatedFacts DEF GameOK
<1>q. QED BY <1>2, <1>3, SeatedFacts DEF CanAct, Chips

\* What a move changes of the books.
Booked(g, h) ==
    /\ DOMAIN h = DOMAIN g /\ h.setup = g.setup /\ h.won = g.won /\ h.over = g.over

Paying(g, h, p, to) ==
    /\ Booked(g, h)
    /\ h.bet = [g.bet EXCEPT ![p] = to] /\ h.paid = [g.paid EXCEPT ![p] = g.paid[p] + to - g.bet[p]]
    /\ h.street = g.street

LEMMA PutsFields ==
  ASSUME NEW g, GameOK(g), NEW p \in Seated(g), NEW to \in Int, NEW line, NEW h, h = Puts(g, p, to, line)
  PROVE  /\ Paying(g, h, p, to)
         /\ h.folded = g.folded /\ h.lines = <<line>>
         /\ h.turn \in 2 .. 4
<1>1. DOMAIN g = GameFields /\ g.setup \in Setups
  BY DEF GameOK
<1>2. DOMAIN h = DOMAIN g /\ h.setup = g.setup /\ h.won = g.won /\ h.over = g.over /\ h.street = g.street
  BY <1>1 DEF Puts, GameFields
<1>3. h.bet = [g.bet EXCEPT ![p] = to]
  BY <1>1 DEF Puts, GameFields
<1>4. h.paid = [g.paid EXCEPT ![p] = g.paid[p] + to - g.bet[p]]
  BY <1>1 DEF Puts, GameFields
<1>5. h.folded = g.folded /\ h.lines = <<line>>
  BY <1>1 DEF Puts, GameFields
<1>6. h.turn = (CHOOSE i \in DOMAIN g.setup.seats : g.setup.seats[i] = p) + 1
  BY <1>1 DEF Puts, GameFields
<1>7. PICK n, seats : n = Len(seats) /\ seats = g.setup.seats
  OBVIOUS
<1>8. n \in {2, 3} /\ DOMAIN seats = 1 .. n /\ \E i \in DOMAIN seats : seats[i] = p
  <2>1. Seated(g) = ToSet(seats)
    BY <1>7 DEF Seated
  <2>2. n \in {2, 3} /\ seats \in Seq(ToSet(seats)) /\ \E i \in 1 .. n : seats[i] = p
    BY <1>1, <1>7, <2>1, SetupFacts
  <2>3. DOMAIN seats = 1 .. n
    BY <1>7, <2>2
  <2>q. QED BY <2>2, <2>3
<1>9. PICK c : c = CHOOSE i \in DOMAIN seats : seats[i] = p
  OBVIOUS
<1>10. c \in 1 .. n
  BY <1>8, <1>9
<1>11. h.turn \in 2 .. 4
  BY <1>6, <1>7, <1>8, <1>9, <1>10
<1>q. QED BY <1>2, <1>3, <1>4, <1>5, <1>11 DEF Paying, Booked

\* A player who may still bet puts in what he likes of his chips.
LEMMA PayingKeepsBooks ==
  ASSUME NEW g, GameOK(g), ~g.over, Betting(g),
         NEW p \in CanAct(g), NEW to \in Nat, g.bet[p] =< to, to =< g.bet[p] + Chips(g, p),
         NEW h, Paying(g, h, p, to), h.turn \in 1 .. 4,
         \/ h.folded = g.folded
         \/ h.folded = g.folded \cup {p} /\ to = g.bet[p] /\ ToCall(g, p) > 0
  PROVE  GameOK(h) /\ Betting(h) /\ ~h.over /\ Seated(h) = Seated(g)
<1> DEFINE N == Seated(g)
<1>1. Seated(h) = N
  BY DEF Seated, Paying, Booked
<1>2. /\ p \in N /\ g.bet \in [N -> Nat] /\ g.paid \in [N -> Nat] /\ g.setup.stack \in [N -> Nat]
      /\ \A q \in N : g.bet[q] =< g.paid[q] /\ g.paid[q] =< g.setup.stack[q]
      /\ Chips(g, p) = g.setup.stack[p] - g.paid[p]
  BY SeatedFacts DEF GameOK, Betting, Chips
<1> HIDE DEF N
<1>3. /\ h.bet \in [N -> Nat] /\ h.bet[p] = to /\ \A q \in N \ {p} : h.bet[q] = g.bet[q]
  BY <1>2 DEF Paying
<1>4. /\ h.paid[p] = g.paid[p] + to - g.bet[p] /\ \A q \in N \ {p} : h.paid[q] = g.paid[q]
  BY <1>2 DEF Paying
<1>5. h.paid[p] \in Nat /\ h.bet[p] =< h.paid[p] /\ h.paid[p] =< h.setup.stack[p]
  BY <1>2, <1>3, <1>4 DEF Paying, Booked
<1>6. h.paid \in [N -> Nat]
  <2>1. \A q \in N : h.paid[q] \in Nat
    BY <1>2, <1>4, <1>5
  <2>2. DOMAIN h.paid = N /\ h.paid = [q \in N |-> h.paid[q]]
    BY <1>2 DEF Paying
  <2>q. QED BY <2>1, <2>2
<1>7. GameOK(h)
  <2>1. DOMAIN h = GameFields /\ h.setup \in Setups /\ h.won \in [N -> Int] /\ h.street \in ToSet(Streets) /\ h.over \in BOOLEAN
    BY DEF GameOK, Paying, Booked, N
  <2>2. h.folded \in SUBSET N
    BY <1>2 DEF GameOK, N
  <2>q. QED BY <1>1, <1>3, <1>6, <2>1, <2>2 DEF GameOK
<1>8. \A q \in N : h.bet[q] =< h.paid[q] /\ h.paid[q] =< h.setup.stack[q]
  BY <1>2, <1>3, <1>4, <1>5 DEF Paying, Booked
<1>9. \A q \in N : h.paid[q] - h.bet[q] = g.paid[q] - g.bet[q]
  BY <1>2, <1>3, <1>4
<1>10. CanAct(h) \in SUBSET CanAct(g)
  <2>1. ASSUME NEW q \in CanAct(h) PROVE q \in CanAct(g)
    <3>1. q \in N /\ q \notin h.folded /\ h.setup.stack[q] - h.paid[q] > 0
      BY <1>1, <2>1 DEF CanAct, Live, Chips
    <3>2. CASE q = p
      BY <3>2
    <3>3. CASE q # p
      <4>1. q \notin g.folded /\ g.setup.stack[q] - g.paid[q] > 0
        BY <1>4, <3>1, <3>3 DEF Paying, Booked
      <4>q. QED BY <3>1, <4>1 DEF CanAct, Live, Chips, N
    <3>q. QED BY <3>2, <3>3
  <2>q. QED BY <2>1
<1>11. Abreast(h)
  <2>1. ASSUME NEW q \in N, q \in CanAct(h) \/ h.bet[q] > 0, NEW r \in N
        PROVE  h.paid[r] - h.bet[r] =< h.paid[q] - h.bet[q]
    <3>1. q \in CanAct(g) \/ g.bet[q] > 0
      BY <1>3, <1>10, <2>1
    <3>2. g.paid[r] - g.bet[r] =< g.paid[q] - g.bet[q]
      BY <2>1, <3>1 DEF Betting, Abreast, N
    <3>q. QED BY <1>9, <2>1, <3>2
  <2>q. QED BY <1>1, <2>1 DEF Abreast
<1>12. \E q \in Live(h) : Leads(h, q)
  <2>1. PICK l \in Live(g) : Leads(g, l)
    BY DEF Betting
  <2>2. l \in N /\ l \notin g.folded /\ \A q \in N : g.bet[q] =< g.bet[l] /\ g.paid[q] =< g.paid[l]
    BY <2>1 DEF Live, Leads, N
  <2>3. \A q \in N : g.paid[q] - g.bet[q] =< g.paid[p] - g.bet[p]
    BY <1>2 DEF Betting, Abreast, N
  <2>4. CASE to > g.bet[l]
    <3>1. \A q \in N : h.bet[q] =< h.bet[p] /\ h.paid[q] =< h.paid[p]
      <4>1. ASSUME NEW q \in N PROVE h.bet[q] =< h.bet[p] /\ h.paid[q] =< h.paid[p]
        <5>1. h.bet[q] =< h.bet[p]
          BY <1>2, <1>3, <2>2, <2>4
        <5>2. h.paid[q] - h.bet[q] =< h.paid[p] - h.bet[p]
          BY <1>9, <1>2, <2>3
        <5>3. h.paid[q] \in Nat /\ h.bet[q] \in Nat /\ h.paid[p] \in Nat /\ h.bet[p] \in Nat
          BY <1>2, <1>3, <1>6
        <5>q. QED BY <5>1, <5>2, <5>3
      <4>q. QED BY <4>1
    <3>2. p \in Live(h)
      <4>1. to # g.bet[p]
        BY <1>2, <2>2, <2>4
      <4>2. h.folded = g.folded
        BY <4>1
      <4>3. p \notin g.folded
        BY DEF CanAct, Live
      <4>q. QED BY <1>1, <1>2, <4>2, <4>3 DEF Live
    <3>q. QED BY <1>1, <3>1, <3>2 DEF Leads
  <2>5. CASE to =< g.bet[l]
    <3>1. g.bet[l] > 0 => g.paid[p] - g.bet[p] =< g.paid[l] - g.bet[l]
      BY <1>2, <2>2 DEF Betting, Abreast, N
    <3>2. CASE l = p
      <4>1. to = g.bet[p]
        BY <1>2, <2>5, <3>2
      <4>2. h.bet[p] = g.bet[p] /\ h.paid[p] = g.paid[p]
        BY <1>2, <1>3, <1>4, <4>1
      <4>3. ~(ToCall(g, p) > 0)
        <5>1. PICK z \in Seated(g) : g.bet[z] = Price(g)
          BY PriceIs
        <5>2. g.bet[z] =< g.bet[p] /\ g.bet[z] \in Nat /\ g.bet[p] \in Nat
          BY <1>2, <2>2, <3>2, <5>1 DEF N
        <5>q. QED BY <5>1, <5>2 DEF ToCall
      <4>4. p \in Live(h)
        BY <1>1, <1>2, <2>2, <3>2, <4>3 DEF Live
      <4>5. \A q \in N : h.bet[q] = g.bet[q] /\ h.paid[q] = g.paid[q]
        BY <1>3, <1>4, <4>2
      <4>6. Leads(h, p)
        BY <1>1, <1>2, <2>2, <3>2, <4>5 DEF Leads
      <4>q. QED BY <4>4, <4>6
    <3>3. CASE l # p
      <4>1. l \in Live(h) /\ h.bet[l] = g.bet[l] /\ h.paid[l] = g.paid[l]
        BY <1>1, <1>3, <1>4, <2>2, <3>3 DEF Live
      <4>2. h.paid[p] =< g.paid[l]
        <5>1. g.bet[p] \in Nat /\ g.bet[l] \in Nat /\ g.paid[p] \in Nat /\ g.paid[l] \in Nat /\ g.paid[p] =< g.paid[l]
          BY <1>2, <2>2
        <5>2. CASE g.bet[l] > 0
          BY <1>4, <2>5, <3>1, <5>1, <5>2
        <5>3. CASE g.bet[l] = 0
          BY <1>4, <2>5, <5>1, <5>3
        <5>q. QED BY <5>1, <5>2, <5>3
      <4>3. \A q \in N : h.bet[q] =< h.bet[l] /\ h.paid[q] =< h.paid[l]
        BY <1>3, <1>4, <2>2, <2>5, <4>1, <4>2
      <4>q. QED BY <1>1, <4>1, <4>3 DEF Leads
    <3>q. QED BY <3>2, <3>3
  <2>q. QED BY <1>2, <2>2, <2>4, <2>5
<1>13. ~h.over
  BY DEF Paying, Booked
<1>q. QED BY <1>1, <1>7, <1>8, <1>11, <1>12, <1>13 DEF Betting, N

LEMMA NextStreetKeepsBooks ==
  ASSUME NEW g, GameOK(g), ~g.over, Betting(g), Awaited(g) = {}, Cardinality(Live(g)) # 1,
         g.street # "river", Cardinality(CanAct(g)) > 1, NEW h, h = NextStreet(g)
  PROVE  /\ GameOK(h) /\ Betting(h) /\ ~h.over /\ Seated(h) = Seated(g)
         /\ h.setup = g.setup /\ h.paid = g.paid /\ h.won = g.won /\ h.bet = Nothing(Seated(g))
         /\ h.street \in BoardStreets /\ h.street # g.street /\ h.lines = <<Section(h.street)>>
         /\ h.street \in Later(g.street) /\ Later(h.street) \subseteq Later(g.street)
<1> DEFINE N == Seated(g)
<1>1. DOMAIN g = GameFields /\ g.setup \in Setups /\ g.street \in ToSet(Streets)
  BY DEF GameOK
<1>2. PICK s : s = StreetAfter(g.street)
  OBVIOUS
<1>3. /\ s \in BoardStreets /\ s # g.street /\ s \in ToSet(Streets)
      /\ s \in Later(g.street) /\ Later(s) \subseteq Later(g.street)
  <2>1. ToSet(Streets) = {"preflop", "flop", "turn", "river"}
    BY DEF ToSet, Streets
  <2>2. g.street \in {"preflop", "flop", "turn"}
    BY <1>1, <2>1
  <2>3. \E i \in 1 .. 3 : Streets[i] = g.street
    BY <2>2 DEF Streets
  <2>4. PICK c : c = CHOOSE i \in 1 .. 3 : Streets[i] = g.street
    OBVIOUS
  <2>5. c \in 1 .. 3 /\ Streets[c] = g.street
    BY <2>3, <2>4
  <2>6. s = Streets[1 + c]
    BY <1>2, <2>4 DEF StreetAfter
  <2>7. s \in {"flop", "turn", "river"} /\ s # Streets[c]
    BY <2>5, <2>6 DEF Streets
  <2>8. \/ Streets[c] = "preflop" /\ s = "flop"
        \/ Streets[c] = "flop" /\ s = "turn"
        \/ Streets[c] = "turn" /\ s = "river"
    BY <2>5, <2>6 DEF Streets
  <2>9. s \in Later(Streets[c]) /\ Later(s) \subseteq Later(Streets[c])
    BY <2>8 DEF Later
  <2>q. QED BY <2>1, <2>5, <2>7, <2>9 DEF BoardStreets
<1>4. /\ DOMAIN h = DOMAIN g /\ h.setup = g.setup /\ h.paid = g.paid /\ h.won = g.won /\ h.over = g.over
      /\ h.folded = g.folded /\ h.street = s /\ h.lines = <<Section(s)>>
  BY <1>1, <1>2 DEF NextStreet, GameFields
<1>5. h.bet = [p \in N |-> 0]
  BY <1>1 DEF NextStreet, GameFields
<1>6. h.turn \in 1 .. 4
  BY <1>1 DEF NextStreet, GameFields
<1>7. Seated(h) = N /\ Live(h) = Live(g) /\ CanAct(h) = CanAct(g)
  BY <1>4 DEF Seated, Live, CanAct, Chips
<1>8. /\ g.bet \in [N -> Nat] /\ g.paid \in [N -> Nat] /\ g.setup.stack \in [N -> Nat] /\ CanAct(g) \in SUBSET N
      /\ \A q \in N : g.bet[q] =< g.paid[q] /\ g.paid[q] =< g.setup.stack[q]
  BY SeatedFacts DEF GameOK, Betting
<1>9. GameOK(h)
  BY <1>3, <1>4, <1>5, <1>6, <1>7 DEF GameOK, N
<1> HIDE DEF N
<1>10. \A q \in N : h.bet[q] =< h.paid[q] /\ h.paid[q] =< h.setup.stack[q]
  BY <1>4, <1>5, <1>8
<1>11. PICK l \in Live(g) : Leads(g, l)
  BY DEF Betting
<1>12. l \in N /\ \A q \in N : g.bet[q] =< g.bet[l] /\ g.paid[q] =< g.paid[l]
  BY <1>11 DEF Live, Leads, N
<1>13. Leads(h, l)
  BY <1>4, <1>5, <1>7, <1>12 DEF Leads
<1>14. Cardinality(Live(g)) > 1
  <2>1. IsFiniteSet(Live(g)) /\ Live(g) # {}
    BY <1>11, SeatedFacts, FS_Subset
  <2>2. Cardinality(Live(g)) \in Nat /\ Cardinality(Live(g)) # 0
    BY <2>1, FS_CardinalityType, FS_EmptySet
  <2>q. QED BY <2>2
<1>15. ASSUME NEW p \in CanAct(g), NEW q \in N PROVE g.bet[q] =< g.bet[p]
  <2>1. p \in N /\ p \notin Awaited(g)
    BY <1>8
  <2>2. ~(ToCall(g, p) > 0)
    BY <1>14, <2>1 DEF Awaited, MustAct, N
  <2>3. Price(g) \in Nat /\ g.bet[q] =< Price(g) /\ g.bet[p] \in Nat /\ g.bet[q] \in Nat
    BY <1>8, <2>1, PriceIs DEF N
  <2>q. QED BY <2>2, <2>3 DEF ToCall
<1>16. Abreast(h)
  <2>1. ASSUME NEW p \in N, p \in CanAct(g), NEW q \in N PROVE g.paid[q] =< g.paid[p]
    <3>1. g.paid[q] - g.bet[q] =< g.paid[p] - g.bet[p]
      BY <2>1 DEF Betting, Abreast, N
    <3>2. g.bet[q] =< g.bet[p]
      BY <1>15, <2>1
    <3>3. g.paid[q] \in Nat /\ g.paid[p] \in Nat /\ g.bet[q] \in Nat /\ g.bet[p] \in Nat
      BY <1>8, <2>1
    <3>q. QED BY <3>1, <3>2, <3>3
  <2>2. ASSUME NEW p \in N, p \in CanAct(h) \/ h.bet[p] > 0, NEW q \in N
        PROVE  h.paid[q] - h.bet[q] =< h.paid[p] - h.bet[p]
    <3>1. h.bet[q] = 0 /\ h.bet[p] = 0 /\ p \in CanAct(g)
      BY <1>5, <1>7, <2>2
    <3>2. g.paid[q] =< g.paid[p] /\ g.paid[q] \in Nat /\ g.paid[p] \in Nat
      BY <1>8, <2>1, <2>2, <3>1
    <3>q. QED BY <1>4, <3>1, <3>2
  <2>q. QED BY <1>7, <2>2 DEF Abreast
<1>17. Betting(h)
  BY <1>7, <1>10, <1>11, <1>13, <1>16 DEF Betting
<1>q. QED BY <1>3, <1>4, <1>5, <1>7, <1>9, <1>17 DEF Nothing, N

ActLines(names) ==
    [t : {"act"}, who : names, kind : Kinds, amount : Int, to : Int, allIn : BOOLEAN]

\* What the line of a move says of it.
Says(line, p, bet, to) ==
    /\ line.who = p
    /\ \/ line.kind \in {"bet", "call"} /\ line.amount = to - bet
       \/ line.kind = "raise" /\ line.to = to
       \/ line.kind \in {"check", "fold"} /\ to = bet

LEMMA ActIs ==
  ASSUME NEW names, NEW p \in names, NEW kind \in Kinds, NEW amount \in Int, NEW level \in Int,
         NEW allIn \in BOOLEAN, NEW line, line = Act(p, kind, amount, level, allIn)
  PROVE  /\ line \in ActLines(names)
         /\ line.t = "act" /\ line.who = p /\ line.kind = kind /\ line.amount = amount /\ line.to = level
BY DEF Act, ActLines

MovedBy(g, h, p, to) ==
    /\ Paying(g, h, p, to) /\ g.bet[p] =< to
    /\ \E line \in ActLines(Seated(g)) : h.lines = <<line>> /\ Says(line, p, g.bet[p], to)

LEMMA BetMoves ==
  ASSUME NEW g, GameOK(g), ~g.over, Betting(g), Awaited(g) # {}, NEW p, p = ToAct(g),
         NEW to \in Nat, g.bet[p] =< to, to =< g.bet[p] + Chips(g, p),
         NEW line \in ActLines(Seated(g)), Says(line, p, g.bet[p], to), NEW h, h = Puts(g, p, to, line)
  PROVE  GameOK(h) /\ Betting(h) /\ ~h.over /\ MovedBy(g, h, p, to)
<1>1. p \in Seated(g) /\ p \in CanAct(g)
  BY ToActFacts
<1>2. Paying(g, h, p, to) /\ h.folded = g.folded /\ h.lines = <<line>> /\ h.turn \in 1 .. 4
  BY <1>1, PutsFields
<1>3. GameOK(h) /\ Betting(h) /\ ~h.over
  BY <1>1, <1>2, PayingKeepsBooks
<1>q. QED BY <1>2, <1>3 DEF MovedBy

Folding(g, h, p, line) == h = [Puts(g, p, g.bet[p], line) EXCEPT !.folded = @ \cup {p}]

LEMMA FoldMoves ==
  ASSUME NEW g, GameOK(g), ~g.over, Betting(g), Awaited(g) # {}, NEW p, p = ToAct(g), ToCall(g, p) > 0,
         NEW line \in ActLines(Seated(g)), Says(line, p, g.bet[p], g.bet[p]),
         NEW h, Folding(g, h, p, line)
  PROVE  GameOK(h) /\ Betting(h) /\ ~h.over /\ MovedBy(g, h, p, g.bet[p])
<1>1. p \in Seated(g) /\ p \in CanAct(g) /\ g.bet[p] \in Nat /\ Chips(g, p) \in Nat
  BY ToActFacts
<1>0. PICK f : f = Puts(g, p, g.bet[p], line)
  OBVIOUS
<1>7. h = [f EXCEPT !.folded = @ \cup {p}]
  BY <1>0 DEF Folding
<1>2. Paying(g, f, p, g.bet[p]) /\ f.folded = g.folded /\ f.lines = <<line>> /\ f.turn \in 1 .. 4
  BY <1>0, <1>1, PutsFields
<1>3. DOMAIN f = GameFields
  BY <1>2 DEF Paying, Booked, GameOK
<1>4. Paying(g, h, p, g.bet[p]) /\ h.folded = g.folded \cup {p} /\ h.lines = <<line>> /\ h.turn \in 1 .. 4
  BY <1>2, <1>3, <1>7 DEF Paying, Booked, GameFields
<1>5. g.bet[p] =< g.bet[p] /\ g.bet[p] =< g.bet[p] + Chips(g, p)
  BY <1>1
<1>6. GameOK(h) /\ Betting(h) /\ ~h.over
  BY <1>1, <1>4, <1>5, PayingKeepsBooks
<1>q. QED BY <1>4, <1>5, <1>6 DEF MovedBy

LEMMA MovesKeepBooks ==
  ASSUME NEW g, GameOK(g), ~g.over, Betting(g), Awaited(g) # {}, NEW h \in Moves(g)
  PROVE  GameOK(h) /\ Betting(h) /\ ~h.over /\ \E p \in Seated(g), to \in Nat : MovedBy(g, h, p, to)
<1>1. PICK p : p = ToAct(g)
  OBVIOUS
<1>2. /\ p \in Seated(g) /\ g.bet[p] \in Nat /\ Chips(g, p) \in Nat
  BY <1>1, ToActFacts
<1>3. PICK price, chips, bet, size : /\ price = Price(g) /\ chips = Chips(g, p) /\ bet = g.bet[p]
                                     /\ size = g.setup.size
  OBVIOUS
<1>4. price \in Nat /\ bet =< price /\ chips \in Nat /\ bet \in Nat /\ size \in Nat
  <2>1. size \in Nat
    BY <1>3, SetupsAssumption DEF GameOK
  <2>q. QED BY <1>2, <1>3, <2>1, PriceIs
<1>5. PICK level : level = Min({price, bet + chips})
  OBVIOUS
<1>6. level \in Nat /\ bet =< level /\ level =< bet + chips
  <2>1. level \in {price, bet + chips}
    <3>1. CASE price =< bet + chips
      <4>1. {price, bet + chips} \in SUBSET Int /\ \A y \in {price, bet + chips} : price =< y
        BY <1>4, <3>1
      <4>2. Min({price, bet + chips}) = price
        BY <4>1, LeastIs
      <4>q. QED BY <1>5, <4>2
    <3>2. CASE bet + chips =< price
      <4>1. {price, bet + chips} \in SUBSET Int /\ \A y \in {price, bet + chips} : bet + chips =< y
        BY <1>4, <3>2
      <4>2. Min({price, bet + chips}) = bet + chips
        BY <4>1, LeastIs
      <4>q. QED BY <1>5, <4>2
    <3>q. QED BY <1>4, <3>1, <3>2
  <2>2. level =< bet + chips
    <3>1. CASE price =< bet + chips
      BY <1>4, <2>1, <3>1
    <3>2. CASE ~(price =< bet + chips)
      <4>1. {price, bet + chips} \in SUBSET Int /\ \A y \in {price, bet + chips} : bet + chips =< y
        BY <1>4, <3>2
      <4>2. Min({price, bet + chips}) = bet + chips
        BY <4>1, LeastIs
      <4>q. QED BY <1>4, <1>5, <4>2
    <3>q. QED BY <3>1, <3>2
  <2>q. QED BY <1>4, <2>1, <2>2
<1>7. CASE \E to \in Aims(g, p) : h = Puts(g, p, to, IF price = 0 THEN Act(p, "bet", to, 0, to - bet = chips)
                                                               ELSE Act(p, "raise", to - price, to, to - bet = chips))
  <2>1. PICK to \in Aims(g, p) : h = Puts(g, p, to, IF price = 0 THEN Act(p, "bet", to, 0, to - bet = chips)
                                                               ELSE Act(p, "raise", to - price, to, to - bet = chips))
    BY <1>7
  <2>2. to \in {price + size, bet + chips} /\ to > price /\ to =< bet + chips
    BY <1>3, <2>1 DEF Aims
  <2>3. to \in Nat /\ bet =< to
    BY <1>4, <2>2
  <2>4. PICK line : line = IF price = 0 THEN Act(p, "bet", to, 0, to - bet = chips)
                                        ELSE Act(p, "raise", to - price, to, to - bet = chips)
    OBVIOUS
  <2>5. line \in ActLines(Seated(g)) /\ Says(line, p, bet, to)
    <3>1. PICK allIn : allIn = (to - bet = chips)
      OBVIOUS
    <3>2. allIn \in BOOLEAN
      BY Zenon, <3>1
    <3>3. CASE price = 0
      <4>1. line = Act(p, "bet", to, 0, allIn)
        BY <2>4, <3>1, <3>3
      <4>2. to = to - bet /\ to \in Int /\ 0 \in Int /\ "bet" \in Kinds
        BY <1>4, <2>3, <3>3 DEF Kinds
      <4>3. line \in ActLines(Seated(g)) /\ line.who = p /\ line.kind = "bet" /\ line.amount = to
        BY <1>2, <3>2, <4>1, <4>2, ActIs
      <4>q. QED BY <4>2, <4>3 DEF Says
    <3>4. CASE price # 0
      <4>1. line = Act(p, "raise", to - price, to, allIn)
        BY <2>4, <3>1, <3>4
      <4>2. to - price \in Int /\ to \in Int /\ "raise" \in Kinds
        BY <1>4, <2>3 DEF Kinds
      <4>3. line \in ActLines(Seated(g)) /\ line.who = p /\ line.kind = "raise" /\ line.to = to
        BY <1>2, <3>2, <4>1, <4>2, ActIs
      <4>q. QED BY <4>3 DEF Says
    <3>q. QED BY <3>3, <3>4
  <2>6. h = Puts(g, p, to, line)
    BY <2>1, <2>4
  <2>q. QED BY <1>1, <1>2, <1>3, <2>2, <2>3, <2>5, <2>6, BetMoves
<1>8. CASE h = Puts(g, p, bet, Act(p, "check", 0, 0, FALSE))
  <2>1. PICK line : line = Act(p, "check", 0, 0, FALSE)
    OBVIOUS
  <2>2. line \in ActLines(Seated(g)) /\ Says(line, p, bet, bet)
    <3>1. PICK kind, zero : kind = "check" /\ zero = 0
      OBVIOUS
    <3>2. PICK allIn \in BOOLEAN : allIn = FALSE
      OBVIOUS
    <3>3. kind \in Kinds /\ zero \in Int /\ p \in Seated(g)
      BY <1>2, <3>1 DEF Kinds
    <3>4. line = Act(p, kind, zero, zero, allIn)
      BY Zenon, <2>1, <3>1, <3>2
    <3>5. line \in ActLines(Seated(g)) /\ line.who = p /\ line.kind = kind
      BY <3>3, <3>4, ActIs
    <3>q. QED BY <3>1, <3>5 DEF Says
  <2>3. bet \in Nat /\ bet =< bet /\ bet =< bet + chips
    BY <1>4
  <2>q. QED BY <1>1, <1>2, <1>3, <1>8, <2>1, <2>2, <2>3, BetMoves
<1>9. CASE h = Puts(g, p, level, Act(p, "call", level - bet, 0, level - bet = chips))
  <2>1. PICK line : line = Act(p, "call", level - bet, 0, level - bet = chips)
    OBVIOUS
  <2>2. line \in ActLines(Seated(g)) /\ Says(line, p, bet, level)
    <3>1. PICK allIn : allIn = (level - bet = chips)
      OBVIOUS
    <3>2. allIn \in BOOLEAN
      BY Zenon, <3>1
    <3>3. level - bet \in Int /\ 0 \in Int /\ "call" \in Kinds
      BY <1>4, <1>6 DEF Kinds
    <3>5. line = Act(p, "call", level - bet, 0, allIn)
      BY <2>1, <3>1
    <3>4. line \in ActLines(Seated(g)) /\ line.who = p /\ line.kind = "call" /\ line.amount = level - bet
      BY <1>2, <3>2, <3>3, <3>5, ActIs
    <3>q. QED BY <3>4 DEF Says
  <2>q. QED BY <1>1, <1>2, <1>3, <1>6, <1>9, <2>1, <2>2, BetMoves
<1>10. CASE /\ ToCall(g, p) > 0
            /\ h = [Puts(g, p, bet, Act(p, "fold", 0, 0, FALSE)) EXCEPT !.folded = @ \cup {p}]
  <2>1. PICK line : line = Act(p, "fold", 0, 0, FALSE)
    OBVIOUS
  <2>2. line \in ActLines(Seated(g)) /\ Says(line, p, bet, bet)
    <3>1. PICK kind, zero : kind = "fold" /\ zero = 0
      OBVIOUS
    <3>2. PICK allIn \in BOOLEAN : allIn = FALSE
      OBVIOUS
    <3>3. kind \in Kinds /\ zero \in Int /\ p \in Seated(g)
      BY <1>2, <3>1 DEF Kinds
    <3>4. line = Act(p, kind, zero, zero, allIn)
      BY Zenon, <2>1, <3>1, <3>2
    <3>5. line \in ActLines(Seated(g)) /\ line.who = p /\ line.kind = kind
      BY <3>3, <3>4, ActIs
    <3>q. QED BY <3>1, <3>5 DEF Says
  <2>3. Folding(g, h, p, line)
    BY <1>3, <1>10, <2>1 DEF Folding
  <2>4. Says(line, p, g.bet[p], g.bet[p])
    BY <1>3, <2>2
  <2>5. GameOK(h) /\ Betting(h) /\ ~h.over /\ MovedBy(g, h, p, bet)
    BY <1>1, <1>3, <1>10, <2>2, <2>3, <2>4, FoldMoves
  <2>q. QED BY <1>2, <1>3, <2>5
<1>11. ToCall(g, p) = price - bet
  BY <1>3 DEF ToCall
<1>q. QED
  <2>1. \/ \E to \in Aims(g, p) : h = Puts(g, p, to, IF price = 0 THEN Act(p, "bet", to, 0, to - bet = chips)
                                                               ELSE Act(p, "raise", to - price, to, to - bet = chips))
        \/ ToCall(g, p) = 0 /\ h = Puts(g, p, bet, Act(p, "check", 0, 0, FALSE))
        \/ ToCall(g, p) # 0 /\ h = Puts(g, p, level, Act(p, "call", level - bet, 0, level - bet = chips))
        \/ ToCall(g, p) # 0 /\ h = [Puts(g, p, bet, Act(p, "fold", 0, 0, FALSE)) EXCEPT !.folded = @ \cup {p}]
    BY <1>1, <1>3, <1>5 DEF Moves
  <2>2. ToCall(g, p) # 0 => ToCall(g, p) > 0
    BY <1>4, <1>11
  <2>q. QED BY <1>7, <1>8, <1>9, <1>10, <2>1, <2>2

LEMMA MinOfTwo ==
  ASSUME NEW a \in Nat, NEW b \in Nat
  PROVE  Min({a, b}) \in Nat /\ Min({a, b}) =< a /\ Min({a, b}) =< b /\ Min({a, b}) \in {a, b}
<1>1. {a, b} \in SUBSET Int
  OBVIOUS
<1>2. CASE a =< b
  <2>1. a \in {a, b} /\ \A y \in {a, b} : a =< y
    BY <1>2
  <2>2. Min({a, b}) = a
    BY <1>1, <2>1, LeastIs
  <2>q. QED BY <1>2, <2>2
<1>3. CASE b =< a
  <2>1. b \in {a, b} /\ \A y \in {a, b} : b =< y
    BY <1>3
  <2>2. Min({a, b}) = b
    BY <1>1, <2>1, LeastIs
  <2>q. QED BY <1>3, <2>2
<1>q. QED BY <1>2, <1>3

PostedBy(line, g, p, kind) ==
    line \in ActLines(Seated(g)) /\ line.who = p /\ line.kind = kind /\ line.amount = g.bet[p]

\* The blinds are on the table and in the lines.
BlindsPosted(g, sb, bb) ==
    /\ g.paid = g.bet /\ g.street = "preflop"
    /\ sb \in Seated(g) /\ bb \in Seated(g) /\ sb # bb
    /\ \A p \in Seated(g) \ {sb, bb} : g.bet[p] = 0
    /\ \E l, m : /\ g.lines = <<l, m, [t |-> "dealt", who |-> Hero], Section("preflop")>>
                 /\ PostedBy(l, g, sb, "post_small_blind") /\ PostedBy(m, g, bb, "post_big_blind")

\* What is posted.
Blinds(names, stack, sb, bb) ==
    [p \in names |-> CASE p = sb -> Min({SmallBlind, stack[sb]})
                       [] p = bb -> Min({BigBlind, stack[bb]})
                       [] OTHER -> 0]

LEMMA DealtIs ==
  ASSUME NEW s \in Setups, NEW g, g = Dealt(s)
  PROVE  /\ GameOK(g) /\ Betting(g) /\ ~g.over /\ g.setup = s
         /\ \E sb, bb : BlindsPosted(g, sb, bb)
<1>1. PICK N, stack, sb, bb : N = ToSet(s.seats) /\ stack = s.stack /\ sb = s.seats[1] /\ bb = s.seats[2]
  OBVIOUS
<1>2. /\ sb \in N /\ bb \in N /\ sb # bb /\ stack \in [N -> Nat] /\ SmallBlind \in Nat /\ BigBlind \in Nat
      /\ IsFiniteSet(N) /\ N # {}
  <2>1. 1 \in 1 .. Len(s.seats) /\ 2 \in 1 .. Len(s.seats)
    BY SetupFacts
  <2>q. QED BY <1>1, <2>1, SetupFacts, SetupsAssumption
<1>3. PICK b : b = Blinds(N, stack, sb, bb)
  OBVIOUS
<1>4. b \in [N -> Nat] /\ (\A p \in N : b[p] =< stack[p]) /\ \A p \in N \ {sb, bb} : b[p] = 0
  <2>1. stack[sb] \in Nat /\ stack[bb] \in Nat
    BY <1>2
  <2>2. b[sb] = Min({SmallBlind, stack[sb]}) /\ b[sb] \in Nat /\ b[sb] =< stack[sb]
    BY <1>2, <1>3, <2>1, MinOfTwo DEF Blinds
  <2>3. b[bb] = Min({BigBlind, stack[bb]}) /\ b[bb] \in Nat /\ b[bb] =< stack[bb]
    BY <1>2, <1>3, <2>1, MinOfTwo DEF Blinds
  <2>4. \A p \in N \ {sb, bb} : b[p] = 0
    BY <1>3 DEF Blinds
  <2>5. \A p \in N : b[p] \in Nat /\ b[p] =< stack[p]
    BY <1>2, <2>2, <2>3, <2>4
  <2>6. b = [p \in N |-> b[p]]
    BY <1>3 DEF Blinds
  <2>q. QED BY <2>4, <2>5, <2>6
<1>5. PICK x, y : x = (b[sb] = stack[sb]) /\ y = (b[bb] = stack[bb])
  OBVIOUS
<1>6. x \in BOOLEAN /\ y \in BOOLEAN
  BY Zenon, <1>5
<1>7. PICK l, m : /\ l = Act(sb, "post_small_blind", b[sb], 0, x)
                  /\ m = Act(bb, "post_big_blind", b[bb], 0, y)
  OBVIOUS
<1>8. /\ l \in ActLines(N) /\ l.who = sb /\ l.kind = "post_small_blind" /\ l.amount = b[sb]
      /\ m \in ActLines(N) /\ m.who = bb /\ m.kind = "post_big_blind" /\ m.amount = b[bb]
  <2>1. b[sb] \in Int /\ b[bb] \in Int /\ 0 \in Int /\ "post_small_blind" \in Kinds /\ "post_big_blind" \in Kinds
    BY <1>2, <1>4 DEF Kinds
  <2>2. l \in ActLines(N) /\ l.who = sb /\ l.kind = "post_small_blind" /\ l.amount = b[sb]
    BY <1>2, <1>6, <1>7, <2>1, ActIs
  <2>3. m \in ActLines(N) /\ m.who = bb /\ m.kind = "post_big_blind" /\ m.amount = b[bb]
    BY <1>2, <1>6, <1>7, <2>1, ActIs
  <2>q. QED BY <2>2, <2>3
<1>9. g.bet = Blinds(ToSet(s.seats), s.stack, s.seats[1], s.seats[2])
  BY DEF Dealt, Blinds
<1>10. /\ DOMAIN g = GameFields /\ g.setup = s /\ g.folded = {} /\ g.turn = 3
       /\ g.street = "preflop" /\ g.over = FALSE
  BY DEF Dealt, GameFields
<1>11. g.bet = b /\ g.paid = b /\ g.won = [p \in N |-> 0]
  <2>1. g.bet = b
    BY Zenon, <1>1, <1>3, <1>9
  <2>2. g.paid = g.bet /\ g.won = [p \in DOMAIN g.bet |-> 0]
    BY DEF Dealt
  <2>3. DOMAIN b = N
    BY <1>4
  <2>q. QED BY <2>1, <2>2, <2>3
<1>12. g.lines = <<l, m, [t |-> "dealt", who |-> Hero], Section("preflop")>>
  <2>1. l = Act(sb, "post_small_blind", g.bet[sb], 0, g.bet[sb] = s.stack[sb])
    BY <1>1, <1>5, <1>7, <1>11
  <2>2. m = Act(bb, "post_big_blind", g.bet[bb], 0, g.bet[bb] = s.stack[bb])
    BY <1>1, <1>5, <1>7, <1>11
  <2>3. g.lines = <<Act(sb, "post_small_blind", g.bet[sb], 0, g.bet[sb] = s.stack[sb]),
                    Act(bb, "post_big_blind", g.bet[bb], 0, g.bet[bb] = s.stack[bb]),
                    [t |-> "dealt", who |-> Hero], Section("preflop")>>
    BY <1>1 DEF Dealt
  <2>q. QED BY <2>1, <2>2, <2>3
<1>13. Seated(g) = N
  BY <1>1, <1>10 DEF Seated
<1>14. GameOK(g)
  <2>1. "preflop" \in ToSet(Streets)
    <3>1. 1 \in DOMAIN Streets /\ Streets[1] = "preflop"
      BY DEF Streets
    <3>q. QED BY <3>1 DEF ToSet
  <2>2. g.won \in [N -> Int]
    BY <1>11
  <2>3. g.bet \in [N -> Nat] /\ g.paid \in [N -> Nat]
    BY <1>4, <1>11
  <2>4. g.folded \in SUBSET N /\ g.turn \in 1 .. 4
    BY <1>10
  <2>5. g.street \in ToSet(Streets)
    BY <1>10, <2>1
  <2>6. g.over \in BOOLEAN
    BY <1>10
  <2>q. QED BY <1>10, <1>13, <2>2, <2>3, <2>4, <2>5, <2>6 DEF GameOK
<1>15. Betting(g)
  <2>1. \A p \in N : g.bet[p] =< g.paid[p] /\ g.paid[p] =< g.setup.stack[p]
    BY <1>1, <1>4, <1>10, <1>11
  <2>2. \A p, q \in N : g.paid[q] - g.bet[q] =< g.paid[p] - g.bet[p]
    BY <1>4, <1>11
  <2>3. \E q \in N : \A p \in N : b[p] =< b[q]
    <3>1. b \in [N -> Int]
      BY <1>4
    <3>q. QED BY <1>2, <3>1, MaxOfFinite
  <2>4. Live(g) = N
    BY <1>10, <1>13 DEF Live
  <2>q. QED BY <1>11, <1>13, <2>1, <2>2, <2>3, <2>4 DEF Betting, Abreast, Leads
<1>16. BlindsPosted(g, sb, bb)
  <2>1. PostedBy(l, g, sb, "post_small_blind") /\ PostedBy(m, g, bb, "post_big_blind")
    BY <1>8, <1>11, <1>13 DEF PostedBy
  <2>2. /\ g.paid = g.bet /\ g.street = "preflop" /\ sb \in Seated(g) /\ bb \in Seated(g) /\ sb # bb
        /\ \A p \in Seated(g) \ {sb, bb} : g.bet[p] = 0
    BY <1>2, <1>4, <1>10, <1>11, <1>13
  <2>q. QED BY Zenon, <1>12, <2>1, <2>2 DEF BlindsPosted
<1>q. QED BY <1>10, <1>14, <1>15, <1>16

-----------------------------------------------------------------------------
(* The parser, line by line                                                *)

HandFields == {"names", "seats", "stack", "button", "bigBlind", "hero", "cards", "invested", "won",
               "showed", "allIn", "contributions", "street", "summary", "pot", "board", "actions"}

LEMMA HandIs ==
  ASSUME NEW s \in Setups, NEW h \in Hands(s)
  PROVE  /\ DOMAIN h = HandFields /\ h.names = ToSet(s.seats) /\ h.stack = s.stack
         /\ h.invested \in [ToSet(s.seats) -> Int] /\ h.won \in [ToSet(s.seats) -> Int]
         /\ h.contributions \in [ToSet(s.seats) -> Int]
         /\ h.showed \in SUBSET ToSet(s.seats) /\ h.allIn \in SUBSET ToSet(s.seats)
         /\ h.street \in Sections /\ h.summary \in BOOLEAN /\ h.pot \in Int /\ h.board \in Int
         /\ h.actions \in Seq(Acts(ToSet(s.seats)))
BY DEF Hands, HandFields

Frame(h, k) == k.street = h.street /\ k.summary = h.summary /\ k.pot = h.pot
Untouched(h, k) == k.invested = h.invested /\ k.contributions = h.contributions /\ k.won = h.won
Pays(h, k, p, x) ==
    /\ k.invested = [h.invested EXCEPT ![p] = h.invested[p] + x]
    /\ k.contributions = [h.contributions EXCEPT ![p] = h.contributions[p] + x]
    /\ k.won = h.won
Wins(h, k, p, x) ==
    /\ k.invested = h.invested /\ k.contributions = h.contributions
    /\ k.won = [h.won EXCEPT ![p] = h.won[p] + x]

\* The action is noted.
Notes(h, k, names, who, kind, amount, to) ==
    \E a \in Acts(names) :
        /\ k.actions = Append(h.actions, a)
        /\ a.street = h.street /\ a.who = who /\ a.kind = kind /\ a.amount = amount /\ a.to = to

LEMMA NotedIs ==
  ASSUME NEW s \in Setups, NEW h \in Hands(s), NEW who \in ToSet(s.seats), NEW kind \in Kinds,
         NEW amount \in Int, NEW to \in Int, NEW allIn \in BOOLEAN,
         NEW k, k = Noted(h, who, kind, amount, to, allIn)
  PROVE  /\ k \in Hands(s) /\ Frame(h, k) /\ Untouched(h, k)
         /\ Notes(h, k, ToSet(s.seats), who, kind, amount, to)
<1>1. PICK a : a = [street |-> h.street, who |-> who, kind |-> kind,
                    amount |-> amount, to |-> to, allIn |-> allIn]
  OBVIOUS
<1>2. a \in Acts(ToSet(s.seats))
  BY <1>1, HandIs DEF Acts
<1>3. PICK v : v = Append(h.actions, a)
  OBVIOUS
<1>4. v \in Seq(Acts(ToSet(s.seats)))
  BY <1>2, <1>3, HandIs
<1>5. k = [h EXCEPT !.actions = v]
  BY <1>1, <1>3 DEF Noted
<1>6. k \in Hands(s)
  BY <1>4, <1>5 DEF Hands
<1>7. Frame(h, k) /\ Untouched(h, k) /\ k.actions = v
  BY <1>5, HandIs DEF HandFields, Frame, Untouched
<1>8. Notes(h, k, ToSet(s.seats), who, kind, amount, to)
  BY <1>1, <1>2, <1>3, <1>7 DEF Notes
<1>q. QED BY <1>6, <1>7, <1>8

\* What _apply_action makes of each kind of line.
Applied(h, k, a) ==
    \/ a.kind \in PutsChips /\ Pays(h, k, a.who, a.amount)
    \/ a.kind = "raise" /\ a.to >= h.contributions[a.who] /\ Pays(h, k, a.who, a.to - h.contributions[a.who])
    \/ a.kind = "collect" /\ Wins(h, k, a.who, a.amount)
    \/ a.kind \notin PutsChips /\ (a.kind = "raise" => a.to < h.contributions[a.who]) /\ a.kind # "collect" /\ Untouched(h, k)

LEMMA ApplyIs ==
  ASSUME NEW s \in Setups, NEW h \in Hands(s), NEW a \in ActLines(ToSet(s.seats)), NEW k, k = ApplyAction(h, a)
  PROVE  k \in Hands(s) /\ Frame(h, k) /\ k.actions = h.actions /\ Applied(h, k, a)
<1>1. a.who \in ToSet(s.seats) /\ a.kind \in Kinds /\ a.amount \in Int /\ a.to \in Int
  BY DEF ActLines
<1>2. PICK b : b = [h EXCEPT !.allIn = IF a.allIn THEN @ \cup {a.who} ELSE @]
  OBVIOUS
<1>3. PICK v : v = IF a.allIn THEN h.allIn \cup {a.who} ELSE h.allIn
  OBVIOUS
<1>4. v \in SUBSET ToSet(s.seats)
  BY <1>1, <1>3, HandIs
<1>5. b = [h EXCEPT !.allIn = v]
  BY <1>2, <1>3
<1>6. /\ b \in Hands(s) /\ Frame(h, b) /\ Untouched(h, b) /\ b.actions = h.actions
  <2>1. b \in Hands(s)
    BY <1>4, <1>5 DEF Hands
  <2>q. QED BY <1>5, <2>1, HandIs DEF HandFields, Frame, Untouched
<1>7. ASSUME NEW x \in Int, NEW c, c = [b EXCEPT !.invested[a.who] = @ + x, !.contributions[a.who] = @ + x]
      PROVE  c \in Hands(s) /\ Frame(h, c) /\ c.actions = h.actions /\ Pays(h, c, a.who, x)
  <2>1. PICK i, j : /\ i = [b.invested EXCEPT ![a.who] = b.invested[a.who] + x]
                    /\ j = [b.contributions EXCEPT ![a.who] = b.contributions[a.who] + x]
    OBVIOUS
  <2>2. i \in [ToSet(s.seats) -> Int] /\ j \in [ToSet(s.seats) -> Int]
    BY <1>1, <1>6, <2>1, HandIs
  <2>3. PICK d : d = [b EXCEPT !.invested = i]
    OBVIOUS
  <2>4. d \in Hands(s)
    BY <1>6, <2>2, <2>3 DEF Hands
  <2>5. c = [d EXCEPT !.contributions = j]
    BY <1>6, <1>7, <2>1, <2>3, HandIs DEF HandFields
  <2>6. c \in Hands(s)
    BY <2>2, <2>4, <2>5 DEF Hands
  <2>7. /\ c.invested = i /\ c.contributions = j /\ c.won = b.won /\ c.street = b.street
        /\ c.summary = b.summary /\ c.pot = b.pot /\ c.actions = b.actions
    BY <1>6, <2>3, <2>4, <2>5, HandIs DEF HandFields
  <2>q. QED BY <1>6, <2>1, <2>6, <2>7 DEF Frame, Untouched, Pays
<1>8. CASE a.kind \in PutsChips
  <2>1. PICK x : x = a.amount
    OBVIOUS
  <2>0. a.kind # "raise" /\ a.kind # "show" /\ a.kind # "collect"
    BY <1>8 DEF PutsChips, Posts
  <2>2. k = [b EXCEPT !.invested[a.who] = @ + x, !.contributions[a.who] = @ + x]
    BY <1>2, <1>8, <2>0, <2>1 DEF ApplyAction
  <2>3. x \in Int
    BY <1>1, <2>1
  <2>q. QED BY <1>7, <1>8, <2>1, <2>2, <2>3 DEF Applied
<1>9. CASE a.kind = "raise" /\ a.to >= h.contributions[a.who]
  <2>1. a.kind \notin PutsChips
    BY <1>9 DEF PutsChips, Posts
  <2>2. PICK x : x = a.to - h.contributions[a.who]
    OBVIOUS
  <2>3. k = [b EXCEPT !.invested[a.who] = @ + x, !.contributions[a.who] = @ + x]
    BY <1>2, <1>9, <2>1, <2>2 DEF ApplyAction
  <2>4. x \in Int
    BY <1>1, <2>2, HandIs
  <2>q. QED BY <1>7, <1>9, <2>2, <2>3, <2>4 DEF Applied
<1>10. CASE a.kind = "collect"
  <2>1. a.kind \notin PutsChips /\ a.kind # "raise" /\ a.kind # "show"
    BY <1>10 DEF PutsChips, Posts
  <2>2. k = [b EXCEPT !.won[a.who] = @ + a.amount]
    BY <1>2, <1>10, <2>1 DEF ApplyAction
  <2>3. PICK w : w = [b.won EXCEPT ![a.who] = b.won[a.who] + a.amount]
    OBVIOUS
  <2>4. w \in [ToSet(s.seats) -> Int]
    BY <1>1, <1>6, <2>3, HandIs
  <2>5. k = [b EXCEPT !.won = w]
    BY <2>2, <2>3
  <2>6. k \in Hands(s)
    BY <1>6, <2>4, <2>5 DEF Hands
  <2>7. /\ k.invested = b.invested /\ k.contributions = b.contributions /\ k.won = w /\ k.street = b.street
        /\ k.summary = b.summary /\ k.pot = b.pot /\ k.actions = b.actions
    BY <1>6, <2>5, HandIs DEF HandFields
  <2>q. QED BY <1>6, <1>10, <2>3, <2>6, <2>7 DEF Frame, Untouched, Wins, Applied
<1>11. CASE /\ a.kind \notin PutsChips /\ ~(a.kind = "raise" /\ a.to >= h.contributions[a.who])
            /\ a.kind # "collect"
  <2>1. h.contributions[a.who] \in Int
    BY <1>1, HandIs
  <2>2. k = b \/ k = [b EXCEPT !.showed = @ \cup {a.who}]
    BY <1>2, <1>11 DEF ApplyAction
  <2>3. k \in Hands(s) /\ Frame(b, k) /\ Untouched(b, k) /\ k.actions = b.actions
    <3>1. CASE k = b
      BY <1>6, <3>1 DEF Frame, Untouched
    <3>2. CASE k = [b EXCEPT !.showed = @ \cup {a.who}]
      <4>1. PICK w : w = b.showed \cup {a.who}
        OBVIOUS
      <4>2. w \in SUBSET ToSet(s.seats)
        BY <1>1, <1>6, <4>1, HandIs
      <4>3. k = [b EXCEPT !.showed = w]
        BY <3>2, <4>1
      <4>4. k \in Hands(s)
        BY <1>6, <4>2, <4>3 DEF Hands
      <4>q. QED BY <1>6, <4>3, <4>4, HandIs DEF HandFields, Frame, Untouched
    <3>q. QED BY <2>2, <3>1, <3>2
  <2>q. QED BY <1>1, <1>6, <1>11, <2>1, <2>3 DEF Frame, Untouched, Applied
<1>q. QED BY <1>8, <1>9, <1>10, <1>11

SectionLines == [t : {"section"}, street : Sections \cup {"summary"}]
DealtLines == {[t |-> "dealt", who |-> Hero]}
TotalLines == [t : {"total"}, pot : Int]
SeatLines(names) == [t : {"seat"}, who : names, showed : BOOLEAN, won : Int]
UncalledLines(names) == [t : {"uncalled"}, who : names, amount : Int]
Lines(names) ==
    UNION {ActLines(names), SectionLines, DealtLines, TotalLines, SeatLines(names), UncalledLines(names)}

LEMMA ReadAct ==
  ASSUME NEW s \in Setups, NEW h \in Hands(s), NEW line \in ActLines(ToSet(s.seats)), NEW k, k = Read(h, line)
  PROVE  /\ k \in Hands(s) /\ Frame(h, k) /\ Applied(h, k, line)
         /\ Notes(h, k, ToSet(s.seats), line.who, line.kind, line.amount, line.to)
<1>1. /\ line.t = "act" /\ line.who \in ToSet(s.seats) /\ line.kind \in Kinds /\ line.amount \in Int
      /\ line.to \in Int /\ line.allIn \in BOOLEAN
  BY DEF ActLines
<1>7. PICK allIn \in BOOLEAN : allIn = line.allIn
  BY <1>1
<1>2. PICK n : n = Noted(h, line.who, line.kind, line.amount, line.to, allIn)
  OBVIOUS
<1>3. k = ApplyAction(n, line)
  BY <1>1, <1>2, <1>7 DEF Read, ActionRead
<1>4. /\ n \in Hands(s) /\ Frame(h, n) /\ Untouched(h, n)
      /\ Notes(h, n, ToSet(s.seats), line.who, line.kind, line.amount, line.to)
  BY <1>1, <1>2, NotedIs
<1>5. k \in Hands(s) /\ Frame(n, k) /\ k.actions = n.actions /\ Applied(n, k, line)
  BY <1>3, <1>4, ApplyIs
<1>6. Applied(h, k, line)
  BY <1>4, <1>5 DEF Applied, Pays, Wins, Untouched
<1>q. QED BY <1>4, <1>5, <1>6 DEF Frame, Notes

LEMMA ReadSection ==
  ASSUME NEW s \in Setups, NEW h \in Hands(s), NEW line \in SectionLines, NEW k, k = Read(h, line)
  PROVE  /\ k \in Hands(s) /\ k.invested = h.invested /\ k.won = h.won /\ k.pot = h.pot /\ k.actions = h.actions
         /\ k.street = IF line.street = "summary" THEN h.street ELSE line.street
         /\ k.summary = (line.street = "summary" \/ h.summary)
         /\ k.contributions = IF line.street \in BoardStreets /\ line.street # h.street
                              THEN Nothing(h.names) ELSE h.contributions
<1>1. line.t = "section" /\ line.street \in Sections \cup {"summary"}
  BY DEF SectionLines
<1>2. k = SectionRead(h, line)
  BY <1>1 DEF Read
<1>3. CASE line.street = "summary"
  <2>1. k = [h EXCEPT !.summary = TRUE] /\ line.street \notin BoardStreets
    BY <1>2, <1>3 DEF SectionRead, BoardStreets
  <2>2. k \in Hands(s)
    BY <2>1 DEF Hands
  <2>q. QED BY <1>3, <2>1, <2>2, HandIs DEF HandFields
<1>4. CASE line.street \in BoardStreets
  <2>1. line.street # "summary" /\ line.street \in Sections
    BY <1>1, <1>4 DEF BoardStreets
  <2>2. PICK c, b : /\ c = IF line.street # h.street THEN Nothing(h.names) ELSE h.contributions
                    /\ b = Max({h.board, BoardCards(line.street)})
    OBVIOUS
  <2>3. c \in [ToSet(s.seats) -> Int]
    BY <2>2, HandIs DEF Nothing
  <2>4. b \in Int
    <3>1. BoardCards(line.street) \in Int
      BY DEF BoardCards
    <3>q. QED BY <2>2, <3>1, HandIs, MaxOfTwo
  <2>5. k = [h EXCEPT !.contributions = c, !.board = b, !.street = line.street]
    BY <1>2, <1>4, <2>1, <2>2 DEF SectionRead
  <2>6. k \in Hands(s)
    BY <2>1, <2>3, <2>4, <2>5 DEF Hands
  <2>q. QED BY <1>4, <2>1, <2>2, <2>5, <2>6, HandIs DEF HandFields
<1>5. CASE line.street # "summary" /\ line.street \notin BoardStreets
  <2>1. k = [h EXCEPT !.street = line.street] /\ line.street \in Sections
    BY <1>1, <1>2, <1>5 DEF SectionRead
  <2>2. k \in Hands(s)
    BY <2>1 DEF Hands
  <2>q. QED BY <1>5, <2>1, <2>2, HandIs DEF HandFields
<1>q. QED BY <1>3, <1>4, <1>5

LEMMA ReadDealt ==
  ASSUME NEW s \in Setups, NEW h \in Hands(s), NEW line \in DealtLines, NEW k, k = Read(h, line)
  PROVE  k \in Hands(s) /\ Frame(h, k) /\ Untouched(h, k) /\ k.actions = h.actions
<1>0. line.t = "dealt" /\ line.who = Hero
  BY DEF DealtLines
<1>1. k = [h EXCEPT !.hero = Hero, !.cards = TRUE]
  BY <1>0 DEF Read
<1>2. k \in Hands(s)
  BY <1>1 DEF Hands
<1>q. QED BY <1>1, <1>2, HandIs DEF HandFields, Frame, Untouched

LEMMA ReadTotal ==
  ASSUME NEW s \in Setups, NEW h \in Hands(s), NEW line \in TotalLines, NEW k, k = Read(h, line)
  PROVE  /\ k \in Hands(s) /\ Untouched(h, k) /\ k.actions = h.actions
         /\ k.street = h.street /\ k.summary = h.summary /\ k.pot = line.pot
<1>0. line.t = "total" /\ line.pot \in Int
  BY DEF TotalLines
<1>1. k = [h EXCEPT !.pot = line.pot]
  BY <1>0 DEF Read
<1>2. k \in Hands(s)
  BY <1>0, <1>1 DEF Hands
<1>q. QED BY <1>1, <1>2, HandIs DEF HandFields, Untouched

LEMMA ReadSeat ==
  ASSUME NEW s \in Setups, NEW h \in Hands(s), NEW line \in SeatLines(ToSet(s.seats)), NEW k, k = Read(h, line)
  PROVE  /\ k \in Hands(s) /\ Frame(h, k) /\ k.invested = h.invested /\ k.contributions = h.contributions
         /\ k.actions = h.actions
         /\ \/ k.won = h.won
            \/ h.won[line.who] = 0 /\ k.won = [h.won EXCEPT ![line.who] = line.won]
<1>0. line.t = "seat" /\ line.who \in ToSet(s.seats) /\ line.showed \in BOOLEAN /\ line.won \in Int
  BY DEF SeatLines
<1>1. CASE h.summary
  <2>1. k = SummarySeatRead(h, line)
    BY <1>0, <1>1 DEF Read
  <2>2. PICK w, z : /\ w = [h.won EXCEPT ![line.who] = IF h.won[line.who] = 0 THEN line.won ELSE h.won[line.who]]
                    /\ z = IF line.showed THEN h.showed \cup {line.who} ELSE h.showed
    OBVIOUS
  <2>3. w \in [ToSet(s.seats) -> Int] /\ z \in SUBSET ToSet(s.seats)
    BY <1>0, <2>2, HandIs
  <2>4. k = [h EXCEPT !.showed = z, !.won = w]
    BY <2>1, <2>2 DEF SummarySeatRead
  <2>5. k \in Hands(s)
    BY <2>3, <2>4 DEF Hands
  <2>6. w = h.won \/ (h.won[line.who] = 0 /\ w = [h.won EXCEPT ![line.who] = line.won])
    BY <1>0, <2>2, HandIs
  <2>q. QED BY <2>4, <2>5, <2>6, HandIs DEF HandFields, Frame
<1>2. CASE ~h.summary
  BY <1>0, <1>2 DEF Read, Frame
<1>q. QED BY <1>1, <1>2

LEMMA ReadUncalled ==
  ASSUME NEW s \in Setups, NEW h \in Hands(s), NEW line \in UncalledLines(ToSet(s.seats)), NEW k, k = Read(h, line)
  PROVE  /\ k \in Hands(s) /\ Frame(h, k) /\ k.won = h.won
         /\ k.invested = [h.invested EXCEPT ![line.who] = Positive(@ - line.amount)]
         /\ Notes(h, k, ToSet(s.seats), line.who, "uncalled_return", line.amount, 0)
<1>0. line.t = "uncalled" /\ line.who \in ToSet(s.seats) /\ line.amount \in Int
  BY DEF UncalledLines
<1>10. PICK no \in BOOLEAN : no = FALSE
  OBVIOUS
<1>11. PICK kind, none : kind = "uncalled_return" /\ none = 0
  OBVIOUS
<1>1. PICK n : n = Noted(h, line.who, kind, line.amount, none, no)
  OBVIOUS
<1>2. kind \in Kinds /\ none \in Int
  BY <1>11 DEF Kinds
<1>3. n \in Hands(s) /\ Frame(h, n) /\ Untouched(h, n) /\ Notes(h, n, ToSet(s.seats), line.who, kind, line.amount, none)
  BY <1>0, <1>1, <1>2, NotedIs
<1>4. PICK i, c : /\ i = [n.invested EXCEPT ![line.who] = Positive(n.invested[line.who] - line.amount)]
                  /\ c = [n.contributions EXCEPT ![line.who] = Positive(n.contributions[line.who] - line.amount)]
  OBVIOUS
<1>5. ASSUME NEW x \in Int PROVE Positive(x) \in Int
  <2>1. 0 \in Int
    OBVIOUS
  <2>2. Max({0, x}) \in {0, x}
    BY <2>1, MaxOfTwo
  <2>q. QED BY <2>2 DEF Positive
<1>6. i \in [ToSet(s.seats) -> Int] /\ c \in [ToSet(s.seats) -> Int]
  <2>1. /\ n.invested \in [ToSet(s.seats) -> Int] /\ n.contributions \in [ToSet(s.seats) -> Int]
    BY <1>3, HandIs
  <2>2. PICK x, y : x = n.invested[line.who] - line.amount /\ y = n.contributions[line.who] - line.amount
    OBVIOUS
  <2>3. x \in Int /\ y \in Int
    BY <1>0, <2>1, <2>2
  <2>4. Positive(x) \in Int /\ Positive(y) \in Int
    BY <1>5, <2>3
  <2>q. QED BY <1>0, <1>4, <2>1, <2>2, <2>4
<1>7. k = [n EXCEPT !.invested = i, !.contributions = c]
  BY <1>0, <1>1, <1>10, <1>11, <1>4 DEF Read, UncalledRead
<1>8. k \in Hands(s)
  BY <1>3, <1>6, <1>7 DEF Hands
<1>9. /\ k.invested = i /\ k.won = n.won /\ k.street = n.street /\ k.summary = n.summary /\ k.pot = n.pot
      /\ k.actions = n.actions
  BY <1>3, <1>7, HandIs DEF HandFields
<1>12. Notes(h, k, ToSet(s.seats), line.who, "uncalled_return", line.amount, 0)
  BY <1>3, <1>9, <1>11 DEF Notes
<1>q. QED BY <1>3, <1>4, <1>8, <1>9, <1>12 DEF Frame, Untouched

LEMMA ReadTyped ==
  ASSUME NEW s \in Setups, NEW h \in Hands(s), NEW line \in Lines(ToSet(s.seats))
  PROVE  Read(h, line) \in Hands(s)
<1>1. PICK k, N : k = Read(h, line) /\ N = ToSet(s.seats)
  OBVIOUS
<1>2. \/ line \in ActLines(N) \/ line \in SectionLines \/ line \in DealtLines \/ line \in TotalLines
      \/ line \in SeatLines(N) \/ line \in UncalledLines(N)
  BY <1>1 DEF Lines
<1>3. CASE line \in ActLines(N)
  BY <1>1, <1>3, ReadAct
<1>4. CASE line \in SectionLines
  BY <1>1, <1>4, ReadSection
<1>5. CASE line \in DealtLines
  BY <1>1, <1>5, ReadDealt
<1>6. CASE line \in TotalLines
  BY <1>1, <1>6, ReadTotal
<1>7. CASE line \in SeatLines(N)
  BY <1>1, <1>7, ReadSeat
<1>8. CASE line \in UncalledLines(N)
  BY <1>1, <1>8, ReadUncalled
<1>q. QED BY <1>1, <1>2, <1>3, <1>4, <1>5, <1>6, <1>7, <1>8

\* The parser's state after each line.
IsReading(v, s, h, lines) ==
    /\ v \in [0 .. Len(lines) -> Hands(s)]
    /\ v[0] = h
    /\ \A k \in 1 .. Len(lines) : v[k] = Read(v[k - 1], lines[k])
    /\ ReadAll(h, lines) = v[Len(lines)]

LEMMA Readings ==
  ASSUME NEW s \in Setups, NEW h \in Hands(s), NEW lines \in Seq(Lines(ToSet(s.seats)))
  PROVE  \E v : IsReading(v, s, h, lines)
<1> DEFINE n == Len(lines)
           Eq(iter) == iter = [T \in SUBSET DOMAIN lines |->
                            IF T = {} THEN h
                            ELSE LET x == Max(T) IN Read(iter[T \ {x}], lines[x])]
           A == Hands(s)
<1>20. n \in Nat /\ DOMAIN lines = 1 .. n /\ \A i \in 1 .. n : lines[i] \in Lines(ToSet(s.seats))
  OBVIOUS
<1>1. PICK Op : Op = [p \in (1 .. n) \X A |-> Read(p[2], lines[p[1]])]
  OBVIOUS
<1>2. h \in A
  OBVIOUS
<1>3. \A i \in 1 .. n, r \in A : Op[<<i, r>>] = Read(r, lines[i]) /\ Op[<<i, r>>] \in A
  <2>1. ASSUME NEW i \in 1 .. n, NEW r \in A PROVE Read(r, lines[i]) \in A
    BY <1>20, <2>1, ReadTyped
  <2> HIDE DEF A, n
  <2>q. QED BY <1>1, <2>1
<1>4. \E iter : Eq(iter)
  <2>0. PICK a : a = A
    OBVIOUS
  <2>1. PICK iter \in [SUBSET (1 .. n) -> a] : LeftEq(iter, n, h, Op)
    <3> HIDE DEF A, n
    <3>q. QED BY <1>2, <1>3, <1>20, <2>0, LeftExists
  <2>2. ASSUME NEW T \in SUBSET (1 .. n), T # {}
        PROVE  Op[<<Max(T), iter[T \ {Max(T)}]>>] = Read(iter[T \ {Max(T)}], lines[Max(T)])
    <3> HIDE DEF A, n
    <3>1. Max(T) \in 1 .. n /\ iter[T \ {Max(T)}] \in a
      BY <1>20, <2>1, <2>2, Greatest, T \ {Max(T)} \in SUBSET (1 .. n)
    <3>q. QED BY <1>3, <1>20, <2>0, <3>1
  <2>3. Eq(iter)
    <3> HIDE DEF A, n
    <3>q. QED BY <1>20, <2>1, <2>2 DEF LeftEq
  <2> HIDE DEF Eq
  <2>q. QED BY <2>3
<1>5. PICK iter : iter = CHOOSE i : Eq(i)
  OBVIOUS
<1>6. Eq(iter)
  BY <1>4, <1>5
<1>7. ReadAll(h, lines) = iter[1 .. n]
  <2> HIDE DEF n
  <2>q. QED BY <1>5, <1>20 DEF ReadAll, FoldLeft, MapThenFoldSet
<1>8. ASSUME NEW T \in SUBSET (1 .. n), T # {}, iter[T \ {Max(T)}] \in A
      PROVE  iter[T] = Op[<<Max(T), iter[T \ {Max(T)}]>>]
  <2> HIDE DEF n
  <2>1. Max(T) \in 1 .. n
    BY <1>8, <1>20, Greatest
  <2>2. iter[T] = Read(iter[T \ {Max(T)}], lines[Max(T)])
    BY <1>6, <1>8, <1>20, <2>1
  <2> HIDE DEF A
  <2>q. QED BY <2>1, <2>2, <1>3, <1>8
<1>9. iter[{}] = h
  BY <1>6
<1>10. PICK v : LeftRun(v, iter, n, A, h, Op)
  <2> HIDE DEF Eq, A, n
  <2>1. \A i \in 1 .. n, r \in A : Op[<<i, r>>] \in A
    BY <1>3
  <2>2. LeftSolved(iter, n, A, h, Op)
    BY <1>8, <1>9 DEF LeftSolved
  <2>q. QED BY <1>2, <1>20, <2>1, <2>2, LeftSteps
<1>11. \A k \in 1 .. n : v[k] = Read(v[k - 1], lines[k])
  <2>1. ASSUME NEW k \in 1 .. n PROVE v[k] = Read(v[k - 1], lines[k])
    <3> HIDE DEF A, n
    <3>1. v[k - 1] \in A
      BY <1>10, <1>20, k - 1 \in 0 .. n DEF LeftRun
    <3>q. QED BY <1>3, <1>10, <3>1 DEF LeftRun
  <2>q. QED BY <2>1
<1>12. IsReading(v, s, h, lines)
  BY <1>7, <1>10, <1>11 DEF LeftRun, IsReading
<1>q. QED BY <1>12

-----------------------------------------------------------------------------
(* The importer's running pot                                              *)

Runs(names) == [put : [names -> Int], street : Sections \cup {NoStreet}, pot : Int, after : Seq(Int)]

\* What an action puts in, for the importer.
Counted(a, put) ==
    CASE a.kind \in PutsChips -> a.amount
      [] a.kind = "raise" -> Positive(a.to - put[a.who])
      [] a.kind = "uncalled_return" -> -a.amount
      [] OTHER -> 0

\* The first action on a street, and what counts as put in on it before the action.
Opens(r, a) == a.street # r.street /\ a.street \in BoardStreets
PutBefore(names, r, a) == IF Opens(r, a) THEN Nothing(names) ELSE r.put

LEMMA PositiveIs ==
  ASSUME NEW x \in Int
  PROVE  Positive(x) \in Int /\ Positive(x) >= 0 /\ (x >= 0 => Positive(x) = x) /\ (x < 0 => Positive(x) = 0)
<1>1. 0 \in Int
  OBVIOUS
<1>2. Max({0, x}) \in {0, x} /\ Max({0, x}) >= 0 /\ Max({0, x}) >= x
  BY <1>1, MaxOfTwo
<1>q. QED BY <1>2 DEF Positive

LEMMA RunFields ==
  ASSUME NEW names, NEW r \in Runs(names), NEW a \in Acts(names),
         NEW put, put = PutBefore(names, r, a), NEW x, x = Counted(a, put)
  PROVE  /\ Run(r, a) \in Runs(names) /\ put \in [names -> Int] /\ x \in Int
         /\ Run(r, a).put = [put EXCEPT ![a.who] = put[a.who] + Positive(x)]
         /\ Run(r, a).street = IF Opens(r, a) THEN a.street ELSE r.street
         /\ Run(r, a).pot = IF a.kind = "collect" THEN r.pot ELSE Positive(r.pot + x)
         /\ Run(r, a).after = Append(r.after, Run(r, a).pot)
<1>1. /\ r.put \in [names -> Int] /\ r.street \in Sections \cup {NoStreet} /\ r.pot \in Int /\ r.after \in Seq(Int)
      /\ a.who \in names /\ a.kind \in Kinds /\ a.amount \in Int /\ a.to \in Int /\ a.street \in Sections
  BY DEF Runs, Acts
<1>2. put \in [names -> Int]
  BY <1>1 DEF Nothing, PutBefore
<1>3. x \in Int
  <2>1. put[a.who] \in Int
    BY <1>1, <1>2
  <2>2. PICK y : y = a.to - put[a.who]
    OBVIOUS
  <2>3. y \in Int /\ Positive(y) \in Int
    BY <1>1, <2>1, <2>2, PositiveIs
  <2>q. QED BY <1>1, <2>2, <2>3 DEF Counted
<1>4. PICK pot : pot = IF a.kind = "collect" THEN r.pot ELSE Positive(r.pot + x)
  OBVIOUS
<1>5. pot \in Int
  <2>1. PICK y : y = r.pot + x
    OBVIOUS
  <2>2. y \in Int /\ Positive(y) \in Int
    BY <1>1, <1>3, <2>1, PositiveIs
  <2>q. QED BY <1>1, <1>4, <2>1, <2>2
<1>6. DOMAIN r.put = names
  BY <1>1
<1>7. Run(r, a) = [put |-> [put EXCEPT ![a.who] = put[a.who] + Positive(x)],
                   street |-> IF Opens(r, a) THEN a.street ELSE r.street,
                   pot |-> pot,
                   after |-> Append(r.after, pot)]
  BY <1>4, <1>6 DEF Run, Counted, PutBefore, Opens
<1>8. PICK w, z : /\ w = [put EXCEPT ![a.who] = put[a.who] + Positive(x)]
                  /\ z = IF Opens(r, a) THEN a.street ELSE r.street
  OBVIOUS
<1>9. w \in [names -> Int] /\ z \in Sections \cup {NoStreet} /\ Append(r.after, pot) \in Seq(Int)
  <2>1. Positive(x) \in Int /\ put[a.who] \in Int
    BY <1>1, <1>2, <1>3, PositiveIs
  <2>q. QED BY <1>1, <1>2, <1>5, <1>8, <2>1
<1>10. Run(r, a) \in Runs(names)
  BY <1>5, <1>7, <1>8, <1>9 DEF Runs
<1>q. QED BY <1>2, <1>3, <1>4, <1>7, <1>10

LEMMA RunTyped ==
  ASSUME NEW names, NEW r \in Runs(names), NEW a \in Acts(names)
  PROVE  Run(r, a) \in Runs(names)
<1>1. PICK put : put = PutBefore(names, r, a)
  OBVIOUS
<1>2. PICK x : x = Counted(a, put)
  OBVIOUS
<1>q. QED BY <1>1, <1>2, RunFields

\* The importer's state after each action.
IsCount(v, names, acts) ==
    /\ v \in [0 .. Len(acts) -> Runs(names)]
    /\ v[0] = StartOfRun(names)
    /\ \A k \in 1 .. Len(acts) : v[k] = Run(v[k - 1], acts[k])
    /\ RunOf(names, acts) = v[Len(acts)]

LEMMA CountsRun ==
  ASSUME NEW names, NEW acts \in Seq(Acts(names))
  PROVE  \E v : IsCount(v, names, acts)
<1> DEFINE n == Len(acts)
           Eq(iter) == iter = [T \in SUBSET DOMAIN acts |->
                            IF T = {} THEN StartOfRun(names)
                            ELSE LET x == Max(T) IN Run(iter[T \ {x}], acts[x])]
           A == Runs(names)
<1>20. n \in Nat /\ DOMAIN acts = 1 .. n /\ \A i \in 1 .. n : acts[i] \in Acts(names)
  OBVIOUS
<1>1. PICK Op : Op = [p \in (1 .. n) \X A |-> Run(p[2], acts[p[1]])]
  OBVIOUS
<1>2. StartOfRun(names) \in A
  BY DEF StartOfRun, Runs, Nothing
<1>3. \A i \in 1 .. n, r \in A : Op[<<i, r>>] = Run(r, acts[i]) /\ Op[<<i, r>>] \in A
  <2>1. ASSUME NEW i \in 1 .. n, NEW r \in A PROVE Run(r, acts[i]) \in A
    BY <1>20, <2>1, RunTyped
  <2> HIDE DEF A, n
  <2>q. QED BY <1>1, <2>1
<1>4. \E iter : Eq(iter)
  <2>0. PICK a : a = A
    OBVIOUS
  <2>1. PICK iter \in [SUBSET (1 .. n) -> a] : LeftEq(iter, n, StartOfRun(names), Op)
    <3> HIDE DEF A, n
    <3>q. QED BY <1>2, <1>3, <1>20, <2>0, LeftExists
  <2>2. ASSUME NEW T \in SUBSET (1 .. n), T # {}
        PROVE  Op[<<Max(T), iter[T \ {Max(T)}]>>] = Run(iter[T \ {Max(T)}], acts[Max(T)])
    <3> HIDE DEF A, n
    <3>1. Max(T) \in 1 .. n /\ iter[T \ {Max(T)}] \in a
      BY <1>20, <2>1, <2>2, Greatest, T \ {Max(T)} \in SUBSET (1 .. n)
    <3>q. QED BY <1>3, <1>20, <2>0, <3>1
  <2>3. Eq(iter)
    <3> HIDE DEF A, n
    <3>q. QED BY <1>20, <2>1, <2>2 DEF LeftEq
  <2> HIDE DEF Eq
  <2>q. QED BY <2>3
<1>5. PICK iter : iter = CHOOSE i : Eq(i)
  OBVIOUS
<1>6. Eq(iter)
  BY <1>4, <1>5
<1>7. RunOf(names, acts) = iter[1 .. n]
  <2> HIDE DEF n
  <2>q. QED BY <1>5, <1>20 DEF RunOf, FoldLeft, MapThenFoldSet
<1>8. ASSUME NEW T \in SUBSET (1 .. n), T # {}, iter[T \ {Max(T)}] \in A
      PROVE  iter[T] = Op[<<Max(T), iter[T \ {Max(T)}]>>]
  <2> HIDE DEF n
  <2>1. Max(T) \in 1 .. n
    BY <1>8, <1>20, Greatest
  <2>2. iter[T] = Run(iter[T \ {Max(T)}], acts[Max(T)])
    BY <1>6, <1>8, <1>20, <2>1
  <2> HIDE DEF A
  <2>q. QED BY <2>1, <2>2, <1>3, <1>8
<1>9. iter[{}] = StartOfRun(names)
  BY <1>6
<1>10. PICK v : LeftRun(v, iter, n, A, StartOfRun(names), Op)
  <2> HIDE DEF Eq, A, n
  <2>1. \A i \in 1 .. n, r \in A : Op[<<i, r>>] \in A
    BY <1>3
  <2>2. LeftSolved(iter, n, A, StartOfRun(names), Op)
    BY <1>8, <1>9 DEF LeftSolved
  <2>q. QED BY <1>2, <1>20, <2>1, <2>2, LeftSteps
<1>11. \A k \in 1 .. n : v[k] = Run(v[k - 1], acts[k])
  <2>1. ASSUME NEW k \in 1 .. n PROVE v[k] = Run(v[k - 1], acts[k])
    <3> HIDE DEF A, n
    <3>1. v[k - 1] \in A
      BY <1>10, <1>20, k - 1 \in 0 .. n DEF LeftRun
    <3>q. QED BY <1>3, <1>10, <3>1 DEF LeftRun
  <2>q. QED BY <2>1
<1>12. IsCount(v, names, acts)
  BY <1>7, <1>10, <1>11 DEF LeftRun, IsCount
<1>q. QED BY <1>12

LEMMA OneMoreCounted ==
  ASSUME NEW names, NEW acts \in Seq(Acts(names)), NEW a \in Acts(names)
  PROVE  /\ RunOf(names, acts) \in Runs(names)
         /\ RunOf(names, Append(acts, a)) = Run(RunOf(names, acts), a)
<1>1. PICK v : IsCount(v, names, acts)
  BY CountsRun
<1>2. PICK more : more = Append(acts, a)
  OBVIOUS
<1>3. more \in Seq(Acts(names))
  BY <1>2
<1>4. PICK w : IsCount(w, names, more)
  BY <1>3, CountsRun
<1>5. PICK n : n = Len(acts)
  OBVIOUS
<1>6. /\ n \in Nat /\ Len(more) = n + 1 /\ more[n + 1] = a /\ \A i \in 1 .. n : more[i] = acts[i]
  BY <1>2, <1>5
<1>7. /\ v \in [0 .. n -> Runs(names)] /\ v[0] = w[0] /\ RunOf(names, acts) = v[n]
      /\ \A k \in 1 .. n : v[k] = Run(v[k - 1], acts[k])
  BY <1>1, <1>4, <1>5 DEF IsCount
<1>8. /\ \A k \in 1 .. n + 1 : w[k] = Run(w[k - 1], more[k])
      /\ RunOf(names, more) = w[n + 1]
  BY <1>4, <1>6 DEF IsCount
<1> DEFINE P == {k \in 0 .. n : w[k] = v[k]}
<1>9. 0 \in P
  BY <1>6, <1>7
<1>10. ASSUME NEW k \in 1 .. n, k - 1 \in P PROVE k \in P
  <2>1. k \in 1 .. n + 1 /\ k \in 0 .. n
    BY <1>6
  <2>2. w[k] = Run(w[k - 1], more[k]) /\ v[k] = Run(v[k - 1], acts[k])
    BY <1>7, <1>8, <2>1
  <2>q. QED BY <1>6, <1>10, <2>1, <2>2
<1>11. \A k \in 0 .. n : k \in P
  <2> HIDE DEF P
  <2>q. QED BY <1>6, <1>9, <1>10, UpTo
<1>12. w[n] = v[n]
  BY <1>6, <1>11
<1>13. w[n + 1] = Run(w[n], a)
  <2>1. n + 1 \in 1 .. n + 1 /\ (n + 1) - 1 = n
    BY <1>6
  <2>q. QED BY <1>6, <1>8, <2>1
<1>14. v[n] \in Runs(names)
  BY <1>6, <1>7
<1>q. QED BY <1>2, <1>7, <1>8, <1>12, <1>13, <1>14

-----------------------------------------------------------------------------
(* The books while the hand is played                                      *)

LEMMA ReadOne ==
  ASSUME NEW s \in Setups, NEW h \in Hands(s), NEW line \in Lines(ToSet(s.seats))
  PROVE  ReadAll(h, <<line>>) = Read(h, line) /\ Read(h, line) \in Hands(s)
<1>1. PICK lines : lines = <<line>>
  OBVIOUS
<1>2. lines \in Seq(Lines(ToSet(s.seats))) /\ Len(lines) = 1 /\ lines[1] = line
  BY <1>1
<1>3. PICK v : IsReading(v, s, h, lines)
  BY <1>2, Readings
<1>4. v[0] = h /\ v[1] = Read(v[0], lines[1]) /\ ReadAll(h, lines) = v[1]
  BY <1>2, <1>3 DEF IsReading
<1>q. QED BY <1>1, <1>2, <1>4, ReadTyped

LEMMA SumChange ==
  ASSUME NEW N, IsFiniteSet(N), NEW f \in [N -> Int], NEW p \in N, NEW x \in Int,
         NEW g \in [N -> Int], g[p] = f[p] + x, \A q \in N \ {p} : g[q] = f[q]
  PROVE  SumFunction(f) \in Int /\ SumFunction(g) = SumFunction(f) + x
<1>1. /\ g \in [N -> Int] /\ g[p] = f[p] + x /\ f[p] \in Int /\ \A q \in N \ {p} : g[q] = f[q]
  OBVIOUS
<1>2. Tables(f, N) /\ Tables(g, N) /\ Tables(f, N \ {p}) /\ Tables(g, N \ {p}) /\ IsFiniteSet(N \ {p})
  BY <1>1, FS_Subset DEF Tables
<1>3. Sum(f, N) = f[p] + Sum(f, N \ {p}) /\ Sum(f, N) \in Int /\ Sum(f, N \ {p}) \in Int
  BY <1>2, SumStep
<1>4. Sum(g, N) = g[p] + Sum(g, N \ {p})
  BY <1>2, SumStep
<1>5. Sum(f, N \ {p}) = Sum(g, N \ {p})
  BY <1>1, <1>2, SumSame
<1>6. SumFunction(f) = Sum(f, N) /\ SumFunction(g) = Sum(g, N)
  <2>1. DOMAIN f = N /\ DOMAIN g = N
    BY <1>1
  <2>q. QED BY <2>1, SumOfFunction
<1>q. QED BY <1>1, <1>3, <1>4, <1>5, <1>6

LEMMA SumNat ==
  ASSUME NEW N, IsFiniteSet(N), NEW f \in [N -> Nat]
  PROVE  SumFunction(f) \in Nat
<1>1. PICK h : h = [T \in SUBSET N |-> Sum(f, T)]
  OBVIOUS
<1>2. Tables(f, N)
  BY DEF Tables
<1>3. Adds(h, f, N)
  BY <1>1, <1>2, SumTable
<1> DEFINE P == {T \in SUBSET N : h[T] \in Nat}
<1>4. {} \in P
  BY <1>3 DEF Adds
<1>5. ASSUME NEW T \in SUBSET N, NEW x \in T, T \ {x} \in P PROVE T \in P
  <2>1. h[T] = f[x] + h[T \ {x}] /\ f[x] \in Nat /\ h[T \ {x}] \in Nat
    BY <1>3, <1>5 DEF Adds
  <2>q. QED BY <2>1
<1>6. N \in P
  <2>1. \A T \in SUBSET N : T \in P
    <3> HIDE DEF P
    <3>q. QED BY <1>4, <1>5, OneByOne
  <2>q. QED BY <2>1
<1>7. DOMAIN f = N
  OBVIOUS
<1>q. QED BY <1>1, <1>6, <1>7, SumOfFunction

\* An action at the end of the hand.
LEMMA QuietCounts ==
  ASSUME NEW s \in Setups, NEW h \in Hands(s), NEW k, NEW who \in ToSet(s.seats), NEW kind, NEW amount \in Int,
         NEW to \in Int, Notes(h, k, ToSet(s.seats), who, kind, amount, to),
         NEW total \in Nat, HasCounted(RunOf(h.names, h.actions), total), h.names = k.names
  PROVE  /\ kind \in {"show", "muck", "collect"} => HasCounted(RunOf(k.names, k.actions), total)
         /\ kind = "uncalled_return" /\ amount =< total
                => HasCounted(RunOf(k.names, k.actions), total - amount)
<1>1. PICK N, r, q : N = ToSet(s.seats) /\ r = RunOf(N, h.actions) /\ q = RunOf(N, k.actions)
  OBVIOUS
<1>2. PICK a \in Acts(N) : /\ k.actions = Append(h.actions, a) /\ a.who = who /\ a.kind = kind
                           /\ a.amount = amount
  BY <1>1 DEF Notes
<1>3. h.names = N /\ h.actions \in Seq(Acts(N))
  BY <1>1, HandIs
<1>4. r \in Runs(N) /\ q = Run(r, a)
  BY <1>1, <1>2, <1>3, OneMoreCounted
<1>5. PICK put, x : put = PutBefore(N, r, a) /\ x = Counted(a, put)
  OBVIOUS
<1>6. /\ x \in Int /\ q \in Runs(N)
      /\ q.put = [put EXCEPT ![a.who] = put[a.who] + Positive(x)]
      /\ q.street = IF Opens(r, a) THEN a.street ELSE r.street
      /\ q.pot = IF a.kind = "collect" THEN r.pot ELSE Positive(r.pot + x)
      /\ q.after = Append(r.after, q.pot)
  BY <1>4, <1>5, RunFields
<1>7. r.pot = total
  BY <1>1, <1>3 DEF HasCounted
<1>8. HasCounted(q, q.pot)
  <2>1. r.after \in Seq(Int) /\ q.pot \in Int
    BY <1>4, <1>6 DEF Runs
  <2>q. QED BY <1>6, <2>1 DEF HasCounted
<1>9. CASE kind \in {"show", "muck", "collect"}
  <2>1. x = 0
    BY <1>2, <1>5, <1>9 DEF Counted, PutsChips, Posts
  <2>2. q.pot = total
    <3>1. r.pot + x = total /\ total \in Int /\ total >= 0
      BY <1>7, <2>1
    <3>q. QED BY <1>6, <1>7, <3>1, PositiveIs
  <2>q. QED BY <1>1, <1>3, <1>8, <1>9, <2>2
<1>10. CASE kind = "uncalled_return" /\ amount =< total
  <2>1. x = -amount
    BY <1>2, <1>5, <1>10 DEF Counted, PutsChips, Posts
  <2>2. q.pot = total - amount
    <3>1. r.pot + x = total - amount /\ total - amount \in Int /\ total - amount >= 0
      BY <1>7, <1>10, <2>1
    <3>2. a.kind # "collect"
      BY <1>2, <1>10
    <3>q. QED BY <1>6, <3>1, <3>2, PositiveIs
  <2>q. QED BY <1>1, <1>3, <1>8, <1>10, <2>2
<1>q. QED BY <1>9, <1>10

\* The action puts in x, bet having been put in before.
Means(kind, amount, to, bet, x) ==
    \/ kind \in PutsChips /\ x = amount
    \/ kind = "raise" /\ x = to - bet
    \/ kind \in {"check", "fold"} /\ x = 0

LEMMA SumAfterPaying ==
  ASSUME NEW s \in Setups, NEW h, h.invested \in [ToSet(s.seats) -> Nat], NEW who \in ToSet(s.seats),
         NEW x \in Nat, NEW k, Pays(h, k, who, x)
  PROVE  SumFunction(h.invested) \in Nat /\ SumFunction(k.invested) = SumFunction(h.invested) + x
<1>1. PICK N, f, g : N = ToSet(s.seats) /\ f = h.invested /\ g = k.invested
  OBVIOUS
<1>2. IsFiniteSet(N) /\ who \in N /\ f \in [N -> Nat] /\ x \in Int
  BY <1>1, SetupFacts
<1>3. g = [f EXCEPT ![who] = f[who] + x]
  BY <1>1 DEF Pays
<1>4. f \in [N -> Int] /\ g \in [N -> Int] /\ g[who] = f[who] + x /\ \A q \in N \ {who} : g[q] = f[q]
  BY <1>2, <1>3
<1>5. SumFunction(g) = SumFunction(f) + x
  BY <1>2, <1>4, SumChange
<1>6. SumFunction(f) \in Nat
  BY <1>2, SumNat
<1>q. QED BY <1>1, <1>5, <1>6

\* An action that puts in x, on the street where the parser is.
LEMMA PaidCounts ==
  ASSUME NEW s \in Setups, NEW h \in Hands(s), NEW k \in Hands(s), NEW who \in ToSet(s.seats), NEW kind,
         NEW amount \in Int, NEW to \in Int, Notes(h, k, ToSet(s.seats), who, kind, amount, to),
         k.street = h.street, NEW x \in Nat,
         Pays(h, k, who, x), Means(kind, amount, to, h.contributions[who], x),
         h.invested \in [ToSet(s.seats) -> Nat],
         RunOf(h.names, h.actions).pot = SumFunction(h.invested), SameStreet(RunOf(h.names, h.actions), h)
  PROVE  HasCounted(RunOf(k.names, k.actions), SumFunction(k.invested)) /\ SameStreet(RunOf(k.names, k.actions), k)
<1>1. PICK N, r, q : N = ToSet(s.seats) /\ r = RunOf(N, h.actions) /\ q = RunOf(N, k.actions)
  OBVIOUS
<1>2. PICK a \in Acts(N) : /\ k.actions = Append(h.actions, a) /\ a.who = who /\ a.kind = kind
                           /\ a.amount = amount /\ a.to = to /\ a.street = h.street
  BY <1>1 DEF Notes
<1>3. /\ h.names = N /\ h.actions \in Seq(Acts(N)) /\ k.names = N
      /\ h.contributions \in [N -> Int] /\ h.invested \in [N -> Int]
  BY <1>1, HandIs
<1>4. r \in Runs(N) /\ q = Run(r, a)
  BY <1>1, <1>2, <1>3, OneMoreCounted
<1>5. PICK put, y : put = PutBefore(N, r, a) /\ y = Counted(a, put)
  OBVIOUS
<1>6. /\ y \in Int /\ q \in Runs(N)
      /\ q.put = [put EXCEPT ![a.who] = put[a.who] + Positive(y)]
      /\ q.street = IF Opens(r, a) THEN a.street ELSE r.street
      /\ q.pot = IF a.kind = "collect" THEN r.pot ELSE Positive(r.pot + y)
      /\ q.after = Append(r.after, q.pot)
  BY <1>4, <1>5, RunFields
<1>7. put = h.contributions
  BY <1>1, <1>2, <1>3, <1>5 DEF SameStreet, PutBefore, Opens
<1>8. y = x /\ a.kind # "collect"
  <2>1. h.contributions[who] \in Int
    BY <1>1, <1>3
  <2>2. CASE kind \in PutsChips /\ x = amount
    BY <1>2, <1>5, <2>2 DEF Counted, PutsChips, Posts
  <2>3. CASE kind = "raise" /\ x = to - h.contributions[who]
    <3>1. y = Positive(a.to - put[a.who])
      BY <1>2, <1>5, <2>3 DEF Counted, PutsChips, Posts
    <3>2. a.to - put[a.who] = x /\ x \in Int /\ x >= 0
      BY <1>2, <1>7, <2>3
    <3>3. Positive(x) = x
      BY <3>2, PositiveIs
    <3>q. QED BY <1>2, <2>3, <3>1, <3>2, <3>3
  <2>4. CASE kind \in {"check", "fold"} /\ x = 0
    BY <1>2, <1>5, <2>4 DEF Counted, PutsChips, Posts
  <2>q. QED BY <2>2, <2>3, <2>4 DEF Means
<1>9. Positive(y) = x
  <2>1. x \in Int /\ x >= 0
    OBVIOUS
  <2>q. QED BY <1>8, <2>1, PositiveIs
<1>10. q.put = k.contributions
  BY <1>2, <1>6, <1>7, <1>9 DEF Pays
<1>11. q.pot = SumFunction(k.invested)
  <2>1. SumFunction(h.invested) \in Nat /\ SumFunction(k.invested) = SumFunction(h.invested) + x
    BY SumAfterPaying
  <2>2. r.pot + y = SumFunction(k.invested) /\ SumFunction(k.invested) \in Int /\ SumFunction(k.invested) >= 0
    BY <1>1, <1>3, <1>8, <2>1
  <2>q. QED BY <1>6, <1>8, <2>2, PositiveIs
<1>12. HasCounted(q, SumFunction(k.invested))
  <2>1. r.after \in Seq(Int) /\ q.pot \in Int
    BY <1>4, <1>6 DEF Runs
  <2>q. QED BY <1>6, <1>11, <2>1 DEF HasCounted
<1>13. SameStreet(q, k)
  <2>1. r.street \notin Later(h.street) /\ h.street \notin Later(h.street)
    BY <1>1, <1>3 DEF SameStreet, Later
  <2>2. q.street \notin Later(k.street)
    BY <1>2, <1>6, <2>1
  <2>3. ~(k.street \in BoardStreets /\ q.street # k.street)
    BY <1>2, <1>6 DEF Opens
  <2>q. QED BY <1>10, <2>2, <2>3 DEF SameStreet
<1>q. QED BY <1>1, <1>3, <1>12, <1>13

LEMMA MoveRead ==
  ASSUME NEW g, GameOK(g), Betting(g), NEW h \in Hands(g.setup), Follows(g, h),
         NEW p \in Seated(g), NEW to \in Nat, NEW g2, GameOK(g2), MovedBy(g, g2, p, to),
         NEW k, k = ReadAll(h, g2.lines)
  PROVE  k \in Hands(g2.setup) /\ Follows(g2, k)
<1>1. PICK s, N : s = g.setup /\ N = ToSet(s.seats)
  OBVIOUS
<1>2. s \in Setups /\ Seated(g) = N /\ g2.setup = s /\ Seated(g2) = N /\ h \in Hands(s)
  BY <1>1 DEF GameOK, Seated, MovedBy, Paying, Booked
<1>3. PICK line \in ActLines(N) : g2.lines = <<line>> /\ Says(line, p, g.bet[p], to)
  BY <1>2 DEF MovedBy
<1>4. k = Read(h, line)
  BY <1>1, <1>2, <1>3, ReadOne DEF Lines
<1>5. /\ k \in Hands(s) /\ Frame(h, k) /\ Applied(h, k, line)
      /\ Notes(h, k, N, line.who, line.kind, line.amount, line.to)
  BY <1>1, <1>2, <1>3, <1>4, ReadAct
<1>6. PICK x : x = to - g.bet[p]
  OBVIOUS
<1>7. /\ g.bet \in [N -> Nat] /\ g.paid \in [N -> Nat] /\ x \in Nat /\ p \in N
      /\ line.amount \in Int /\ line.to \in Int /\ line.who = p
  <2>1. g.bet \in [N -> Nat] /\ g.paid \in [N -> Nat] /\ p \in N
    BY <1>2 DEF GameOK
  <2>2. line.amount \in Int /\ line.to \in Int /\ line.who = p
    BY <1>3 DEF ActLines, Says
  <2>3. g.bet[p] =< to
    BY DEF MovedBy
  <2>q. QED BY <1>6, <2>1, <2>2, <2>3
<1>8. /\ h.invested = g.paid /\ h.contributions = g.bet /\ h.won = Nothing(N)
      /\ h.street = g.street /\ ~h.summary
      /\ HasCounted(RunOf(h.names, h.actions), SumFunction(g.paid))
      /\ SameStreet(RunOf(h.names, h.actions), h)
  BY <1>2 DEF Follows
<1>9. /\ g2.bet = [g.bet EXCEPT ![p] = g.bet[p] + x] /\ g2.paid = [g.paid EXCEPT ![p] = g.paid[p] + x]
      /\ g2.street = g.street
  <2>1. g.bet[p] + x = to /\ g.paid[p] + to - g.bet[p] = g.paid[p] + x
    BY <1>6, <1>7
  <2>q. QED BY <2>1 DEF MovedBy, Paying
<1>10. /\ \/ Pays(h, k, p, x)
          \/ x = 0 /\ Untouched(h, k)
       /\ Means(line.kind, line.amount, line.to, h.contributions[p], x)
  <2>1. CASE line.kind \in {"bet", "call"} /\ line.amount = to - g.bet[p]
    <3>1. line.kind \in PutsChips /\ line.kind # "raise" /\ line.kind # "collect"
      BY <2>1 DEF PutsChips
    <3>q. QED BY <1>5, <1>6, <1>7, <2>1, <3>1 DEF Applied, Means
  <2>2. CASE line.kind = "raise" /\ line.to = to
    <3>1. line.kind \notin PutsChips /\ line.kind # "collect"
      BY <2>2 DEF PutsChips, Posts
    <3>2. line.to >= h.contributions[line.who] /\ line.to - h.contributions[line.who] = x
      BY <1>6, <1>7, <1>8, <2>2
    <3>3. ~(line.to < h.contributions[line.who])
      BY <1>7, <1>8, <3>2
    <3>q. QED BY <1>5, <1>7, <2>2, <3>1, <3>2, <3>3 DEF Applied, Means
  <2>3. CASE line.kind \in {"check", "fold"} /\ to = g.bet[p]
    <3>1. line.kind \notin PutsChips /\ line.kind # "raise" /\ line.kind # "collect"
      BY <2>3 DEF PutsChips, Posts
    <3>2. x = 0
      BY <1>6, <1>7, <2>3
    <3>q. QED BY <1>5, <2>3, <3>1, <3>2 DEF Applied, Means
  <2>q. QED BY <1>3, <2>1, <2>2, <2>3 DEF Says
<1>11. Pays(h, k, p, x)
  <2>1. CASE x = 0 /\ Untouched(h, k)
    <3>1. h.invested = [h.invested EXCEPT ![p] = h.invested[p] + x]
      BY <1>7, <1>8, <2>1
    <3>2. h.contributions = [h.contributions EXCEPT ![p] = h.contributions[p] + x]
      BY <1>7, <1>8, <2>1
    <3>q. QED BY <2>1, <3>1, <3>2 DEF Untouched, Pays
  <2>q. QED BY <1>10, <2>1
<1>12. k.invested = g2.paid /\ k.contributions = g2.bet /\ k.won = h.won
  BY <1>8, <1>9, <1>11 DEF Pays
<1>13. HasCounted(RunOf(k.names, k.actions), SumFunction(k.invested)) /\ SameStreet(RunOf(k.names, k.actions), k)
  <2>1. RunOf(h.names, h.actions).pot = SumFunction(h.invested)
    BY <1>8 DEF HasCounted
  <2>2. k.street = h.street /\ h.invested \in [N -> Nat]
    BY <1>5, <1>7, <1>8 DEF Frame
  <2>q. QED BY <1>1, <1>2, <1>5, <1>7, <1>8, <1>10, <1>11, <2>1, <2>2, PaidCounts
<1>q. QED BY <1>1, <1>2, <1>5, <1>8, <1>9, <1>12, <1>13 DEF Follows, Frame

LEMMA StreetRead ==
  ASSUME NEW g, GameOK(g), NEW h \in Hands(g.setup), Follows(g, h),
         NEW g2, g2.setup = g.setup, g2.paid = g.paid, g2.bet = Nothing(Seated(g)),
         g2.street \in BoardStreets, g2.street # g.street, g2.lines = <<Section(g2.street)>>,
         g2.street \in Later(g.street), Later(g2.street) \subseteq Later(g.street),
         NEW k, k = ReadAll(h, g2.lines)
  PROVE  k \in Hands(g2.setup) /\ Follows(g2, k)
<1>1. PICK s, N, street : s = g.setup /\ N = ToSet(s.seats) /\ street = g2.street
  OBVIOUS
<1>2. s \in Setups /\ Seated(g) = N /\ Seated(g2) = N /\ h \in Hands(s) /\ h.names = N
  BY <1>1, HandIs DEF GameOK, Seated
<1>3. PICK line : line = Section(street)
  OBVIOUS
<1>4. line \in SectionLines /\ line.street = street /\ street # "summary"
  <2>1. street \in Sections /\ street # "summary"
    BY <1>1 DEF BoardStreets, Sections, ToSet, Streets
  <2>q. QED BY <1>3, <2>1 DEF Section, SectionLines
<1>5. k = Read(h, line)
  BY <1>1, <1>2, <1>3, <1>4, ReadOne DEF Lines
<1>6. /\ k \in Hands(s) /\ k.invested = h.invested /\ k.won = h.won /\ k.actions = h.actions
      /\ k.street = street /\ k.summary = h.summary /\ k.names = N
      /\ k.contributions = Nothing(N)
  <2>1. /\ k \in Hands(s) /\ k.invested = h.invested /\ k.won = h.won /\ k.actions = h.actions
        /\ k.street = IF line.street = "summary" THEN h.street ELSE line.street
        /\ k.summary = (line.street = "summary" \/ h.summary)
        /\ k.contributions = IF line.street \in BoardStreets /\ line.street # h.street
                             THEN Nothing(h.names) ELSE h.contributions
    BY <1>2, <1>4, <1>5, ReadSection
  <2>2. street \in BoardStreets /\ street # h.street
    BY <1>1 DEF Follows
  <2>3. k.contributions = Nothing(N)
    BY <1>2, <1>4, <2>1, <2>2
  <2>4. k.summary = h.summary
    <3>1. k.summary \in BOOLEAN /\ h.summary \in BOOLEAN
      BY <1>2, <2>1, HandIs
    <3>q. QED BY <1>4, <2>1, <3>1
  <2>q. QED BY <1>2, <1>4, <2>1, <2>3, <2>4, HandIs
<1>7. PICK r : r = RunOf(h.names, h.actions) /\ r = RunOf(k.names, k.actions)
  BY <1>2, <1>6
<1>8. /\ h.invested = g.paid /\ h.won = Nothing(N) /\ h.street = g.street /\ ~h.summary
      /\ HasCounted(r, SumFunction(g.paid)) /\ SameStreet(r, h)
  BY <1>2, <1>7 DEF Follows
<1>9. SameStreet(r, k)
  <2>1. r.street \notin Later(g.street)
    BY <1>8 DEF SameStreet
  <2>2. r.street \notin Later(k.street) /\ k.street \in BoardStreets /\ r.street # k.street
    BY <1>1, <1>6, <2>1
  <2>q. QED BY <1>6, <2>2 DEF SameStreet
<1>q. QED BY <1>1, <1>2, <1>6, <1>7, <1>8, <1>9 DEF Follows

LEMMA NewHandIs ==
  ASSUME NEW s \in Setups, NEW h, h = NewHand(s, Button(s), BigBlind)
  PROVE  /\ h \in Hands(s) /\ h.names = ToSet(s.seats)
         /\ h.invested = Nothing(ToSet(s.seats)) /\ h.won = Nothing(ToSet(s.seats))
         /\ h.contributions = Nothing(ToSet(s.seats))
         /\ h.street = "preflop" /\ ~h.summary /\ h.actions = <<>> /\ h.pot = NoPot
<1>1. PICK no \in BOOLEAN : no = FALSE
  OBVIOUS
<1>2. PICK N, z : N = ToSet(s.seats) /\ z = Nothing(N)
  OBVIOUS
<1>3. PICK st : st = "preflop"
  OBVIOUS
<1>4. h = [names |-> N, seats |-> s.seats, stack |-> s.stack, button |-> Button(s),
           bigBlind |-> BigBlind,
           hero |-> NoOne, cards |-> no,
           invested |-> z, won |-> z, showed |-> {}, allIn |-> {},
           contributions |-> z,
           street |-> st, summary |-> no, pot |-> NoPot, board |-> 0, actions |-> <<>>]
  BY <1>1, <1>2, <1>3 DEF NewHand
<1>5. z \in [N -> Int] /\ NoPot \in Int /\ <<>> \in Seq(Acts(N))
  BY <1>2 DEF Nothing, NoPot
<1>6. st \in Sections
  <2>1. ToSet(Streets) = {"preflop", "flop", "turn", "river"}
    BY DEF ToSet, Streets
  <2>q. QED BY <1>3, <2>1 DEF Sections
<1>7. h \in Hands(s)
  BY <1>2, <1>4, <1>5, <1>6 DEF Hands
<1>q. QED BY <1>1, <1>2, <1>3, <1>4, <1>7

\* The parser and the importer while the blinds are posted.
AtBlinds(s, h) ==
    /\ h \in Hands(s) /\ h.won = Nothing(ToSet(s.seats)) /\ ~h.summary /\ h.street = "preflop"
    /\ h.invested = h.contributions /\ h.invested \in [ToSet(s.seats) -> Nat]
    /\ RunOf(h.names, h.actions).pot = SumFunction(h.invested) /\ SameStreet(RunOf(h.names, h.actions), h)

\* One blind read.
LEMMA BlindRead ==
  ASSUME NEW s \in Setups, NEW h, AtBlinds(s, h),
         NEW line \in ActLines(ToSet(s.seats)), line.kind \in Posts, NEW x \in Nat, line.amount = x,
         NEW k, k = Read(h, line)
  PROVE  /\ AtBlinds(s, k)
         /\ k.invested = [h.invested EXCEPT ![line.who] = h.invested[line.who] + x]
         /\ HasCounted(RunOf(k.names, k.actions), SumFunction(k.invested))
<1>0. /\ h \in Hands(s) /\ h.invested = h.contributions /\ h.invested \in [ToSet(s.seats) -> Nat]
      /\ RunOf(h.names, h.actions).pot = SumFunction(h.invested) /\ SameStreet(RunOf(h.names, h.actions), h)
  BY DEF AtBlinds
<1>1. /\ k \in Hands(s) /\ Frame(h, k) /\ Applied(h, k, line)
      /\ Notes(h, k, ToSet(s.seats), line.who, line.kind, line.amount, line.to)
  BY <1>0, ReadAct
<1>2. line.kind \in PutsChips /\ line.kind # "raise" /\ line.kind # "collect"
  BY DEF PutsChips, Posts
<1>3. Pays(h, k, line.who, x)
  BY <1>1, <1>2 DEF Applied
<1>4. line.who \in ToSet(s.seats) /\ line.amount \in Int /\ line.to \in Int
  BY DEF ActLines
<1>5. /\ k.invested = k.contributions /\ k.invested \in [ToSet(s.seats) -> Nat]
      /\ k.invested = [h.invested EXCEPT ![line.who] = h.invested[line.who] + x]
  <2>1. PICK N, f, p : N = ToSet(s.seats) /\ f = h.invested /\ p = line.who
    OBVIOUS
  <2>2. f \in [N -> Nat] /\ p \in N /\ x \in Nat
    BY <1>0, <1>4, <2>1
  <2>3. f[p] + x \in Nat
    BY <2>2
  <2>4. [f EXCEPT ![p] = f[p] + x] \in [N -> Nat]
    BY <2>2, <2>3
  <2>q. QED BY <1>0, <1>3, <2>1, <2>4 DEF Pays
<1>6. Means(line.kind, line.amount, line.to, h.contributions[line.who], x)
  BY <1>2 DEF Means
<1>7. HasCounted(RunOf(k.names, k.actions), SumFunction(k.invested)) /\ SameStreet(RunOf(k.names, k.actions), k)
  <2>1. k.street = h.street
    BY <1>1 DEF Frame
  <2>2. PICK who, kind, to : who = line.who /\ kind = line.kind /\ to = line.to
    OBVIOUS
  <2>3. who \in ToSet(s.seats) /\ x \in Int /\ x \in Nat /\ to \in Int
    BY <1>4, <2>2
  <2>4. /\ Notes(h, k, ToSet(s.seats), who, kind, x, to) /\ Pays(h, k, who, x)
        /\ Means(kind, x, to, h.contributions[who], x)
    BY <1>1, <1>3, <1>6, <2>2
  <2>q. QED BY <1>0, <1>1, <2>1, <2>3, <2>4, PaidCounts
<1>8. AtBlinds(s, k)
  <2>1. RunOf(k.names, k.actions).pot = SumFunction(k.invested)
    BY <1>7 DEF HasCounted
  <2>2. k.won = Nothing(ToSet(s.seats)) /\ ~k.summary /\ k.street = "preflop"
    BY <1>1, <1>3 DEF AtBlinds, Frame, Pays
  <2>q. QED BY <1>1, <1>5, <1>7, <2>1, <2>2 DEF AtBlinds
<1>q. QED BY <1>5, <1>7, <1>8

LEMMA DealtRead ==
  ASSUME NEW g, GameOK(g), NEW sb, NEW bb, BlindsPosted(g, sb, bb),
         NEW k, k = ReadAll(NewHand(g.setup, Button(g.setup), BigBlind), g.lines)
  PROVE  k \in Hands(g.setup) /\ Follows(g, k)
<1>1. PICK s, N, h : s = g.setup /\ N = ToSet(s.seats) /\ h = NewHand(s, Button(s), BigBlind)
  OBVIOUS
<1>2. s \in Setups /\ Seated(g) = N /\ IsFiniteSet(N) /\ g.bet \in [N -> Nat]
  BY <1>1, SetupFacts DEF GameOK, Seated
<1>3. /\ h \in Hands(s) /\ h.names = N /\ h.invested = Nothing(N) /\ h.won = Nothing(N)
      /\ h.contributions = Nothing(N) /\ h.street = "preflop" /\ ~h.summary /\ h.actions = <<>>
  BY <1>1, <1>2, NewHandIs
<1>4. PICK l, m : /\ g.lines = <<l, m, [t |-> "dealt", who |-> Hero], Section("preflop")>>
                  /\ PostedBy(l, g, sb, "post_small_blind") /\ PostedBy(m, g, bb, "post_big_blind")
  BY DEF BlindsPosted
<1>5. PICK d, c : d = [t |-> "dealt", who |-> Hero] /\ c = Section("preflop")
  OBVIOUS
<1>6. /\ l \in ActLines(N) /\ m \in ActLines(N) /\ d \in DealtLines /\ c \in SectionLines /\ c.street = "preflop"
  <2>1. l \in ActLines(N) /\ m \in ActLines(N)
    BY <1>2, <1>4 DEF PostedBy
  <2>2. d \in DealtLines
    BY <1>5 DEF DealtLines
  <2>3. "preflop" \in Sections
    <3>1. ToSet(Streets) = {"preflop", "flop", "turn", "river"}
      BY DEF ToSet, Streets
    <3>q. QED BY <3>1 DEF Sections
  <2>4. c \in SectionLines /\ c.street = "preflop"
    BY <1>5, <2>3 DEF Section, SectionLines
  <2>q. QED BY <2>1, <2>2, <2>4
<1>7. PICK lines : lines = g.lines
  OBVIOUS
<1>8. /\ lines \in Seq(Lines(N)) /\ Len(lines) = 4
      /\ lines[1] = l /\ lines[2] = m /\ lines[3] = d /\ lines[4] = c
  <2>1. lines = <<l, m, d, c>>
    BY <1>4, <1>5, <1>7
  <2>2. l \in Lines(N) /\ m \in Lines(N) /\ d \in Lines(N) /\ c \in Lines(N)
    BY <1>6 DEF Lines
  <2>q. QED BY <2>1, <2>2
<1>9. PICK v : IsReading(v, s, h, lines)
  BY <1>1, <1>2, <1>3, <1>8, Readings
<1>10. /\ v[0] = h /\ v[1] = Read(h, l) /\ v[2] = Read(v[1], m) /\ v[3] = Read(v[2], d) /\ v[4] = Read(v[3], c)
       /\ k = v[4]
  <2>1. /\ v[0] = h /\ \A i \in 1 .. 4 : v[i] = Read(v[i - 1], lines[i])
        /\ ReadAll(h, lines) = v[4]
    BY <1>8, <1>9 DEF IsReading
  <2>2. v[1] = Read(v[0], lines[1]) /\ v[2] = Read(v[1], lines[2]) /\ v[3] = Read(v[2], lines[3]) /\ v[4] = Read(v[3], lines[4])
    BY <2>1
  <2>q. QED BY <1>1, <1>7, <1>8, <2>1, <2>2
<1>11. /\ RunOf(h.names, h.actions).pot = SumFunction(h.invested) /\ SameStreet(RunOf(h.names, h.actions), h)
  <2>1. PICK w : IsCount(w, N, h.actions)
    BY <1>1, <1>2, <1>3, HandIs, CountsRun
  <2>2. RunOf(N, h.actions) = StartOfRun(N)
    BY <1>3, <2>1 DEF IsCount
  <2>3. SumFunction(h.invested) = 0
    <3>1. PICK f : f = h.invested
      OBVIOUS
    <3>2. DOMAIN f = N /\ Tables(f, N) /\ \A x \in N : f[x] = 0
      BY <1>3, <3>1 DEF Nothing, Tables
    <3>3. Sum(f, N) = 0
      BY <1>2, <3>2, SumZero
    <3>q. QED BY <3>1, <3>2, <3>3, SumOfFunction
  <2>4. StartOfRun(N).pot = 0 /\ StartOfRun(N).put = h.contributions /\ StartOfRun(N).street = NoStreet
    BY <1>3 DEF StartOfRun
  <2>5. NoStreet \notin Later(h.street)
    <3>1. Later("preflop") = {"flop", "turn", "river"}
      BY DEF Later
    <3>2. NoStreet \notin {"flop", "turn", "river"}
      BY Zenon DEF NoStreet
    <3>q. QED BY <1>3, <3>1, <3>2
  <2>6. h.street \notin BoardStreets
    BY <1>3 DEF BoardStreets
  <2>q. QED BY <1>3, <2>2, <2>3, <2>4, <2>5, <2>6 DEF SameStreet
<1>21. AtBlinds(s, h)
  <2>1. h.invested \in [N -> Nat] /\ h.invested = h.contributions
    BY <1>3 DEF Nothing
  <2>q. QED BY <1>1, <1>3, <1>11, <2>1 DEF AtBlinds
<1>12. AtBlinds(s, v[1]) /\ v[1].invested = [h.invested EXCEPT ![sb] = h.invested[sb] + g.bet[sb]]
  <2>1. l.who = sb /\ l.amount = g.bet[sb] /\ l.kind \in Posts /\ g.bet[sb] \in Nat
    BY <1>2, <1>4 DEF PostedBy, Posts, BlindsPosted
  <2>q. QED BY <1>1, <1>2, <1>6, <1>10, <1>21, <2>1, BlindRead
<1>13. /\ AtBlinds(s, v[2]) /\ v[2].invested = [v[1].invested EXCEPT ![bb] = v[1].invested[bb] + g.bet[bb]]
       /\ HasCounted(RunOf(v[2].names, v[2].actions), SumFunction(v[2].invested))
  <2>1. m.who = bb /\ m.amount = g.bet[bb] /\ m.kind \in Posts /\ g.bet[bb] \in Nat
    BY <1>2, <1>4 DEF PostedBy, Posts, BlindsPosted
  <2>q. QED BY <1>1, <1>2, <1>6, <1>10, <1>12, <2>1, BlindRead
<1>22. /\ v[2] \in Hands(s) /\ v[2].won = Nothing(N) /\ ~v[2].summary /\ v[2].street = "preflop"
       /\ v[2].invested = v[2].contributions /\ v[2].invested \in [N -> Nat]
       /\ SameStreet(RunOf(v[2].names, v[2].actions), v[2])
  BY <1>1, <1>13 DEF AtBlinds
<1>14. v[2].invested = g.bet
  <2>1. sb \in N /\ bb \in N /\ sb # bb /\ \A p \in N \ {sb, bb} : g.bet[p] = 0
    BY <1>2 DEF BlindsPosted
  <2>2. PICK f1, f2, b : f1 = v[1].invested /\ f2 = v[2].invested /\ b = g.bet
    OBVIOUS
  <2>3. f1 = [[p \in N |-> 0] EXCEPT ![sb] = 0 + b[sb]] /\ b \in [N -> Nat]
    BY <1>2, <1>3, <1>12, <2>1, <2>2 DEF Nothing
  <2>4. f2 = [f1 EXCEPT ![bb] = f1[bb] + b[bb]]
    BY <1>13, <2>2
  <2>5. \A p \in N : f2[p] = b[p]
    BY <2>1, <2>2, <2>3, <2>4
  <2>6. f2 \in [N -> Nat]
    BY <1>22, <2>2
  <2>q. QED BY <2>2, <2>3, <2>5, <2>6
<1>15. v[3] \in Hands(s) /\ Frame(v[2], v[3]) /\ Untouched(v[2], v[3]) /\ v[3].actions = v[2].actions
  BY <1>2, <1>6, <1>10, <1>22, ReadDealt
<1>16. /\ k \in Hands(s) /\ k.invested = v[3].invested /\ k.won = v[3].won /\ k.actions = v[3].actions
       /\ k.street = "preflop" /\ k.summary = (FALSE \/ v[3].summary)
       /\ k.contributions = v[3].contributions
  <2>1. /\ k \in Hands(s) /\ k.invested = v[3].invested /\ k.won = v[3].won /\ k.actions = v[3].actions
        /\ k.street = IF c.street = "summary" THEN v[3].street ELSE c.street
        /\ k.summary = (c.street = "summary" \/ v[3].summary)
        /\ k.contributions = IF c.street \in BoardStreets /\ c.street # v[3].street
                             THEN Nothing(v[3].names) ELSE v[3].contributions
    BY <1>2, <1>6, <1>10, <1>15, ReadSection
  <2>2. c.street # "summary" /\ c.street \notin BoardStreets
    BY <1>6 DEF BoardStreets
  <2>q. QED BY <1>6, <2>1, <2>2
<1>17. k.names = N /\ v[2].names = N
  BY <1>1, <1>2, <1>16, <1>22, HandIs
<1>18. ~k.summary
  BY <1>15, <1>16, <1>22 DEF Frame
<1>19. HasCounted(RunOf(k.names, k.actions), SumFunction(g.paid)) /\ SameStreet(RunOf(k.names, k.actions), k)
  <2>1. RunOf(k.names, k.actions) = RunOf(v[2].names, v[2].actions)
    BY <1>15, <1>16, <1>17
  <2>2. v[2].invested = g.paid
    BY <1>14 DEF BlindsPosted
  <2>3. k.street = v[2].street /\ k.contributions = v[2].contributions
    BY <1>15, <1>16, <1>22 DEF Untouched
  <2>q. QED BY <1>13, <1>17, <1>22, <2>1, <2>2, <2>3 DEF SameStreet
<1>20. k.invested = g.paid /\ k.contributions = g.bet /\ k.won = Nothing(Seated(g)) /\ k.street = g.street
  BY <1>2, <1>14, <1>15, <1>16, <1>22 DEF Untouched, BlindsPosted
<1>q. QED BY <1>1, <1>16, <1>18, <1>19, <1>20 DEF Follows

-----------------------------------------------------------------------------
(* The end of the hand, part by part                                       *)

LEMMA ReadOn ==
  ASSUME NEW s \in Setups, NEW h \in Hands(s),
         NEW a \in Seq(Lines(ToSet(s.seats))), NEW b \in Seq(Lines(ToSet(s.seats)))
  PROVE  ReadAll(h, a) \in Hands(s) /\ ReadAll(h, a \o b) = ReadAll(ReadAll(h, a), b)
<1>1. PICK L, c, m, n : L = Lines(ToSet(s.seats)) /\ c = a \o b /\ m = Len(a) /\ n = Len(b)
  OBVIOUS
<1>2. /\ m \in Nat /\ n \in Nat /\ c \in Seq(L) /\ Len(c) = m + n
      /\ \A i \in 1 .. m : c[i] = a[i]
      /\ \A i \in 1 .. n : c[m + i] = b[i]
  BY <1>1
<1>3. PICK u : IsReading(u, s, h, a)
  BY Readings
<1>4. PICK v : IsReading(v, s, h, c)
  BY <1>1, <1>2, Readings
<1>5. /\ u \in [0 .. m -> Hands(s)] /\ u[0] = h /\ ReadAll(h, a) = u[m]
      /\ \A k \in 1 .. m : u[k] = Read(u[k - 1], a[k])
  BY <1>1, <1>3 DEF IsReading
<1>6. u[m] \in Hands(s)
  BY <1>2, <1>5
<1>7. PICK w : IsReading(w, s, u[m], b)
  BY <1>6, Readings
<1>8. /\ v[0] = h /\ ReadAll(h, c) = v[m + n]
      /\ \A k \in 1 .. m + n : v[k] = Read(v[k - 1], c[k])
  BY <1>1, <1>2, <1>4 DEF IsReading
<1>9. /\ w[0] = u[m] /\ ReadAll(u[m], b) = w[n]
      /\ \A k \in 1 .. n : w[k] = Read(w[k - 1], b[k])
  BY <1>1, <1>7 DEF IsReading
<1> DEFINE P == {k \in 0 .. m : v[k] = u[k]}
           Q == {k \in 0 .. n : v[m + k] = w[k]}
<1>10. \A k \in 0 .. m : k \in P
  <2>1. 0 \in P
    BY <1>2, <1>5, <1>8
  <2>2. ASSUME NEW k \in 1 .. m, k - 1 \in P PROVE k \in P
    <3>1. k \in 1 .. m + n /\ k \in 0 .. m
      BY <1>2
    <3>q. QED BY <1>2, <1>5, <1>8, <2>2, <3>1
  <2> HIDE DEF P
  <2>q. QED BY <1>2, <2>1, <2>2, UpTo
<1>11. v[m] = u[m]
  BY <1>2, <1>10
<1>12. \A k \in 0 .. n : k \in Q
  <2>1. 0 \in Q
    BY <1>2, <1>9, <1>11
  <2>2. ASSUME NEW k \in 1 .. n, k - 1 \in Q PROVE k \in Q
    <3>1. m + k \in 1 .. m + n /\ (m + k) - 1 = m + (k - 1) /\ k \in 0 .. n
      BY <1>2
    <3>2. v[m + k] = Read(v[m + (k - 1)], c[m + k])
      BY <1>8, <3>1
    <3>3. v[m + (k - 1)] = w[k - 1]
      BY <2>2
    <3>q. QED BY <1>2, <1>9, <3>1, <3>2, <3>3
  <2> HIDE DEF Q
  <2>q. QED BY <1>2, <2>1, <2>2, UpTo
<1>13. v[m + n] = w[n]
  BY <1>2, <1>12
<1>q. QED BY <1>1, <1>5, <1>6, <1>8, <1>9, <1>13

\* What every line of a part keeps, the part keeps.
LEMMA ReadPart ==
  ASSUME NEW s \in Setups, NEW X \in SUBSET Lines(ToSet(s.seats)), NEW part \in Seq(X),
         NEW P \in SUBSET Hands(s), \A k \in P, line \in X : Read(k, line) \in P,
         NEW h \in P
  PROVE  ReadAll(h, part) \in P
<1>1. part \in Seq(Lines(ToSet(s.seats)))
  OBVIOUS
<1>2. PICK v : IsReading(v, s, h, part)
  BY <1>1, Readings
<1>3. PICK n : n = Len(part)
  OBVIOUS
<1>4. n \in Nat /\ \A i \in 1 .. n : part[i] \in X
  BY <1>3
<1>5. /\ v[0] = h /\ ReadAll(h, part) = v[n]
      /\ \A k \in 1 .. n : v[k] = Read(v[k - 1], part[k])
  BY <1>2, <1>3 DEF IsReading
<1> DEFINE Q == {k \in 0 .. n : v[k] \in P}
<1>6. 0 \in Q
  BY <1>4, <1>5
<1>7. ASSUME NEW k \in 1 .. n, k - 1 \in Q PROVE k \in Q
  <2>1. v[k] = Read(v[k - 1], part[k]) /\ part[k] \in X /\ v[k - 1] \in P /\ k \in 0 .. n
    BY <1>4, <1>5, <1>7
  <2>q. QED BY <2>1
<1>8. \A k \in 0 .. n : k \in Q
  <2> HIDE DEF Q
  <2>q. QED BY <1>4, <1>6, <1>7, UpTo
<1>9. n \in Q
  <2> HIDE DEF Q
  <2>q. QED BY <1>4, <1>8
<1>q. QED BY <1>5, <1>9

CollectLines(names) == {line \in ActLines(names) : line.kind = "collect"}
QuietLines(names) == SectionLines \cup {line \in ActLines(names) : line.kind \in {"show", "muck"}}
TrueSeats(names, won) == {line \in SeatLines(names) : line.won = won[line.who]}

\* What is read after the last bet.
Closing(s, h, paid, won, total) ==
    /\ h \in Hands(s) /\ h.invested = paid /\ h.won = won
    /\ HasCounted(RunOf(h.names, h.actions), total)

LEMMA QuietRead ==
  ASSUME NEW s \in Setups, NEW paid, NEW won, NEW total \in Nat, NEW h, Closing(s, h, paid, won, total),
         NEW line \in QuietLines(ToSet(s.seats)), NEW k, k = Read(h, line)
  PROVE  Closing(s, k, paid, won, total)
<1>1. h \in Hands(s) /\ h.invested = paid /\ h.won = won /\ HasCounted(RunOf(h.names, h.actions), total)
  BY DEF Closing
<1>2. CASE line \in SectionLines
  <2>1. k \in Hands(s) /\ k.invested = h.invested /\ k.won = h.won /\ k.actions = h.actions
    BY <1>1, <1>2, ReadSection
  <2>2. k.names = h.names
    BY <1>1, <2>1, HandIs
  <2>q. QED BY <1>1, <2>1, <2>2 DEF Closing
<1>3. CASE line \in ActLines(ToSet(s.seats)) /\ line.kind \in {"show", "muck"}
  <2>1. /\ k \in Hands(s) /\ Applied(h, k, line)
        /\ Notes(h, k, ToSet(s.seats), line.who, line.kind, line.amount, line.to)
    BY <1>1, <1>3, ReadAct
  <2>2. Untouched(h, k)
    BY <1>3, <2>1 DEF Applied, PutsChips, Posts
  <2>3. k.names = h.names
    BY <1>1, <2>1, HandIs
  <2>4. line.who \in ToSet(s.seats) /\ line.amount \in Int /\ line.to \in Int
    BY <1>3 DEF ActLines
  <2>5. HasCounted(RunOf(k.names, k.actions), total)
    BY <1>1, <1>3, <2>1, <2>3, <2>4, QuietCounts
  <2>q. QED BY <1>1, <2>1, <2>2, <2>5 DEF Closing, Untouched
<1>q. QED BY <1>2, <1>3 DEF QuietLines

LEMMA QuietPart ==
  ASSUME NEW s \in Setups, NEW paid, NEW won, NEW total \in Nat, NEW h, Closing(s, h, paid, won, total),
         NEW part \in Seq(QuietLines(ToSet(s.seats)))
  PROVE  Closing(s, ReadAll(h, part), paid, won, total)
<1>1. PICK P, X : /\ P = {k \in Hands(s) : Closing(s, k, paid, won, total)}
                  /\ X = QuietLines(ToSet(s.seats))
  OBVIOUS
<1>2. P \in SUBSET Hands(s) /\ h \in P
  BY <1>1 DEF Closing
<1>3. X \in SUBSET Lines(ToSet(s.seats)) /\ part \in Seq(X)
  BY <1>1 DEF QuietLines, Lines
<1>4. ASSUME NEW k \in P, NEW line \in X PROVE Read(k, line) \in P
  <2>1. Closing(s, k, paid, won, total) /\ line \in QuietLines(ToSet(s.seats))
    BY <1>1
  <2>2. Closing(s, Read(k, line), paid, won, total)
    BY <2>1, QuietRead
  <2>q. QED BY <1>1, <2>2 DEF Closing
<1>5. ReadAll(h, part) \in P
  BY <1>2, <1>3, <1>4, ReadPart
<1>q. QED BY <1>1, <1>5

LEMMA CollectRead ==
  ASSUME NEW s \in Setups, NEW paid, NEW won, NEW total \in Nat, NEW h, Closing(s, h, paid, won, total),
         NEW line \in CollectLines(ToSet(s.seats)), NEW k, k = Read(h, line)
  PROVE  Closing(s, k, paid, [won EXCEPT ![line.who] = won[line.who] + line.amount], total)
<1>1. h \in Hands(s) /\ h.invested = paid /\ h.won = won /\ HasCounted(RunOf(h.names, h.actions), total)
  BY DEF Closing
<1>2. /\ line \in ActLines(ToSet(s.seats)) /\ line.kind = "collect"
      /\ line.who \in ToSet(s.seats) /\ line.amount \in Int /\ line.to \in Int
  BY DEF CollectLines, ActLines
<1>3. /\ k \in Hands(s) /\ Applied(h, k, line)
      /\ Notes(h, k, ToSet(s.seats), line.who, line.kind, line.amount, line.to)
  BY <1>1, <1>2, ReadAct
<1>4. Wins(h, k, line.who, line.amount)
  BY <1>2, <1>3 DEF Applied, PutsChips, Posts
<1>5. k.names = h.names
  BY <1>1, <1>3, HandIs
<1>6. HasCounted(RunOf(k.names, k.actions), total)
  BY <1>1, <1>2, <1>3, <1>5, QuietCounts
<1>q. QED BY <1>1, <1>3, <1>4, <1>6 DEF Closing, Wins

\* The pot has been read too.
Summed(s, h, paid, won, total) == Closing(s, h, paid, won, total) /\ h.summary /\ h.pot = total

LEMMA SeatRead ==
  ASSUME NEW s \in Setups, NEW paid, NEW won \in [ToSet(s.seats) -> Int], NEW total \in Nat,
         NEW h, Summed(s, h, paid, won, total),
         NEW line \in TrueSeats(ToSet(s.seats), won), NEW k, k = Read(h, line)
  PROVE  Summed(s, k, paid, won, total)
<1>0. Closing(s, h, paid, won, total) /\ h.summary /\ h.pot = total
  BY DEF Summed
<1>1. h \in Hands(s) /\ h.invested = paid /\ h.won = won /\ HasCounted(RunOf(h.names, h.actions), total)
  BY <1>0 DEF Closing
<1>2. line \in SeatLines(ToSet(s.seats)) /\ line.who \in ToSet(s.seats) /\ line.won = won[line.who]
  BY DEF TrueSeats, SeatLines
<1>3. /\ k \in Hands(s) /\ Frame(h, k) /\ k.invested = h.invested /\ k.actions = h.actions
      /\ \/ k.won = h.won
         \/ h.won[line.who] = 0 /\ k.won = [h.won EXCEPT ![line.who] = line.won]
  BY <1>1, <1>2, ReadSeat
<1>4. k.won = won
  <2>1. CASE h.won[line.who] = 0 /\ k.won = [h.won EXCEPT ![line.who] = line.won]
    BY <1>1, <1>2, <2>1
  <2>q. QED BY <1>1, <1>3, <2>1
<1>5. k.names = h.names
  BY <1>1, <1>3, HandIs
<1>6. Closing(s, k, paid, won, total)
  BY <1>1, <1>3, <1>4, <1>5 DEF Closing, Frame
<1>7. k.summary /\ k.pot = total
  BY <1>0, <1>3 DEF Frame
<1>q. QED BY <1>6, <1>7 DEF Summed

LEMMA SeatsPart ==
  ASSUME NEW s \in Setups, NEW paid, NEW won \in [ToSet(s.seats) -> Int], NEW total \in Nat,
         NEW h, Summed(s, h, paid, won, total),
         NEW part \in Seq(TrueSeats(ToSet(s.seats), won))
  PROVE  Summed(s, ReadAll(h, part), paid, won, total)
<1>1. PICK P, X : /\ P = {j \in Hands(s) : Summed(s, j, paid, won, total)}
                  /\ X = TrueSeats(ToSet(s.seats), won)
  OBVIOUS
<1>2. P \in SUBSET Hands(s) /\ h \in P
  BY <1>1 DEF Summed, Closing
<1>3. X \in SUBSET Lines(ToSet(s.seats)) /\ part \in Seq(X)
  BY <1>1 DEF TrueSeats, Lines
<1>4. ASSUME NEW j \in P, NEW line \in X PROVE Read(j, line) \in P
  <2>1. Summed(s, j, paid, won, total) /\ line \in TrueSeats(ToSet(s.seats), won)
    BY <1>1
  <2>2. Summed(s, Read(j, line), paid, won, total)
    BY <2>1, SeatRead
  <2>q. QED BY <1>1, <2>2 DEF Summed, Closing
<1>5. ReadAll(h, part) \in P
  BY <1>2, <1>3, <1>4, ReadPart
<1>q. QED BY <1>1, <1>5

LEMMA SummaryRead ==
  ASSUME NEW s \in Setups, NEW paid, NEW won, NEW total \in Nat, NEW h, Closing(s, h, paid, won, total),
         NEW part, part = <<Section("summary"), [t |-> "total", pot |-> total]>>, NEW k, k = ReadAll(h, part)
  PROVE  Summed(s, k, paid, won, total)
<1>1. h \in Hands(s) /\ h.invested = paid /\ h.won = won /\ HasCounted(RunOf(h.names, h.actions), total)
  BY DEF Closing
<1>2. PICK a, b : a = Section("summary") /\ b = [t |-> "total", pot |-> total]
  OBVIOUS
<1>3. a \in SectionLines /\ a.street = "summary" /\ b \in TotalLines /\ b.pot = total
  BY <1>2 DEF Section, SectionLines, TotalLines
<1>4. /\ part \in Seq(Lines(ToSet(s.seats))) /\ Len(part) = 2 /\ part[1] = a /\ part[2] = b
  <2>1. a \in Lines(ToSet(s.seats)) /\ b \in Lines(ToSet(s.seats))
    BY <1>3 DEF Lines
  <2>2. part = <<a, b>>
    BY <1>2
  <2>q. QED BY <2>1, <2>2
<1>5. PICK v : IsReading(v, s, h, part)
  BY <1>1, <1>4, Readings
<1>6. v[1] = Read(h, a) /\ k = Read(v[1], b)
  <2>1. v[0] = h /\ (\A i \in 1 .. 2 : v[i] = Read(v[i - 1], part[i])) /\ ReadAll(h, part) = v[2]
    BY <1>4, <1>5 DEF IsReading
  <2>2. v[1] = Read(v[0], part[1]) /\ v[2] = Read(v[1], part[2])
    BY <2>1
  <2>q. QED BY <1>4, <2>1, <2>2
<1>7. /\ v[1] \in Hands(s) /\ v[1].invested = h.invested /\ v[1].won = h.won /\ v[1].actions = h.actions
      /\ v[1].summary = (a.street = "summary" \/ h.summary)
  BY <1>1, <1>3, <1>6, ReadSection
<1>8. /\ k \in Hands(s) /\ Untouched(v[1], k) /\ k.actions = v[1].actions
      /\ k.summary = v[1].summary /\ k.pot = b.pot
  BY <1>3, <1>6, <1>7, ReadTotal
<1>9. k.names = h.names
  BY <1>1, <1>8, HandIs
<1>10. k.summary
  BY <1>3, <1>7, <1>8
<1>11. Closing(s, k, paid, won, total)
  BY <1>1, <1>7, <1>8, <1>9 DEF Closing, Untouched
<1>q. QED BY <1>3, <1>8, <1>10, <1>11 DEF Summed

-----------------------------------------------------------------------------
(* What the collections add up to                                          *)

\* What each player collects, and the amounts that are collected.
Givens(names, lines) == [p \in names |-> Given(lines, p)]
Amounts(lines) == [i \in DOMAIN lines |-> lines[i].amount]

\* F tells what the n lines of a part pay.
Tells(F, n, part, names) ==
    /\ n \in Nat /\ F \in [1 .. n -> Int] /\ DOMAIN part = 1 .. n
    /\ \A i \in 1 .. n : part[i].who \in names /\ F[i] = part[i].amount /\ part[i] \in CollectLines(names)
    /\ IsFiniteSet(1 .. n)
    /\ \A T \in SUBSET (1 .. n) : IsFiniteSet(T) /\ Tables(F, T) /\ Sum(F, T) \in Int
    /\ \A p : Given(part, p) = Sum(F, {i \in 1 .. n : part[i].who = p})

LEMMA AmountsAre ==
  ASSUME NEW names, NEW part \in Seq(CollectLines(names)), NEW F, F = Amounts(part), NEW n, n = Len(part)
  PROVE  Tells(F, n, part, names)
<1>1. n \in Nat /\ DOMAIN part = 1 .. n /\ \A i \in 1 .. n : part[i] \in CollectLines(names)
  OBVIOUS
<1>2. \A i \in 1 .. n : part[i].who \in names /\ part[i].amount \in Int
  BY <1>1 DEF CollectLines, ActLines
<1>3. F \in [1 .. n -> Int] /\ \A i \in 1 .. n : F[i] = part[i].amount
  BY <1>1, <1>2 DEF Amounts
<1>4. IsFiniteSet(1 .. n)
  BY <1>1, FS_Interval
<1>5. ASSUME NEW T \in SUBSET (1 .. n) PROVE IsFiniteSet(T) /\ Tables(F, T) /\ Sum(F, T) \in Int
  <2>1. IsFiniteSet(T)
    BY <1>4, FS_Subset
  <2>2. Tables(F, T)
    BY <1>3 DEF Tables
  <2>q. QED BY <2>1, <2>2, SumStep
<1>6. ASSUME NEW p PROVE Given(part, p) = Sum(F, {i \in 1 .. n : part[i].who = p})
  <2>1. PICK T, G : T = {i \in 1 .. n : part[i].who = p} /\ G = [i \in T |-> part[i].amount]
    OBVIOUS
  <2>2. Given(part, p) = SumFunction(G)
    BY <1>1, <2>1 DEF Given
  <2>3. SumFunction(G) = Sum(G, T)
    BY <2>1, SumOfFunction
  <2>4. T \in SUBSET (1 .. n) /\ \A i \in T : G[i] = F[i]
    BY <1>3, <2>1
  <2>5. Tables(G, T)
    BY <1>2, <2>1, <2>4 DEF Tables
  <2>6. Sum(G, T) = Sum(F, T)
    BY <1>5, <2>4, <2>5, SumSame
  <2>q. QED BY <2>1, <2>2, <2>3, <2>6
<1>q. QED BY <1>1, <1>2, <1>3, <1>4, <1>5, <1>6 DEF Tells

LEMMA CollectsPart ==
  ASSUME NEW s \in Setups, NEW paid, NEW total \in Nat, NEW h, Closing(s, h, paid, Nothing(ToSet(s.seats)), total),
         NEW part \in Seq(CollectLines(ToSet(s.seats)))
  PROVE  Closing(s, ReadAll(h, part), paid, Givens(ToSet(s.seats), part), total)
<1>1. PICK N, F, n : N = ToSet(s.seats) /\ F = Amounts(part) /\ n = Len(part)
  OBVIOUS
<1>2. /\ n \in Nat /\ F \in [1 .. n -> Int] /\ DOMAIN part = 1 .. n
      /\ \A i \in 1 .. n : part[i].who \in N /\ F[i] = part[i].amount /\ part[i] \in CollectLines(N)
      /\ IsFiniteSet(1 .. n)
      /\ \A T \in SUBSET (1 .. n) : IsFiniteSet(T) /\ Tables(F, T) /\ Sum(F, T) \in Int
      /\ \A p : Given(part, p) = Sum(F, {i \in 1 .. n : part[i].who = p})
  <2>1. Tells(F, n, part, N)
    BY <1>1, AmountsAre
  <2>q. QED BY <2>1 DEF Tells
<1>3. part \in Seq(Lines(N)) /\ h \in Hands(s)
  BY <1>1 DEF CollectLines, Lines, Closing
<1>4. PICK v : IsReading(v, s, h, part)
  BY <1>1, <1>3, Readings
<1>5. /\ v[0] = h /\ ReadAll(h, part) = v[n]
      /\ \A k \in 1 .. n : v[k] = Read(v[k - 1], part[k])
  BY <1>1, <1>4 DEF IsReading
<1> DEFINE Mine(k, p) == {i \in 1 .. k : part[i].who = p}
           W(k) == [p \in N |-> Sum(F, Mine(k, p))]
           Q == {k \in 0 .. n : Closing(s, v[k], paid, W(k), total)}
<1>6. 0 \in Q
  <2>1. Sum(F, {}) = 0
    BY <1>2, {} \in SUBSET (1 .. n), SumStep
  <2>2. \A p \in N : Mine(0, p) = {}
    OBVIOUS
  <2>3. W(0) = Nothing(N)
    BY <2>1, <2>2 DEF Nothing
  <2>q. QED BY <1>1, <1>2, <1>5, <2>3
<1>7. ASSUME NEW k \in 1 .. n, k - 1 \in Q PROVE k \in Q
  <2>1. PICK w, line : w = W(k - 1) /\ line = part[k]
    OBVIOUS
  <2>2. Closing(s, v[k - 1], paid, w, total) /\ line \in CollectLines(ToSet(s.seats)) /\ v[k] = Read(v[k - 1], line)
    BY <1>1, <1>2, <1>5, <1>7, <2>1
  <2>3. Closing(s, v[k], paid, [w EXCEPT ![line.who] = w[line.who] + line.amount], total)
    <3> HIDE DEF Q, W
    <3>1. PICK a, b : a = v[k - 1] /\ b = v[k]
      OBVIOUS
    <3>2. Closing(s, a, paid, w, total) /\ b = Read(a, line) /\ line \in CollectLines(ToSet(s.seats))
      BY <2>2, <3>1
    <3>3. Closing(s, b, paid, [w EXCEPT ![line.who] = w[line.who] + line.amount], total)
      BY <3>2, CollectRead
    <3>q. QED BY <3>1, <3>3
  <2>4. k \in 0 .. n /\ line.who \in N /\ line.amount = F[k] /\ F[k] \in Int
    BY <1>2, <2>1
  <2>5. ASSUME NEW p \in N, p # line.who PROVE Mine(k, p) = Mine(k - 1, p)
    BY <1>2, <2>1, <2>5
  <2>6. k \in Mine(k, line.who) /\ Mine(k, line.who) \ {k} = Mine(k - 1, line.who) /\ Mine(k, line.who) \in SUBSET (1 .. n)
    BY <1>2, <2>1
  <2>7. Sum(F, Mine(k, line.who)) = F[k] + Sum(F, Mine(k - 1, line.who)) /\ Sum(F, Mine(k - 1, line.who)) \in Int
    <3>1. PICK A, B : A = Mine(k, line.who) /\ B = Mine(k - 1, line.who)
      OBVIOUS
    <3>2. k \in A /\ A \ {k} = B /\ A \in SUBSET (1 .. n)
      BY <2>6, <3>1
    <3>3. IsFiniteSet(A) /\ Tables(F, A) /\ B \in SUBSET (1 .. n)
      BY <1>2, <3>2
    <3>4. Sum(F, A) = F[k] + Sum(F, B)
      BY <3>2, <3>3, SumStep
    <3>q. QED BY <1>2, <3>1, <3>3, <3>4
  <2>8. W(k) = [w EXCEPT ![line.who] = w[line.who] + line.amount]
    <3>1. ASSUME NEW p \in N PROVE W(k)[p] = [w EXCEPT ![line.who] = w[line.who] + line.amount][p]
      <4>0. PICK W1, W2, c : W1 = W(k)[p] /\ W2 = w[p] /\ c = line.who
        OBVIOUS
      <4>1. W1 = Sum(F, Mine(k, p)) /\ W2 = Sum(F, Mine(k - 1, p)) /\ DOMAIN w = N
        BY <2>1, <4>0
      <4>2. CASE p = c
        <5>1. W1 = W2 + F[k]
          <6> HIDE DEF Mine, W, Q
          <6>q. QED BY <2>4, <2>7, <4>0, <4>1, <4>2
        <5> HIDE DEF Mine, W, Q
        <5>q. QED BY <2>4, <4>0, <4>1, <4>2, <5>1
      <4>3. CASE p # c
        <5>1. W1 = W2
          <6>1. Mine(k, p) = Mine(k - 1, p)
            BY <2>5, <4>0, <4>3
          <6> HIDE DEF Mine, W, Q
          <6>q. QED BY <4>1, <6>1
        <5> HIDE DEF Mine, W, Q
        <5>q. QED BY <2>4, <4>0, <4>1, <4>3, <5>1
      <4>q. QED BY <4>2, <4>3
    <3>2. DOMAIN w = N
      BY <2>1
    <3> HIDE DEF Mine
    <3>q. QED BY <3>1, <3>2
  <2>q. QED BY <2>3, <2>4, <2>8
<1>8. \A k \in 0 .. n : k \in Q
  <2> HIDE DEF Q
  <2>q. QED BY <1>2, <1>6, <1>7, UpTo
<1>9. Closing(s, v[n], paid, W(n), total)
  <2>1. n \in Q
    <3> HIDE DEF Q
    <3>q. QED BY <1>2, <1>8
  <2>q. QED BY <2>1
<1>10. W(n) = Givens(N, part)
  BY <1>2 DEF Givens
<1>q. QED BY <1>1, <1>5, <1>9, <1>10

\* Every collection is some player's.
LEMMA GivenInAll ==
  ASSUME NEW names, IsFiniteSet(names), NEW part \in Seq(CollectLines(names))
  PROVE  /\ Givens(names, part) \in [names -> Int]
         /\ SumFunction(Givens(names, part)) = Sum(Amounts(part), DOMAIN part)
<1>1. PICK F, n : F = Amounts(part) /\ n = Len(part)
  OBVIOUS
<1>2. /\ n \in Nat /\ F \in [1 .. n -> Int] /\ DOMAIN part = 1 .. n
      /\ \A i \in 1 .. n : part[i].who \in names
      /\ IsFiniteSet(1 .. n)
      /\ \A T \in SUBSET (1 .. n) : IsFiniteSet(T) /\ Tables(F, T) /\ Sum(F, T) \in Int
      /\ \A p : Given(part, p) = Sum(F, {i \in 1 .. n : part[i].who = p})
  <2>1. Tells(F, n, part, names)
    BY <1>1, AmountsAre
  <2>q. QED BY <2>1 DEF Tells
<1>3. PICK key : key = [i \in 1 .. n |-> part[i].who]
  OBVIOUS
<1>4. PICK g : g = [p \in names |-> Sum(F, {i \in 1 .. n : key[i] = p})]
  OBVIOUS
<1>5. g = Givens(names, part)
  <2>1. \A p \in names : {i \in 1 .. n : key[i] = p} = {i \in 1 .. n : part[i].who = p}
    BY <1>3
  <2>q. QED BY <1>2, <1>4, <2>1 DEF Givens
<1>6. Sum(g, names) = Sum(F, 1 .. n)
  <2>0. PICK S : S = 1 .. n
    OBVIOUS
  <2>1. IsFiniteSet(S) /\ Tables(F, S) /\ \A x \in S : key[x] \in names
    BY <1>2, <1>3, <2>0
  <2>2. Sum([p \in names |-> Sum(F, {x \in S : key[x] = p})], names) = Sum(F, S)
    BY <2>1, SumOfParts
  <2>q. QED BY <1>4, <2>0, <2>2
<1>7. SumFunction(g) = Sum(g, names)
  BY <1>4, SumOfFunction
<1>8. g \in [names -> Int]
  <2>1. \A p \in names : {i \in 1 .. n : key[i] = p} \in SUBSET (1 .. n)
    OBVIOUS
  <2>q. QED BY <1>2, <1>4, <2>1
<1>q. QED BY <1>1, <1>2, <1>5, <1>6, <1>7, <1>8

-----------------------------------------------------------------------------
(* One pot after the other                                                 *)

\* A flattening, part by part.
IsFlattening(v, X, parts) ==
    /\ v \in [0 .. Len(parts) -> Seq(X)]
    /\ v[0] = <<>>
    /\ \A k \in 1 .. Len(parts) : v[k] = v[k - 1] \o parts[k]
    /\ FlattenSeq(parts) = v[Len(parts)]

LEMMA Flattenings ==
  ASSUME NEW X, NEW parts \in Seq(Seq(X)), Len(parts) > 0
  PROVE  \E v : IsFlattening(v, X, parts)
<1>1. PICK m : m = Len(parts)
  OBVIOUS
<1>2. m \in Nat \ {0} /\ DOMAIN parts = 1 .. m /\ \A i \in 1 .. m : parts[i] \in Seq(X)
  BY <1>1
<1> DEFINE Eq(fl) == fl = [i \in 1 .. Len(parts) |-> IF i = 1 THEN parts[i] ELSE fl[i - 1] \o parts[i]]
<1>3. PICK A : A = Seq(X)
  OBVIOUS
<1>4. PICK Op : Op = [p \in (1 .. m) \X A |-> p[2] \o parts[p[1]]]
  OBVIOUS
<1>5. \A i \in 1 .. m, a \in A : Op[<<i, a>>] = a \o parts[i] /\ Op[<<i, a>>] \in A
  <2>1. ASSUME NEW i \in 1 .. m, NEW a \in A PROVE a \o parts[i] \in A
    <3>1. PICK b : b = parts[i]
      OBVIOUS
    <3>2. a \in Seq(X) /\ b \in Seq(X)
      BY <1>2, <1>3, <3>1
    <3>3. a \o b \in Seq(X)
      BY <3>2
    <3>q. QED BY <1>3, <3>1, <3>3
  <2>2. ASSUME NEW i \in 1 .. m, NEW a \in A PROVE Op[<<i, a>>] = a \o parts[i]
    BY <1>4
  <2>q. QED BY <2>1, <2>2
<1>6. <<>> \in A /\ m \in Nat
  BY <1>2, <1>3
<1>7. PICK iter \in [SUBSET (1 .. m) -> A] : LeftEq(iter, m, <<>>, Op)
  BY <1>5, <1>6, LeftExists
<1>8. LeftSolved(iter, m, A, <<>>, Op)
  <2>1. iter[{}] = <<>>
    BY <1>7 DEF LeftEq
  <2>2. ASSUME NEW T \in SUBSET (1 .. m), T # {} PROVE iter[T] = Op[<<Max(T), iter[T \ {Max(T)}]>>]
    BY <1>7, <2>2 DEF LeftEq
  <2>q. QED BY <2>1, <2>2 DEF LeftSolved
<1>9. PICK v : LeftRun(v, iter, m, A, <<>>, Op)
  BY <1>5, <1>6, <1>8, LeftSteps
<1>10. /\ v \in [0 .. m -> A] /\ v[0] = <<>> /\ \A k \in 1 .. m : v[k] = v[k - 1] \o parts[k]
  <2>1. v \in [0 .. m -> A] /\ v[0] = <<>> /\ \A k \in 1 .. m : v[k] = Op[<<k, v[k - 1]>>]
    BY <1>9 DEF LeftRun
  <2>2. ASSUME NEW k \in 1 .. m PROVE v[k - 1] \in A
    BY <1>2, <2>1, k - 1 \in 0 .. m
  <2>q. QED BY <1>5, <2>1, <2>2
<1>11. \E fl : Eq(fl)
  <2>1. PICK fl : fl = [i \in 1 .. m |-> v[i]]
    OBVIOUS
  <2>2. ASSUME NEW i \in 1 .. m PROVE fl[i] = IF i = 1 THEN parts[i] ELSE fl[i - 1] \o parts[i]
    <3>1. fl[i] = v[i - 1] \o parts[i]
      BY <1>10, <2>1
    <3>2. CASE i = 1
      <4>1. v[i - 1] = <<>> /\ parts[i] \in Seq(X)
        BY <1>2, <1>10, <3>2
      <4>q. QED BY <3>1, <3>2, <4>1
    <3>3. CASE i # 1
      <4>1. i - 1 \in 1 .. m
        BY <1>2, <3>3
      <4>q. QED BY <2>1, <3>1, <3>3, <4>1
    <3>q. QED BY <3>2, <3>3
  <2>3. Eq(fl)
    BY <1>1, <2>1, <2>2
  <2> HIDE DEF Eq
  <2>q. QED BY <2>3
<1>12. PICK fl : fl = CHOOSE f : Eq(f)
  OBVIOUS
<1>13. Eq(fl)
  BY <1>11, <1>12
<1>14. FlattenSeq(parts) = fl[m]
  BY <1>1, <1>2, <1>12 DEF FlattenSeq
<1> DEFINE Q == {i \in 0 .. m : i # 0 => fl[i] = v[i]}
<1>15. 0 \in Q
  BY <1>2
<1>16. ASSUME NEW i \in 1 .. m, i - 1 \in Q PROVE i \in Q
  <2>1. fl[i] = IF i = 1 THEN parts[i] ELSE fl[i - 1] \o parts[i]
    BY <1>1, <1>13
  <2>2. v[i] = v[i - 1] \o parts[i]
    BY <1>10
  <2>3. CASE i = 1
    <3>1. v[i - 1] = <<>> /\ parts[i] \in Seq(X)
      BY <1>2, <1>10, <2>3
    <3>2. v[i] = parts[i]
      BY <2>2, <3>1
    <3>q. QED BY <1>2, <2>1, <2>3, <3>2
  <2>4. CASE i # 1
    <3>1. fl[i - 1] = v[i - 1]
      BY <1>16, <2>4
    <3>2. fl[i] = fl[i - 1] \o parts[i]
      BY <2>1, <2>4
    <3>3. fl[i] = v[i]
      BY Zenon, <2>2, <3>1, <3>2
    <3>q. QED BY <1>2, <3>3
  <2>q. QED BY <2>3, <2>4
<1>17. fl[m] = v[m]
  <2>1. \A i \in 0 .. m : i \in Q
    <3> HIDE DEF Q
    <3>q. QED BY <1>2, <1>15, <1>16, UpTo
  <2>2. m \in Q
    <3> HIDE DEF Q
    <3>q. QED BY <1>2, <2>1
  <2>q. QED BY <1>2, <2>2
<1>18. IsFlattening(v, X, parts)
  BY <1>1, <1>3, <1>10, <1>14, <1>17 DEF IsFlattening
<1>q. QED BY <1>18

\* How much the lines of a part collect.
Worth(lines) == Sum(Amounts(lines), DOMAIN lines)

LEMMA WorthOfTwo ==
  ASSUME NEW names, NEW a \in Seq(CollectLines(names)), NEW b \in Seq(CollectLines(names))
  PROVE  /\ Worth(a) \in Int /\ Worth(b) \in Int
         /\ Worth(a \o b) = Worth(a) + Worth(b)
<1>1. PICK c, F, G, H, m, n : /\ c = a \o b /\ F = Amounts(a) /\ G = Amounts(b) /\ H = Amounts(c)
                              /\ m = Len(a) /\ n = Len(b)
  OBVIOUS
<1>2. /\ c \in Seq(CollectLines(names)) /\ Len(c) = m + n /\ m \in Nat /\ n \in Nat
      /\ (\A i \in 1 .. m : c[i] = a[i]) /\ \A i \in 1 .. n : c[m + i] = b[i]
  BY <1>1
<1>3. /\ F \in [1 .. m -> Int] /\ DOMAIN a = 1 .. m /\ \A i \in 1 .. m : F[i] = a[i].amount
      /\ \A T \in SUBSET (1 .. m) : IsFiniteSet(T) /\ Tables(F, T) /\ Sum(F, T) \in Int
  <2>1. Tells(F, m, a, names)
    BY <1>1, AmountsAre
  <2>q. QED BY <2>1 DEF Tells
<1>4. /\ G \in [1 .. n -> Int] /\ DOMAIN b = 1 .. n /\ \A i \in 1 .. n : G[i] = b[i].amount
      /\ \A T \in SUBSET (1 .. n) : IsFiniteSet(T) /\ Tables(G, T) /\ Sum(G, T) \in Int
  <2>1. Tells(G, n, b, names)
    BY <1>1, AmountsAre
  <2>q. QED BY <2>1 DEF Tells
<1>5. PICK l : l = m + n
  OBVIOUS
<1>6. /\ H \in [1 .. l -> Int] /\ DOMAIN c = 1 .. l /\ \A i \in 1 .. l : H[i] = c[i].amount
      /\ \A T \in SUBSET (1 .. l) : IsFiniteSet(T) /\ Tables(H, T) /\ Sum(H, T) \in Int
  <2>1. l = Len(c) /\ c \in Seq(CollectLines(names)) /\ H = Amounts(c)
    BY <1>1, <1>2, <1>5
  <2>2. Tells(H, l, c, names)
    BY <2>1, AmountsAre
  <2>q. QED BY <2>2 DEF Tells
<1> DEFINE Q == {k \in 0 .. n : Sum(H, 1 .. m + k) = Sum(F, 1 .. m) + Sum(G, 1 .. k)}
<1>7. 0 \in Q
  <2>1. PICK T : T = 1 .. m
    OBVIOUS
  <2>2. IsFiniteSet(T) /\ Tables(F, T) /\ Tables(H, T) /\ Sum(F, T) \in Int
    BY <1>2, <1>3, <1>5, <1>6, <2>1, T \in SUBSET (1 .. m), T \in SUBSET (1 .. l)
  <2>3. \A i \in T : H[i] = F[i]
    <3>1. ASSUME NEW i \in 1 .. m PROVE H[i] = F[i]
      BY <1>2, <1>3, <1>5, <1>6, i \in 1 .. l
    <3>q. QED BY <2>1, <3>1
  <2>4. Sum(H, T) = Sum(F, T)
    BY <2>2, <2>3, SumSame
  <2>5. Sum(G, {}) = 0 /\ 1 .. 0 = {}
    BY <1>4, {} \in SUBSET (1 .. n), SumStep
  <2>6. 1 .. m + 0 = T /\ 0 \in 0 .. n
    BY <1>2, <2>1
  <2>q. QED BY <2>1, <2>2, <2>4, <2>5, <2>6
<1>8. ASSUME NEW k \in 1 .. n, k - 1 \in Q PROVE k \in Q
  <2>1. PICK A, B, C, D : A = 1 .. m + k /\ B = 1 .. m + (k - 1) /\ C = 1 .. k /\ D = 1 .. k - 1
    OBVIOUS
  <2>0. PICK z : z = m + k
    OBVIOUS
  <2>2. m + k \in A /\ A \ {m + k} = B /\ A \in SUBSET (1 .. l) /\ B \in SUBSET (1 .. l)
    <3>1. z \in Nat /\ z >= 1 /\ z =< l /\ l \in Nat /\ m + (k - 1) = z - 1
      BY <1>2, <1>5, <2>0
    <3>2. A = 1 .. z /\ B = 1 .. z - 1
      BY <2>0, <2>1, <3>1
    <3>3. z \in A /\ A \ {z} = B
      BY <3>1, <3>2
    <3>4. A \in SUBSET (1 .. l) /\ B \in SUBSET (1 .. l)
      BY <3>1, <3>2
    <3>q. QED BY <2>0, <3>3, <3>4
  <2>3. k \in C /\ C \ {k} = D /\ C \in SUBSET (1 .. n) /\ D \in SUBSET (1 .. n)
    BY <1>2, <2>1
  <2>4. Sum(H, A) = H[m + k] + Sum(H, B)
    <3>1. IsFiniteSet(A) /\ Tables(H, A)
      BY <1>6, <2>2
    <3>q. QED BY <2>2, <3>1, SumStep
  <2>5. Sum(G, C) = G[k] + Sum(G, D)
    <3>1. IsFiniteSet(C) /\ Tables(G, C)
      BY <1>4, <2>3
    <3>q. QED BY <2>3, <3>1, SumStep
  <2>6. H[m + k] = G[k] /\ G[k] \in Int
    BY <1>2, <1>4, <1>5, <1>6, m + k \in 1 .. l
  <2>7. Sum(H, B) = Sum(F, 1 .. m) + Sum(G, D)
    BY <1>8, <2>1
  <2>8. Sum(H, B) \in Int /\ Sum(G, D) \in Int /\ Sum(F, 1 .. m) \in Int
    BY <1>3, <1>4, <1>6, <2>2, <2>3, 1 .. m \in SUBSET (1 .. m)
  <2>9. Sum(H, A) = Sum(F, 1 .. m) + Sum(G, C)
    BY <2>4, <2>5, <2>6, <2>7, <2>8
  <2>q. QED BY <2>1, <2>9
<1>9. n \in Q
  <2>1. \A k \in 0 .. n : k \in Q
    <3> HIDE DEF Q
    <3>q. QED BY <1>2, <1>7, <1>8, UpTo
  <2> HIDE DEF Q
  <2>q. QED BY <1>2, <2>1
<1>10. Worth(c) = Sum(H, 1 .. l) /\ Worth(a) = Sum(F, 1 .. m) /\ Worth(b) = Sum(G, 1 .. n)
  BY <1>1, <1>3, <1>4, <1>6 DEF Worth
<1>11. Worth(a) \in Int /\ Worth(b) \in Int
  BY <1>3, <1>4, <1>10, 1 .. m \in SUBSET (1 .. m), 1 .. n \in SUBSET (1 .. n)
<1>q. QED BY <1>1, <1>5, <1>9, <1>10, <1>11

\* The pots together are worth what was put in up to the last level.
LEMMA FlattenedWorth ==
  ASSUME NEW names, NEW parts \in Seq(Seq(CollectLines(names))), Len(parts) > 0,
         NEW level \in [0 .. Len(parts) -> Int], level[0] = 0,
         \A i \in 1 .. Len(parts) : Worth(parts[i]) = level[i] - level[i - 1]
  PROVE  /\ FlattenSeq(parts) \in Seq(CollectLines(names))
         /\ Worth(FlattenSeq(parts)) = level[Len(parts)]
<1>1. PICK X, m : X = CollectLines(names) /\ m = Len(parts)
  OBVIOUS
<1>2. m \in Nat /\ \A i \in 1 .. m : parts[i] \in Seq(X)
  BY <1>1
<1>3. PICK v : IsFlattening(v, X, parts)
  BY <1>1, Flattenings
<1>4. /\ v \in [0 .. m -> Seq(X)] /\ v[0] = <<>> /\ FlattenSeq(parts) = v[m]
      /\ \A k \in 1 .. m : v[k] = v[k - 1] \o parts[k]
  BY <1>1, <1>3 DEF IsFlattening
<1> DEFINE Q == {k \in 0 .. m : Worth(v[k]) = level[k]}
<1>5. 0 \in Q
  <2>1. PICK F : F = Amounts(<<>>)
    OBVIOUS
  <2>2. DOMAIN <<>> = {} /\ Tables(F, {})
    BY <2>1 DEF Amounts, Tables
  <2>3. Sum(F, {}) = 0
    BY <2>2, FS_EmptySet, SumStep
  <2>q. QED BY <1>2, <1>4, <2>1, <2>2, <2>3 DEF Worth
<1>6. ASSUME NEW k \in 1 .. m, k - 1 \in Q PROVE k \in Q
  <2>1. PICK a, b : a = v[k - 1] /\ b = parts[k]
    OBVIOUS
  <2>2. a \in Seq(X) /\ b \in Seq(X) /\ k - 1 \in 0 .. m /\ k \in 0 .. m
    BY <1>2, <1>4, <2>1
  <2>3. Worth(a) = level[k - 1] /\ Worth(b) = level[k] - level[k - 1] /\ v[k] = a \o b
    BY <1>1, <1>4, <1>6, <2>1
  <2>4. Worth(a \o b) = Worth(a) + Worth(b)
    BY <1>1, <2>2, WorthOfTwo
  <2>5. level[k] \in Int /\ level[k - 1] \in Int
    BY <1>1, <2>2
  <2>6. Worth(a \o b) = level[k]
    BY <2>3, <2>4, <2>5
  <2>q. QED BY <2>2, <2>3, <2>6
<1>7. m \in Q
  <2>1. \A k \in 0 .. m : k \in Q
    <3> HIDE DEF Q
    <3>q. QED BY <1>2, <1>5, <1>6, UpTo
  <2> HIDE DEF Q
  <2>q. QED BY <1>2, <2>1
<1>q. QED BY <1>1, <1>2, <1>4, <1>7

-----------------------------------------------------------------------------
(* The pots                                                                *)

Beneath(S, x) == {y \in S : y < x}

\* The k-th smallest number exists, and every number is the k-th smallest for some k.
LEMMA NthIs ==
  ASSUME NEW S \in SUBSET Int, IsFiniteSet(S), NEW n, n = Cardinality(S)
  PROVE  /\ n \in Nat
         /\ \A k \in 1 .. n : Nth(S, k) \in S
         /\ \A x \in S : n > 0 => x =< Nth(S, n)
<1>1. n \in Nat
  BY FS_CardinalityType
<1>2. PICK r : r = [x \in S |-> Cardinality(Beneath(S, x)) + 1]
  OBVIOUS
<1>3. ASSUME NEW x \in S
      PROVE  /\ IsFiniteSet(Beneath(S, x)) /\ Cardinality(Beneath(S, x)) \in 0 .. n - 1
  <2>1. PICK E : E = Beneath(S, x)
    OBVIOUS
  <2>2. E \in SUBSET S /\ x \notin E
    BY <2>1 DEF Beneath
  <2>3. IsFiniteSet(E) /\ Cardinality(E) \in Nat /\ Cardinality(E) =< n /\ n # Cardinality(E)
    BY <2>2, FS_Subset, FS_CardinalityType
  <2>q. QED BY <1>1, <2>1, <2>3
<1>4. r \in [S -> 1 .. n]
  BY <1>1, <1>2, <1>3
<1>5. ASSUME NEW x \in S, NEW y \in S, x < y PROVE r[x] < r[y]
  <2>1. PICK E, D : E = Beneath(S, x) /\ D = Beneath(S, y)
    OBVIOUS
  <2>2. E \in SUBSET D /\ x \in D /\ x \notin E
    <3>1. x \in Int /\ y \in Int /\ E = {z \in S : z < x} /\ D = {z \in S : z < y}
      BY <2>1 DEF Beneath
    <3>2. ASSUME NEW z \in E PROVE z \in D
      <4>1. z \in Int /\ z \in S /\ z < x
        BY <3>1
      <4>q. QED BY <1>5, <3>1, <4>1
    <3>3. x \in D /\ x \notin E
      BY <1>5, <3>1
    <3>q. QED BY <3>2, <3>3
  <2>3. IsFiniteSet(D) /\ Cardinality(D) \in Nat /\ Cardinality(E) \in Nat
    BY <1>3, <2>1
  <2>4. Cardinality(E) =< Cardinality(D) /\ Cardinality(D) # Cardinality(E)
    BY <2>2, <2>3, FS_Subset
  <2>5. r[x] = Cardinality(E) + 1 /\ r[y] = Cardinality(D) + 1
    BY <1>2, <2>1
  <2>q. QED BY <2>3, <2>4, <2>5
<1>6. \A x, y \in S : r[x] = r[y] => x = y
  <2>1. ASSUME NEW x \in S, NEW y \in S, r[x] = r[y] PROVE x = y
    <3>1. x \in Int /\ y \in Int /\ r[x] \in Int
      BY <1>4
    <3>2. ~(x < y) /\ ~(y < x)
      BY <1>5, <2>1, <3>1
    <3>q. QED BY <3>1, <3>2
  <2>q. QED BY <2>1
<1>7. r \in Injection(S, 1 .. n)
  BY <1>4, <1>6 DEF Injection, IsInjective
<1>8. IsFiniteSet(1 .. n) /\ Cardinality(1 .. n) = n
  BY <1>1, FS_Interval
<1>9. r \in Surjection(S, 1 .. n)
  BY <1>1, <1>7, <1>8, FS_Injection
<1>10. \A k \in 1 .. n : \E x \in S : r[x] = k
  BY <1>9 DEF Surjection
<1>11. ASSUME NEW k \in 1 .. n PROVE Nth(S, k) \in S /\ r[Nth(S, k)] = k
  <2>1. PICK x \in S : r[x] = k
    BY <1>10
  <2>2. Cardinality(Beneath(S, x)) = k - 1
    BY <1>1, <1>2, <1>3, <2>1
  <2>3. PICK z : z = Nth(S, k)
    OBVIOUS
  <2>4. z \in S /\ Cardinality(Beneath(S, z)) = k - 1
    BY <2>2, <2>3 DEF Nth, Beneath
  <2>q. QED BY <1>1, <1>2, <2>3, <2>4
<1>12. ASSUME NEW x \in S, n > 0 PROVE x =< Nth(S, n)
  <2>0. PICK z : z = Nth(S, n)
    OBVIOUS
  <2>1. z \in S /\ r[z] = n
    BY <1>1, <1>11, <1>12, <2>0
  <2>2. r[x] \in 1 .. n
    BY <1>4
  <2>3. ~(z < x)
    <3>1. z < x => r[z] < r[x]
      BY <1>5, <2>1
    <3>q. QED BY <1>1, <2>1, <2>2, <3>1
  <2>4. z \in Int /\ x \in Int
    BY <2>1
  <2>q. QED BY <2>0, <2>3, <2>4
<1>q. QED BY <1>1, <1>11, <1>12

LEMMA InSeatOrderIs ==
  ASSUME NEW g, GameOK(g), NEW set \in SUBSET Seated(g), NEW o, o = InSeatOrder(g, set)
  PROVE  o \in Seq(set) /\ Len(o) \in 0 .. 3 /\ (set # {} => Len(o) \in 1 .. 3)
<1>1. PICK seats, n, at, m : /\ seats = g.setup.seats /\ n = Len(seats)
                             /\ at = {i \in DOMAIN seats : seats[i] \in set} /\ m = Cardinality(at)
  OBVIOUS
<1>2. /\ n \in {2, 3} /\ DOMAIN seats = 1 .. n
      /\ \A p \in Seated(g) : \E i \in 1 .. n : seats[i] = p
  <2>1. g.setup \in Setups
    BY DEF GameOK
  <2>2. seats \in Seq(ToSet(seats)) /\ n \in {2, 3} /\ \A p \in ToSet(seats) : \E i \in 1 .. n : seats[i] = p
    BY <1>1, <2>1, SetupFacts
  <2>3. DOMAIN seats = 1 .. n
    BY <1>1, <2>2
  <2>q. QED BY <1>1, <2>2, <2>3 DEF Seated
<1>3. at \in SUBSET (1 .. n) /\ at \in SUBSET Int
  BY <1>1, <1>2
<1>4. IsFiniteSet(at) /\ m \in Nat /\ m =< n
  <2>1. IsFiniteSet(1 .. n) /\ Cardinality(1 .. n) = n
    <3>1. n \in Nat
      BY <1>2
    <3>q. QED BY <3>1, FS_Interval
  <2>q. QED BY <1>1, <1>3, <2>1, FS_Subset, FS_CardinalityType
<1>5. \A k \in 1 .. m : Nth(at, k) \in at
  BY <1>1, <1>3, <1>4, NthIs
<1>6. o = [k \in 1 .. m |-> seats[Nth(at, k)]]
  BY <1>1 DEF InSeatOrder
<1>7. \A k \in 1 .. m : o[k] \in set
  BY <1>1, <1>5, <1>6
<1>8. o \in Seq(set) /\ Len(o) = m
  BY <1>4, <1>6, <1>7
<1>9. ASSUME set # {} PROVE m # 0
  <2>1. PICK p \in set : TRUE
    BY <1>9
  <2>2. PICK i \in 1 .. n : seats[i] = p
    BY <1>2
  <2>3. at # {}
    BY <1>1, <1>2, <2>2
  <2>q. QED BY <1>1, <1>4, <2>3, FS_EmptySet
<1>q. QED BY <1>2, <1>4, <1>8, <1>9

\* Somebody has the best hand.
LEMMA SomeoneWins ==
  ASSUME NEW S, IsFiniteSet(S), S # {}, NEW f \in [S -> Int]
  PROVE  {p \in S : \A q \in S : f[p] <= f[q]} # {}
<1>1. PICK minus : minus = [p \in S |-> -f[p]]
  OBVIOUS
<1>2. minus \in [S -> Int]
  BY <1>1
<1>3. PICK x \in S : \A y \in S : minus[y] =< minus[x]
  BY <1>2, MaxOfFinite
<1>4. ASSUME NEW y \in S PROVE f[x] <= f[y]
  <2>1. minus[y] =< minus[x] /\ minus[y] = -f[y] /\ minus[x] = -f[x] /\ f[x] \in Int /\ f[y] \in Int
    BY <1>1, <1>3
  <2>q. QED BY <2>1
<1>q. QED BY <1>3, <1>4

\* The shares of a pot are the pot.
LEMMA SharesAre ==
  ASSUME NEW g, GameOK(g), NEW pot, pot.chips \in Int, pot.for \in SUBSET Seated(g), pot.for # {},
         NEW strength \in [Seated(g) -> Int], NEW shares, shares = Shares(g, pot, strength)
  PROVE  shares \in Seq(CollectLines(Seated(g))) /\ Worth(shares) = pot.chips
<1>1. PICK N, c, best, o, n : /\ N = Seated(g) /\ c = pot.chips
                              /\ best = {p \in pot.for : \A q \in pot.for : strength[p] <= strength[q]}
                              /\ o = InSeatOrder(g, best) /\ n = Len(o)
  OBVIOUS
<1>2. best \in SUBSET N /\ best # {}
  <2>1. PICK S, f : S = pot.for /\ f = [p \in S |-> strength[p]]
    OBVIOUS
  <2>2. IsFiniteSet(S) /\ S # {} /\ f \in [S -> Int]
    BY <2>1, SeatedFacts, FS_Subset
  <2>3. {p \in S : \A q \in S : f[p] <= f[q]} # {}
    BY <2>2, SomeoneWins
  <2>4. best = {p \in S : \A q \in S : f[p] <= f[q]}
    BY <1>1, <2>1
  <2>q. QED BY <1>1, <2>3, <2>4
<1>3. o \in Seq(best) /\ n \in 1 .. 3
  BY <1>1, <1>2, InSeatOrderIs
<1>4. PICK x : x = [i \in 1 .. n |-> (c \div n) + (IF i = 1 THEN c % n ELSE 0)]
  OBVIOUS
<1>5. c \in Int /\ x \in [1 .. n -> Int]
  BY <1>1, <1>3, <1>4
<1>6. shares = [i \in 1 .. n |-> Act(o[i], "collect", x[i], 0, FALSE)]
  <2>1. shares = [i \in 1 .. n |-> Act(o[i], "collect", (c \div n) + (IF i = 1 THEN c % n ELSE 0), 0, FALSE)]
    BY <1>1 DEF Shares
  <2>q. QED BY <1>4, <2>1
<1>7. ASSUME NEW i \in 1 .. n
      PROVE  shares[i] \in CollectLines(N) /\ shares[i].amount = x[i]
  <2>1. o[i] \in N /\ x[i] \in Int
    BY <1>1, <1>2, <1>3, <1>5
  <2>2. PICK no \in BOOLEAN : no = FALSE
    OBVIOUS
  <2>3. PICK line : line = Act(o[i], "collect", x[i], 0, no)
    OBVIOUS
  <2>4. "collect" \in Kinds /\ 0 \in Int
    BY DEF Kinds
  <2>5. line \in ActLines(N) /\ line.kind = "collect" /\ line.amount = x[i]
    BY <2>1, <2>3, <2>4, ActIs
  <2>6. shares[i] = line
    BY <1>6, <2>2, <2>3
  <2>q. QED BY <2>5, <2>6 DEF CollectLines
<1>8. shares \in Seq(CollectLines(N)) /\ Len(shares) = n
  <2>1. n \in Nat /\ DOMAIN shares = 1 .. n
    BY <1>3, <1>6
  <2>2. shares = [i \in 1 .. n |-> shares[i]]
    BY <1>6
  <2>q. QED BY <1>7, <2>1, <2>2
<1>9. PICK F : F = Amounts(shares)
  OBVIOUS
<1>10. /\ DOMAIN shares = 1 .. n /\ \A i \in 1 .. n : F[i] = shares[i].amount
       /\ \A T \in SUBSET (1 .. n) : IsFiniteSet(T) /\ Tables(F, T) /\ Sum(F, T) \in Int
  <2>1. Tells(F, n, shares, N)
    BY <1>8, <1>9, AmountsAre
  <2>q. QED BY <2>1 DEF Tells
<1>11. \A i \in 1 .. n : F[i] = x[i]
  BY <1>7, <1>10
<1>12. Worth(shares) = Sum(F, 1 .. n)
  BY <1>9, <1>10 DEF Worth
<1>13. ASSUME NEW k \in 1 .. n PROVE Sum(F, 1 .. k) = x[k] + Sum(F, 1 .. k - 1)
  <2>1. PICK A : A = 1 .. k
    OBVIOUS
  <2>2. A \in SUBSET (1 .. n) /\ k \in A /\ A \ {k} = 1 .. k - 1
    <3>1. k \in Nat /\ k >= 1 /\ k =< n /\ n \in Nat
      BY <1>3
    <3>q. QED BY <2>1, <3>1
  <2>3. IsFiniteSet(A) /\ Tables(F, A)
    BY <1>10, <2>2
  <2>4. Sum(F, A) = F[k] + Sum(F, A \ {k})
    BY <2>2, <2>3, SumStep
  <2>q. QED BY <1>11, <2>1, <2>2, <2>4
<1>14. Sum(F, 1 .. 0) = 0
  <2>1. 1 .. 0 = {} /\ {} \in SUBSET (1 .. n)
    OBVIOUS
  <2>2. Sum(F, {}) = 0
    BY <1>10, <2>1, SumStep
  <2>q. QED BY <2>1, <2>2
<1>15. Sum(F, 1 .. 1) = (c \div n) + (c % n)
  <2>1. 1 \in 1 .. n
    BY <1>3
  <2>2. Sum(F, 1 .. 1) = x[1] + Sum(F, 1 .. 0)
    <3>1. Sum(F, 1 .. 1) = x[1] + Sum(F, 1 .. 1 - 1)
      BY <1>13, <2>1
    <3>2. 1 - 1 = 0
      OBVIOUS
    <3>q. QED BY <3>1, <3>2
  <2>3. x[1] = (c \div n) + (c % n) /\ x[1] \in Int
    BY <1>4, <1>5, <2>1
  <2>q. QED BY <1>14, <2>2, <2>3
<1>16. CASE n = 1
  <2>1. (c \div 1) + (c % 1) = c
    BY <1>5
  <2>q. QED BY <1>1, <1>8, <1>12, <1>15, <1>16, <2>1
<1>17. CASE n = 2
  <2>1. Sum(F, 1 .. 2) = x[2] + Sum(F, 1 .. 1) /\ x[2] = c \div 2
    BY <1>4, <1>5, <1>13, <1>17, 2 \in 1 .. n
  <2>2. (c \div 2) + ((c \div 2) + (c % 2)) = c
    BY <1>5
  <2>q. QED BY <1>1, <1>8, <1>12, <1>15, <1>17, <2>1, <2>2
<1>18. CASE n = 3
  <2>1. Sum(F, 1 .. 2) = x[2] + Sum(F, 1 .. 1) /\ x[2] = c \div 3
    BY <1>4, <1>5, <1>13, <1>18, 2 \in 1 .. n
  <2>2. Sum(F, 1 .. 3) = x[3] + Sum(F, 1 .. 2) /\ x[3] = c \div 3
    BY <1>4, <1>5, <1>13, <1>18, 3 \in 1 .. n
  <2>3. (c \div 3) + ((c \div 3) + ((c \div 3) + (c % 3))) = c
    BY <1>5
  <2>q. QED BY <1>1, <1>8, <1>12, <1>15, <1>18, <2>1, <2>2, <2>3
<1>q. QED BY <1>3, <1>16, <1>17, <1>18

LEMMA PaidSums ==
  ASSUME NEW g, GameOK(g), NEW f \in [Seated(g) -> Nat]
  PROVE  SumFunction(f) \in Nat
BY SeatedFacts, SumNat

LEMMA UpToLevelIs ==
  ASSUME NEW g, GameOK(g), NEW x \in Nat
  PROVE  /\ UpToLevel(g, x) \in Nat
         /\ (\A p \in Seated(g) : g.paid[p] =< x) => UpToLevel(g, x) = SumFunction(g.paid)
<1>1. PICK N, paid, f : N = Seated(g) /\ paid = g.paid /\ f = [p \in N |-> Min({paid[p], x})]
  OBVIOUS
<1>2. UpToLevel(g, x) = SumFunction(f)
  BY <1>1 DEF UpToLevel
<1>3. paid \in [N -> Nat]
  BY <1>1 DEF GameOK
<1>4. ASSUME NEW p \in N PROVE f[p] \in Nat /\ (paid[p] =< x => f[p] = paid[p])
  <2>1. PICK a : a = paid[p]
    OBVIOUS
  <2>2. a \in Nat /\ f[p] = Min({a, x})
    BY <1>1, <1>3, <2>1
  <2>3. Min({a, x}) \in Nat
    BY <2>2, MinOfTwo
  <2>4. ASSUME a =< x PROVE Min({a, x}) = a
    <3>1. {a, x} \in SUBSET Int /\ a \in {a, x} /\ \A y \in {a, x} : a =< y
      BY <2>2, <2>4
    <3>q. QED BY <3>1, LeastIs
  <2>q. QED BY <2>1, <2>2, <2>3, <2>4
<1>5. f \in [N -> Nat]
  BY <1>1, <1>4
<1>6. SumFunction(f) \in Nat
  BY <1>1, <1>5, PaidSums
<1>7. ASSUME \A p \in N : paid[p] =< x PROVE f = paid
  BY <1>1, <1>3, <1>4, <1>7
<1>q. QED BY <1>1, <1>2, <1>6, <1>7

\* The pots share out what was put in.
LEMMA PotsShared ==
  ASSUME NEW g, GameOK(g), NEW q \in Live(g), \A p \in Seated(g) : g.paid[p] =< g.paid[q],
         NEW strength \in [Seated(g) -> Int],
         NEW c, c = FlattenSeq([i \in DOMAIN Pots(g) |-> Shares(g, Pots(g)[i], strength)])
  PROVE  c \in Seq(CollectLines(Seated(g))) /\ Worth(c) = SumFunction(g.paid)
<1>1. PICK N, X, S, m, levels : /\ N = Seated(g) /\ X = CollectLines(N) /\ S = {g.paid[p] : p \in Live(g)}
                                /\ m = Cardinality(S) /\ levels = Levels(g)
  OBVIOUS
<1>2. g.paid \in [N -> Nat] /\ Live(g) \in SUBSET N /\ IsFiniteSet(Live(g))
  BY <1>1, SeatedFacts, FS_Subset DEF GameOK
<1>3. IsFiniteSet(S)
  <2>1. PICK f : f = [p \in Live(g) |-> g.paid[p]]
    OBVIOUS
  <2>2. f \in Surjection(Live(g), S)
    BY <1>1, <2>1 DEF Surjection
  <2>q. QED BY <1>2, <2>2, FS_Surjection
<1>4. S \in SUBSET Int /\ S \in SUBSET Nat /\ g.paid[q] \in S
  BY <1>1, <1>2
<1>5. m \in Nat /\ m > 0
  <2>1. m \in Nat /\ m # 0
    BY <1>1, <1>3, <1>4, FS_CardinalityType, FS_EmptySet
  <2>q. QED BY <2>1
<1>6. /\ \A k \in 1 .. m : Nth(S, k) \in S
      /\ \A x \in S : m > 0 => x =< Nth(S, m)
  BY <1>1, <1>3, <1>4, NthIs
<1>7. levels = [k \in 1 .. m |-> Nth(S, k)]
  BY <1>1 DEF Levels
<1>8. levels \in [1 .. m -> S] /\ g.paid[q] =< levels[m]
  <2>1. levels \in [1 .. m -> S]
    BY <1>6, <1>7
  <2>2. levels[m] = Nth(S, m)
    BY <1>5, <1>7
  <2>3. g.paid[q] =< Nth(S, m)
    BY <1>4, <1>5, <1>6
  <2>q. QED BY <2>1, <2>2, <2>3
<1>9. PICK level : level = [i \in 0 .. m |-> IF i = 0 THEN 0 ELSE UpToLevel(g, levels[i])]
  OBVIOUS
<1>10. level \in [0 .. m -> Int] /\ level[0] = 0 /\ \A i \in 1 .. m : level[i] = UpToLevel(g, levels[i])
  <2>1. ASSUME NEW i \in 1 .. m PROVE UpToLevel(g, levels[i]) \in Int
    <3>1. PICK x : x = levels[i]
      OBVIOUS
    <3>2. x \in Nat
      BY <1>4, <1>8, <3>1
    <3>q. QED BY <3>1, <3>2, UpToLevelIs
  <2>q. QED BY <1>5, <1>9, <2>1
<1>11. level[m] = SumFunction(g.paid)
  <2>1. PICK x : x = levels[m]
    OBVIOUS
  <2>2. x \in Nat
    BY <1>4, <1>5, <1>8, <2>1
  <2>3. \A p \in Seated(g) : g.paid[p] =< x
    <3>1. ASSUME NEW p \in Seated(g) PROVE g.paid[p] =< x
      <4>1. g.paid[p] \in Nat /\ g.paid[q] \in Nat /\ g.paid[p] =< g.paid[q] /\ g.paid[q] =< x
        BY <1>1, <1>2, <1>8, <2>1
      <4>q. QED BY <2>2, <4>1
    <3>q. QED BY <3>1
  <2>4. UpToLevel(g, x) = SumFunction(g.paid)
    BY <2>2, <2>3, UpToLevelIs
  <2>q. QED BY <1>5, <1>10, <2>1, <2>4
<1>12. DOMAIN Pots(g) = 1 .. m
  BY <1>1, <1>7 DEF Pots
<1>13. ASSUME NEW i \in 1 .. m
       PROVE  /\ Shares(g, Pots(g)[i], strength) \in Seq(X)
              /\ Worth(Shares(g, Pots(g)[i], strength)) = level[i] - level[i - 1]
  <2>1. PICK pot, shares : pot = Pots(g)[i] /\ shares = Shares(g, pot, strength)
    OBVIOUS
  <2>2. pot = [chips |-> UpToLevel(g, levels[i]) - (IF i = 1 THEN 0 ELSE UpToLevel(g, levels[i - 1])),
               for |-> {p \in Live(g) : g.paid[p] >= levels[i]}]
    BY <1>1, <1>7, <2>1 DEF Pots
  <2>3. pot.chips = level[i] - level[i - 1] /\ pot.chips \in Int
    <3>0. i \in 0 .. m /\ i - 1 \in 0 .. m
      BY <1>5
    <3>1. i \in 0 .. m /\ i - 1 \in 0 .. m /\ level[i] \in Int /\ level[i - 1] \in Int
      BY <1>10, <3>0
    <3>2. level[i - 1] = IF i = 1 THEN 0 ELSE UpToLevel(g, levels[i - 1])
      BY <1>9, <3>1
    <3>3. pot.chips = level[i] - level[i - 1]
      BY <1>10, <2>2, <3>2
    <3>q. QED BY <3>1, <3>3
  <2>4. pot.for \in SUBSET Seated(g) /\ pot.for # {}
    <3>1. pot.for = {p \in Live(g) : g.paid[p] >= levels[i]}
      BY <2>2
    <3>2. PICK p \in Live(g) : g.paid[p] = levels[i]
      BY <1>1, <1>8
    <3>3. g.paid[p] >= levels[i]
      BY <1>2, <3>2
    <3>q. QED BY <1>1, <1>2, <3>1, <3>3
  <2>5. shares \in Seq(CollectLines(Seated(g))) /\ Worth(shares) = pot.chips
    BY <2>1, <2>3, <2>4, SharesAre
  <2>q. QED BY <1>1, <2>1, <2>3, <2>5
<1>14. PICK parts : parts = [i \in DOMAIN Pots(g) |-> Shares(g, Pots(g)[i], strength)]
  OBVIOUS
<1>15. /\ parts \in Seq(Seq(X)) /\ Len(parts) = m
       /\ \A i \in 1 .. m : Worth(parts[i]) = level[i] - level[i - 1]
  <2>1. parts = [i \in 1 .. m |-> Shares(g, Pots(g)[i], strength)]
    BY <1>12, <1>14
  <2>2. \A i \in 1 .. m : parts[i] \in Seq(X) /\ Worth(parts[i]) = level[i] - level[i - 1]
    BY <1>13, <2>1
  <2>q. QED BY <1>5, <2>1, <2>2
<1>16. FlattenSeq(parts) \in Seq(X) /\ Worth(FlattenSeq(parts)) = level[m]
  BY <1>1, <1>5, <1>10, <1>15, FlattenedWorth
<1>q. QED BY <1>1, <1>11, <1>14, <1>16

\* What is given back, and to whom.
Refunds(g, r, p, x) ==
    /\ p \in Seated(g) /\ x \in Nat /\ x =< g.paid[p]
    /\ r.paid = [g.paid EXCEPT ![p] = g.paid[p] - x]
    /\ r.lines = <<[t |-> "uncalled", who |-> p, amount |-> x]>>
Settles(g, r) ==
    \/ r.paid = g.paid /\ r.lines = <<>>
    \/ \E p, x : Refunds(g, r, p, x)

LEMMA ReturnedIs ==
  ASSUME NEW g, GameOK(g), Betting(g), NEW r, r = Returned(g)
  PROVE  /\ GameOK(r) /\ Seated(r) = Seated(g) /\ Live(r) = Live(g)
         /\ r.setup = g.setup /\ r.street = g.street /\ r.flop = g.flop
         /\ \E q \in Live(r) : \A p \in Seated(r) : r.paid[p] =< r.paid[q]
         /\ Settles(g, r)
<1>1. PICK N, price, top, x : /\ N = Seated(g) /\ price = Price(g)
                              /\ top = CHOOSE p \in Seated(g) : g.bet[p] = Price(g)
                              /\ x = Uncalled(g)
  OBVIOUS
<1>2. /\ DOMAIN g = GameFields /\ g.bet \in [N -> Nat] /\ g.paid \in [N -> Nat]
      /\ \A p \in N : g.bet[p] =< g.paid[p]
  BY <1>1 DEF GameOK, Betting
<1>3. price \in Nat /\ top \in N /\ g.bet[top] = price /\ \A p \in N : g.bet[p] =< price
  BY <1>1, PriceIs
<1>4. PICK l \in Live(g) : Leads(g, l)
  BY DEF Betting
<1>5. l \in N /\ \A p \in N : g.bet[p] =< g.bet[l] /\ g.paid[p] =< g.paid[l]
  BY <1>1, <1>4 DEF Leads, Live
<1>6. CASE ~(g.setup.returns /\ x > 0)
  <2>1. r = [g EXCEPT !.lines = <<>>]
    BY <1>1, <1>6 DEF Returned
  <2>2. /\ DOMAIN r = GameFields /\ r.setup = g.setup /\ r.bet = g.bet /\ r.paid = g.paid /\ r.won = g.won
        /\ r.folded = g.folded /\ r.turn = g.turn /\ r.street = g.street /\ r.over = g.over /\ r.lines = <<>>
        /\ r.flop = g.flop
    BY <1>2, <2>1 DEF GameFields
  <2>3. Seated(r) = N /\ Live(r) = Live(g)
    BY <1>1, <2>2 DEF Seated, Live
  <2>4. GameOK(r)
    BY <1>1, <2>2, <2>3 DEF GameOK
  <2>5. Settles(g, r)
    BY <2>2 DEF Settles
  <2>6. l \in Live(r) /\ \A p \in Seated(r) : r.paid[p] =< r.paid[l]
    BY <1>5, <2>2, <2>3
  <2>q. QED BY <1>1, <2>2, <2>3, <2>4, <2>5, <2>6
<1>7. CASE g.setup.returns /\ x > 0
  <2>1. r = [g EXCEPT !.paid[top] = @ - x, !.bet[top] = @ - x,
                      !.lines = <<[t |-> "uncalled", who |-> top, amount |-> x]>>]
    BY <1>1, <1>7 DEF Returned
  <2>2. PICK rest : rest = N \ {top}
    OBVIOUS
  <2>3. rest # {} /\ IsFiniteSet(rest)
    <3>1. g.setup \in Setups
      BY DEF GameOK
    <3>2. PICK seats : seats = g.setup.seats
      OBVIOUS
    <3>3. 1 \in 1 .. Len(seats) /\ 2 \in 1 .. Len(seats) /\ seats[1] # seats[2] /\ \A i \in 1 .. Len(seats) : seats[i] \in N
      BY <1>1, <3>1, <3>2, SetupFacts DEF Seated
    <3>4. rest # {}
      BY <2>2, <3>3
    <3>q. QED BY <1>1, <2>2, <3>4, SeatedFacts, FS_Subset
  <2>4. PICK second : second = Max({g.bet[p] : p \in rest})
    OBVIOUS
  <2>5. second \in Nat /\ \A p \in rest : g.bet[p] =< second
    <3>1. PICK f : f = [p \in rest |-> g.bet[p]]
      OBVIOUS
    <3>2. f \in [rest -> Int] /\ \A p \in rest : f[p] = g.bet[p] /\ f[p] \in Nat
      BY <1>2, <2>2, <3>1
    <3>3. PICK z \in rest : Max({f[y] : y \in rest}) = f[z] /\ \A y \in rest : f[y] =< f[z]
      BY <2>3, <3>2, MaxOfFinite
    <3>4. {f[y] : y \in rest} = {g.bet[p] : p \in rest}
      BY <3>2
    <3>q. QED BY <2>4, <3>2, <3>3, <3>4
  <2>6. x = price - second
    BY <1>1, <2>2, <2>4 DEF Uncalled
  <2>7. x \in Nat /\ x =< price
    BY <1>3, <1>7, <2>5, <2>6
  <2>8. \A p \in N \ {top} : g.bet[p] =< price - x /\ g.bet[p] # price
    BY <1>2, <1>3, <1>7, <2>2, <2>5, <2>6
  <2>9. l = top
    <3>1. g.bet[l] = price
      BY <1>2, <1>3, <1>5
    <3>q. QED BY <1>5, <2>8, <3>1
  <2>10. ASSUME NEW p \in N, p # top PROVE g.paid[p] =< g.paid[top] - x
    <3>1. g.bet[top] > 0
      BY <1>3, <1>7, <2>7
    <3>2. g.paid[p] - g.bet[p] =< g.paid[top] - g.bet[top]
      BY <1>1, <1>3, <3>1 DEF Betting, Abreast
    <3>3. g.bet[p] =< price - x /\ g.bet[p] \in Nat /\ g.paid[p] \in Nat /\ g.paid[top] \in Nat
      BY <1>2, <1>3, <2>8, <2>10
    <3>q. QED BY <1>3, <2>7, <3>2, <3>3
  <2>11. g.paid[top] \in Nat /\ x =< g.paid[top] /\ g.paid[top] - x \in Nat /\ g.bet[top] - x \in Nat
    BY <1>2, <1>3, <2>7
  <2>12. PICK paid, bet, lines : /\ paid = [g.paid EXCEPT ![top] = g.paid[top] - x]
                                 /\ bet = [g.bet EXCEPT ![top] = g.bet[top] - x]
                                 /\ lines = <<[t |-> "uncalled", who |-> top, amount |-> x]>>
    OBVIOUS
  <2>13. r = [g EXCEPT !.paid = paid, !.bet = bet, !.lines = lines]
    BY <2>1, <2>12
  <2>14. /\ DOMAIN r = GameFields /\ r.setup = g.setup /\ r.bet = bet /\ r.paid = paid /\ r.won = g.won
         /\ r.folded = g.folded /\ r.turn = g.turn /\ r.street = g.street /\ r.over = g.over /\ r.lines = lines
         /\ r.flop = g.flop
    BY <1>2, <2>13 DEF GameFields
  <2>15. Seated(r) = N /\ Live(r) = Live(g)
    BY <1>1, <2>14 DEF Seated, Live
  <2>16. paid \in [N -> Nat] /\ bet \in [N -> Nat]
    BY <1>2, <1>3, <2>11, <2>12
  <2>17. GameOK(r)
    BY <1>1, <2>14, <2>15, <2>16 DEF GameOK
  <2>18. Refunds(g, r, top, x)
    BY <1>1, <1>3, <2>7, <2>11, <2>12, <2>14 DEF Refunds
  <2>19. l \in Live(r) /\ \A p \in Seated(r) : r.paid[p] =< r.paid[l]
    <3>1. ASSUME NEW p \in N PROVE paid[p] =< paid[top]
      <4>1. paid[top] = g.paid[top] - x /\ (p # top => paid[p] = g.paid[p])
        BY <1>2, <1>3, <2>12
      <4>q. QED BY <2>10, <2>11, <4>1
    <3>q. QED BY <2>9, <2>14, <2>15, <3>1
  <2>20. Settles(g, r)
    BY <2>18 DEF Settles
  <2>q. QED BY <1>1, <2>14, <2>15, <2>17, <2>19, <2>20
<1>q. QED BY <1>6, <1>7

LEMMA UncalledPart ==
  ASSUME NEW g, GameOK(g), NEW h \in Hands(g.setup), Follows(g, h),
         NEW r, GameOK(r), r.setup = g.setup, Settles(g, r),
         NEW total, total = SumFunction(r.paid), NEW k, k = ReadAll(h, r.lines)
  PROVE  Closing(g.setup, k, r.paid, Nothing(Seated(g)), total) /\ total \in Nat
<1>1. PICK s, N, before : s = g.setup /\ N = ToSet(s.seats) /\ before = SumFunction(g.paid)
  OBVIOUS
<1>2. /\ s \in Setups /\ Seated(g) = N /\ Seated(r) = N /\ h \in Hands(s) /\ h.names = N
      /\ g.paid \in [N -> Nat] /\ r.paid \in [N -> Nat] /\ IsFiniteSet(N)
  <2>1. s \in Setups /\ Seated(g) = N /\ Seated(r) = N /\ h \in Hands(s)
    BY <1>1 DEF GameOK, Seated
  <2>2. g.paid \in [N -> Nat] /\ r.paid \in [N -> Nat]
    BY <2>1 DEF GameOK
  <2>q. QED BY <1>1, <2>1, <2>2, HandIs, SetupFacts
<1>3. total \in Nat /\ before \in Nat
  BY <1>1, <1>2, SumNat
<1>4. h.invested = g.paid /\ h.won = Nothing(N) /\ HasCounted(RunOf(h.names, h.actions), before)
  BY <1>1, <1>2 DEF Follows
<1>5. CASE r.paid = g.paid /\ r.lines = <<>>
  <2>1. PICK lines : lines = <<>>
    OBVIOUS
  <2>2. lines \in Seq(Lines(N)) /\ Len(lines) = 0
    BY <2>1
  <2>3. PICK v : IsReading(v, s, h, lines)
    BY <1>1, <1>2, <2>2, Readings
  <2>4. k = h
    BY <1>5, <2>1, <2>2, <2>3 DEF IsReading
  <2>5. total = before
    BY <1>1, <1>5
  <2>q. QED BY <1>1, <1>2, <1>3, <1>4, <1>5, <2>4, <2>5 DEF Closing
<1>6. ASSUME NEW p, NEW x, Refunds(g, r, p, x) PROVE Closing(s, k, r.paid, Nothing(N), total)
  <2>1. PICK line : line = [t |-> "uncalled", who |-> p, amount |-> x]
    OBVIOUS
  <2>2. /\ p \in N /\ x \in Nat /\ x =< g.paid[p] /\ r.paid = [g.paid EXCEPT ![p] = g.paid[p] - x]
        /\ r.lines = <<line>>
    BY <1>2, <1>6, <2>1 DEF Refunds
  <2>3. line \in UncalledLines(N) /\ line.who = p /\ line.amount = x
    BY <2>1, <2>2 DEF UncalledLines
  <2>4. k = Read(h, line)
    BY <1>1, <1>2, <2>2, <2>3, ReadOne DEF Lines
  <2>5. /\ k \in Hands(s) /\ Frame(h, k) /\ k.won = h.won
        /\ k.invested = [h.invested EXCEPT ![line.who] = Positive(@ - line.amount)]
        /\ Notes(h, k, N, line.who, "uncalled_return", line.amount, 0)
    BY <1>1, <1>2, <2>3, <2>4, ReadUncalled
  <2>6. k.names = N
    BY <1>1, <1>2, <2>5, HandIs
  <2>7. k.invested = r.paid
    <3>1. PICK y : y = g.paid[p] - x
      OBVIOUS
    <3>2. y \in Int /\ y >= 0
      BY <1>2, <2>2, <3>1
    <3>3. Positive(y) = y
      BY <3>2, PositiveIs
    <3>q. QED BY <1>4, <2>2, <2>3, <2>5, <3>1, <3>3
  <2>8. total = before - x /\ x =< before
    <3>1. PICK f, e : f = g.paid /\ e = r.paid
      OBVIOUS
    <3>2. f \in [N -> Int] /\ e \in [N -> Int] /\ e[p] = f[p] + (-x) /\ -x \in Int /\ \A q \in N \ {p} : e[q] = f[q]
      BY <1>2, <2>2, <3>1
    <3>3. SumFunction(e) = SumFunction(f) + (-x)
      BY <1>2, <2>2, <3>2, SumChange
    <3>q. QED BY <1>1, <1>3, <2>2, <3>1, <3>3
  <2>9. HasCounted(RunOf(k.names, k.actions), before - x)
    <3>1. PICK kind, to : kind = "uncalled_return" /\ to = 0
      OBVIOUS
    <3>2. Notes(h, k, N, p, kind, x, to) /\ to \in Int /\ x \in Int
      BY <2>2, <2>3, <2>5, <3>1
    <3>4. /\ Notes(h, k, ToSet(s.seats), p, kind, x, to) /\ p \in ToSet(s.seats) /\ h.names = k.names
          /\ HasCounted(RunOf(h.names, h.actions), before) /\ before \in Nat
      BY <1>1, <1>2, <1>3, <1>4, <2>2, <2>6, <3>2
    <3>3. kind = "uncalled_return" /\ x =< before => HasCounted(RunOf(k.names, k.actions), before - x)
      BY <1>2, <3>2, <3>4, QuietCounts
    <3>q. QED BY <2>8, <3>1, <3>3
  <2>q. QED BY <1>4, <2>5, <2>7, <2>8, <2>9 DEF Closing
<1>q. QED BY <1>1, <1>2, <1>3, <1>5, <1>6 DEF Settles

-----------------------------------------------------------------------------
(* The end of the hand                                                     *)

\* How the lines of the end are made up.
EndsWith(g, r, e, quiet, collects, seats) ==
    /\ quiet \in Seq(QuietLines(Seated(g))) /\ collects \in Seq(CollectLines(Seated(g)))
    /\ seats \in Seq(TrueSeats(Seated(g), Givens(Seated(g), collects)))
    /\ e.lines = r.lines \o quiet \o collects
                  \o (<<Section("summary"), [t |-> "total", pot |-> SumFunction(r.paid)]>> \o seats)
    /\ e.won = Givens(Seated(g), collects) /\ e.paid = r.paid
    /\ Worth(collects) = SumFunction(r.paid)

LEMMA RestIsQuiet ==
  ASSUME NEW g, GameOK(g), NEW names
  PROVE  RestOfBoard(g) \in Seq(QuietLines(names))
<1>1. PICK open, rest : open = (CHOOSE i \in 1 .. 4 : Streets[i] = g.street) /\ rest = RestOfBoard(g)
  OBVIOUS
<1>2. open \in 1 .. 4
  <2>1. \E i \in 1 .. 4 : Streets[i] = g.street
    BY DEF GameOK, ToSet, Streets
  <2>q. QED BY <1>1, <2>1
<1>3. rest = [i \in 1 .. 4 - open |-> Section(Streets[open + i])]
  BY <1>1 DEF RestOfBoard
<1>4. ASSUME NEW i \in 1 .. 4 - open PROVE rest[i] \in QuietLines(names)
  <2>1. PICK j : j = open + i
    OBVIOUS
  <2>2. j \in 1 .. 4 /\ rest[i] = Section(Streets[j])
    BY <1>2, <1>3, <2>1
  <2>3. Streets[j] \in Sections
    BY <2>2 DEF Sections, ToSet, Streets
  <2>q. QED BY <2>2, <2>3 DEF Section, SectionLines, QuietLines
<1>5. 4 - open \in Nat
  BY <1>2
<1>6. rest \in Seq(QuietLines(names))
  <2>1. PICK X, n : X = QuietLines(names) /\ n = 4 - open
    OBVIOUS
  <2>2. n \in Nat /\ DOMAIN rest = 1 .. n /\ rest = [i \in 1 .. n |-> rest[i]] /\ \A i \in 1 .. n : rest[i] \in X
    BY <1>3, <1>4, <1>5, <2>1
  <2>3. rest \in Seq(X)
    BY <2>2
  <2>q. QED BY <2>1, <2>3
<1>q. QED BY <1>1, <1>6

LEMMA ShowdownIsQuiet ==
  ASSUME NEW g, GameOK(g), NEW shown
  PROVE  Showdown(g, shown) \in Seq(QuietLines(Seated(g)))
<1>1. PICK N, X, live, n : N = Seated(g) /\ X = QuietLines(N) /\ live = InSeatOrder(g, Live(g)) /\ n = Len(live)
  OBVIOUS
<1>2. n \in Nat /\ DOMAIN live = 1 .. n /\ \A i \in 1 .. n : live[i] \in N
  <2>1. Live(g) \in SUBSET Seated(g)
    BY SeatedFacts
  <2>2. live \in Seq(Live(g))
    BY <1>1, <2>1, InSeatOrderIs
  <2>q. QED BY <1>1, <2>1, <2>2
<1>3. PICK kinds : kinds = [i \in 1 .. n |-> IF live[i] \in shown THEN "show" ELSE "muck"]
  OBVIOUS
<1>4. \A i \in 1 .. n : kinds[i] \in {"show", "muck"}
  BY <1>3
<1>5. PICK no \in BOOLEAN : no = FALSE
  OBVIOUS
<1>6. PICK shows, line : shows = [i \in 1 .. n |-> Act(live[i], kinds[i], 0, 0, no)] /\ line = Section("showdown")
  OBVIOUS
<1>7. Showdown(g, shown) = <<line>> \o shows
  <2>1. PICK f : f = [i \in DOMAIN live |-> Act(live[i], IF live[i] \in shown THEN "show" ELSE "muck", 0, 0, FALSE)]
    OBVIOUS
  <2>2. Showdown(g, shown) = <<line>> \o f
    BY <1>1, <1>6, <2>1 DEF Showdown
  <2>3. f = shows
    <3>1. DOMAIN f = 1 .. n /\ DOMAIN shows = 1 .. n
      BY <1>2, <1>6, <2>1
    <3>2. ASSUME NEW i \in 1 .. n PROVE f[i] = shows[i]
      <4>1. f[i] = Act(live[i], IF live[i] \in shown THEN "show" ELSE "muck", 0, 0, FALSE)
        BY Zenon, <1>2, <2>1
      <4>2. kinds[i] = IF live[i] \in shown THEN "show" ELSE "muck"
        BY <1>3
      <4>3. shows[i] = Act(live[i], kinds[i], 0, 0, no)
        BY <1>6
      <4>q. QED BY Zenon, <1>5, <4>1, <4>2, <4>3
    <3>3. f = [i \in 1 .. n |-> f[i]] /\ shows = [i \in 1 .. n |-> shows[i]]
      BY Zenon, <1>2, <1>6, <2>1, <3>1
    <3>q. QED BY <3>2, <3>3
  <2>q. QED BY <2>2, <2>3
<1>8. ASSUME NEW i \in 1 .. n PROVE shows[i] \in X
  <2>1. live[i] \in N /\ kinds[i] \in {"show", "muck"} /\ kinds[i] \in Kinds /\ 0 \in Int
    BY <1>2, <1>4 DEF Kinds
  <2>2. PICK l : l = Act(live[i], kinds[i], 0, 0, no)
    OBVIOUS
  <2>3. l \in ActLines(N) /\ l.kind = kinds[i]
    BY <1>5, <2>1, <2>2, ActIs
  <2>4. shows[i] = l
    BY <1>6, <2>2
  <2>q. QED BY <1>1, <2>1, <2>3, <2>4 DEF QuietLines
<1>9. shows \in Seq(X)
  <2>1. DOMAIN shows = 1 .. n /\ shows = [i \in 1 .. n |-> shows[i]]
    BY <1>6
  <2>q. QED BY <1>2, <1>8, <2>1
<1>10. line \in X
  BY <1>1, <1>6 DEF Section, SectionLines, Sections, QuietLines
<1>11. <<line>> \o shows \in Seq(X)
  <2>1. PICK a : a = <<line>>
    OBVIOUS
  <2>2. a \in Seq(X)
    BY <1>10, <2>1
  <2>3. a \o shows \in Seq(X)
    BY <1>9, <2>2
  <2>q. QED BY <2>1, <2>3
<1>q. QED BY <1>1, <1>7, <1>11

LEMMA SummaryIs ==
  ASSUME NEW g, GameOK(g), NEW won \in [Seated(g) -> Int], NEW shown
  PROVE  \E seats \in Seq(TrueSeats(Seated(g), won)) :
            Summary(g, shown, won) =
                <<Section("summary"), [t |-> "total", pot |-> SumFunction(g.paid)]>> \o seats
<1>1. PICK seats, N, n, X : seats = g.setup.seats /\ N = Seated(g) /\ n = Len(seats) /\ X = TrueSeats(N, won)
  OBVIOUS
<1>2. n \in Nat /\ DOMAIN seats = 1 .. n /\ \A i \in 1 .. n : seats[i] \in N
  <2>1. g.setup \in Setups
    BY DEF GameOK
  <2>2. seats \in Seq(ToSet(seats)) /\ n \in {2, 3} /\ \A i \in 1 .. n : seats[i] \in ToSet(seats)
    BY <1>1, <2>1, SetupFacts
  <2>q. QED BY <1>1, <2>2 DEF Seated
<1>3. PICK part : part = [i \in DOMAIN seats |-> [t |-> "seat", who |-> seats[i], showed |-> seats[i] \in shown,
                                                   won |-> won[seats[i]]]]
  OBVIOUS
<1>4. ASSUME NEW i \in 1 .. n PROVE part[i] \in X
  <2>1. PICK p, b : p = seats[i] /\ b = (p \in shown)
    OBVIOUS
  <2>5. b \in BOOLEAN
    BY <2>1
  <2>2. p \in N
    BY <1>2, <2>1
  <2>3. part[i] = [t |-> "seat", who |-> p, showed |-> b, won |-> won[p]]
    BY <1>2, <1>3, <2>1
  <2>4. won[p] \in Int
    BY <1>1, <2>2
  <2>q. QED BY <1>1, <2>2, <2>3, <2>4, <2>5 DEF TrueSeats, SeatLines
<1>5. part \in Seq(X)
  <2>1. DOMAIN part = 1 .. n /\ part = [i \in 1 .. n |-> part[i]]
    BY <1>2, <1>3
  <2>q. QED BY <1>2, <1>4, <2>1
<1>6. Summary(g, shown, won) = <<Section("summary"), [t |-> "total", pot |-> SumFunction(g.paid)]>> \o part
  BY <1>1, <1>3 DEF Summary
<1>q. QED BY <1>1, <1>5, <1>6

LEMMA EndedIs ==
  ASSUME NEW g, GameOK(g), Betting(g), NEW strength \in [Seated(g) -> Int], NEW shows \in BOOLEAN,
         NEW r, r = Returned(g), NEW e, e = Ended(g, strength, shows)
  PROVE  /\ GameOK(e) /\ e.over /\ e.setup = g.setup
         /\ \E quiet, collects, seats : EndsWith(g, r, e, quiet, collects, seats)
<1>1. /\ GameOK(r) /\ Seated(r) = Seated(g) /\ Live(r) = Live(g) /\ r.setup = g.setup
      /\ DOMAIN r = GameFields
  BY ReturnedIs DEF GameOK
<1>2. PICK q \in Live(r) : \A p \in Seated(r) : r.paid[p] =< r.paid[q]
  BY ReturnedIs
<1>3. PICK N, contested, shown : /\ N = Seated(g) /\ contested = (Cardinality(Live(g)) > 1)
          /\ shown = {p \in Live(g) : contested /\ (shows \/ \A z \in Live(g) : strength[p] <= strength[z])}
  OBVIOUS
<1>4. contested \in BOOLEAN
  BY <1>3
<1>5. PICK collects, won, quiet, summary, fl :
          /\ collects = Collects(r, strength) /\ won = Givens(N, collects)
          /\ quiet = (IF contested THEN RestOfBoard(g) \o Showdown(g, shown) ELSE <<>>)
          /\ summary = Summary(r, shown, won)
          /\ fl = IF contested /\ g.street = "preflop" THEN Live(g) ELSE r.flop
  OBVIOUS
<1>6. collects \in Seq(CollectLines(N)) /\ Worth(collects) = SumFunction(r.paid)
  <2>1. strength \in [Seated(r) -> Int]
    BY <1>1
  <2>2. collects = FlattenSeq([i \in DOMAIN Pots(r) |-> Shares(r, Pots(r)[i], strength)])
    BY <1>5 DEF Collects
  <2>3. collects \in Seq(CollectLines(Seated(r))) /\ Worth(collects) = SumFunction(r.paid)
    BY <1>1, <1>2, <2>1, <2>2, PotsShared
  <2>q. QED BY <1>1, <1>3, <2>3
<1>7. won \in [N -> Int]
  BY <1>3, <1>5, <1>6, SeatedFacts, GivenInAll
<1>8. quiet \in Seq(QuietLines(N))
  <2>1. CASE contested
    <3>1. PICK a, b : a = RestOfBoard(g) /\ b = Showdown(g, shown)
      OBVIOUS
    <3>2. a \in Seq(QuietLines(N)) /\ b \in Seq(QuietLines(N))
      BY <1>3, <3>1, RestIsQuiet, ShowdownIsQuiet
    <3>3. a \o b \in Seq(QuietLines(N))
      BY <3>2
    <3>q. QED BY <1>5, <2>1, <3>1, <3>3
  <2>2. CASE ~contested
    BY <1>5, <2>2
  <2>q. QED BY <1>4, <2>1, <2>2
<1>9. PICK seats \in Seq(TrueSeats(N, won)) :
          summary = <<Section("summary"), [t |-> "total", pot |-> SumFunction(r.paid)]>> \o seats
  <2>1. won \in [Seated(r) -> Int] /\ N = Seated(r)
    BY <1>1, <1>3, <1>7
  <2>q. QED BY <1>1, <1>5, <2>1, SummaryIs
<1>10. PICK lines : lines = r.lines \o quiet \o collects \o summary
  OBVIOUS
<1>11. e = [r EXCEPT !.over = TRUE, !.shown = shown, !.won = won, !.flop = fl, !.lines = lines]
  <2>1. won = [p \in Seated(g) |-> Given(Collects(r, strength), p)]
    BY <1>3, <1>5 DEF Givens
  <2>q. QED BY <1>3, <1>5, <1>10, <2>1 DEF Ended
<1>12. /\ DOMAIN e = GameFields /\ e.setup = g.setup /\ e.over = TRUE /\ e.won = won /\ e.lines = lines
       /\ e.paid = r.paid /\ e.bet = r.bet /\ e.folded = r.folded /\ e.turn = r.turn /\ e.street = r.street
  BY <1>1, <1>11 DEF GameFields
<1>13. Seated(e) = N
  BY <1>3, <1>12 DEF Seated
<1>14. GameOK(e)
  <2>1. /\ r.setup \in Setups /\ r.bet \in [N -> Nat] /\ r.paid \in [N -> Nat]
        /\ r.folded \in SUBSET N /\ r.turn \in 1 .. 4 /\ r.street \in ToSet(Streets)
    BY <1>1, <1>3 DEF GameOK
  <2>2. e.over \in BOOLEAN
    BY <1>12
  <2>q. QED BY <1>1, <1>7, <1>12, <1>13, <2>1, <2>2 DEF GameOK
<1>15. EndsWith(g, r, e, quiet, collects, seats)
  <2>1. e.lines = r.lines \o quiet \o collects
                  \o (<<Section("summary"), [t |-> "total", pot |-> SumFunction(r.paid)]>> \o seats)
    BY <1>9, <1>10, <1>12
  <2>2. e.won = Givens(N, collects) /\ seats \in Seq(TrueSeats(N, Givens(N, collects))) /\ e.paid = r.paid
    BY <1>5, <1>9, <1>12
  <2>q. QED BY <1>3, <1>6, <1>8, <2>1, <2>2 DEF EndsWith
<1>q. QED BY <1>12, <1>14, <1>15

-----------------------------------------------------------------------------
(* The last step of a hand, read                                           *)

\* The parts of the last step, read one after the other.
LEMMA FourParts ==
  ASSUME NEW s \in Setups, NEW h \in Hands(s), NEW L, L = Lines(ToSet(s.seats)),
         NEW a \in Seq(L), NEW b \in Seq(L), NEW c \in Seq(L), NEW d \in Seq(L), NEW e \in Seq(L)
  PROVE  ReadAll(h, a \o b \o c \o (d \o e))
            = ReadAll(ReadAll(ReadAll(ReadAll(ReadAll(h, a), b), c), d), e)
<1>1. PICK ab, abc, de : ab = a \o b /\ abc = ab \o c /\ de = d \o e
  OBVIOUS
<1>2. ab \in Seq(L)
  BY <1>1
<1>3. abc \in Seq(L)
  BY <1>1, <1>2
<1>4. de \in Seq(L)
  BY <1>1
<1>5. PICK ha, hb, hc, hd : /\ ha = ReadAll(h, a) /\ hb = ReadAll(ha, b)
                            /\ hc = ReadAll(hb, c) /\ hd = ReadAll(hc, d)
  OBVIOUS
<1>6. ha \in Hands(s) /\ ReadAll(h, ab) = hb
  BY <1>1, <1>5, ReadOn
<1>7. hb \in Hands(s)
  BY <1>5, <1>6, ReadOn
<1>8. hc \in Hands(s)
  BY <1>5, <1>7, ReadOn
<1>9. ReadAll(h, abc) = hc
  <2>1. ab \in Seq(Lines(ToSet(s.seats))) /\ c \in Seq(Lines(ToSet(s.seats)))
    BY <1>2
  <2>2. ReadAll(h, ab \o c) = ReadAll(ReadAll(h, ab), c)
    BY <2>1, ReadOn
  <2>q. QED BY <1>1, <1>5, <1>6, <2>2
<1>10. ReadAll(h, abc \o de) = ReadAll(hc, de)
  BY <1>3, <1>4, <1>9, ReadOn
<1>11. ReadAll(hc, de) = ReadAll(hd, e)
  BY <1>1, <1>5, <1>8, ReadOn
<1>q. QED BY <1>1, <1>5, <1>10, <1>11

LEMMA EndRead ==
  ASSUME NEW g, GameOK(g), Betting(g), NEW h \in Hands(g.setup), Follows(g, h),
         NEW r, r = Returned(g), NEW e, NEW quiet, NEW collects, NEW seats,
         EndsWith(g, r, e, quiet, collects, seats), e.setup = g.setup, NEW k, k = ReadAll(h, e.lines)
  PROVE  k \in Hands(e.setup) /\ Settled(e, k)
<1>1. PICK s, N, L, total, won : /\ s = g.setup /\ N = Seated(g) /\ L = Lines(ToSet(s.seats))
                                 /\ total = SumFunction(r.paid) /\ won = Givens(Seated(g), collects)
  OBVIOUS
<1>2. s \in Setups /\ N = ToSet(s.seats) /\ h \in Hands(s) /\ IsFiniteSet(N)
  BY <1>1, SeatedFacts DEF GameOK
<1>3. GameOK(r) /\ r.setup = g.setup /\ Settles(g, r)
  BY ReturnedIs
<1>4. PICK first : first = r.lines
  OBVIOUS
<1>5. /\ quiet \in Seq(QuietLines(N)) /\ collects \in Seq(CollectLines(N)) /\ seats \in Seq(TrueSeats(N, won))
      /\ e.won = won /\ e.paid = r.paid /\ Worth(collects) = total
  BY <1>1 DEF EndsWith
<1>6. PICK heading : heading = <<Section("summary"), [t |-> "total", pot |-> total]>>
  OBVIOUS
<1>7. e.lines = first \o quiet \o collects \o (heading \o seats)
  BY <1>1, <1>4, <1>6 DEF EndsWith
<1>8. PICK ha : ha = ReadAll(h, first)
  OBVIOUS
<1>9. Closing(s, ha, r.paid, Nothing(N), total) /\ total \in Nat
  BY <1>1, <1>3, <1>4, <1>8, UncalledPart
<1>10. first \in Seq(L)
  <2>1. CASE first = <<>>
    BY <2>1
  <2>2. ASSUME NEW p, NEW x, Refunds(g, r, p, x) PROVE first \in Seq(L)
    <3>1. PICK line : line = [t |-> "uncalled", who |-> p, amount |-> x]
      OBVIOUS
    <3>2. p \in N /\ x \in Int /\ first = <<line>>
      BY <1>1, <1>4, <2>2, <3>1 DEF Refunds
    <3>3. line \in L
      BY <1>1, <1>2, <3>1, <3>2 DEF Lines, UncalledLines
    <3>q. QED BY <3>2, <3>3
  <2>q. QED BY <1>3, <1>4, <2>1, <2>2 DEF Settles
<1>11. quiet \in Seq(L)
  <2>1. QuietLines(N) \in SUBSET L
    BY <1>1, <1>2 DEF Lines, QuietLines
  <2>q. QED BY <1>5, <2>1
<1>12. collects \in Seq(L)
  <2>1. CollectLines(N) \in SUBSET L
    BY <1>1, <1>2 DEF Lines, CollectLines
  <2>q. QED BY <1>5, <2>1
<1>13. seats \in Seq(L)
  <2>1. TrueSeats(N, won) \in SUBSET L
    BY <1>1, <1>2 DEF Lines, TrueSeats
  <2>q. QED BY <1>5, <2>1
<1>14. heading \in Seq(L)
  <2>1. PICK x, y : x = Section("summary") /\ y = [t |-> "total", pot |-> total]
    OBVIOUS
  <2>2. x \in SectionLines /\ y \in TotalLines
    BY <1>9, <2>1 DEF Section, SectionLines, TotalLines
  <2>3. x \in L /\ y \in L
    BY <1>1, <2>2 DEF Lines
  <2>q. QED BY <1>6, <2>1, <2>3
<1>15. PICK hb, hc, hd : hb = ReadAll(ha, quiet) /\ hc = ReadAll(hb, collects) /\ hd = ReadAll(hc, heading)
  OBVIOUS
<1>16. k = ReadAll(hd, seats)
  <2>1. ReadAll(h, first \o quiet \o collects \o (heading \o seats))
            = ReadAll(ReadAll(ReadAll(ReadAll(ReadAll(h, first), quiet), collects), heading), seats)
    <3>1. s \in Setups /\ h \in Hands(s) /\ L = Lines(ToSet(s.seats))
      BY <1>1, <1>2
    <3>q. QED BY <1>10, <1>11, <1>12, <1>13, <1>14, <3>1, FourParts
  <2>2. k = ReadAll(h, first \o quiet \o collects \o (heading \o seats))
    BY Zenon, <1>7
  <2>q. QED BY Zenon, <1>8, <1>15, <2>1, <2>2
<1>17. Closing(s, hb, r.paid, Nothing(ToSet(s.seats)), total)
  BY <1>2, <1>5, <1>9, <1>15, QuietPart
<1>18. Closing(s, hc, r.paid, won, total)
  <2>1. collects \in Seq(CollectLines(ToSet(s.seats))) /\ won = Givens(ToSet(s.seats), collects)
    BY <1>1, <1>2, <1>5
  <2>q. QED BY <1>2, <1>9, <1>15, <1>17, <2>1, CollectsPart
<1>19. Summed(s, hd, r.paid, won, total)
  BY <1>2, <1>6, <1>9, <1>15, <1>18, SummaryRead
<1>20. won \in [N -> Int] /\ SumFunction(won) = total
  BY <1>1, <1>2, <1>5, GivenInAll DEF Worth
<1>21. Summed(s, k, r.paid, won, total)
  <2>1. won \in [ToSet(s.seats) -> Int] /\ seats \in Seq(TrueSeats(ToSet(s.seats), won))
    BY <1>2, <1>5, <1>20
  <2>q. QED BY <1>2, <1>9, <1>16, <1>19, <2>1, SeatsPart
<1>22. /\ k \in Hands(s) /\ k.invested = r.paid /\ k.won = won /\ k.summary /\ k.pot = total
       /\ HasCounted(RunOf(k.names, k.actions), total)
  BY <1>21 DEF Summed, Closing
<1>23. k.pot = SumFunction(e.paid) /\ k.pot = SumFunction(e.won)
  BY <1>1, <1>5, <1>20, <1>22
<1>q. QED BY <1>1, <1>5, <1>22, <1>23 DEF Settled

-----------------------------------------------------------------------------
(* The invariant                                                           *)

LEMMA EndKeepsBooks ==
  ASSUME NEW g, GameOK(g), Betting(g), NEW h \in Hands(g.setup), Follows(g, h),
         NEW strength \in [Seated(g) -> Int], NEW shows \in BOOLEAN,
         NEW e, e = Ended(g, strength, shows)
  PROVE  Books(e, ReadAll(h, e.lines))
<1>1. PICK r, k : r = Returned(g) /\ k = ReadAll(h, e.lines)
  OBVIOUS
<1>2. GameOK(e) /\ e.over /\ e.setup = g.setup
  BY <1>1, EndedIs
<1>3. PICK quiet, collects, seats : EndsWith(g, r, e, quiet, collects, seats)
  BY <1>1, EndedIs
<1>4. k \in Hands(e.setup) /\ Settled(e, k)
  BY <1>1, <1>2, <1>3, EndRead
<1>q. QED BY <1>1, <1>2, <1>4 DEF Books

\* Whatever a hand does next, the books are kept.
LEMMA StepKeepsBooks ==
  ASSUME NEW g, NEW h, Books(g, h), NEW g2 \in Steps(g)
  PROVE  Books(g2, ReadAll(h, g2.lines))
<1>1. GameOK(g) /\ h \in Hands(g.setup) /\ (~g.over => Betting(g) /\ Follows(g, h))
  BY DEF Books
<1>2. ~g.over
  <2>1. g.over \in BOOLEAN
    BY <1>1 DEF GameOK
  <2>2. ASSUME g.over PROVE Steps(g) = {}
    BY <2>2 DEF Steps
  <2>q. QED BY <2>1, <2>2
<1>3. Betting(g) /\ Follows(g, h)
  BY <1>1, <1>2
<1>4. PICK k : k = ReadAll(h, g2.lines)
  OBVIOUS
<1>5. CASE Awaited(g) # {}
  <2>1. g2 \in Moves(g)
    BY <1>2, <1>5 DEF Steps
  <2>2. GameOK(g2) /\ Betting(g2) /\ ~g2.over
    BY <1>1, <1>2, <1>3, <1>5, <2>1, MovesKeepBooks
  <2>3. PICK p \in Seated(g), to \in Nat : MovedBy(g, g2, p, to)
    BY <1>1, <1>2, <1>3, <1>5, <2>1, MovesKeepBooks
  <2>4. k \in Hands(g2.setup) /\ Follows(g2, k)
    BY <1>1, <1>3, <1>4, <2>2, <2>3, MoveRead
  <2>q. QED BY <1>4, <2>2, <2>4 DEF Books
<1>6. CASE Awaited(g) = {} /\ Cardinality(Live(g)) = 1
  <2>1. PICK strength : strength = [p \in Seated(g) |-> 1]
    OBVIOUS
  <2>2. PICK no \in BOOLEAN : no = FALSE
    OBVIOUS
  <2>3. g2 = Ended(g, strength, no)
    <3>1. Steps(g) = {Ended(g, [p \in Seated(g) |-> 1], FALSE)}
      BY <1>2, <1>6 DEF Steps
    <3>2. g2 = Ended(g, [p \in Seated(g) |-> 1], FALSE)
      BY Zenon, <3>1
    <3>q. QED BY Zenon, <2>1, <2>2, <3>2
  <2>4. strength \in [Seated(g) -> Int]
    BY <2>1
  <2>q. QED BY <1>1, <1>3, <2>3, <2>4, EndKeepsBooks
<1>7. CASE /\ Awaited(g) = {} /\ Cardinality(Live(g)) # 1
           /\ g.street # "river" /\ Cardinality(CanAct(g)) > 1
  <2>1. g2 = NextStreet(g)
    BY <1>2, <1>7 DEF Steps
  <2>2. /\ GameOK(g2) /\ Betting(g2) /\ ~g2.over
        /\ g2.setup = g.setup /\ g2.paid = g.paid /\ g2.bet = Nothing(Seated(g))
        /\ g2.street \in BoardStreets /\ g2.street # g.street /\ g2.lines = <<Section(g2.street)>>
        /\ g2.street \in Later(g.street) /\ Later(g2.street) \subseteq Later(g.street)
    BY <1>1, <1>2, <1>3, <1>7, <2>1, NextStreetKeepsBooks
  <2>3. k \in Hands(g2.setup) /\ Follows(g2, k)
    BY <1>1, <1>3, <1>4, <2>2, StreetRead
  <2>q. QED BY <1>4, <2>2, <2>3 DEF Books
<1>8. CASE /\ Awaited(g) = {} /\ Cardinality(Live(g)) # 1
           /\ ~(g.street # "river" /\ Cardinality(CanAct(g)) > 1)
  <2>1. g2 \in {Ended(g, s, b) : s \in [Seated(g) -> 1 .. 2], b \in BOOLEAN}
    BY <1>2, <1>8 DEF Steps
  <2>2. PICK strength \in [Seated(g) -> 1 .. 2], shows \in BOOLEAN : g2 = Ended(g, strength, shows)
    BY <2>1
  <2>3. strength \in [Seated(g) -> Int]
    OBVIOUS
  <2>q. QED BY <1>1, <1>3, <2>2, <2>3, EndKeepsBooks
<1>q. QED BY <1>5, <1>6, <1>7, <1>8

LEMMA DealKeepsBooks ==
  ASSUME NEW s \in Setups, NEW g, g = Dealt(s)
  PROVE  Books(g, ReadAll(NewHand(s, Button(s), BigBlind), g.lines))
<1>1. GameOK(g) /\ Betting(g) /\ ~g.over /\ g.setup = s
  BY DealtIs
<1>2. PICK sb, bb : BlindsPosted(g, sb, bb)
  BY DealtIs
<1>3. PICK k : k = ReadAll(NewHand(s, Button(s), BigBlind), g.lines)
  OBVIOUS
<1>4. k \in Hands(g.setup) /\ Follows(g, k)
  BY <1>1, <1>2, <1>3, DealtRead
<1>q. QED BY <1>1, <1>3, <1>4 DEF Books

LEMMA BooksInvariant == Spec => []BooksInv
<1>1. Init => BooksInv
  BY DEF Init, BooksInv
<1>2. ASSUME BooksInv, [Next]_vars PROVE BooksInv'
  <2>1. ASSUME NEW s \in Setups, Deal(s) PROVE BooksInv'
    <3>1. table' = Dealt(s) /\ hand' = ReadAll(NewHand(s, Button(s), BigBlind), table'.lines)
      BY <2>1 DEF Deal
    <3>2. Books(table', hand')
      BY <3>1, DealKeepsBooks
    <3>q. QED BY <3>2 DEF BooksInv
  <2>2. CASE Play
    <3>1. table # NoTable /\ table' \in Steps(table) /\ hand' = ReadAll(hand, table'.lines)
      BY <2>2 DEF Play
    <3>2. Books(table, hand)
      BY <1>2, <3>1 DEF BooksInv
    <3>3. Books(table', hand')
      BY <3>1, <3>2, StepKeepsBooks
    <3>q. QED BY <3>3 DEF BooksInv
  <2>3. ASSUME table' = table, hand' = hand PROVE BooksInv'
    BY <1>2, <2>3 DEF BooksInv
  <2>4. CASE \E rank \in 1 .. 3 : ImportHand(rank)
    BY <2>3, <2>4 DEF ImportHand
  <2>5. CASE \E t \in Tournaments \ games : ImportTournament(t)
    BY <2>3, <2>5 DEF ImportTournament
  <2>6. CASE DeleteAll
    BY <2>6 DEF DeleteAll, BooksInv
  <2>7. CASE UNCHANGED vars
    BY <2>3, <2>7 DEF vars
  <2>q. QED BY <1>2, <2>1, <2>2, <2>4, <2>5, <2>6, <2>7 DEF Next
<1>q. QED BY <1>1, <1>2, PTL DEF Spec

-----------------------------------------------------------------------------
(* The books match the table                                               *)

\* The chips at the end are those at the start.
LEMMA ChipsKept ==
  ASSUME NEW N, IsFiniteSet(N), NEW stack \in [N -> Int], NEW paid \in [N -> Int], NEW won \in [N -> Int],
         SumFunction(paid) = SumFunction(won),
         NEW end \in [N -> Int], \A p \in N : end[p] = stack[p] - paid[p] + won[p]
  PROVE  SumFunction(end) = SumFunction(stack)
<1>1. PICK lost : lost = [p \in N |-> paid[p] - won[p]]
  OBVIOUS
<1>2. lost \in [N -> Int] /\ \A p \in N : end[p] = stack[p] - lost[p] /\ lost[p] = paid[p] - won[p]
  <2>1. ASSUME NEW p \in N PROVE end[p] = stack[p] - lost[p]
    <3>1. stack[p] \in Int /\ paid[p] \in Int /\ won[p] \in Int /\ lost[p] = paid[p] - won[p]
      BY <1>1
    <3>q. QED BY <3>1
  <2>q. QED BY <1>1, <2>1
<1>3. Tables(stack, N) /\ Tables(paid, N) /\ Tables(won, N) /\ Tables(end, N) /\ Tables(lost, N)
  BY <1>2 DEF Tables
<1>4. Sum(end, N) = Sum(stack, N) - Sum(lost, N)
  BY <1>2, <1>3, SumMinus
<1>5. Sum(lost, N) = Sum(paid, N) - Sum(won, N)
  BY <1>2, <1>3, SumMinus
<1>6. Sum(paid, N) = Sum(won, N)
  BY SumOfFunction
<1>7. Sum(end, N) = Sum(stack, N)
  <2>1. PICK x, y, z, w : x = Sum(end, N) /\ y = Sum(stack, N) /\ z = Sum(paid, N) /\ w = Sum(lost, N)
    OBVIOUS
  <2>2. y \in Int /\ z \in Int
    BY <1>3, <2>1, SumStep
  <2>q. QED BY <1>4, <1>5, <1>6, <2>1, <2>2
<1>q. QED BY <1>7, SumOfFunction

LEMMA BooksMatch ==
  ASSUME BooksInv
  PROVE  BooksMatchTable
<1> SUFFICES ASSUME table # NoTable PROVE
        /\ hand.invested = table.paid
        /\ ~table.over => hand.contributions = table.bet
        /\ Complete(hand) <=> table.over
        /\ table.over =>
            /\ hand.won = table.won
            /\ \A p \in Seated(table) : EndingStack(hand, p) = Chips(table, p) + table.won[p]
            /\ SumFunction([p \in Seated(table) |-> EndingStack(hand, p)])
                    = SumFunction([p \in Seated(table) |-> table.setup.stack[p]])
            /\ SumFunction(hand.won) = hand.pot
            /\ Last(RunningPot(hand)) = hand.pot
  BY DEF BooksMatchTable
<1>1. PICK g, h : g = table /\ h = hand
  OBVIOUS
<1>2. GameOK(g) /\ h \in Hands(g.setup) /\ (~g.over => Follows(g, h)) /\ (g.over => Settled(g, h))
  BY <1>1 DEF BooksInv, Books
<1>3. PICK N : N = Seated(g)
  OBVIOUS
<1>4. /\ g.setup \in Setups /\ N = ToSet(g.setup.seats) /\ IsFiniteSet(N) /\ g.over \in BOOLEAN
      /\ g.paid \in [N -> Nat] /\ g.won \in [N -> Int] /\ g.setup.stack \in [N -> Nat]
  BY <1>2, <1>3, SeatedFacts DEF GameOK
<1>5. CASE ~g.over
  <2>1. h.invested = g.paid /\ h.contributions = g.bet /\ ~h.summary
    BY <1>2, <1>5 DEF Follows
  <2>q. QED BY <1>1, <1>5, <2>1 DEF Complete
<1>6. CASE g.over
  <2>1. /\ h.invested = g.paid /\ h.won = g.won /\ h.summary
        /\ h.pot = SumFunction(g.paid) /\ h.pot = SumFunction(g.won)
        /\ HasCounted(RunOf(h.names, h.actions), h.pot)
    BY <1>2, <1>6 DEF Settled
  <2>2. Complete(h)
    <3>1. h.pot \in Nat
      BY <1>4, <2>1, SumNat
    <3>q. QED BY <2>1, <3>1 DEF Complete, NoPot
  <2>3. h.stack = g.setup.stack
    BY <1>2, <1>4, HandIs
  <2>4. ASSUME NEW p \in N PROVE EndingStack(h, p) = Chips(g, p) + g.won[p]
    <3>1. g.setup.stack[p] \in Int /\ g.paid[p] \in Int /\ g.won[p] \in Int
      BY <1>4
    <3>q. QED BY <2>1, <2>3, <3>1 DEF EndingStack, Chips
  <2>5. SumFunction([p \in N |-> EndingStack(h, p)]) = SumFunction([p \in N |-> g.setup.stack[p]])
    <3>1. PICK end, stack, paid, won : /\ end = [p \in N |-> EndingStack(h, p)] /\ stack = [p \in N |-> g.setup.stack[p]]
                                       /\ paid = g.paid /\ won = g.won
      OBVIOUS
    <3>2. stack \in [N -> Int] /\ paid \in [N -> Int] /\ won \in [N -> Int]
      BY <1>4, <3>1
    <3>3. \A p \in N : end[p] = stack[p] - paid[p] + won[p]
      BY <2>1, <2>3, <3>1 DEF EndingStack
    <3>4. end \in [N -> Int]
      <4>1. \A p \in N : end[p] \in Int
        BY <3>2, <3>3
      <4>q. QED BY <3>1, <4>1
    <3>5. SumFunction(paid) = SumFunction(won)
      BY <2>1, <3>1
    <3>6. SumFunction(end) = SumFunction(stack)
      BY <1>4, <3>2, <3>3, <3>4, <3>5, ChipsKept
    <3>q. QED BY <3>1, <3>6
  <2>6. Last(RunningPot(h)) = h.pot
    <3>1. RunningPot(h) = RunOf(h.names, h.actions).after
      BY DEF RunningPot, RunOf, StartOfRun
    <3>q. QED BY <2>1, <3>1 DEF HasCounted, Last
  <2>q. QED BY <1>1, <1>3, <1>6, <2>1, <2>2, <2>4, <2>5, <2>6
<1>q. QED BY <1>4, <1>5, <1>6

\* What the parser and the importer make of a hand is what happened at the table, whatever
\* the stacks, the blinds and the bets of the two or three players: move by move what each has
\* put in, at the end what each has won, the pot and the importer's running pot
\* (winamax.py: _apply_action, _apply_summary_seat; importer.py: _persist_hand).
THEOREM BooksAlwaysMatch == Spec => []BooksMatchTable
<1>1. BooksInv => BooksMatchTable
  BY BooksMatch
<1>q. QED BY <1>1, BooksInvariant, PTL

=============================================================================
