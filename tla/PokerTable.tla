----------------------------- MODULE PokerTable -----------------------------
(***************************************************************************)
(* One hand of no-limit hold'em as Winamax plays it, and the lines it      *)
(* writes about it.  None of this is RiverScope's: the module is the world *)
(* that backend/app/parsers/winamax.py reads, shaped after                 *)
(* fixtures/expresso_synthetic_hands.txt.  Cards are left out; who holds   *)
(* the best hand is chosen at the showdown.                                *)
(*                                                                         *)
(* A game g is a record:                                                   *)
(*   setup    the seats, in the order small blind, big blind (and button), *)
(*            the stacks, the size of the smaller bets and raises, and     *)
(*            whether an uncalled bet is returned on a line of its own or  *)
(*            collected with the pot                                       *)
(*   bet      what each player has put in on this street                   *)
(*   paid     what each player has put in in this hand                     *)
(*   won      what each player has been given from the pots                *)
(*   folded, acted, turn, street, over                                     *)
(*   entered  who put in more than the blinds before the flop              *)
(*   raisers  who made the others pay more before the flop                 *)
(*   flop     who was still in when the flop was dealt                     *)
(*   shown    who showed a hand                                            *)
(*   lines    what the last step wrote                                     *)
(***************************************************************************)
EXTENDS Integers, Sequences, FiniteSetsExt, Functions, SequencesExt

CONSTANTS
    SmallBlind, BigBlind, \* chips
    Hero                  \* the player whose PC writes the history

Streets == <<"preflop", "flop", "turn", "river">>
StreetAfter(s) == Streets[1 + CHOOSE i \in 1 .. 3 : Streets[i] = s]

Seated(g) == ToSet(g.setup.seats)
Live(g) == Seated(g) \ g.folded
Chips(g, p) == g.setup.stack[p] - g.paid[p]
Price(g) == Max({g.bet[p] : p \in Seated(g)})
ToCall(g, p) == Price(g) - g.bet[p]
CanAct(g) == {p \in Live(g) : Chips(g, p) > 0}

\* Heads-up the small blind has the button; with three the last seat has it.
Button(setup) == IF Len(setup.seats) = 2 THEN setup.seats[1] ELSE setup.seats[3]

Act(who, kind, amount, to, allIn) ==
    [t |-> "act", who |-> who, kind |-> kind, amount |-> amount, to |-> to, allIn |-> allIn]
Section(street) == [t |-> "section", street |-> street]

\* The blinds, and the hero's cards.
Dealt(setup) ==
    LET post(p, b) == Min({b, setup.stack[p]})
        sb == setup.seats[1]
        bb == setup.seats[2]
        posted == [p \in ToSet(setup.seats) |-> CASE p = sb -> post(sb, SmallBlind)
                                                  [] p = bb -> post(bb, BigBlind)
                                                  [] OTHER -> 0]
        postLine(p, kind) == Act(p, kind, posted[p], 0, posted[p] = setup.stack[p])
    IN [setup |-> setup, bet |-> posted, paid |-> posted, won |-> [p \in DOMAIN posted |-> 0],
        folded |-> {}, acted |-> {}, turn |-> 3, street |-> "preflop", over |-> FALSE,
        entered |-> {}, raisers |-> {}, flop |-> {}, shown |-> {},
        lines |-> <<postLine(sb, "post_small_blind"), postLine(bb, "post_big_blind"),
                    [t |-> "dealt", who |-> Hero], Section("preflop")>>]

\* A player owes an answer to a higher bet, or may still open the betting.
MustAct(g, p) ==
    /\ p \in CanAct(g)
    /\ \/ ToCall(g, p) > 0
       \/ p \notin g.acted /\ CanAct(g) # {p}

Awaited(g) == {p \in Seated(g) : ~g.over /\ Cardinality(Live(g)) > 1 /\ MustAct(g, p)}

\* The first awaited player, from the seat whose turn it is.
ToAct(g) ==
    LET n == Len(g.setup.seats)
        seat(k) == g.setup.seats[((g.turn - 1 + k) % n) + 1]
    IN seat(CHOOSE k \in 0 .. n - 1 :
                seat(k) \in Awaited(g) /\ \A j \in 0 .. k - 1 : seat(j) \notin Awaited(g))

\* The bets and raises of p: one of the smaller size and all the chips.
Aims(g, p) ==
    {x \in {Price(g) + g.setup.size, g.bet[p] + Chips(g, p)} :
        /\ x > Price(g)
        /\ x <= g.bet[p] + Chips(g, p)
        /\ \E q \in CanAct(g) \ {p} : TRUE}

\* p puts in chips up to the level `to` and says so with `line`.
Puts(g, p, to, line) ==
    LET raised == to > Price(g)
        preflop == g.street = "preflop"
    IN [g EXCEPT !.bet[p] = to,
                 !.paid[p] = @ + to - g.bet[p],
                 !.acted = IF raised THEN {p} ELSE @ \cup {p},
                 !.turn = (CHOOSE i \in DOMAIN g.setup.seats : g.setup.seats[i] = p) + 1,
                 !.entered = IF preflop /\ to > g.bet[p] THEN @ \cup {p} ELSE @,
                 !.raisers = IF preflop /\ raised THEN @ \cup {p} ELSE @,
                 !.lines = <<line>>]

Moves(g) ==
    LET p == ToAct(g)
        all(to) == to - g.bet[p] = Chips(g, p)
        level == Min({Price(g), g.bet[p] + Chips(g, p)})
    IN  {Puts(g, p, to,
              IF Price(g) = 0 THEN Act(p, "bet", to, 0, all(to))
                              ELSE Act(p, "raise", to - Price(g), to, all(to))) : to \in Aims(g, p)}
        \cup
        IF ToCall(g, p) = 0
        THEN {Puts(g, p, g.bet[p], Act(p, "check", 0, 0, FALSE))}
        ELSE {Puts(g, p, level, Act(p, "call", level - g.bet[p], 0, all(level))),
              [Puts(g, p, g.bet[p], Act(p, "fold", 0, 0, FALSE)) EXCEPT !.folded = @ \cup {p}]}

\* The betting goes on at the next street.
NextStreet(g) ==
    LET s == StreetAfter(g.street)
    IN [g EXCEPT !.street = s, !.bet = [p \in Seated(g) |-> 0], !.acted = {},
                 !.turn = IF Len(g.setup.seats) = 2 THEN 2 ELSE 1,
                 !.flop = IF s = "flop" THEN Live(g) ELSE @,
                 !.lines = <<Section(s)>>]

\* What the highest bet exceeds the second highest by.
Uncalled(g) ==
    LET top == CHOOSE p \in Seated(g) : g.bet[p] = Price(g)
    IN Price(g) - Max({g.bet[p] : p \in Seated(g) \ {top}})

\* The uncalled part of the highest bet, if it gets a line of its own.
Returned(g) ==
    LET top == CHOOSE p \in Seated(g) : g.bet[p] = Price(g)
        x == Uncalled(g)
    IN IF g.setup.returns /\ x > 0
       THEN [g EXCEPT !.paid[top] = @ - x, !.bet[top] = @ - x,
                      !.lines = <<[t |-> "uncalled", who |-> top, amount |-> x]>>]
       ELSE [g EXCEPT !.lines = <<>>]

\* The k-th smallest number of a set.
Nth(numbers, k) == CHOOSE x \in numbers : Cardinality({y \in numbers : y < x}) = k - 1

\* The players of a set, in the order of their seats.
InSeatOrder(g, set) ==
    LET at == {i \in DOMAIN g.setup.seats : g.setup.seats[i] \in set}
    IN [k \in 1 .. Cardinality(at) |-> g.setup.seats[Nth(at, k)]]

\* The amounts the live players have put in, the smallest first.
Levels(g) ==
    LET amounts == {g.paid[p] : p \in Live(g)}
    IN [k \in 1 .. Cardinality(amounts) |-> Nth(amounts, k)]

\* What all have put in up to x.
UpToLevel(g, x) == SumFunction([p \in Seated(g) |-> Min({g.paid[p], x})])

\* The main pot and the side pots: one for each level.
Pots(g) ==
    LET levels == Levels(g)
    IN [i \in DOMAIN levels |->
            [chips |-> UpToLevel(g, levels[i]) - (IF i = 1 THEN 0 ELSE UpToLevel(g, levels[i - 1])),
             for |-> {p \in Live(g) : g.paid[p] >= levels[i]}]]

\* Who gets how much of a pot; the first seat gets the odd chip of a split.
Shares(g, pot, strength) ==
    LET best == {p \in pot.for : \A q \in pot.for : strength[p] <= strength[q]}
        inOrder == InSeatOrder(g, best)
        n == Len(inOrder)
    IN [i \in 1 .. n |-> Act(inOrder[i], "collect",
                             pot.chips \div n + (IF i = 1 THEN pot.chips % n ELSE 0), 0, FALSE)]

\* The cards that are still to come are dealt.
RestOfBoard(g) ==
    LET open == CHOOSE i \in 1 .. 4 : Streets[i] = g.street
    IN [i \in 1 .. 4 - open |-> Section(Streets[open + i])]

Showdown(g, shown) ==
    LET live == InSeatOrder(g, Live(g))
    IN <<Section("showdown")>> \o
       [i \in DOMAIN live |-> Act(live[i], IF live[i] \in shown THEN "show" ELSE "muck", 0, 0, FALSE)]

Collects(g, strength) == FlattenSeq([i \in DOMAIN Pots(g) |-> Shares(g, Pots(g)[i], strength)])

\* What p is given in these lines.
Given(lines, p) == SumFunction([i \in {j \in DOMAIN lines : lines[j].who = p} |-> lines[i].amount])

Summary(g, shown, won) ==
    LET seat(p) == [t |-> "seat", who |-> p, showed |-> p \in shown, won |-> won[p]]
    IN <<Section("summary"), [t |-> "total", pot |-> SumFunction(g.paid)]>>
       \o [i \in DOMAIN g.setup.seats |-> seat(g.setup.seats[i])]

\* The hand is over: the rest of the board, the showdown if there is one, the pots, the summary.
Ended(g, strength, shows) ==
    LET r == Returned(g)
        contested == Cardinality(Live(g)) > 1
        shown == {p \in Live(g) : contested /\ (shows \/ \A q \in Live(g) : strength[p] <= strength[q])}
        won == [p \in Seated(g) |-> Given(Collects(r, strength), p)]
    IN [r EXCEPT !.over = TRUE, !.shown = shown, !.won = won,
                 !.flop = IF contested /\ g.street = "preflop" THEN Live(g) ELSE @,
                 !.lines = @ \o (IF contested THEN RestOfBoard(g) \o Showdown(g, shown) ELSE <<>>)
                             \o Collects(r, strength) \o Summary(r, shown, won)]

\* Everything a hand can do next.
Steps(g) ==
    IF g.over THEN {}
    ELSE IF Awaited(g) # {} THEN Moves(g)
    ELSE IF Cardinality(Live(g)) = 1 THEN {Ended(g, [p \in Seated(g) |-> 1], FALSE)}
    ELSE IF g.street # "river" /\ Cardinality(CanAct(g)) > 1 THEN {NextStreet(g)}
    ELSE {Ended(g, s, b) : s \in [Seated(g) -> 1 .. 2], b \in BOOLEAN}
=============================================================================
