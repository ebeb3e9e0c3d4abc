---------------------------- MODULE HandHistory ----------------------------
(***************************************************************************)
(* What the parser makes of the lines of one hand                          *)
(* (backend/app/parsers/winamax.py) and what the importer stores of it     *)
(* (_persist_hand of services/importer.py).  The lines are PokerTable's    *)
(* records; recognising them is left out, what is done with each is not.   *)
(*                                                                         *)
(* A parsed hand h is a record:                                            *)
(*   names, seats, stack, button, bigBlind, hero, cards   from the header, *)
(*            the table, seat and "Dealt to" lines                         *)
(*   invested, won, showed, allIn   of each ParsedPlayer                   *)
(*   contributions   what each player has put in on the current street     *)
(*   street, summary, pot, board    where the parser is, and what it has   *)
(*            seen; the board is the number of its cards                   *)
(*   actions  the ParsedActions, an absent amount being 0                  *)
(***************************************************************************)
EXTENDS Integers, Sequences, FiniteSetsExt, Functions, SequencesExt

NoPot == -1      \* no "Total pot" line yet
NoOne == "nobody"
NoStreet == ""

Posts == {"post_small_blind", "post_big_blind", "post_ante"}
PutsChips == Posts \cup {"call", "bet"}
BoardStreets == {"flop", "turn", "river"}
BoardCards(street) == CASE street = "flop" -> 3 [] street = "turn" -> 4 [] OTHER -> 5

Positive(x) == Max({0, x})
Nothing(names) == [p \in names |-> 0]

\* The header, the table line and the seats.
NewHand(setup, button, bigBlind) ==
    LET names == ToSet(setup.seats)
    IN [names |-> names, seats |-> setup.seats, stack |-> setup.stack, button |-> button,
        bigBlind |-> bigBlind,
        hero |-> NoOne, cards |-> FALSE,
        invested |-> Nothing(names), won |-> Nothing(names), showed |-> {}, allIn |-> {},
        contributions |-> Nothing(names),
        street |-> "preflop", summary |-> FALSE, pot |-> NoPot, board |-> 0, actions |-> <<>>]

-----------------------------------------------------------------------------
(* One line                                                                *)

\* Mutant: what was put in on the last street still counts on this one.
SectionReadKeeps(h, line) ==
    IF line.street = "summary" THEN [h EXCEPT !.summary = TRUE]
    ELSE [h EXCEPT !.street = line.street,
                   !.board = IF line.street \in BoardStreets THEN Max({@, BoardCards(line.street)}) ELSE @]

SectionRead(h, line) ==
    CASE line.street = "summary" -> [h EXCEPT !.summary = TRUE]
      [] line.street \in BoardStreets ->
            [h EXCEPT !.contributions = IF line.street # h.street THEN Nothing(h.names) ELSE @,
                      !.board = Max({@, BoardCards(line.street)}),
                      !.street = line.street]
      [] OTHER -> [h EXCEPT !.street = line.street]

\* _apply_action: what an action changes of its player.
ApplyAction(h, a) ==
    LET b == [h EXCEPT !.allIn = IF a.allIn THEN @ \cup {a.who} ELSE @]
        paid(x) == [b EXCEPT !.invested[a.who] = @ + x, !.contributions[a.who] = @ + x]
    IN CASE a.kind \in PutsChips -> paid(a.amount)
         [] a.kind = "raise" /\ a.to >= h.contributions[a.who] -> paid(a.to - h.contributions[a.who])
         [] a.kind = "show" -> [b EXCEPT !.showed = @ \cup {a.who}]
         [] a.kind = "collect" -> [b EXCEPT !.won[a.who] = @ + a.amount]
         [] OTHER -> b

Noted(h, who, kind, amount, to, allIn) ==
    [h EXCEPT !.actions = Append(@, [street |-> h.street, who |-> who, kind |-> kind,
                                     amount |-> amount, to |-> to, allIn |-> allIn])]

ActionRead(h, line) ==
    ApplyAction(Noted(h, line.who, line.kind, line.amount, line.to, line.allIn), line)

UncalledRead(h, line) ==
    [Noted(h, line.who, "uncalled_return", line.amount, 0, FALSE)
        EXCEPT !.invested[line.who] = Positive(@ - line.amount),
               !.contributions[line.who] = Positive(@ - line.amount)]

\* _apply_summary_seat: collection lines are authoritative, the summary's amount a fallback.
SummarySeatRead(h, line) ==
    [h EXCEPT !.showed = IF line.showed THEN @ \cup {line.who} ELSE @,
              !.won[line.who] = IF @ = 0 THEN line.won ELSE @]

Read(h, line) ==
    CASE line.t = "section"  -> SectionRead(h, line)
      [] line.t = "dealt"    -> [h EXCEPT !.hero = line.who, !.cards = TRUE]
      [] line.t = "total"    -> [h EXCEPT !.pot = line.pot]
      [] line.t = "seat"     -> IF h.summary THEN SummarySeatRead(h, line) ELSE h
      [] line.t = "uncalled" -> UncalledRead(h, line)
      [] line.t = "act"      -> ActionRead(h, line)

ReadAll(h, lines) == FoldLeft(Read, h, lines)

-----------------------------------------------------------------------------
(* The end of the hand                                                     *)

Posted(h, p, kind) == \E i \in DOMAIN h.actions : h.actions[i].who = p /\ h.actions[i].kind = kind

\* _assign_positions_and_end_stacks
PositionOf(h, p) ==
    CASE Posted(h, p, "post_big_blind") -> "BB"
      [] Posted(h, p, "post_small_blind") -> "SB"
      [] p = h.button /\ Cardinality(h.names) >= 3 -> "BTN"
      [] p = h.button /\ Cardinality(h.names) = 2 -> "SB"
      [] OTHER -> "none"
EndingStack(h, p) == h.stack[p] - h.invested[p] + h.won[p]
NetOf(h, p) == h.won[p] - h.invested[p]

ReachedShowdown(h) == \E i \in DOMAIN h.actions : h.actions[i].kind = "show"
Complete(h) == h.summary /\ h.pot # NoPot

-----------------------------------------------------------------------------
(* The importer                                                            *)

\* The pot after each action, from the stored actions: the importer counts the contributions anew.
Run(run, a) ==
    LET fresh == a.street # run.street /\ a.street \in BoardStreets
        put == IF fresh THEN Nothing(DOMAIN run.put) ELSE run.put
        paid == CASE a.kind \in PutsChips -> a.amount
                  [] a.kind = "raise" -> Positive(a.to - put[a.who])
                  [] a.kind = "uncalled_return" -> -a.amount
                  [] OTHER -> 0
        pot == IF a.kind = "collect" THEN run.pot ELSE Positive(run.pot + paid)
    IN [put |-> [put EXCEPT ![a.who] = @ + Positive(paid)],
        street |-> IF fresh THEN a.street ELSE run.street,
        pot |-> pot,
        after |-> Append(run.after, pot)]
RunningPot(h) ==
    FoldLeft(Run, [put |-> Nothing(h.names), street |-> NoStreet, pot |-> 0, after |-> <<>>], h.actions).after

\* _classify
Classification(h) ==
    LET mine(a) == a.who = h.hero
        did(Test(_)) == \E i \in DOMAIN h.actions : mine(h.actions[i]) /\ Test(h.actions[i])
        preflop(kind) == did(LAMBDA a : a.street = "preflop" /\ a.kind = kind)
    IN CASE h.hero = NoOne \/ ~h.cards -> "insufficient"
         [] did(LAMBDA a : a.allIn) -> "variance"
         [] preflop("call") /\ preflop("fold") -> "passive"
         [] OTHER -> "standard"

\* The rows _persist_hand adds: a Hand, its HandPlayers, its cards and its Actions.
StoredHand(h, rank) ==
    [actions |-> h.actions, potAfter |-> RunningPot(h),
     hero |-> h.hero, players |-> h.names, seats |-> h.seats, button |-> h.button,
     position |-> [p \in h.names |-> PositionOf(h, p)],
     stack |-> h.stack, ending |-> [p \in h.names |-> EndingStack(h, p)],
     invested |-> h.invested, won |-> h.won, net |-> [p \in h.names |-> NetOf(h, p)],
     showed |-> h.showed, allIn |-> h.allIn,
     bigBlind |-> h.bigBlind, board |-> h.board, totalPot |-> h.pot,
     heroNet |-> NetOf(h, h.hero),
     reachedShowdown |-> ReachedShowdown(h), classification |-> Classification(h),
     rank |-> rank]
=============================================================================
