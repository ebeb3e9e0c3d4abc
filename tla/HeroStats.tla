----------------------------- MODULE HeroStats ------------------------------
(***************************************************************************)
(* The repository's second statistics engine,                              *)
(* backend/app/analytics/hero_stats.py, over parsed hands (HandHistory).   *)
(* A parsed hand carries none of the explicit flags that would override    *)
(* what is derived from the actions.                                       *)
(*                                                                         *)
(* A row is what _hand_flags returns: the set of its true flags and three  *)
(* counts.                                                                 *)
(***************************************************************************)
EXTENDS HandHistory

\* _kind reads words: "uncalled return" has the word "call" in it.
KindOf(a) == CASE a.kind \in Posts -> "blind" [] a.kind = "uncalled_return" -> "call" [] OTHER -> a.kind

Decisions == {"fold", "check", "call", "bet", "raise"}
Agg(kind) == kind \in {"bet", "raise"}
PutsIn(kind) == kind \in {"call", "bet", "raise"}
If(b, flag) == IF b THEN {flag} ELSE {}
OnStreet(h, street) ==
    SelectSeq(h.actions, LAMBDA a : a.street = street /\ KindOf(a) \in Decisions)

-----------------------------------------------------------------------------
(* Before the flop                                                         *)

HeroPreflop(s, kind, allIn, hero) ==
    LET open == s.raises = 1 /\ ~s.raisedAlready
        again == s.openRaised /\ s.raises = 2
        raisedLimp == s.limped /\ s.raises > 0
        shove == s.opponentAllIn /\ kind \in {"fold", "call", "raise"}
    IN [s EXCEPT
            !.flags = @ \cup If(allIn /\ Agg(kind), "shove")
                \cup If(shove, "faced_shove") \cup If(shove /\ kind = "call", "call_shove")
                \cup If(open, "faced_open") \cup If(open /\ kind = "fold", "fold_vs_open")
                \cup If(open /\ kind = "call", "call_vs_open")
                \cup If(again, "faced_three_bet") \cup If(again /\ kind = "fold", "fold_vs_three_bet")
                \cup If(raisedLimp, "limp_faced_raise") \cup If(raisedLimp /\ kind = "fold", "limp_fold")
                \cup If(raisedLimp /\ kind = "call", "limp_call") \cup If(raisedLimp /\ Agg(kind), "limp_raise")
                \cup If(PutsIn(kind), "vpip") \cup If(Agg(kind), "pfr")
                \cup If(Agg(kind) /\ s.raises = 1 /\ s.lastRaiser # hero, "three_bet"),
            !.openRaised = @ \/ (Agg(kind) /\ ~s.voluntaryBefore),
            !.raisedAlready = @ \/ Agg(kind),
            !.limped = IF ~s.decided /\ PutsIn(kind) THEN kind = "call" /\ s.raises = 0 ELSE @,
            !.decided = @ \/ PutsIn(kind)]

OpponentPreflop(s, kind, allIn) ==
    [s EXCEPT !.opponentAllIn = @ \/ allIn,
              !.flags = @ \cup If(Agg(kind) /\ s.limped, "limp_faced_raise")
                          \cup If(Agg(kind) /\ s.openRaised /\ s.raises = 1, "faced_three_bet"),
              !.voluntaryBefore = @ \/ PutsIn(kind)]

Preflop(h) ==
    LET step(s, a) ==
            LET kind == KindOf(a)
                t == IF a.who = h.hero THEN HeroPreflop(s, kind, a.allIn, h.hero)
                                       ELSE OpponentPreflop(s, kind, a.allIn)
            IN IF Agg(kind) THEN [t EXCEPT !.raises = @ + 1, !.lastRaiser = a.who] ELSE t
    IN FoldLeft(step,
                [flags |-> {}, raises |-> 0, lastRaiser |-> NoOne, voluntaryBefore |-> FALSE,
                 limped |-> FALSE, openRaised |-> FALSE, raisedAlready |-> FALSE,
                 opponentAllIn |-> FALSE, decided |-> FALSE],
                OnStreet(h, "preflop"))

-----------------------------------------------------------------------------
(* After the flop                                                          *)

Folded(h, street) == \E i \in DOMAIN OnStreet(h, street) :
                        OnStreet(h, street)[i].who = h.hero /\ OnStreet(h, street)[i].kind = "fold"
HeroActs(h, street) == \E i \in DOMAIN OnStreet(h, street) : OnStreet(h, street)[i].who = h.hero
Saw(h, street) ==
    LET flop  == ~Folded(h, "preflop") /\ (HeroActs(h, "flop") \/ h.board >= 3)
        turn  == flop /\ ~Folded(h, "flop") /\ (HeroActs(h, "turn") \/ h.board >= 4)
    IN CASE street = "flop" -> flop
         [] street = "turn" -> turn
         [] OTHER -> turn /\ ~Folded(h, "turn") /\ (HeroActs(h, "river") \/ h.board >= 5)

\* One street; last is the last raiser before the flop.
Street(h, street, last) ==
    LET flop == street = "flop"
        river == street = "river"
        own == last = h.hero
        hero(s, kind) ==
            [s EXCEPT
                !.acted = TRUE,
                !.checked = @ \/ kind = "check",
                !.aggressive = IF Agg(kind) THEN @ + 1 ELSE @,
                !.calls = IF kind = "call" THEN @ + 1 ELSE @,
                !.folds = IF kind = "fold" THEN @ + 1 ELSE @,
                !.flags = @ \cup If(Agg(kind) /\ s.betAfterCheck, "check_raise")
                    \cup If(Agg(kind) /\ ~s.opponentBet /\ flop /\ own /\ Saw(h, "flop"), "cbet")
                    \cup If(Agg(kind) /\ ~s.opponentBet /\ street = "turn", "turn_barrel")
                    \cup If(Agg(kind) /\ ~s.opponentBet /\ river, "river_barrel")
                    \cup If(kind = "call" /\ river /\ s.opponentBet, "hero_call_river")
                    \cup If(kind = "fold" /\ flop /\ "faced_cbet" \in s.flags, "fold_vs_cbet")
                    \cup If(kind = "fold" /\ river /\ s.opponentBet, "fold_river")]
        bet(s, who) ==
            [s EXCEPT
                !.opponentBet = TRUE,
                !.betAfterCheck = @ \/ s.checked,
                !.flags = @ \cup If(flop /\ own /\ ~s.acted, "donk")
                    \cup If(s.checked, "check_raise_opportunity")
                    \cup If(flop /\ ~own /\ who = last, "faced_cbet")
                    \cup If(river, "faced_river_bet")]
        step(s, a) ==
            CASE a.who = h.hero -> hero(s, KindOf(a))
              [] a.who # h.hero /\ Agg(KindOf(a)) -> bet(s, a.who)
              [] OTHER -> s
    IN FoldLeft(step, [flags |-> {}, acted |-> FALSE, checked |-> FALSE, opponentBet |-> FALSE,
                       betAfterCheck |-> FALSE, aggressive |-> 0, calls |-> 0, folds |-> 0],
                OnStreet(h, street))

-----------------------------------------------------------------------------
(* The row of a hand                                                       *)

\* The button counts as such even when it posts the small blind.
Position(h) == IF h.hero = h.button THEN "BTN" ELSE PositionOf(h, h.hero)
\* The smallest stack at the table.
DepthOf(h) ==
    LET within(bb) == Min({h.stack[p] : p \in h.names}) < bb * h.bigBlind
    IN CASE within(5) -> "0-5 BB" [] within(10) -> "5-10 BB" [] within(15) -> "10-15 BB"
         [] within(25) -> "15-25 BB" [] OTHER -> "above 25 BB"

HandFlags(h) ==
    LET pre == Preflop(h)
        of == [s \in BoardStreets |-> Street(h, s, pre.lastRaiser)]
        post == UNION {of[s].flags : s \in BoardStreets}
        sum(f(_)) == MapThenSumSet(f, BoardStreets)
        won == h.won[h.hero] > 0
        folded == \E s \in BoardStreets \cup {"preflop"} : Folded(h, s)
        showdown == h.hero \in h.showed \/ (ReachedShowdown(h) /\ Saw(h, "river") /\ ~folded)
        bb == Position(h) = "BB"
        walk == /\ "vpip" \notin pre.flags
                /\ \A i \in DOMAIN OnStreet(h, "preflop") :
                        LET a == OnStreet(h, "preflop")[i] IN a.who = h.hero \/ ~PutsIn(KindOf(a))
        out == bb \/ (Position(h) = "SB" /\ Cardinality(h.names) # 2)
        cbetChance == pre.lastRaiser = h.hero /\ Saw(h, "flop") /\ "donk" \notin post
        barrelChance == "cbet" \in post /\ Saw(h, "turn")
        turnBarrel == "turn_barrel" \in post /\ barrelChance
        riverChance == turnBarrel /\ Saw(h, "river")
    IN [aggressive |-> sum(LAMBDA s : of[s].aggressive),
        calls |-> sum(LAMBDA s : of[s].calls),
        folds |-> sum(LAMBDA s : of[s].folds),
        flags |-> {"hand"} \cup pre.flags
            \cup (post \ {"turn_barrel", "river_barrel", "donk"})
            \cup If(pre.limped, "limp") \cup If(pre.openRaised, "open_raise")
            \cup If(bb, "bb_hand") \cup If(bb /\ walk, "bb_walk")
            \cup If(bb /\ "faced_open" \in pre.flags, "bb_faced_raise")
            \cup If(bb /\ {"faced_open", "fold_vs_open"} \subseteq pre.flags, "bb_fold_vs_raise")
            \cup If(out /\ "faced_open" \in pre.flags, "oop_faced_open")
            \cup If(out /\ {"faced_open", "call_vs_open"} \subseteq pre.flags, "oop_call")
            \cup If(Position(h) = "BTN", "button_hand")
            \cup If(Position(h) = "BTN" /\ "vpip" \in pre.flags, "button_vpip")
            \cup If(Saw(h, "flop"), "saw_flop") \cup If(Saw(h, "flop") /\ won, "won_saw_flop")
            \cup If(cbetChance, "cbet_opportunity")
            \cup If(barrelChance, "turn_barrel_opportunity") \cup If(turnBarrel, "turn_barrel")
            \cup If(riverChance, "river_barrel_opportunity")
            \cup If(riverChance /\ "river_barrel" \in post, "river_barrel")
            \cup If(showdown, "showdown") \cup If(showdown /\ won, "won_showdown")]

-----------------------------------------------------------------------------
(* _summarize                                                              *)

\* The flag counted and the flag of the rows it is counted among.
FrequencyOf ==
    [vpip |-> <<"vpip", "hand">>, pfr |-> <<"pfr", "hand">>, limp |-> <<"limp", "hand">>,
     limp_fold |-> <<"limp_fold", "limp_faced_raise">>, limp_call |-> <<"limp_call", "limp_faced_raise">>,
     limp_raise |-> <<"limp_raise", "limp_faced_raise">>, open_raise |-> <<"open_raise", "hand">>,
     fold_vs_open |-> <<"fold_vs_open", "faced_open">>, call_vs_open |-> <<"call_vs_open", "faced_open">>,
     three_bet |-> <<"three_bet", "faced_open">>,
     fold_vs_three_bet |-> <<"fold_vs_three_bet", "faced_three_bet">>,
     shove |-> <<"shove", "hand">>, call_shove |-> <<"call_shove", "faced_shove">>,
     bb_walk |-> <<"bb_walk", "bb_hand">>, bb_fold_vs_raise |-> <<"bb_fold_vs_raise", "bb_faced_raise">>,
     oop_call |-> <<"oop_call", "oop_faced_open">>, button_vpip |-> <<"button_vpip", "button_hand">>,
     cbet_flop |-> <<"cbet", "cbet_opportunity">>, fold_vs_cbet |-> <<"fold_vs_cbet", "faced_cbet">>,
     check_raise |-> <<"check_raise", "check_raise_opportunity">>,
     went_to_showdown |-> <<"showdown", "saw_flop">>, won_at_showdown |-> <<"won_showdown", "showdown">>,
     won_when_saw_flop |-> <<"won_saw_flop", "saw_flop">>,
     turn_barrel |-> <<"turn_barrel", "turn_barrel_opportunity">>,
     river_barrel |-> <<"river_barrel", "river_barrel_opportunity">>,
     fold_river |-> <<"fold_river", "faced_river_bet">>,
     hero_call_river |-> <<"hero_call_river", "faced_river_bet">>]

\* The numerator is counted among the rows of the denominator only.
Summarize(rows) ==
    LET having(fs) == Len(SelectSeq(rows, LAMBDA r : fs \subseteq r.flags))
        total(f(_)) == FoldLeft(LAMBDA x, r : x + f(r), 0, rows)
    IN [hands |-> Len(rows),
        aggressive |-> total(LAMBDA r : r.aggressive),
        calls |-> total(LAMBDA r : r.calls),
        decisions |-> total(LAMBDA r : r.aggressive + r.calls + r.folds),
        metrics |-> [m \in DOMAIN FrequencyOf |->
                        [num |-> having({FrequencyOf[m][1], FrequencyOf[m][2]}),
                         den |-> having({FrequencyOf[m][2]})]]]

\* Incomplete hands have no row.
Rows(hands) == FoldLeft(LAMBDA rows, h : Append(rows, HandFlags(h)), <<>>, SelectSeq(hands, Complete))
HeroStatistics(hands) == Summarize(Rows(hands))
=============================================================================
