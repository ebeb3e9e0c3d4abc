----------------------------- MODULE PokerStats -----------------------------
(***************************************************************************)
(* The statistics the application shows: calculate_hero_stats of           *)
(* backend/app/services/poker_stats.py, over stored hands (the records of  *)
(* HandHistory.StoredHand).                                                *)
(*                                                                         *)
(* What one hand adds is a record of counters and a record of              *)
(* denominators, as the loop's two Counters.  The hands are a bag: a       *)
(* function from hands to how many there are, for the order they are       *)
(* counted in does not matter.  A metric is a numerator and a denominator; *)
(* its rounded percentage is left out.                                     *)
(***************************************************************************)
EXTENDS Integers, Sequences, FiniteSetsExt, Functions, SequencesExt

Forced == {"post_small_blind", "post_big_blind", "post_ante"}
NotVoluntary == Forced \cup {"collect", "show", "muck", "uncalled_return"}
Raises == {"raise"}
Aggressive == {"bet", "raise"}
VoluntaryKinds == {"call", "bet", "raise"}

On(e, street) == SelectSeq(e.actions, LAMBDA a : a.street = street)
Pre(e) == On(e, "preflop")
VoluntaryPre(e) == SelectSeq(Pre(e), LAMBDA a : a.kind \notin NotVoluntary)

By(s, p) == SelectSeq(s, LAMBDA a : a.who = p)
ByOthers(s, p) == SelectSeq(s, LAMBDA a : a.who # p)
Has(s, kinds) == \E i \in DOMAIN s : s[i].kind \in kinds
After(s, i) == SubSeq(s, i + 1, Len(s))
One(b) == IF b THEN 1 ELSE 0
Count(s, kinds) == Len(SelectSeq(s, LAMBDA a : a.kind \in kinds))

\* The index of the first element of s that p, or another player, made of one of these kinds; or 0.
FirstBy(s, p, kinds) == SelectInSeq(s, LAMBDA a : a.who = p /\ a.kind \in kinds)
FirstByOther(s, p, kinds) == SelectInSeq(s, LAMBDA a : a.who # p /\ a.kind \in kinds)

\* The hero's first decision, the actions before it and those after it.
FirstIndex(e) == SelectInSeq(VoluntaryPre(e), LAMBDA a : a.who = e.hero)
Acted(e) == FirstIndex(e) > 0
First(e) == IF Acted(e) THEN VoluntaryPre(e)[FirstIndex(e)].kind ELSE "none"
Before(e) == IF Acted(e) THEN SubSeq(VoluntaryPre(e), 1, FirstIndex(e) - 1) ELSE VoluntaryPre(e)
OpponentOpened(e) == Has(ByOthers(Before(e), e.hero), Raises)

\* Mutant: a call is a limp even after a raise.
CalledFirst(e) == First(e) = "call"
Limped(e) == First(e) = "call" /\ ~OpponentOpened(e)
RaisedAfterLimp(e) == Limped(e) /\ FirstByOther(After(VoluntaryPre(e), FirstIndex(e)), e.hero, Raises) > 0
\* The hero's last action after the limp.
LimpResponse(e) ==
    LET own == By(After(VoluntaryPre(e), FirstIndex(e)), e.hero)
    IN IF RaisedAfterLimp(e) /\ own # <<>> THEN Last(own).kind ELSE "none"

FacedOpen(e) == OpponentOpened(e) /\ Acted(e)

\* The hero raised and was raised again: what is left of the betting after that.
AfterReraise(e) ==
    LET pre == VoluntaryPre(e)
        own == FirstBy(pre, e.hero, Raises)
        rest == After(pre, own)
        again == FirstByOther(rest, e.hero, Raises)
    IN [faced |-> own > 0 /\ again > 0, left |-> By(After(rest, again), e.hero)]
FoldedToReraise(e) ==
    LET r == AfterReraise(e) IN r.faced /\ r.left # <<>> /\ Head(r.left).kind = "fold"

\* An opponent's first all-in before the flop, the blinds included.
ShoveIndex(e) == SelectInSeq(Pre(e), LAMBDA a : a.who # e.hero /\ a.allIn)
CalledShove(e) ==
    ShoveIndex(e) > 0 /\ Has(By(After(Pre(e), ShoveIndex(e)), e.hero), {"call", "raise"})

BigBlindWalk(e) ==
    /\ e.position[e.hero] = "BB"
    /\ ~Has(ByOthers(VoluntaryPre(e), e.hero), {"call", "bet", "raise", "check"})
    /\ ~Acted(e)

FoldedPreflop(e) == Has(By(Pre(e), e.hero), {"fold"})
\* Mutant: the flop was dealt, whether or not the hero was still in.
FlopDealt(e) == e.board > 0
SawFlop(e) == e.board > 0 /\ ~FoldedPreflop(e)
Won(e) == e.won[e.hero] > 0
AtShowdown(e) == e.reachedShowdown /\ e.hero \in e.showed

\* Who raised last before the flop.
Aggressor(e) ==
    LET raises == SelectSeq(Pre(e), LAMBDA a : a.kind \in Raises)
    IN IF raises = <<>> THEN "nobody" ELSE Last(raises).who
HeroAggressor(e) == Aggressor(e) = e.hero
OpponentAggressor(e) == Aggressor(e) \notin {e.hero, "nobody"}
HeroBets(e, street) == Has(By(On(e, street), e.hero), Aggressive)

OpponentFlopBet(e) == FirstByOther(On(e, "flop"), e.hero, Aggressive)
FacedCbet(e) == OpponentAggressor(e) /\ OpponentFlopBet(e) > 0
\* Mutant: any later fold is a fold to the bet on the flop.
FoldedAfterCbet(e) == FacedCbet(e) /\ Has(By(e.actions, e.hero), {"fold"})
FoldedToCbet(e) == FacedCbet(e) /\ Has(By(After(On(e, "flop"), OpponentFlopBet(e)), e.hero), {"fold"})

\* On one street: a check of the hero and a raise after it.
CheckRaised(e, street) ==
    LET own == By(On(e, street), e.hero)
        check == SelectInSeq(own, LAMBDA a : a.kind = "check")
    IN check > 0 /\ Has(After(own, check), Raises)

HeroPost(e) == By(SelectSeq(e.actions, LAMBDA a : a.street \in {"flop", "turn", "river"}), e.hero)
HeroFolded(e) == Has(By(e.actions, e.hero), {"fold"})

-----------------------------------------------------------------------------
(* What one hand adds                                                      *)

Counters(e) ==
    LET pre == By(VoluntaryPre(e), e.hero)
        first == First(e)
        river == By(On(e, "river"), e.hero)
        net == e.net[e.hero]
    IN [vpip |-> One(Has(pre, VoluntaryKinds)),
        pfr |-> One(Has(pre, Raises)),
        limp |-> One(Limped(e)),
        limp_fold |-> One(LimpResponse(e) = "fold"),
        limp_call |-> One(LimpResponse(e) = "call"),
        limp_raise |-> One(LimpResponse(e) \in Raises),
        open_raise |-> One(first \in Raises /\ ~OpponentOpened(e)),
        fold_face_open |-> One(FacedOpen(e) /\ first = "fold"),
        call_face_open |-> One(FacedOpen(e) /\ first = "call"),
        three_bet |-> One(FacedOpen(e) /\ first \in Raises),
        oop_call |-> One(e.position[e.hero] \in {"SB", "BB"} /\ first = "call"),
        fold_face_three_bet |-> One(FoldedToReraise(e)),
        shove |-> One(\E i \in DOMAIN Pre(e) : Pre(e)[i].who = e.hero /\ Pre(e)[i].allIn),
        call_shove |-> One(CalledShove(e)),
        bb_walk |-> One(BigBlindWalk(e)),
        won_saw_flop |-> One(SawFlop(e) /\ Won(e)),
        went_showdown |-> One(AtShowdown(e)),
        won_showdown |-> One(AtShowdown(e) /\ Won(e)),
        cbet_flop |-> One(SawFlop(e) /\ HeroAggressor(e) /\ HeroBets(e, "flop")),
        fold_face_cbet |-> One(FoldedToCbet(e)),
        check_raise |-> Cardinality({s \in {"flop", "turn", "river"} : CheckRaised(e, s)}),
        aggressive_actions |-> Count(HeroPost(e), Aggressive),
        calls_postflop |-> Count(HeroPost(e), {"call"}),
        barrel_turn |-> One(HeroBets(e, "flop") /\ HeroBets(e, "turn")),
        barrel_river |-> One(HeroBets(e, "flop") /\ HeroBets(e, "turn") /\ HeroBets(e, "river")),
        fold_river |-> One(Has(river, {"fold"})),
        hero_call_river |-> One(Has(river, {"call"})),
        invested_stack_fold |-> One(HeroFolded(e) /\ 4 * e.invested[e.hero] >= e.stack[e.hero]),
        chip_result |-> net,
        losing_hands |-> One(net < 0)]

Denominators(e) ==
    LET position == e.position[e.hero]
    IN [hands |-> 1,
        limp_response |-> One(RaisedAfterLimp(e)),
        open_opportunity |-> One(Acted(e) /\ ~OpponentOpened(e)),
        face_open |-> One(FacedOpen(e)),
        oop_decisions |-> One(position \in {"SB", "BB"} /\ Acted(e)),
        face_three_bet |-> One(AfterReraise(e).faced),
        face_shove |-> One(ShoveIndex(e) > 0),
        bb_hands |-> One(position = "BB"),
        saw_flop |-> One(SawFlop(e)),
        showdown |-> One(AtShowdown(e)),
        cbet_opportunity |-> One(SawFlop(e) /\ HeroAggressor(e)),
        face_cbet |-> One(FacedCbet(e)),
        postflop_actions |-> Count(HeroPost(e), Aggressive \cup {"call", "check", "fold"}),
        turn_barrel_opportunity |-> One(HeroBets(e, "flop")),
        river_barrel_opportunity |-> One(HeroBets(e, "flop") /\ HeroBets(e, "turn")),
        river_seen |-> One(On(e, "river") # <<>>),
        fold_hands |-> One(HeroFolded(e)),
        calls_postflop |-> Count(HeroPost(e), {"call"})]

-----------------------------------------------------------------------------
(* Over all hands                                                          *)

\* The counter and the denominator of each metric.
MetricOf ==
    [vpip |-> <<"vpip", "hands">>, pfr |-> <<"pfr", "hands">>, limp |-> <<"limp", "hands">>,
     limp_fold |-> <<"limp_fold", "limp_response">>, limp_call |-> <<"limp_call", "limp_response">>,
     limp_raise |-> <<"limp_raise", "limp_response">>,
     open_raise |-> <<"open_raise", "open_opportunity">>,
     fold_face_open |-> <<"fold_face_open", "face_open">>,
     call_face_open |-> <<"call_face_open", "face_open">>,
     three_bet |-> <<"three_bet", "face_open">>,
     fold_face_three_bet |-> <<"fold_face_three_bet", "face_three_bet">>,
     shove |-> <<"shove", "hands">>, call_shove |-> <<"call_shove", "face_shove">>,
     oop_call |-> <<"oop_call", "oop_decisions">>,
     invested_stack_fold |-> <<"invested_stack_fold", "fold_hands">>,
     bb_walk |-> <<"bb_walk", "bb_hands">>,
     cbet_flop |-> <<"cbet_flop", "cbet_opportunity">>,
     fold_face_cbet |-> <<"fold_face_cbet", "face_cbet">>,
     check_raise |-> <<"check_raise", "saw_flop">>,
     aggression_frequency |-> <<"aggressive_actions", "postflop_actions">>,
     aggression_factor |-> <<"aggressive_actions", "calls_postflop">>,
     went_to_showdown |-> <<"went_showdown", "saw_flop">>,
     won_at_showdown |-> <<"won_showdown", "showdown">>,
     won_when_saw_flop |-> <<"won_saw_flop", "saw_flop">>,
     barrel_turn |-> <<"barrel_turn", "turn_barrel_opportunity">>,
     barrel_river |-> <<"barrel_river", "river_barrel_opportunity">>,
     fold_river |-> <<"fold_river", "river_seen">>,
     hero_call_river |-> <<"hero_call_river", "river_seen">>]

\* The sum of f over the hands, f being a record of numbers for each.
Tally(hands, f(_), names) ==
    LET times(e) == LET r == f(e) IN [k \in names |-> hands[e] * r[k]]
        plus(r, s) == [k \in names |-> r[k] + s[k]]
    IN MapThenFoldSet(plus, [k \in names |-> 0], times, LAMBDA S : CHOOSE e \in S : TRUE, DOMAIN hands)

CounterNames == {MetricOf[m][1] : m \in DOMAIN MetricOf} \cup {"chip_result", "losing_hands"}
DenominatorNames == {MetricOf[m][2] : m \in DOMAIN MetricOf}

HeroStats(hands) ==
    LET counters == Tally(hands, Counters, CounterNames)
        denominator == Tally(hands, Denominators, DenominatorNames)
    IN [hands |-> denominator["hands"], chip_result |-> counters["chip_result"],
        losing_hands |-> counters["losing_hands"],
        metrics |-> [m \in DOMAIN MetricOf |->
                        [num |-> counters[MetricOf[m][1]], den |-> denominator[MetricOf[m][2]]]]]

\* The larger of the opponents' stacks, or the hero's if that is smaller.
EffectiveStack(e) ==
    Min({e.stack[e.hero], Max({e.stack[p] : p \in e.players \ {e.hero}})})
DepthBucket(e) ==
    LET within(bb) == EffectiveStack(e) <= bb * e.bigBlind
    IN CASE within(5) -> "0-5 BB" [] within(10) -> "5-10 BB" [] within(15) -> "10-15 BB"
         [] within(25) -> "15-25 BB" [] OTHER -> "above 25 BB"
HeadsUp(e) == Cardinality(e.players) = 2
\* Heads-up the button is also shown as a button's hand.
PositionsOf(e) == {e.position[e.hero]} \cup IF HeadsUp(e) /\ e.button = e.hero THEN {"BTN"} ELSE {}

Among(hands, Test(_)) == HeroStats(RestrictDomain(hands, Test))
AtPosition(hands, p) == Among(hands, LAMBDA e : p \in PositionsOf(e))
AtDepth(hands, b) == Among(hands, LAMBDA e : DepthBucket(e) = b)
=============================================================================
