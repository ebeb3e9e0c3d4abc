----------------------------- MODULE LeakEngine -----------------------------
(***************************************************************************)
(* The leaks the application points out: detect_leaks of                   *)
(* backend/app/services/leak_engine.py, from the statistics of PokerStats  *)
(* and the figures of a dashboard, against configurable thresholds, and    *)
(* the hands it lists under each.                                          *)
(*                                                                         *)
(* An observed value is a fraction [num, den] that stands for              *)
(* 100 * num / den.  Wording and the rounding of what is displayed are     *)
(* left out.                                                               *)
(***************************************************************************)
EXTENDS PokerStats

CONSTANT Threshold \* the settings' leak_thresholds, by key

Listable == 50 \* hands listed under one leak

Above(v, t) == v.den > 0 /\ 100 * v.num > t * v.den
Below(v, t) == v.den > 0 /\ 100 * v.num < t * v.den

Flag(name, observed, t, occurrences, sample, low) ==
    [name |-> name, observed |-> observed, threshold |-> t,
     occurrences |-> occurrences, sample |-> sample, low |-> low]

\* Three severities, by how far the value is past the threshold.
Severity(f) ==
    LET past(x) == IF f.low THEN 100 * f.observed.num <= (f.threshold - x) * f.observed.den
                            ELSE 100 * f.observed.num >= (f.threshold + x) * f.observed.den
    IN CASE past(15) -> 3 [] past(7) -> 2 [] OTHER -> 1

-----------------------------------------------------------------------------
(* The rules on one metric: its threshold, the smallest sample and whether *)
(* a low value is the leak.                                                *)

Rule(metric, key, name, minimum, low) ==
    [metric |-> metric, key |-> key, name |-> name, minimum |-> minimum, low |-> low]
High(metric, key, name, minimum) == Rule(metric, key, name, minimum, FALSE)
Low(metric, key, name, minimum) == Rule(metric, key, name, minimum, TRUE)

MetricRules ==
    {High("limp_fold", "limp_fold_pct", "limp-fold", 8),
     High("vpip", "vpip_pct", "vpip", 12),
     High("oop_call", "oop_call_pct", "out of position", 15),
     Low("pfr", "pfr_min_pct", "pfr", 20),
     High("fold_face_open", "bb_fold_pct", "folds to an open", 12),
     High("call_shove", "short_call_shove_pct", "shove", 8),
     High("invested_stack_fold", "invested_fold_pct", "folds invested", 8),
     High("cbet_flop", "cbet_pct", "continuation bet", 12),
     High("fold_face_cbet", "fold_to_cbet_pct", "folds to a c-bet", 10),
     Low("barrel_turn", "turn_aggression_min_pct", "turn", 10),
     High("hero_call_river", "river_hero_call_pct", "hero calls river", 8),
     Low("barrel_river", "river_aggression_min_pct", "river", 10)}
ButtonRule == Low("vpip", "button_vpip_min_pct", "button", 20)
BigBlindRule == High("fold_face_open", "bb_fold_pct", "big blind", 15)

\* add_high and add_low: the flag of a rule, if the metrics break it.
Raised(rule, metrics) ==
    LET v == metrics[rule.metric]
        t == Threshold[rule.key]
    IN IF v.den >= rule.minimum /\ (IF rule.low THEN Below(v, t) ELSE Above(v, t))
       THEN {Flag(rule.name, v, t, v.num, v.den, rule.low)} ELSE {}

-----------------------------------------------------------------------------
(* The other rules                                                         *)

GapFlag(stats) ==
    LET vpip == stats.metrics["vpip"]
        v == [num |-> vpip.num - stats.metrics["pfr"].num, den |-> vpip.den]
        t == Threshold["vpip_pfr_gap_pct"]
    IN IF stats.hands >= 20 /\ Above(v, t) THEN {Flag("gap", v, t, 0, stats.hands, FALSE)} ELSE {}

\* The shoves called at the two shortest depths, together.
ShortShoveFlag(hands) ==
    LET shoves == Among(hands, LAMBDA e : DepthBucket(e) \in {"0-5 BB", "5-10 BB"}).metrics["call_shove"]
        t == Threshold["short_call_shove_pct"]
    IN {Flag("short shove", v, t, v.num, v.den, FALSE) :
            v \in {w \in {shoves} : w.den >= 8 /\ Above(w, t)}}

\* Chips per hand at each depth.
DepthFlags(hands) ==
    LET t == Threshold["depth_result_min_chips_per_hand"]
        depths == {AtDepth(hands, DepthBucket(e)) : e \in DOMAIN hands}
    IN {Flag("results", [num |-> d.chip_result, den |-> 100 * d.hands], t, 0, d.hands, TRUE) :
            d \in {x \in depths : x.hands >= 30 /\ x.chip_result < t * x.hands}}

\* dashboard: games, wins, seconds, thirds.
RankFlags(dashboard) ==
    LET headsUp == [num |-> dashboard.wins, den |-> dashboard.wins + dashboard.seconds]
        thirds == [num |-> dashboard.thirds, den |-> dashboard.games]
        percent == (20000 * thirds.num + thirds.den) \div (2 * thirds.den) \* in hundredths
        tHu == Threshold["heads_up_win_min_pct"]
        tThird == Threshold["third_place_pct"]
    IN IF dashboard.games < 30 THEN {}
       ELSE  (IF Below(headsUp, tHu)
              THEN {Flag("heads-up", headsUp, tHu, 0, dashboard.games, TRUE)} ELSE {})
        \cup (IF Above(thirds, tThird)
              THEN {Flag("third", thirds, tThird, (dashboard.games * percent) \div 10000,
                         dashboard.games, FALSE)} ELSE {})

DetectLeaks(hands, dashboard) ==
    LET stats == HeroStats(hands)
        rules == [BTN |-> ButtonRule, BB |-> BigBlindRule]
    IN UNION {Raised(r, stats.metrics) : r \in MetricRules}
        \cup UNION {Raised(rules[p], AtPosition(hands, p).metrics) : p \in DOMAIN rules}
        \cup GapFlag(stats) \cup ShortShoveFlag(hands) \cup DepthFlags(hands) \cup RankFlags(dashboard)

-----------------------------------------------------------------------------
(* _affected_hand_ids: the hands listed under a leak.  The branches are    *)
(* told apart by words of the leak's name: "gap" has the word of "vpip",   *)
(* and nothing answers to "folds to an open".                              *)

Listed(name, e) ==
    LET own == By(e.actions, e.hero)
        pre == SelectSeq(own, LAMBDA a : a.street = "preflop" /\ a.kind \notin Forced)
        on(street) == By(On(e, street), e.hero)
        calledShove == \E i, j \in DOMAIN e.actions :
                            /\ i < j /\ e.actions[i].who # e.hero /\ e.actions[i].allIn
                            /\ e.actions[j].who = e.hero /\ e.actions[j].kind \in {"call", "raise"}
    IN CASE name = "limp-fold" -> Has(pre, {"call"}) /\ Has(pre, {"fold"})
         [] name = "out of position" -> e.position[e.hero] \in {"SB", "BB"} /\ Has(pre, {"call"})
         [] name \in {"vpip", "gap"} -> Has(pre, VoluntaryKinds)
         [] name = "pfr" -> Has(pre, {"call"}) /\ ~Has(pre, {"raise"})
         [] name = "button" -> e.button = e.hero /\ ~Has(pre, VoluntaryKinds)
         [] name = "big blind" -> e.position[e.hero] = "BB" /\ Has(pre, {"fold"})
         [] name = "shove" -> calledShove
         [] name = "short shove" -> calledShove /\ EffectiveStack(e) < 10 * e.bigBlind
         [] name = "folds invested" -> 4 * e.invested[e.hero] >= e.stack[e.hero] /\ Has(own, {"fold"})
         [] name = "continuation bet" -> Has(on("flop"), Aggressive)
         [] name = "folds to a c-bet" -> Has(on("flop"), {"fold"})
         [] name = "turn" -> e.board >= 4 /\ ~Has(on("turn"), Aggressive)
         [] name = "river" -> e.board = 5 /\ ~Has(on("river"), Aggressive)
         [] name = "hero calls river" -> Has(on("river"), {"call"})
         [] name = "heads-up" -> HeadsUp(e)
         [] name = "third" -> e.rank = 3
         [] name = "results" -> e.net[e.hero] < 0
         [] OTHER -> FALSE

\* How many hands are listed, no more than Listable.
ListedCount(name, hands) ==
    Min({Listable, MapThenSumSet(LAMBDA e : hands[e], {e \in DOMAIN hands : Listed(name, e)})})
=============================================================================
