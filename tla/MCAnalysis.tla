----------------------------- MODULE MCAnalysis -----------------------------
EXTENDS Analysis, TLC

Setup(seats, stack, size, returns) ==
    [seats |-> seats, stack |-> [p \in ToSet(seats) |-> stack[p]], size |-> size, returns |-> returns]

\* Short stacks of three sizes, one that cannot post or call a whole blind, and two players
\* who go all in, if they bet, with nine, ten or eleven big blinds.
Trios == {<<"v1", "hero", "v2">>, <<"hero", "v2", "v1">>, <<"v1", "v2", "hero">>}
Duos == {<<"v1", "hero">>, <<"hero", "v1">>}
MCSetups ==
    {Setup(seats, [hero |-> 4, v1 |-> 4, v2 |-> 6], BigBlind, r) : seats \in Trios, r \in BOOLEAN}
    \cup {Setup(seats, [hero |-> 4, v1 |-> 1, v2 |-> 4], BigBlind, TRUE) : seats \in Trios}
    \cup {Setup(seats, [hero |-> 8, v1 |-> 8], BigBlind, r) : seats \in Duos, r \in BOOLEAN}
    \cup {Setup(seats, [hero |-> n, v1 |-> n], n - BigBlind, TRUE) : seats \in Duos, n \in {18, 20, 22}}

\* Two at once, one inside another, a pause of exactly the gap, a ticket, a game of two, a game
\* under way, one that is no Expresso and one whose multiplier is not known.
T(id, start, duration, rank, reward) ==
    [id |-> id, start |-> start, duration |-> duration, ended |-> start + duration, day |-> start \div 100,
     buyin |-> 100, reward |-> reward, ticket |-> FALSE, rank |-> rank, players |-> 3,
     multiplier |-> 2, chips |-> 10 * (2 - rank), hands |-> 9, expresso |-> TRUE, completed |-> TRUE]
MCTournaments ==
    {[T(1, 0, 90, 3, 0) EXCEPT !.ended = NoEnd],
     [T(2, 5, 5, 2, 0) EXCEPT !.ended = 11, !.multiplier = 3],
     T(3, 120, 20, 1, 200),
     [T(4, 120, 10, 1, 100) EXCEPT !.buyin = 200, !.ticket = TRUE],
     [T(5, 300, 10, 2, 100) EXCEPT !.players = 2, !.chips = NoChips],
     [T(6, 700, 30, 3, 0) EXCEPT !.multiplier = NoMultiplier],
     [T(7, 720, 30, 1, 300) EXCEPT !.completed = FALSE],
     [T(8, 722, 30, 1, 300) EXCEPT !.expresso = FALSE]}
MCStacks == 1 .. 54
MCThreshold ==
    [limp_fold_pct |-> 45, oop_call_pct |-> 35, vpip_pct |-> 55, pfr_min_pct |-> 25,
     vpip_pfr_gap_pct |-> 18, button_vpip_min_pct |-> 45, bb_fold_pct |-> 62,
     short_call_shove_pct |-> 32, invested_fold_pct |-> 25, cbet_pct |-> 85,
     fold_to_cbet_pct |-> 65, turn_aggression_min_pct |-> 25, river_hero_call_pct |-> 35,
     river_aggression_min_pct |-> 20, depth_result_min_chips_per_hand |-> -5,
     heads_up_win_min_pct |-> 45, third_place_pct |-> 42]
=============================================================================
