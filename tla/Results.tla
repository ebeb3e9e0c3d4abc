------------------------------ MODULE Results -------------------------------
(***************************************************************************)
(* The repository's second set of reports, backend/app/analytics:          *)
(* results.py, sessions.py and chip_ev.py, over the same tournament        *)
(* records as Reports, each of which carries every field the code would    *)
(* otherwise look for under another name.                                  *)
(***************************************************************************)
EXTENDS Reports

Completed(ts) == {t \in ts : t.completed}

\* tournament_is_itm: a ticket is a prize too.
InTheMoney(t) == t.reward > 0 \/ t.ticket

\* group_results: the sums of each period.
GroupResults(ts, period) ==
    LET of(k) == {t \in Completed(ts) : Period(t, period) = k}
        line(g) == [games |-> Cardinality(g), buyins |-> Total(g, LAMBDA t : t.buyin),
                    winnings |-> Total(g, LAMBDA t : t.reward), net |-> Total(g, NetResult)]
    IN [k \in {Period(t, period) : t \in Completed(ts)} |-> line(of(k))]

\* max_drawdown
MaxDrawdown(nets) ==
    FoldLeft(LAMBDA s, x :
                LET sum == s.sum + x
                IN [sum |-> sum, peak |-> Max({s.peak, sum}),
                    worst |-> Max({s.worst, Max({s.peak, sum}) - sum})],
             [sum |-> 0, peak |-> 0, worst |-> 0], nets).worst

ResultsDashboard(ts) ==
    LET games == Completed(ts)
        n == Cardinality(games)
        nets == Nets(Ordered(games))
        buyins == Total(games, LAMBDA t : t.buyin)
        ranked(r) == Rate(Having(games, LAMBDA t : t.rank = r), n)
    IN [games |-> n, hands |-> Total(games, LAMBDA t : t.hands),
        buyins |-> buyins, winnings |-> Total(games, LAMBDA t : t.reward),
        net |-> Total(games, NetResult), roi |-> Rate(Total(games, NetResult), buyins),
        wins |-> ranked(1), seconds |-> ranked(2), thirds |-> ranked(3),
        itm |-> Rate(Having(games, InTheMoney), n),
        hourly |-> Rate(60 * Total(games, NetResult), Total(games, LAMBDA t : t.duration)),
        biggestGain |-> IF games = {} THEN 0 ELSE Max(ToSet(nets)),
        downswing |-> MaxDrawdown(nets),
        bankroll |-> [i \in DOMAIN nets |-> FoldLeft(+, 0, SubSeq(nets, 1, i))],
        byPeriod |-> [p \in {"day", "week", "month"} |-> GroupResults(games, p)]]

\* calculate_expresso_breakdown: the rates are those of the dashboard of some of the games.
ExpressoBreakdown(ts) ==
    LET games == Completed(ts)
        headsUp == {t \in games : t.rank \in {1, 2}}
        three == {t \in games : t.players = 3}
        lost == {t \in games : t.rank # 1}
    IN [headsUpWins |-> ResultsDashboard(headsUp).wins,
        threeHandedWins |-> ResultsDashboard(three).wins,
        firstElimination |-> Rate(Having(three, LAMBDA t : t.rank = 3), Cardinality(three)),
        averageElimination |-> Rate(Total(lost, LAMBDA t : t.duration), Cardinality(lost)),
        byLimit |-> [k \in {t.buyin : t \in games} |-> ResultsDashboard({t \in games : t.buyin = k})],
        averageMultiplier |-> Rate(Total(Multiplied(games), LAMBDA t : t.multiplier),
                                   Cardinality(Multiplied(games)))]

\* filter_tournaments; positive is "any", "yes" or "no".
FilterTournaments(ts, f, positive) ==
    {t \in Completed(ts) :
        /\ f.start = NoFilter \/ t.start >= f.start
        /\ f.end = NoFilter \/ t.start <= f.end
        /\ f.buyin = NoFilter \/ t.buyin = f.buyin
        /\ f.multiplier = NoFilter \/ t.multiplier = f.multiplier
        /\ f.rank = NoFilter \/ t.rank = f.rank
        /\ f.players = NoFilter \/ t.players = f.players
        /\ positive # "any" => ((NetResult(t) > 0) <=> positive = "yes")}

-----------------------------------------------------------------------------
(* group_sessions                                                          *)

\* Mutant: the end of the session is that of its last tournament.
PlacedAfterLast(s, t) ==
    LET startsNew == s.current # <<>> /\ t.start - s.end > Gap
    IN [groups |-> IF startsNew THEN Append(s.groups, s.current) ELSE s.groups,
        current |-> IF startsNew THEN <<t>> ELSE Append(s.current, t),
        end |-> EndOf(t)]

\* What has been grouped, the session under way and the latest end in it.
Placed(s, t) ==
    LET startsNew == s.current # <<>> /\ t.start - s.end > Gap
    IN [groups |-> IF startsNew THEN Append(s.groups, s.current) ELSE s.groups,
        current |-> IF startsNew THEN <<t>> ELSE Append(s.current, t),
        end |-> IF startsNew \/ s.current = <<>> THEN EndOf(t) ELSE Max({s.end, EndOf(t)})]

GroupSessions(ts) ==
    LET s == FoldLeft(Placed, [groups |-> <<>>, current |-> <<>>, end |-> 0], Ordered(Completed(ts)))
    IN IF s.current = <<>> THEN s.groups ELSE Append(s.groups, s.current)

\* _summarize_session
SessionSummary(group) ==
    LET of == ToSet(group)
        start == Min({t.start : t \in of})
        end == Max({EndOf(t) : t \in of})
    IN [start |-> start, end |-> end, duration |-> Max({0, end - start}),
        games |-> Len(group), net |-> Total(of, NetResult),
        best |-> Max({NetResult(t) : t \in of}), worst |-> Min({NetResult(t) : t \in of})]

-----------------------------------------------------------------------------
(* calculate_chip_ev: a tournament counts with its own chip result, or     *)
(* with that of its hands when they are all there and complete.            *)

\* handsOf[t]: the hands known of t, each [complete, net].
ChipsOf(t, hands) ==
    IF t.chips # NoChips THEN t.chips
    ELSE IF hands = <<>> \/ Len(hands) < t.hands \/ \E i \in DOMAIN hands : ~hands[i].complete
    THEN NoChips
    ELSE FoldLeft(LAMBDA x, h : x + h.net, 0, hands)

ChipEv(ts, handsOf) ==
    LET usable == {t \in Completed(ts) : ChipsOf(t, handsOf[t]) # NoChips}
    IN Rate(Total(usable, LAMBDA t : ChipsOf(t, handsOf[t])), Cardinality(usable))
=============================================================================
