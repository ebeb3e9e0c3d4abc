------------------------------ MODULE Reports -------------------------------
(***************************************************************************)
(* The reports on tournaments the application shows:                       *)
(* backend/app/services/queries.py.  A tournament t is a record            *)
(*   id, start, duration, ended (or NoEnd), day                            *)
(*   buyin, reward, ticket, rank, players, multiplier (or NoMultiplier)    *)
(*   chips (or NoChips), hands, expresso, completed                        *)
(* Money is in cents and time in minutes; rates are pairs [num, den] whose *)
(* rounding is left out.  The calendar's weeks and months are blocks of    *)
(* days.                                                                   *)
(***************************************************************************)
EXTENDS Integers, Sequences, FiniteSetsExt, Functions, SequencesExt

CONSTANTS
    WeekDays, MonthDays, \* days in a week, in a month
    Gap                  \* session_gap_minutes

NoEnd == -1
NoChips == -1000000
NoFilter == -1
NoMultiplier == -2

Rate(n, d) == [num |-> n, den |-> d]
NetResult(t) == t.reward - t.buyin
EndOf(t) == IF t.ended # NoEnd THEN t.ended ELSE t.start + t.duration
Total(ts, f(_)) == MapThenFoldSet(+, 0, f, LAMBDA S : CHOOSE x \in S : TRUE, ts)
Having(ts, Test(_)) == Cardinality({t \in ts : Test(t)})

\* sorted(..., key=started_at); tournaments of the same minute keep the order of their rows.
Precedes(t, u) == t.start < u.start \/ (t.start = u.start /\ t.id < u.id)
Ordered(ts) == [i \in 1 .. Cardinality(ts) |->
                    CHOOSE t \in ts : Cardinality({u \in ts : Precedes(u, t)}) = i - 1]
Multiplied(ts) == {t \in ts : t.multiplier # NoMultiplier}
Nets(s) == [i \in DOMAIN s |-> NetResult(s[i])]

-----------------------------------------------------------------------------
(* tournament_query: a filter left at NoFilter (or "any") does not apply.  *)

NoFilters == [start |-> NoFilter, end |-> NoFilter, buyin |-> NoFilter, multiplier |-> NoFilter,
              rank |-> NoFilter, players |-> NoFilter, result |-> "any"]

Passes(t, f) ==
    /\ t.expresso
    /\ t.completed
    /\ f.start = NoFilter \/ t.start >= f.start
    /\ f.end = NoFilter \/ t.start <= f.end
    /\ f.buyin = NoFilter \/ t.buyin = f.buyin
    /\ f.multiplier = NoFilter \/ t.multiplier = f.multiplier
    /\ f.rank = NoFilter \/ t.rank = f.rank
    /\ f.players = NoFilter \/ t.players = f.players
    /\ f.result = "positive" => t.reward > t.buyin
    /\ f.result = "negative" => t.reward < t.buyin
TournamentQuery(ts, f) == {t \in ts : Passes(t, f)}

-----------------------------------------------------------------------------
(* calculate_dashboard                                                     *)

\* Mutant: the fall from the start, not from a peak.
FallFromStart(nets) ==
    FoldLeft(LAMBDA s, x : [sum |-> s.sum + x, peak |-> 0, worst |-> Max({s.worst, -s.sum - x}),
                            curve |-> Append(s.curve, s.sum + x)],
             [sum |-> 0, peak |-> 0, worst |-> 0, curve |-> <<>>], nets)

\* The cumulative result, its peak and the deepest fall from a peak.
Downswing(nets) ==
    FoldLeft(LAMBDA s, x :
                LET sum == s.sum + x
                    peak == Max({s.peak, sum})
                IN [sum |-> sum, peak |-> peak, worst |-> Max({s.worst, peak - sum}),
                    curve |-> Append(s.curve, sum)],
             [sum |-> 0, peak |-> 0, worst |-> 0, curve |-> <<>>], nets)

\* One line of _group_results and _group_dimension.
GroupLine(ts) ==
    [games |-> Cardinality(ts), net |-> Total(ts, NetResult),
     roi |-> Rate(Total(ts, NetResult), Total(ts, LAMBDA t : t.buyin)),
     itm |-> Having(ts, LAMBDA t : t.reward > 0), wins |-> Having(ts, LAMBDA t : t.rank = 1)]
GroupBy(ts, key(_)) ==
    [k \in {key(t) : t \in ts} |-> GroupLine({t \in ts : key(t) = k})]

Period(t, period) == CASE period = "day" -> t.day
                       [] period = "week" -> t.day \div WeekDays
                       [] OTHER -> t.day \div MonthDays

Dashboard(ts) ==
    LET games == Cardinality(ts)
        buyins == Total(ts, LAMBDA t : t.buyin)
        winnings == Total(ts, LAMBDA t : t.reward)
        durations == Total(ts, LAMBDA t : t.duration)
        ranked(r) == Having(ts, LAMBDA t : t.rank = r)
        known == {t \in ts : t.chips # NoChips}
        lost == {t \in ts : t.rank # 1}
        run == Downswing(Nets(Ordered(ts)))
    IN [games |-> games, hands |-> Total(ts, LAMBDA t : t.hands),
        buyins |-> buyins, winnings |-> winnings, net |-> winnings - buyins,
        roi |-> Rate(winnings - buyins, buyins),
        wins |-> ranked(1), seconds |-> ranked(2), thirds |-> ranked(3),
        itm |-> Rate(Having(ts, LAMBDA t : t.reward > 0), games),
        hourly |-> Rate(60 * (winnings - buyins), durations),
        averageDuration |-> Rate(durations, games),
        biggestWin |-> IF ts = {} THEN 0 ELSE Max({NetResult(t) : t \in ts}),
        downswing |-> run.worst, bankroll |-> run.curve,
        chipEv |-> Rate(Total(known, LAMBDA t : t.chips), Cardinality(known)),
        chipCoverage |-> Rate(Cardinality(known), games),
        byPeriod |-> [p \in {"day", "week", "month"} |-> GroupBy(ts, LAMBDA t : Period(t, p))],
        byLimit |-> GroupBy(ts, LAMBDA t : t.buyin),
        byMultiplier |-> GroupBy(ts, LAMBDA t : t.multiplier),
        averageMultiplier |-> Rate(Total(Multiplied(ts), LAMBDA t : t.multiplier),
                                   Max({1, Cardinality(Multiplied(ts))})),
        headsUpWins |-> Rate(ranked(1), ranked(1) + ranked(2)),
        firstElimination |-> Rate(ranked(3), games),
        averageElimination |-> Rate(Total(lost, LAMBDA t : t.duration), Max({1, Cardinality(lost)}))]

-----------------------------------------------------------------------------
(* build_sessions                                                          *)

\* A tournament joins the last group unless it starts more than Gap after the end
\* of the last tournament of that group.
BuildSessions(ts) ==
    LET place(groups, t) ==
            IF groups = <<>> THEN << <<t>> >>
            ELSE IF t.start - EndOf(Last(Last(groups))) > Gap THEN Append(groups, <<t>>)
            ELSE Append(Front(groups), Append(Last(groups), t))
    IN FoldLeft(place, <<>>, Ordered(ts))

SessionLine(group) ==
    LET nets == Nets(group)
    IN [start |-> group[1].start, end |-> EndOf(Last(group)),
        duration |-> Max({0, EndOf(Last(group)) - group[1].start}),
        games |-> Len(group), net |-> FoldLeft(+, 0, nets),
        best |-> Max(ToSet(nets)), worst |-> Min(ToSet(nets)), curve |-> Downswing(nets).curve]

\* The latest session first.
Sessions(ts) == LET groups == BuildSessions(ts) IN Reverse([i \in DOMAIN groups |-> SessionLine(groups[i])])
=============================================================================
