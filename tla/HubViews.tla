------------------------------ MODULE HubViews -------------------------------
(***************************************************************************)
(* What the hub shows of the tournaments a member has shared               *)
(* (contributor_profile and dashboard of community_hub/service.py), which  *)
(* of them a client shares (_completed_tournaments of                      *)
(* services/community_client.py) and which the hub takes                   *)
(* (SharedTournamentInput of community_hub/schemas.py).  The records are   *)
(* those of Reports, all in one currency.                                  *)
(***************************************************************************)
EXTENDS Reports

Shareable(t) == t.completed /\ t.expresso /\ t.ended # NoEnd

Takes(t) ==
    /\ t.ended > t.start
    /\ t.players \in 2 .. 3
    /\ t.rank \in 1 .. t.players
    /\ t.hands >= 1

-----------------------------------------------------------------------------
\* _profile_breakdown
ProfileBreakdown(ts) ==
    LET games == Cardinality(ts)
        buyins == Total(ts, LAMBDA t : t.buyin)
        winnings == Total(ts, LAMBDA t : t.reward)
        known == {t \in ts : t.chips # NoChips}
    IN [games |-> games, hands |-> Total(ts, LAMBDA t : t.hands),
        buyins |-> buyins, winnings |-> winnings, net |-> winnings - buyins,
        roi |-> Rate(winnings - buyins, buyins),
        wins |-> Having(ts, LAMBDA t : t.rank = 1),
        itm |-> Rate(Having(ts, LAMBDA t : t.reward > 0), games),
        averageNet |-> Rate(winnings - buyins, games),
        chipEv |-> Rate(Total(known, LAMBDA t : t.chips), Cardinality(known)),
        chipCoverage |-> Rate(Cardinality(known), games)]

\* The days with a tournament, in their order.
Days(ts) ==
    LET days == {t.day : t \in ts}
    IN [i \in 1 .. Cardinality(days) |->
            CHOOSE k \in days : Cardinality({e \in days : e < k}) = i - 1]

\* Mutant: every day starts from nothing.
TrendOfDays(ts) ==
    LET days == Days(ts)
        of(i) == {t \in ts : t.day = days[i]}
    IN [i \in DOMAIN days |-> [day |-> days[i], games |-> Cardinality(of(i)),
                               net |-> Total(of(i), NetResult), cumulative |-> Total(of(i), NetResult)]]

\* The days in their order, and the result up to the end of each.
Trend(ts) ==
    LET days == Days(ts)
        of(i) == {t \in ts : t.day = days[i]}
        add(trend, i) ==
            LET net == Total(of(i), NetResult)
                so_far == IF trend = <<>> THEN 0 ELSE Last(trend).cumulative
            IN Append(trend, [day |-> days[i], games |-> Cardinality(of(i)), net |-> net,
                              cumulative |-> so_far + net])
    IN FoldLeft(add, <<>>, [i \in DOMAIN days |-> i])

RecentLimit == 10

ContributorProfile(ts) ==
    LET rows == Ordered(ts)
        games == Len(rows)
        ranked(r) == Rate(Having(ts, LAMBDA t : t.rank = r), games)
        group(key(_)) == [k \in {key(t) : t \in ts} |-> ProfileBreakdown({t \in ts : key(t) = k})]
    IN [summary |-> ProfileBreakdown(ts),
        places |-> <<ranked(1), ranked(2), ranked(3)>>,
        averageDuration |-> Rate(Total(ts, LAMBDA t : t.duration), games),
        first |-> rows[1].start, last |-> rows[games].start,
        byLimit |-> group(LAMBDA t : t.buyin), byMultiplier |-> group(LAMBDA t : t.multiplier),
        trend |-> Trend(ts),
        recent |-> Reverse(SubSeq(rows, Max({1, games - RecentLimit + 1}), games))]

\* dashboard, of one member or of all
HubDashboard(ts) ==
    LET games == Cardinality(ts)
        buyins == Total(ts, LAMBDA t : t.buyin)
        net == Total(ts, LAMBDA t : t.reward) - buyins
    IN [games |-> games, hands |-> Total(ts, LAMBDA t : t.hands), net |-> net, roi |-> Rate(net, buyins),
        wins |-> Having(ts, LAMBDA t : t.rank = 1),
        itm |-> Rate(Having(ts, LAMBDA t : t.reward > 0), games)]
=============================================================================
