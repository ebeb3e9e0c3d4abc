------------------------------ MODULE Analysis ------------------------------
(***************************************************************************)
(* From the table to the figures on the screen: a hand is played, its      *)
(* lines are parsed, it is stored with the others, and the statistics, the *)
(* leaks and the reports are computed from what is stored.                 *)
(*                                                                         *)
(* The hand is played move by move and the parser's reading is kept up     *)
(* with it, although the application reads a file only once it has stopped *)
(* growing (HistoryImport): the parser goes line by line, so that its      *)
(* state after a move is its state after those lines of the file.          *)
(*                                                                         *)
(* The tournaments of the reports come from a set of their own, one hand   *)
(* or a few tournaments being looked at at a time; the same hand is stored *)
(* Repeats times, for the leaks ask for samples of up to 30.               *)
(***************************************************************************)
EXTENDS PokerTable, HeroStats, LeakEngine, Results, HubViews, TLC

Hub == INSTANCE SharedHand

CONSTANTS
    Setups,      \* how a hand may begin
    Tournaments, \* what the files may report
    Repeats,     \* how often the hand was played
    Stacks       \* stacks whose depths are compared

\* Two or three players, each in a seat of his own.
ASSUME SetupsAssumption ==
    /\ SmallBlind \in Nat /\ BigBlind \in Nat
    /\ \A s \in Setups :
         /\ Len(s.seats) \in {2, 3}
         /\ s.seats \in Seq(ToSet(s.seats))
         /\ \A i, j \in DOMAIN s.seats : s.seats[i] = s.seats[j] => i = j
         /\ s.stack \in [ToSet(s.seats) -> Nat]
         /\ s.size \in Nat /\ s.returns \in BOOLEAN

\* Rows have an identifier of their own, and a tournament started later was not started on an
\* earlier day.
ASSUME TournamentsAssumption ==
    /\ Tournaments \subseteq
        [id : Int, start : Int, duration : Int, ended : Int, day : Int, buyin : Int, reward : Int,
         ticket : BOOLEAN, rank : Int, players : Int, multiplier : Int, chips : Int, hands : Int,
         expresso : BOOLEAN, completed : BOOLEAN]
    /\ \A t, u \in Tournaments : (t.id = u.id => t = u) /\ (t.start =< u.start => t.day =< u.day)
    /\ Gap \in Int

VARIABLES
    table,   \* the hand under way or just played, or NoTable
    hand,    \* what the parser has made of its lines
    library, \* the stored hands, and how many there are of each
    games    \* the stored tournaments

vars == <<table, hand, library, games>>

NoTable == <<>>
NoHand == <<>>
NoHands == <<>>

Init == table = NoTable /\ hand = NoHand /\ library = NoHands /\ games = {}

Deal(setup) ==
    /\ table = NoTable /\ games = {}
    /\ table' = Dealt(setup)
    /\ hand' = ReadAll(NewHand(setup, Button(setup), BigBlind), table'.lines)
    /\ UNCHANGED <<library, games>>

Play ==
    /\ table # NoTable
    /\ table' \in Steps(table)
    /\ hand' = ReadAll(hand, table'.lines)
    /\ UNCHANGED <<library, games>>

\* The ranks the hero may take in the tournament of the hand just played.
Ranks ==
    LET n == Cardinality(Seated(table))
        left == Chips(table, Hero) + table.won[Hero]
    IN IF left = 0 THEN {n} ELSE 1 .. n

\* The tournament is over and its hands are stored.
ImportHand(rank) ==
    /\ table # NoTable /\ library = NoHands
    /\ Complete(hand)
    /\ rank \in Ranks
    /\ library' = [e \in {StoredHand(hand, rank)} |-> Repeats]
    /\ UNCHANGED <<table, hand, games>>

ImportTournament(t) ==
    /\ table = NoTable
    /\ games' = games \cup {t}
    /\ UNCHANGED <<table, hand, library>>

DeleteAll ==
    /\ library # NoHands \/ games # {}
    /\ table' = NoTable /\ hand' = NoHand /\ library' = NoHands /\ games' = {}

Next ==
    \/ \E s \in Setups : Deal(s)
    \/ Play
    \/ \E r \in 1 .. 3 : ImportHand(r)
    \/ \E t \in Tournaments \ games : ImportTournament(t)
    \/ DeleteAll

Spec == Init /\ [][Next]_vars

-----------------------------------------------------------------------------
(* The hand                                                                *)

\* What is stored of a hand is what happened at the table: the parser knows at every move
\* what each player has put in on the street and in the hand, although a raise gives only
\* the level it is made to; a hand is complete exactly when it is over; what was won, the
\* stacks and the running pot of the importer, which counts the contributions anew, then
\* agree with the pot, and no chip is lost.
BooksMatchTable ==
    table # NoTable =>
        /\ hand.invested = table.paid
        /\ ~table.over => hand.contributions = table.bet
        /\ Complete(hand) <=> table.over
        /\ table.over =>
            /\ hand.won = table.won
            /\ \A p \in Seated(table) : EndingStack(hand, p) = Chips(table, p) + table.won[p]
            /\ SumFunction([p \in Seated(table) |-> EndingStack(hand, p)])
                    = SumFunction([p \in Seated(table) |-> table.setup.stack[p]])
            /\ SumFunction(hand.won) = hand.pot
            /\ Last(RunningPot(hand)) = hand.pot

Was(p, set) == Repeats * One(p \in set)

\* The statistics say what the hero did: put chips in or raised before the flop, was in
\* when the flop came, showed a hand at the end, won, and won or lost chips; none of it is
\* in a line of the history by that name.
MatchTheGame(m, chips) ==
    /\ m["vpip"] = [num |-> Was(Hero, table.entered), den |-> Repeats]
    /\ m["pfr"].num = Was(Hero, table.raisers)
    /\ m["won_when_saw_flop"].den = Was(Hero, table.flop)
    /\ m["won_when_saw_flop"].num = Was(Hero, {p \in table.flop : table.won[p] > 0})
    /\ m["went_to_showdown"].num = Was(Hero, table.shown)
    /\ chips = Repeats * (table.won[Hero] - table.paid[Hero])

\* Heads-up, the two engines put a hand in the same band of depths, except at a bound: five
\* big blinds are the end of a band for one and the start of the next for the other.
Bounds == {5, 10, 15, 25}
DepthsAgree ==
    \A mine, theirs \in Stacks :
        LET setup == [seats |-> <<Hero, "v1">>, stack |-> (Hero :> mine) @@ ("v1" :> theirs)]
            h == [NewHand(setup, Hero, BigBlind) EXCEPT !.hero = Hero]
        IN (\A b \in Bounds : Min({mine, theirs}) # b * BigBlind)
                => DepthBucket(StoredHand(h, 1)) = DepthOf(h)

\* The metrics the two engines define alike.
Alike == {"vpip", "pfr", "limp", "won_when_saw_flop"}

SameFigures(ours, theirs) ==
    /\ \A m \in Alike : /\ ours[m].num = Repeats * theirs.metrics[m].num
                      /\ ours[m].den = Repeats * theirs.metrics[m].den
    /\ ours["aggression_frequency"].num = Repeats * theirs.aggressive
    /\ ours["aggression_factor"].den = Repeats * theirs.calls
\* The two engines give the same figures where they define them alike, unless an uncalled
\* bet was returned: analytics/hero_stats takes the word "uncalled" for a call.
EnginesAgree ==
    /\ table = NoTable /\ games = {} => DepthsAgree
    /\ library # NoHands /\ ~Has(hand.actions, {"uncalled_return"}) =>
            SameFigures(HeroStats(library).metrics, HeroStatistics(<<hand>>))

\* Ratios that are not frequencies, and one frequency that counts streets among hands.
NotFrequencies == {"aggression_factor", "check_raise"}

\* A frequency counts some of the cases it is a frequency of: none is above 100 %.
AreFrequencies(metrics, flags) ==
    /\ \A m \in DOMAIN metrics \ NotFrequencies : metrics[m].num \in 0 .. metrics[m].den
    /\ \A m \in DOMAIN FrequencyOf : FrequencyOf[m][1] \in flags => FrequencyOf[m][2] \in flags

\* What calculate_hero_stats and the library's hero_stats count is what was done at the table,
\* and no frequency is above 100 %.
StatsAreTrue ==
    library # NoHands =>
        \A s \in {HeroStats(library)} :
            MatchTheGame(s.metrics, s.chip_result) /\ AreFrequencies(s.metrics, HandFlags(hand).flags)

\* The figures of a dashboard RankFlags looks at, every hand being of a tournament of its own.
RankFigures(rank) ==
    [games |-> Repeats, wins |-> Repeats * One(rank = 1),
     seconds |-> Repeats * One(rank = 2), thirds |-> Repeats * One(rank = 3)]
Leaks == UNION {DetectLeaks(library, RankFigures(e.rank)) : e \in DOMAIN library}

\* No branch of _affected_hand_ids answers to the name of this leak.
Unlisted == {"folds to an open"}

\* Ten big blinds are short for calculate_hero_stats, which counts the hand, and not for
\* _affected_hand_ids.
AtTheBound(f) ==
    f.name = "short shove" /\ \E e \in DOMAIN library : EffectiveStack(e) = 10 * e.bigBlind

\* A leak that counts hands lists all of them, or as many as may be listed: every hand
\* counted is found again by the words and the conditions of _affected_hand_ids, but for
\* the shoves called at exactly ten big blinds.
CountedHandsAreListed ==
    \A f \in Leaks :
        ~f.low /\ f.name \notin Unlisted /\ ~AtTheBound(f)
            => Min({Listable, f.occurrences}) <= ListedCount(f.name, library)

-----------------------------------------------------------------------------
(* The hand on the hub                                                     *)

Opponents == Seated(table) \ {Hero}
Shared(e) == Hub!Replay(e, {Hero})
Observed(e, p) == Hub!Facts(Shared(e), Hub!Alias(e, {Hero})[p])

\* The hub takes every hand the client sends, unless another of its players is known on the
\* PC as a hero: there would be two of them.  Such a tournament stays in the queue.
HubTakes(e) ==
    \A known \in SUBSET Opponents :
        Hub!Accepted(Hub!Replay(e, known \cup {Hero})) <=> known = {}

\* The figures that are above 100 % when a player limps and raises again: a 3-bet is counted
\* in every hand with one, the occasion only when the first decision faced a raise.
HubFrequencies(e) ==
    \A p \in Opponents :
        LET rows == <<Observed(e, p), Observed(e, p)>>
            m == Hub!OpponentMetrics(rows)
        IN /\ \A x \in DOMAIN m \ {"threeBet"} : m[x].num \in 0 .. m[x].den
           /\ m["threeBet"].num > m["threeBet"].den => Observed(e, p).limp
           /\ \A k \in DOMAIN Hub!OpponentProfile(rows).byDepth :
                Hub!OpponentProfile(rows).byDepth[k] = m

\* What the hub notes of an opponent is what he did at the table, although it sees only
\* renamed lines, and what his own PC would say of him.
ObservationsAreTrue ==
    \A e \in DOMAIN library :
        /\ HubTakes(e)
        /\ HubFrequencies(e)
        /\ \A p \in Opponents :
             LET o == Observed(e, p)
                 his == Counters([e EXCEPT !.hero = p])
             IN /\ o.vpip = (p \in table.entered)
                /\ o.pfr = (p \in table.raisers)
                /\ o.sawFlop = (p \in table.flop)
                /\ o.wentShowdown = (p \in Live(table) /\ Cardinality(Live(table)) > 1)
                /\ o.wonShowdown = (o.wentShowdown /\ table.won[p] > 0)
                /\ o.net = table.won[p] - table.paid[p]
                /\ One(o.limp) = his["limp"]

\* README.md:156, "VPIP, PFR, limp, 3-bet, shove": a player who goes all in before the flop
\* with a bet or a raise has shoved.
ShovesAreCounted ==
    \A e \in DOMAIN library : \A p \in Opponents :
        (\E i \in DOMAIN e.actions :
            LET a == e.actions[i]
            IN a.who = p /\ a.street = "preflop" /\ a.kind \in {"bet", "raise"} /\ a.allIn)
        => Observed(e, p).shove

-----------------------------------------------------------------------------
(* The tournaments                                                         *)

Shown == TournamentQuery(games, NoFilters)
Expressos == {t \in games : t.expresso}

\* The deepest fall: the worst sum of consecutive results.
SliceTotal(nets, i, j) == FoldLeft(+, 0, SubSeq(nets, i, j))
WorstFall(nets) == Max({0} \cup {-SliceTotal(nets, i, j) : i, j \in DOMAIN nets})

GroupTotals(groups) ==
    [games |-> SumFunction([k \in DOMAIN groups |-> groups[k].games]),
     net |-> SumFunction([k \in DOMAIN groups |-> groups[k].net])]

\* The dashboard is right about what it sums up: its downswing is the worst run of results,
\* which the code finds in one pass; every breakdown, by period, by limit or by multiplier,
\* adds up to the whole; and the second dashboard has the same figures, except for tickets,
\* which only it counts as prizes, and for games not of three players.
DashboardMatchesReference ==
    LET d == Dashboard(Shown)
        r == ResultsDashboard(Expressos)
        x == ExpressoBreakdown(Expressos)
        whole == [games |-> d.games, net |-> d.net]
    IN /\ d.downswing = WorstFall(Nets(Ordered(Shown)))
       /\ r.downswing = d.downswing
       /\ r.bankroll = d.bankroll
       /\ \A p \in DOMAIN d.byPeriod : /\ GroupTotals(d.byPeriod[p]) = whole
                                       /\ GroupTotals(r.byPeriod[p]) = whole
       /\ GroupTotals(d.byLimit) = whole /\ GroupTotals(d.byMultiplier) = whole
       /\ GroupTotals(x.byLimit) = whole
       /\ \A f \in {"games", "hands", "buyins", "winnings", "net", "hourly"} : d[f] = r[f]
       /\ r.wins.num = d.wins /\ r.seconds.num = d.seconds /\ r.thirds.num = d.thirds
       /\ x.headsUpWins = d.headsUpWins
       /\ Multiplied(Shown) # {} => x.averageMultiplier = d.averageMultiplier
       /\ ~(\E t \in Shown : t.ticket) => r.itm = d.itm
       /\ (\A t \in Shown : t.players = 3) => x.firstElimination = d.firstElimination
       /\ ChipEv(Expressos, [t \in Expressos |-> <<>>]) = d.chipEv

\* The filters: by the limits the tournaments have, by rank, and by result.
Filters ==
    {NoFilters} \cup {[NoFilters EXCEPT !.start = t.start] : t \in games}
        \cup {[NoFilters EXCEPT !.end = t.start] : t \in games}
        \cup {[NoFilters EXCEPT !.buyin = t.buyin, !.rank = t.rank] : t \in games}
        \cup {[NoFilters EXCEPT !.players = t.players, !.multiplier = t.multiplier] : t \in Multiplied(games)}

\* The two filters select the same tournaments, except that breaking even is negative for
\* one and neither for the other.
FiltersAgree ==
    \A f \in Filters :
        LET with(result) == TournamentQuery(games, [f EXCEPT !.result = result])
            by(positive) == FilterTournaments(Expressos, f, positive)
        IN /\ with("any") = by("any")
           /\ with("positive") = by("yes")
           /\ with("negative") = {t \in by("no") : NetResult(t) # 0}

\* The hub shows of the tournaments it has taken what the PC shows of them; its trend is the
\* PC's bankroll at the end of each day.
HubMatchesDashboard ==
    LET ts == {t \in Shown : Shareable(t) /\ Takes(t)}
        d == Dashboard(ts)
        c == ContributorProfile(ts)
        last(day) == Cardinality({t \in ts : t.day <= day})
    IN ts # {} =>
        /\ \A f \in {"games", "hands", "buyins", "winnings", "net", "roi", "wins", "itm", "chipEv", "chipCoverage"} :
             c.summary[f] = d[f]
        /\ \A f \in DOMAIN HubDashboard(ts) : HubDashboard(ts)[f] = d[f]
        /\ GroupTotals(c.byLimit) = GroupTotals(d.byLimit)
        /\ GroupTotals(c.byMultiplier) = GroupTotals(d.byMultiplier)
        /\ \A i \in DOMAIN c.trend :
             /\ c.trend[i].cumulative = d.bankroll[last(c.trend[i].day)]
             /\ c.trend[i].net = d.byPeriod["day"][c.trend[i].day].net
        /\ Len(c.recent) = Min({RecentLimit, d.games})

\* The reports of the PC and of the hub show the same games and are right about them.
ReportsAgree == DashboardMatchesReference /\ FiltersAgree /\ HubMatchesDashboard

Overlap(ts) == \E t, u \in ts : Precedes(t, u) /\ EndOf(t) > EndOf(u)

\* A session ends with a pause: a tournament starts one exactly when everything before it
\* ended more than Gap earlier.  The application looks at the last tournament started only:
\* it starts a session there too, so that it never makes one session of two, and its
\* sessions are these as long as no tournament outlasts a later one.
SessionsEndWithAPause ==
    LET groups == GroupSessions(Shown)
        built == BuildSessions(Shown)
        s == Ordered(Shown)
        starts(i) == \A j \in 1 .. i - 1 : s[i].start - EndOf(s[j]) > Gap
    IN /\ FlattenSeq(groups) = s
       /\ {s[i] : i \in {j \in DOMAIN s : starts(j)}} = {Head(groups[i]) : i \in DOMAIN groups}
       /\ FlattenSeq(built) = s
       /\ {Head(groups[i]) : i \in DOMAIN groups} \subseteq {Head(built[i]) : i \in DOMAIN built}
       /\ ~Overlap(Shown) =>
            /\ built = groups
            /\ \A i \in DOMAIN groups :
                 LET line == SessionLine(groups[i])
                     summary == SessionSummary(groups[i])
                 IN \A f \in DOMAIN summary : line[f] = summary[f]
=============================================================================
