----------------------------- MODULE SharedHand ------------------------------
(***************************************************************************)
(* A stored hand on its way to the hub: how the client serialises it       *)
(* (serialize_completed_tournament of services/community_client.py), what  *)
(* the hub accepts (community_hub/schemas.py), and what it observes of an   *)
(* opponent in it (_observation_facts and _metrics of opponents.py).       *)
(*                                                                         *)
(* e is a hand as HandHistory stores it, r a replay as it is sent:         *)
(*   players  in the order of their seats; cards are left out              *)
(*   actions  in their order, which is also their public number            *)
(* Absent amounts are 0.                                                   *)
(***************************************************************************)
EXTENDS Integers, Sequences, FiniteSetsExt, Functions, SequencesExt

-----------------------------------------------------------------------------
(* The client                                                              *)

\* _ACTION_TYPES and _STREETS: what is sent, and under which name.
PublicType ==
    [post_small_blind |-> "POST_SB", post_big_blind |-> "POST_BB", post_ante |-> "POST_ANTE",
     fold |-> "FOLD", check |-> "CHECK", call |-> "CALL", bet |-> "BET", raise |-> "RAISE",
     all_in |-> "ALL_IN", collect |-> "COLLECT", show |-> "SHOW", muck |-> "MUCK",
     uncalled_return |-> "UNCALLED_RETURN"]
PublicStreet ==
    [preflop |-> "PREFLOP", flop |-> "FLOP", turn |-> "TURN", river |-> "RIVER",
     showdown |-> "SHOWDOWN"]
PublicPosition(x) == IF x \in {"BTN", "SB", "BB"} THEN x ELSE "UNKNOWN"

\* _tournament_aliases: the others are numbered in the order they were met; known are the
\* players stored as heroes, by this tournament or by another.
Alias(e, known) ==
    LET others == SelectSeq(e.seats, LAMBDA p : p \notin known)
        numbers == <<"OPPONENT_1", "OPPONENT_2", "OPPONENT_3">>
    IN [p \in e.players |-> IF p \in known THEN "HERO"
                            ELSE numbers[CHOOSE i \in DOMAIN others : others[i] = p]]

Replay(e, known) ==
    LET alias == Alias(e, known)
        player(i) ==
            LET p == e.seats[i]
            IN [alias |-> alias[p], seat |-> i, position |-> PublicPosition(e.position[p]),
                starting |-> e.stack[p], ending |-> e.ending[p], invested |-> e.invested[p],
                won |-> e.won[p], net |-> e.net[p], showed |-> p \in e.showed,
                winner |-> e.won[p] > 0, allIn |-> p \in e.allIn]
        action(i) ==
            LET a == e.actions[i]
            IN [actor |-> alias[a.who], street |-> PublicStreet[a.street],
                type |-> PublicType[a.kind], to |-> a.to, after |-> e.potAfter[i], allIn |-> a.allIn]
        sent == SelectSeq([i \in DOMAIN e.actions |-> i],
                          LAMBDA i : /\ e.actions[i].kind \in DOMAIN PublicType
                                     /\ e.actions[i].street \in DOMAIN PublicStreet)
    IN [players |-> [i \in DOMAIN e.seats |-> player(i)],
        actions |-> [k \in DOMAIN sent |-> action(sent[k])],
        board |-> e.board, bigBlind |-> e.bigBlind, total |-> e.totalPot, active |-> Len(e.seats)]

-----------------------------------------------------------------------------
(* The hub's validation: ReplayPlayer, ReplayAction, SharedHandInput       *)

Accepted(r) ==
    LET aliases == {r.players[i].alias : i \in DOMAIN r.players}
        hero == {i \in DOMAIN r.players : r.players[i].alias = "HERO"}
    IN /\ Len(r.players) \in 2 .. 3 /\ r.active \in 2 .. 3
       /\ aliases \subseteq {"HERO", "OPPONENT_1", "OPPONENT_2"}
       /\ Cardinality(hero) = 1
       /\ Cardinality(aliases) = Len(r.players)
       /\ \A i \in DOMAIN r.players :
            LET p == r.players[i] IN p.starting >= 0 /\ p.ending >= 0 /\ p.invested >= 0 /\ p.won >= 0
       /\ \A i \in DOMAIN r.actions : r.actions[i].actor \in aliases /\ r.actions[i].after >= 0
       /\ r.total >= 0 /\ r.bigBlind > 0

-----------------------------------------------------------------------------
(* _observation_facts                                                      *)

Voluntary == {"CALL", "BET", "RAISE", "ALL_IN"}
Aggressive == {"BET", "RAISE", "ALL_IN"}
Known == Voluntary \cup {"FOLD", "CHECK"}

IsAggressive(a, to) == a.type \in {"BET", "RAISE"} \/ (a.type = "ALL_IN" /\ a.to > to)

\* One action before the flop: the raises so far, and what alias has done.
Walk(s, a, alias) ==
    LET raises == IsAggressive(a, s.to)
        his == a.actor = alias
        first == his /\ ~s.decided /\ a.type \in Voluntary \cup {"FOLD"}
    IN [to |-> Max({s.to, a.to}),
        raises |-> s.raises + (IF raises THEN 1 ELSE 0),
        decided |-> s.decided \/ first,
        faced |-> IF first THEN s.raises > 0 ELSE s.faced,
        limp |-> IF first THEN a.type = "CALL" /\ s.raises = 0 ELSE s.limp,
        pfr |-> s.pfr \/ (his /\ raises),
        threeBet |-> s.threeBet \/ (his /\ raises /\ s.raises = 1)]

\* Mutant: whoever is in a hand with a flop has seen it.
FlopOnBoard(r, alias) == r.board >= 3

\* Has acted after the flop, or there was one and he had not folded before.
SawFlopOnHub(r, alias) ==
    LET his(Test(_)) == \E i \in DOMAIN r.actions : r.actions[i].actor = alias /\ Test(r.actions[i])
    IN \/ his(LAMBDA a : a.street \in {"FLOP", "TURN", "RIVER"})
       \/ r.board >= 3 /\ ~his(LAMBDA a : a.street = "PREFLOP" /\ a.type = "FOLD")

Facts(r, alias) ==
    LET p == r.players[CHOOSE i \in DOMAIN r.players : r.players[i].alias = alias]
        pre == SelectSeq(r.actions, LAMBDA a : a.street = "PREFLOP")
        his == SelectSeq(r.actions, LAMBDA a : a.actor = alias)
        mine(street, types) ==
            Len(SelectSeq(his, LAMBDA a : a.street \in street /\ a.type \in types))
        before == {"PREFLOP"}
        after == {"FLOP", "TURN", "RIVER"}
        walked == FoldLeft(LAMBDA s, a : Walk(s, a, alias),
                           [to |-> 0, raises |-> 0, decided |-> FALSE, faced |-> FALSE,
                            limp |-> FALSE, pfr |-> FALSE, threeBet |-> FALSE], pre)
        shove == mine(before, {"ALL_IN"}) > 0
        reached == p.showed \/ mine({"SHOWDOWN"}, {"SHOW", "MUCK"}) > 0
    IN [position |-> p.position, starting |-> p.starting, bigBlind |-> r.bigBlind,
        invested |-> p.invested, won |-> p.won, net |-> p.net, allIn |-> p.allIn \/ shove,
        preflopKnown |-> mine(before, Known) > 0,
        vpip |-> mine(before, Voluntary) > 0, pfr |-> walked.pfr, limp |-> walked.limp,
        facedOpen |-> walked.faced, threeBet |-> walked.threeBet, shove |-> shove,
        aggressive |-> mine(after, Aggressive), calls |-> mine(after, {"CALL"}),
        checks |-> mine(after, {"CHECK"}), folds |-> mine(after, {"FOLD"}),
        sawFlop |-> SawFlopOnHub(r, alias),
        wentShowdown |-> reached, wonShowdown |-> reached /\ p.winner]

-----------------------------------------------------------------------------
(* _metrics and the breakdowns of opponent_profile, over a sequence of     *)
(* observations                                                            *)

Made(rows, Test(_)) == Len(SelectSeq(rows, Test))
Summed(rows, f(_)) == FoldLeft(LAMBDA x, o : x + f(o), 0, rows)

OpponentMetrics(rows) ==
    LET known == Made(rows, LAMBDA o : o.preflopKnown)
        rate(Test(_), opportunities) == [num |-> Made(rows, Test), den |-> opportunities]
        aggressive == Summed(rows, LAMBDA o : o.aggressive)
        passive == Summed(rows, LAMBDA o : o.calls + o.checks + o.folds)
        showdowns == Made(rows, LAMBDA o : o.wentShowdown)
    IN [vpip |-> rate(LAMBDA o : o.vpip, known), pfr |-> rate(LAMBDA o : o.pfr, known),
        limp |-> rate(LAMBDA o : o.limp, known), shove |-> rate(LAMBDA o : o.shove, known),
        threeBet |-> rate(LAMBDA o : o.threeBet, Made(rows, LAMBDA o : o.facedOpen)),
        aggression |-> [num |-> aggressive, den |-> aggressive + passive],
        wtsd |-> rate(LAMBDA o : o.wentShowdown, Made(rows, LAMBDA o : o.sawFlop)),
        wsd |-> rate(LAMBDA o : o.wonShowdown, showdowns),
        allIn |-> rate(LAMBDA o : o.allIn, Len(rows))]

\* _depth_bucket, on his own stack and not on the shorter of two.
HubDepth(o) ==
    LET below(n) == o.starting < n * o.bigBlind
    IN CASE below(5) -> "0-5 BB" [] below(10) -> "5-10 BB" [] below(15) -> "10-15 BB"
         [] below(25) -> "15-25 BB" [] OTHER -> "25+ BB"

Breakdown(rows, key(_)) ==
    [k \in {key(rows[i]) : i \in DOMAIN rows} |-> OpponentMetrics(SelectSeq(rows, LAMBDA o : key(o) = k))]

OpponentProfile(rows) ==
    [summary |-> OpponentMetrics(rows), byPosition |-> Breakdown(rows, LAMBDA o : o.position),
     byDepth |-> Breakdown(rows, HubDepth)]
=============================================================================
