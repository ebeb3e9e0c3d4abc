------------------------ MODULE OpponentRegistryProofs ------------------------
(***************************************************************************)
(* Theorems about OpponentRegistry, for any number of handlers, tournaments, *)
(* lists, purges and commands.                                               *)
(***************************************************************************)
EXTENDS OpponentRegistry, FiniteSetTheorems, WellFoundedInduction, TLAPS

-----------------------------------------------------------------------------
(* The inductive invariant.                                                  *)

Resting == [pc : {"free"}, answer : {"none", "missing", "ok", "different", "failed", "conflict"}]

IsServing(r) ==
  /\ r \in [pc : {"read", "check", "lookup", "write", "conflict"}, answer : {"none"},
            t : Tournaments, list : Seq(Identities), item : Nat, row : Nat \cup {NoRow},
            seen : Nat, retry : BOOLEAN, disturbed : BOOLEAN]
  /\ r.list \in Lists[r.t] /\ r.item >= 1

HandlersType ==
  /\ DOMAIN handlers = Handlers /\ handlers = [h \in Handlers |-> handlers[h]]
  /\ \A h \in Handlers : handlers[h] \in Resting \/ IsServing(handlers[h])

\* The rows have numbers below a bound, so that there is a next one.
Numbered == \E n \in Nat : DOMAIN opponents \subseteq 1..n

TypesInv ==
  /\ TypeOK /\ HandlersType /\ Numbered
  /\ command.who \subseteq Identities

\* What a request has read, and what is left of it whatever happened since: the items
\* passed over are suppressed, and the row found is still its identity's, or was erased.
ReadsHold(r) ==
  r.pc \in {"read", "check", "lookup", "write"} =>
    /\ \A i \in 1..Len(r.list) : i < r.item => r.list[i] \in suppressed
    /\ r.pc = "lookup" => r.item <= Len(r.list)
    /\ (r.pc = "write" /\ r.item <= Len(r.list) /\ r.row # NoRow) =>
         \/ r.row \in DOMAIN opponents /\ opponents[r.row].who = r.list[r.item]
         \/ r.list[r.item] \in erased

\* The first item of the list that is not suppressed has a profile.
FirstIsKnown(r) ==
  \E k \in 1..Len(r.list) :
    /\ \A j \in 1..Len(r.list) : j < k => r.list[j] \in suppressed
    /\ r.list[k] \notin suppressed /\ RowsOf(opponents, r.list[k]) # {}

\* A request no command has disturbed: what it read still holds, a first conflict is
\* explained by what is stored now, so the second attempt finds it.
Undisturbed(r) ==
  (r.pc # "free" /\ ~r.disturbed) =>
    /\ r.pc # "read" => r.t \in present
    /\ (r.pc \in {"lookup", "write"} /\ r.item <= Len(r.list)) => r.list[r.item] \notin suppressed
    /\ (r.pc = "write" /\ r.item <= Len(r.list) /\ r.row # NoRow) =>
         r.row \in DOMAIN opponents /\ opponents[r.row].who = r.list[r.item]
    /\ (r.pc = "conflict" \/ ~r.retry) => r.t \in DOMAIN receipts \/ FirstIsKnown(r)
    /\ (r.pc = "conflict" /\ ~r.retry) => r.t \in DOMAIN receipts
    /\ (r.pc = "write" /\ ~r.retry) =>
         r.t \in DOMAIN receipts \/ (r.item <= Len(r.list) /\ r.row # NoRow)

ReadsInv == \A h \in Handlers : ReadsHold(handlers[h]) /\ Undisturbed(handlers[h])

RegistryInv == TypesInv /\ ReadsInv

-----------------------------------------------------------------------------
(* The numbers of the rows.                                                  *)

LEMMA LeastElement == ASSUME NEW S, S \subseteq Nat, S # {} PROVE \E m \in S : \A j \in S : m <= j
<1> DEFINE less == {ss \in Nat \X Nat : ss[1] < ss[2]}
<1>1. IsWellFoundedOn(less, Nat)
  BY NatLessThanWellFounded DEF OpToRel
<1>2. \A i, j \in Nat : i < j => <<i, j>> \in less
  OBVIOUS
<1> HIDE DEF less
<1>3. PICK m \in S : \A j \in S : ~(<<j, m>> \in less)
  BY <1>1, WFMin
<1>4. \A j \in S : ~(j < m)
  BY <1>2, <1>3
<1> QED
  BY <1>4

\* A bounded set of numbers has a largest one.
LEMMA MaxIsLargest ==
  ASSUME NEW n \in Nat, NEW S, S \subseteq 1..n, S # {}
  PROVE  Max(S) \in S /\ \A x \in S : x <= Max(S)
<1> DEFINE bounds == {m \in Nat : \A x \in S : x <= m}
<1>1. n \in bounds
  OBVIOUS
<1>2. PICK m \in bounds : \A j \in bounds : m <= j
  BY <1>1, LeastElement
<1>3. m \in S
  <2>1. SUFFICES ASSUME m \notin S PROVE FALSE
    OBVIOUS
  <2>2. \A x \in S : x <= m - 1
    BY <1>2, <2>1
  <2>3. PICK x \in S : x \in 1..n /\ x <= m
    BY <1>2
  <2>4. m - 1 \in Nat
    BY <1>2, <2>3
  <2> QED
    BY <1>2, <2>2, <2>4
<1>4. \E y \in S : \A x \in S : y >= x
  BY <1>2, <1>3
<1>5. Max(S) = CHOOSE y \in S : \A x \in S : y >= x
  BY Zenon DEF Max
<1> HIDE DEF bounds
<1>6. Max(S) \in S /\ \A x \in S : Max(S) >= x
  BY <1>4, <1>5
<1> QED
  BY <1>6

\* The next row number is above every row.
LEMMA NewRowIsNext ==
  ASSUME Numbered
  PROVE  /\ NewRow(opponents) \in Nat \ {0}
         /\ \A row \in DOMAIN opponents : row \in Nat /\ row < NewRow(opponents)
<1>1. PICK n \in Nat : DOMAIN opponents \subseteq 1..n
  BY DEF Numbered
<1>2. CASE DOMAIN opponents = {}
  BY <1>2 DEF NewRow
<1>3. CASE DOMAIN opponents # {}
  <2>1. /\ Max(DOMAIN opponents) \in DOMAIN opponents
        /\ \A x \in DOMAIN opponents : x <= Max(DOMAIN opponents)
    BY <1>1, <1>3, MaxIsLargest
  <2> QED
    BY <1>1, <1>3, <2>1 DEF NewRow
<1> QED
  BY <1>2, <1>3

-----------------------------------------------------------------------------
(* What a transaction stores.                                                *)

LEMMA ListItems ==
  ASSUME NEW r, IsServing(r)
  PROVE  /\ r.t \in Tournaments /\ r.list \in Lists[r.t] /\ r.list \in Seq(Identities)
         /\ Len(r.list) \in Nat /\ DOMAIN r.list = 1..Len(r.list)
         /\ r.item \in Nat \ {0} /\ r.row \in Nat \cup {NoRow} /\ r.seen \in Nat
         /\ \A i \in 1..Len(r.list) : r.list[i] \in Identities
         /\ \A i, j \in 1..Len(r.list) : r.list[i] = r.list[j] => i = j
         /\ Pending(r) \subseteq 1..Len(r.list) /\ New(r) \subseteq Pending(r)
         /\ StartedAt[r.t] \in Nat
<1>1. r.list \in Seq(Identities) /\ r.item \in Nat \ {0} /\ r.list \in Lists[r.t] /\ r.t \in Tournaments
  BY DEF IsServing
<1>2. Len(r.list) \in Nat /\ DOMAIN r.list = 1..Len(r.list)
  BY <1>1
<1>3. \A i \in 1..Len(r.list) : r.list[i] \in Identities
  BY <1>1
<1>4. IsInjective(r.list)
  BY <1>1, RegistryAssumption
<1>5. \A i, j \in 1..Len(r.list) : r.list[i] = r.list[j] => i = j
  BY <1>2, <1>4 DEF IsInjective
<1>6. Pending(r) \subseteq 1..Len(r.list) /\ New(r) \subseteq Pending(r)
  BY <1>1, <1>2 DEF Pending, New
<1>7. StartedAt[r.t] \in Nat
  BY <1>1, RegistryAssumption
<1> QED
  BY <1>1, <1>2, <1>3, <1>5, <1>6, <1>7 DEF IsServing

LEMMA UpTo == ASSUME NEW n \in Nat PROVE IsFiniteSet(1..n) /\ Cardinality(1..n) = n
<1>1. n \in Int /\ 1 \in Int
  OBVIOUS
<1>2. IsFiniteSet(1..n) /\ Cardinality(1..n) = IF 1 > n THEN 0 ELSE n - 1 + 1
  BY <1>1, FS_Interval
<1> QED
  BY <1>2

\* New profiles get different numbers, above those there are.
LEMMA NewRows ==
  ASSUME Numbered, NEW r, IsServing(r), NEW i \in New(r)
  PROVE  /\ RowOf(r, i) \in Nat \ {0}
         /\ RowOf(r, i) <= NewRow(opponents) + Len(r.list)
         /\ \A row \in DOMAIN opponents : row < RowOf(r, i)
         /\ \A j \in New(r) : j < i => RowOf(r, j) < RowOf(r, i)
<1> DEFINE before(j) == {k \in New(r) : k < j}
<1>1. Len(r.list) \in Nat /\ New(r) \subseteq 1..Len(r.list)
  BY ListItems
<1>2. IsFiniteSet(1..Len(r.list)) /\ Cardinality(1..Len(r.list)) = Len(r.list)
  BY <1>1, UpTo
<1>3. \A j \in New(r) : /\ IsFiniteSet(before(j)) /\ Cardinality(before(j)) \in Nat
                        /\ Cardinality(before(j)) <= Len(r.list)
  <2> TAKE j \in New(r)
  <2>1. before(j) \subseteq 1..Len(r.list)
    BY <1>1
  <2> HIDE DEF before
  <2> QED
    BY <1>2, <2>1, FS_Subset, FS_CardinalityType
<1>4. \A j \in New(r) : RowOf(r, j) = NewRow(opponents) + Cardinality(before(j))
  BY DEF RowOf
<1>5. \A j \in New(r) : j < i => Cardinality(before(j)) < Cardinality(before(i))
  <2> TAKE j \in New(r)
  <2> HAVE j < i
  <2>1. before(j) \subseteq before(i) /\ j \in before(i) /\ j \notin before(j)
    BY <1>1
  <2>2. before(j) # before(i)
    BY <2>1, Zenon
  <2> HIDE DEF before
  <2>3. Cardinality(before(j)) <= Cardinality(before(i)) /\ Cardinality(before(j)) # Cardinality(before(i))
    BY <1>3, <2>1, <2>2, FS_Subset
  <2> QED
    BY <1>3, <2>3
<1> HIDE DEF before
<1> QED
  BY <1>1, <1>3, <1>4, <1>5, NewRowIsNext

\* A profile found by the transaction is its identity's.
LEMMA FoundRows ==
  ASSUME NEW r, IsServing(r), NEW i \in Pending(r) \ New(r)
  PROVE  /\ i # r.item => RowOf(r, i) \in DOMAIN opponents /\ opponents[RowOf(r, i)].who = r.list[i]
         /\ i = r.item => r.row # NoRow /\ RowOf(r, i) = r.row
         /\ i \in Pending(r) /\ i \notin New(r)
<1>1. i \in Pending(r) /\ i \notin New(r)
  OBVIOUS
<1>2. CASE i = r.item
  BY <1>1, <1>2 DEF RowOf, New
<1>3. CASE i # r.item
  <2>1. RowsOf(opponents, r.list[i]) # {}
    BY <1>1, <1>3 DEF New
  <2>2. RowOf(r, i) = CHOOSE row \in RowsOf(opponents, r.list[i]) : TRUE
    BY <1>1, <1>3, Zenon DEF RowOf
  <2>3. RowOf(r, i) \in RowsOf(opponents, r.list[i])
    BY <2>1, <2>2
  <2> QED
    BY <1>1, <1>3, <2>3 DEF RowsOf
<1> QED
  BY <1>2, <1>3
LEMMA StoredTable ==
  ASSUME TypeOK, Numbered, NEW r, IsServing(r), ~Refused(r)
  PROVE  /\ DOMAIN Stored(r) = DOMAIN opponents \cup LinkedRows(r)
         /\ \A i \in Pending(r) : /\ RowOf(r, i) \in LinkedRows(r)
                                  /\ (i # r.item \/ r.row = NoRow) => Stored(r)[RowOf(r, i)].who = r.list[i]
         /\ (r.item \in Pending(r) /\ r.row # NoRow) =>
              r.row \in DOMAIN opponents /\ RowOf(r, r.item) = r.row
         /\ \A row \in DOMAIN opponents : Stored(r)[row].who = opponents[row].who
         /\ \A row \in DOMAIN Stored(r) :
              row \in Nat \ {0} /\ Stored(r)[row] \in [who : Identities, seen : Nat]
         /\ \A row \in DOMAIN Stored(r) \ DOMAIN opponents :
              \E i \in New(r) : Stored(r)[row].who = r.list[i]
         /\ \E n \in Nat : DOMAIN Stored(r) \subseteq 1..n
<1> DEFINE table == Stored(r)
<1>1. DOMAIN table = DOMAIN opponents \cup LinkedRows(r)
  BY DEF Stored
<1>2. \A i, j \in Pending(r) : RowOf(r, i) = RowOf(r, j) => i = j
  BY DEF Refused
<1>3. \A i \in Pending(r) : RowOf(r, i) \in LinkedRows(r)
  BY DEF LinkedRows
<1>4. ASSUME NEW i \in Pending(r) PROVE table[RowOf(r, i)] = ItemStored(r, i)
  <2>1. (CHOOSE k \in Pending(r) : RowOf(r, k) = RowOf(r, i)) = i
    BY <1>2
  <2>2. RowOf(r, i) \in LinkedRows(r)
    BY <1>3
  <2>3. table[RowOf(r, i)] = ItemStored(r, CHOOSE k \in Pending(r) : RowOf(r, k) = RowOf(r, i))
    BY <2>2 DEF Stored
  <2> QED
    BY <2>1, <2>3, Zenon
<1>5. \A row \in DOMAIN opponents \ LinkedRows(r) : table[row] = opponents[row]
  BY DEF Stored
<1> HIDE DEF table
<1>6. ASSUME NEW i \in New(r)
      PROVE  /\ table[RowOf(r, i)] \in [who : Identities, seen : Nat]
             /\ table[RowOf(r, i)].who = r.list[i]
             /\ i \in Pending(r) /\ RowOf(r, i) \notin DOMAIN opponents
  <2>1. i \in Pending(r)
    BY ListItems
  <2>2. RowOf(r, i) \notin DOMAIN opponents
    BY NewRows, NewRowIsNext
  <2>3. table[RowOf(r, i)] = [who |-> r.list[i], seen |-> StartedAt[r.t]]
    BY <1>4, <2>1 DEF ItemStored
  <2>4. r.list[i] \in Identities /\ StartedAt[r.t] \in Nat
    BY <2>1, ListItems
  <2> QED
    BY <2>1, <2>2, <2>3, <2>4
<1>7. ASSUME NEW i \in Pending(r) \ New(r)
      PROVE  /\ RowOf(r, i) \in DOMAIN opponents
             /\ table[RowOf(r, i)] \in [who : Identities, seen : Nat]
             /\ table[RowOf(r, i)].who = opponents[RowOf(r, i)].who
  <2> DEFINE old == opponents[RowOf(r, i)]
  <2>1. i \in Pending(r) /\ i \notin New(r)
    OBVIOUS
  <2>2. RowOf(r, i) \in DOMAIN opponents
    BY <2>1 DEF Refused
  <2>3. old \in [who : Identities, seen : Nat]
    BY <2>2 DEF TypeOK
  <2>4. StartedAt[r.t] \in Nat
    BY ListItems
  <2>5. table[RowOf(r, i)] = [old EXCEPT !.seen =
           IF i # r.item THEN Later(StartedAt[r.t], @) ELSE IF StartedAt[r.t] > r.seen THEN StartedAt[r.t] ELSE @]
    BY <1>4, <2>1 DEF ItemStored
  <2> HIDE DEF old
  <2>6. table[RowOf(r, i)] \in [who : Identities, seen : Nat] /\ table[RowOf(r, i)].who = old.who
    BY <2>3, <2>4, <2>5 DEF Later
  <2> QED
    BY <2>2, <2>6 DEF old
<1>8. \A i \in Pending(r) : (i # r.item \/ r.row = NoRow) => table[RowOf(r, i)].who = r.list[i]
  <2> TAKE i \in Pending(r)
  <2> HAVE i # r.item \/ r.row = NoRow
  <2>1. CASE i \in New(r)
    BY <1>6, <2>1
  <2>2. CASE i \notin New(r)
    <3>1. i # r.item
      BY <2>2 DEF New
    <3>2. i \in Pending(r) \ New(r)
      BY <2>2
    <3>3. opponents[RowOf(r, i)].who = r.list[i]
      BY <3>1, <3>2, FoundRows
    <3> QED
      BY <1>7, <3>2, <3>3
  <2> QED
    BY <2>1, <2>2
<1>9. (r.item \in Pending(r) /\ r.row # NoRow) => r.row \in DOMAIN opponents /\ RowOf(r, r.item) = r.row
  <2> HAVE r.item \in Pending(r) /\ r.row # NoRow
  <2>1. r.item \in Pending(r) \ New(r)
    BY DEF New
  <2> QED
    BY <1>7, <2>1, FoundRows
<1>10. \A row \in LinkedRows(r) : \E i \in Pending(r) : row = RowOf(r, i)
  BY DEF LinkedRows
<1>11. \A row \in DOMAIN opponents : table[row].who = opponents[row].who
  BY <1>5, <1>6, <1>7, <1>10
<1>12. \A row \in DOMAIN table :
         row \in Nat \ {0} /\ table[row] \in [who : Identities, seen : Nat]
  <2> TAKE row \in DOMAIN table
  <2>1. CASE row \in DOMAIN opponents \ LinkedRows(r)
    BY <1>5, <2>1 DEF TypeOK
  <2>2. CASE \E i \in New(r) : row = RowOf(r, i)
    <3>1. PICK i \in New(r) : row = RowOf(r, i)
      BY <2>2
    <3>2. RowOf(r, i) \in Nat \ {0}
      BY NewRows
    <3> QED
      BY <1>6, <3>1, <3>2
  <2>3. CASE \E i \in Pending(r) \ New(r) : row = RowOf(r, i)
    BY <1>7, <2>3 DEF TypeOK
  <2> QED
    BY <1>1, <1>10, <2>1, <2>2, <2>3
<1>13. \A row \in DOMAIN table \ DOMAIN opponents : \E i \in New(r) : table[row].who = r.list[i]
  <2> TAKE row \in DOMAIN table \ DOMAIN opponents
  <2>1. PICK i \in Pending(r) : row = RowOf(r, i)
    BY <1>1, <1>10
  <2>2. i \in New(r)
    BY <1>7, <2>1
  <2> QED
    BY <1>6, <2>1, <2>2
<1>14. \E n \in Nat : DOMAIN table \subseteq 1..n
  <2> DEFINE n == NewRow(opponents) + Len(r.list)
  <2>1. n \in Nat /\ \A row \in DOMAIN opponents : row <= n
    BY NewRowIsNext, ListItems
  <2>2. \A i \in New(r) : RowOf(r, i) <= n
    BY NewRows
  <2>3. \A row \in DOMAIN table : row <= n
    BY <1>1, <1>7, <1>10, <2>1, <2>2
  <2> HIDE DEF n
  <2>4. DOMAIN table \subseteq 1..n
    BY <1>12, <2>1, <2>3
  <2> QED
    BY <2>1, <2>4
<1>15. table = Stored(r)
  BY Zenon DEF table
<1> QED
  BY <1>1, <1>3, <1>8, <1>9, <1>11, <1>12, <1>13, <1>14, <1>15, Zenon
-----------------------------------------------------------------------------
(* Steps of the requests.                                                    *)

\* A step of h that changes nothing but what h works on.
LEMMA Served ==
  ASSUME RegistryInv, NEW h \in Handlers, NEW x, x \in Resting \/ IsServing(x),
         ReadsHold(x), Undisturbed(x),
         handlers' = [handlers EXCEPT ![h] = x],
         UNCHANGED <<tables, command, erasures, erased>>
  PROVE  RegistryInv'
<1>1. UNCHANGED <<present, opponents, links, receipts, suppressed, command, erasures, erased>>
  BY DEF tables
<1>2. /\ DOMAIN handlers' = Handlers /\ handlers' = [g \in Handlers |-> handlers'[g]]
      /\ handlers'[h] = x /\ \A g \in Handlers \ {h} : handlers'[g] = handlers[g]
  BY DEF RegistryInv, TypesInv, HandlersType
<1>3. \A g \in Handlers : handlers'[g] \in Resting \/ IsServing(handlers'[g])
  BY <1>2 DEF RegistryInv, TypesInv, HandlersType
<1>4. \A g \in Handlers :
        handlers'[g].pc \in {"free", "read", "check", "lookup", "write", "conflict"}
  BY <1>3 DEF Resting, IsServing
<1>5. TypeOK'
  BY <1>1, <1>4 DEF RegistryInv, TypesInv, TypeOK
<1>6. Numbered' /\ command'.who \subseteq Identities
  BY <1>1 DEF RegistryInv, TypesInv, Numbered
<1>7. TypesInv'
  BY <1>2, <1>3, <1>5, <1>6 DEF TypesInv, HandlersType
<1>8. \A g \in Handlers : ReadsHold(handlers'[g]) /\ Undisturbed(handlers'[g])
  BY <1>2 DEF RegistryInv, ReadsInv
<1>9. ReadsInv'
  BY <1>1, <1>8 DEF ReadsInv, ReadsHold, Undisturbed, FirstIsKnown, RowsOf
<1> QED
  BY <1>7, <1>9 DEF RegistryInv

\* What is free has nothing to hold.
LEMMA Rested ==
  ASSUME NEW answer \in {"none", "missing", "ok", "different", "failed", "conflict"}
  PROVE  Free(answer) \in Resting /\ ReadsHold(Free(answer)) /\ Undisturbed(Free(answer))
<1>1. Free(answer) \in Resting /\ Free(answer).pc = "free"
  BY DEF Free, Resting
<1> QED
  BY <1>1 DEF ReadsHold, Undisturbed

LEMMA FinishKeepsInv ==
  ASSUME RegistryInv, NEW h \in Handlers,
         NEW answer \in {"none", "missing", "ok", "different", "failed", "conflict"},
         Finish(h, answer), UNCHANGED <<tables, command, erasures, erased>>
  PROVE  RegistryInv'
<1>1. Free(answer) \in Resting /\ ReadsHold(Free(answer)) /\ Undisturbed(Free(answer))
  BY Rested
<1>2. handlers' = [handlers EXCEPT ![h] = Free(answer)]
  BY DEF Finish
<1> QED
  BY <1>1, <1>2, Served

LEMMA BusyIsServing ==
  ASSUME HandlersType, NEW h \in Handlers, handlers[h].pc # "free"
  PROVE  IsServing(handlers[h]) /\ h \in DOMAIN handlers
BY DEF HandlersType, Resting

LEMMA ReceiveKeepsInv ==
  ASSUME RegistryInv, NEW h \in Handlers, NEW t \in Tournaments, NEW list \in Lists[t],
         Receive(h, t, list)
  PROVE  RegistryInv'
<1> DEFINE x == [pc |-> "read", answer |-> "none", t |-> t, list |-> list, item |-> 1,
                 row |-> NoRow, seen |-> 0, retry |-> TRUE, disturbed |-> FALSE]
<1>1. list \in Seq(Identities)
  <2>1. list \in Seq(Range(list))
    BY RegistryAssumption
  <2>2. Range(list) \subseteq Identities
    BY DEF Identities
  <2>3. Len(list) \in Nat /\ list \in [1..Len(list) -> Range(list)]
    BY <2>1
  <2> QED
    BY <2>2, <2>3
<1>2. IsServing(x)
  BY <1>1 DEF IsServing
<1>3. ReadsHold(x) /\ Undisturbed(x)
  BY DEF ReadsHold, Undisturbed
<1>4. handlers' = [handlers EXCEPT ![h] = x] /\ UNCHANGED <<tables, command, erasures, erased>>
  BY Zenon DEF Receive
<1> HIDE DEF x
<1> QED
  BY <1>2, <1>3, <1>4, Served

LEMMA ReadReceiptKeepsInv ==
  ASSUME RegistryInv, NEW h \in Handlers, ReadReceipt(h)
  PROVE  RegistryInv'
<1> DEFINE r == handlers[h]
<1> DEFINE x == [r EXCEPT !.pc = "check"]
<1>1. r.pc = "read" /\ UNCHANGED <<tables, command, erasures, erased>>
  BY DEF ReadReceipt
<1>2. IsServing(r) /\ h \in DOMAIN handlers /\ ReadsHold(r) /\ Undisturbed(r)
  BY <1>1, BusyIsServing DEF RegistryInv, TypesInv, ReadsInv
<1>3. CASE \E answer \in {"missing", "ok", "different"} : Finish(h, answer)
  BY <1>1, <1>3, FinishKeepsInv
<1>4. CASE Goto(h, "check") /\ r.t \in present
  <2>1. handlers' = [handlers EXCEPT ![h] = x]
    BY <1>2, <1>4 DEF Goto
  <2>2. IsServing(x)
    BY <1>2 DEF IsServing
  <2>3. /\ x.pc = "check" /\ x.t = r.t /\ x.list = r.list /\ x.disturbed = r.disturbed
        /\ x.item = r.item /\ x.retry = r.retry
    BY <1>2 DEF IsServing
  <2> HIDE DEF x, r
  <2>4. ReadsHold(x) /\ Undisturbed(x)
    BY <1>1, <1>2, <1>4, <2>3 DEF ReadsHold, Undisturbed, FirstIsKnown
  <2> QED
    BY <1>1, <2>1, <2>2, <2>4, Served
<1> QED
  BY <1>1, <1>3, <1>4 DEF ReadReceipt
LEMMA CheckKeepsInv ==
  ASSUME RegistryInv, NEW h \in Handlers, CheckSuppression(h)
  PROVE  RegistryInv'
<1> DEFINE r == handlers[h]
<1>1. r.pc = "check" /\ UNCHANGED <<tables, command, erasures, erased>>
  BY DEF CheckSuppression
<1>2. IsServing(r) /\ h \in DOMAIN handlers /\ ReadsHold(r) /\ Undisturbed(r)
  BY <1>1, BusyIsServing DEF RegistryInv, TypesInv, ReadsInv
<1>3. CASE r.item > Len(r.list) /\ Goto(h, "write")
  <2> DEFINE x == [r EXCEPT !.pc = "write"]
  <2>1. handlers' = [handlers EXCEPT ![h] = x]
    BY <1>2, <1>3 DEF Goto
  <2>2. IsServing(x)
    BY <1>2 DEF IsServing
  <2>3. /\ x.pc = "write" /\ x.t = r.t /\ x.list = r.list /\ x.disturbed = r.disturbed
        /\ x.item = r.item /\ x.retry = r.retry
    BY <1>2 DEF IsServing
  <2>4. r.item \in Nat /\ Len(r.list) \in Nat
    BY <1>2, ListItems
  <2> HIDE DEF x, r
  <2>5. ReadsHold(x)
    BY <1>1, <1>2, <1>3, <2>3, <2>4 DEF ReadsHold
  <2>6. Undisturbed(x)
    <3>1. SUFFICES ASSUME ~x.disturbed PROVE Undisturbed(x)
      BY DEF Undisturbed
    <3>2. r.t \in present /\ (~r.retry => r.t \in DOMAIN receipts \/ FirstIsKnown(r))
      BY <1>1, <1>2, <2>3, <3>1 DEF Undisturbed
    <3>3. ~FirstIsKnown(r)
      BY <1>1, <1>2, <1>3, <2>4 DEF FirstIsKnown, ReadsHold
    <3> QED
      BY <1>3, <2>3, <2>4, <3>2, <3>3 DEF Undisturbed
  <2> QED
    BY <1>1, <2>1, <2>2, <2>5, <2>6, Served
<1>4. CASE /\ ~(r.item > Len(r.list)) /\ r.list[r.item] \in suppressed
           /\ handlers' = [handlers EXCEPT ![h].item = @ + 1]
  <2> DEFINE x == [r EXCEPT !.item = @ + 1]
  <2>1. handlers' = [handlers EXCEPT ![h] = x]
    BY <1>2, <1>4
  <2>2. r.item \in Nat /\ Len(r.list) \in Nat
    BY <1>2, ListItems
  <2>3. IsServing(x)
    BY <1>2, <2>2 DEF IsServing
  <2>4. /\ x.pc = "check" /\ x.t = r.t /\ x.list = r.list /\ x.disturbed = r.disturbed
        /\ x.item = r.item + 1 /\ x.retry = r.retry
    BY <1>1, <1>2 DEF IsServing
  <2> HIDE DEF x, r
  <2>5. \A i \in 1..Len(r.list) : i < r.item + 1 => r.list[i] \in suppressed
    BY <1>1, <1>2, <1>4, <2>2 DEF ReadsHold
  <2>6. ReadsHold(x)
    BY <2>4, <2>5 DEF ReadsHold
  <2>7. Undisturbed(x)
    BY <1>1, <1>2, <2>4 DEF Undisturbed, FirstIsKnown
  <2> QED
    BY <1>1, <2>1, <2>3, <2>6, <2>7, Served
<1>5. CASE ~(r.item > Len(r.list)) /\ r.list[r.item] \notin suppressed /\ Goto(h, "lookup")
  <2> DEFINE x == [r EXCEPT !.pc = "lookup"]
  <2>1. handlers' = [handlers EXCEPT ![h] = x]
    BY <1>2, <1>5 DEF Goto
  <2>2. IsServing(x)
    BY <1>2 DEF IsServing
  <2>3. /\ x.pc = "lookup" /\ x.t = r.t /\ x.list = r.list /\ x.disturbed = r.disturbed
        /\ x.item = r.item /\ x.retry = r.retry
    BY <1>2 DEF IsServing
  <2>4. r.item \in Nat /\ Len(r.list) \in Nat
    BY <1>2, ListItems
  <2> HIDE DEF x, r
  <2>5. ReadsHold(x)
    BY <1>1, <1>2, <1>5, <2>3, <2>4 DEF ReadsHold
  <2>6. Undisturbed(x)
    BY <1>1, <1>2, <1>5, <2>3 DEF Undisturbed, FirstIsKnown
  <2> QED
    BY <1>1, <2>1, <2>2, <2>5, <2>6, Served
<1> QED
  BY <1>3, <1>4, <1>5 DEF CheckSuppression

LEMMA LookupKeepsInv ==
  ASSUME RegistryInv, NEW h \in Handlers, Lookup(h)
  PROVE  RegistryInv'
<1> DEFINE r == handlers[h]
<1> DEFINE who == r.list[r.item]
<1>1. r.pc = "lookup" /\ UNCHANGED <<tables, command, erasures, erased>>
  BY DEF Lookup
<1>2. IsServing(r) /\ h \in DOMAIN handlers /\ ReadsHold(r) /\ Undisturbed(r)
  BY <1>1, BusyIsServing DEF RegistryInv, TypesInv, ReadsInv
<1>3. r.item \in Nat /\ Len(r.list) \in Nat /\ r.item <= Len(r.list)
      /\ r.item \in 1..Len(r.list)
  BY <1>1, <1>2, ListItems DEF ReadsHold
<1>4. CASE /\ RowsOf(opponents, who) = {}
           /\ handlers' = [handlers EXCEPT ![h].pc = "write", ![h].row = NoRow]
  <2> DEFINE x == [r EXCEPT !.pc = "write", !.row = NoRow]
  <2>1. handlers' = [handlers EXCEPT ![h] = x]
    BY <1>2, <1>4
  <2>2. IsServing(x)
    BY <1>2 DEF IsServing
  <2>3. /\ x.pc = "write" /\ x.t = r.t /\ x.list = r.list /\ x.disturbed = r.disturbed
        /\ x.item = r.item /\ x.retry = r.retry /\ x.row = NoRow
    BY <1>2 DEF IsServing
  <2> HIDE DEF x
  <2>4. ReadsHold(x)
    BY <1>1, <1>2, <2>3 DEF ReadsHold
  <2>5. Undisturbed(x)
    <3>1. SUFFICES ASSUME ~x.disturbed PROVE Undisturbed(x)
      BY DEF Undisturbed
    <3>2. /\ r.t \in present /\ who \notin suppressed
          /\ ~r.retry => r.t \in DOMAIN receipts \/ FirstIsKnown(r)
      BY <1>1, <1>2, <1>3, <2>3, <3>1 DEF Undisturbed
    <3>3. ~FirstIsKnown(r)
      <4>1. SUFFICES ASSUME NEW k \in 1..Len(r.list),
                            \A j \in 1..Len(r.list) : j < k => r.list[j] \in suppressed,
                            r.list[k] \notin suppressed, RowsOf(opponents, r.list[k]) # {}
                     PROVE  FALSE
        BY DEF FirstIsKnown
      <4>2. k = r.item
        BY <1>1, <1>2, <1>3, <3>2, <4>1 DEF ReadsHold
      <4> QED
        BY <1>4, <4>1, <4>2
    <3> HIDE DEF r, who
    <3> QED
      BY <1>3, <2>3, <3>2, <3>3 DEF Undisturbed, who
  <2> QED
    BY <1>1, <2>1, <2>2, <2>4, <2>5, Served
<1>5. ASSUME NEW row \in RowsOf(opponents, who),
             handlers' = [handlers EXCEPT ![h].pc = "write", ![h].row = row,
                                          ![h].seen = opponents[row].seen]
      PROVE  RegistryInv'
  <2> DEFINE x == [r EXCEPT !.pc = "write", !.row = row, !.seen = opponents[row].seen]
  <2>1. handlers' = [handlers EXCEPT ![h] = x]
    BY <1>2, <1>5
  <2>2. row \in DOMAIN opponents /\ opponents[row].who = who
    BY <1>5 DEF RowsOf
  <2>3. row \in Nat /\ opponents[row].seen \in Nat
    BY <2>2 DEF RegistryInv, TypesInv, TypeOK
  <2>4. IsServing(x)
    BY <1>2, <2>3 DEF IsServing
  <2>5. /\ x.pc = "write" /\ x.t = r.t /\ x.list = r.list /\ x.disturbed = r.disturbed
        /\ x.item = r.item /\ x.retry = r.retry /\ x.row = row
    BY <1>2 DEF IsServing
  <2>6. row # NoRow
    BY <2>3, RegistryAssumption
  <2> HIDE DEF x
  <2>7. ReadsHold(x)
    BY <1>1, <1>2, <2>2, <2>5 DEF ReadsHold
  <2>8. Undisturbed(x)
    BY <1>1, <1>2, <1>3, <2>2, <2>5, <2>6 DEF Undisturbed, FirstIsKnown
  <2> QED
    BY <1>1, <2>1, <2>4, <2>7, <2>8, Served
<1> QED
  BY <1>4, <1>5 DEF Lookup

LEMMA Restarted ==
  ASSUME NEW r, IsServing(r)
  PROVE  LET x == [r EXCEPT !.pc = "read", !.item = 1, !.retry = FALSE]
         IN  /\ IsServing(x)
             /\ x.pc = "read" /\ x.t = r.t /\ x.list = r.list /\ x.disturbed = r.disturbed
             /\ x.item = 1 /\ ~x.retry
<1> DEFINE x == [r EXCEPT !.pc = "read", !.item = 1, !.retry = FALSE]
<1>1. DOMAIN x = DOMAIN r
  OBVIOUS
<1>2. /\ x.pc = "read" /\ x.t = r.t /\ x.list = r.list /\ x.disturbed = r.disturbed
      /\ x.item = 1 /\ x.retry = FALSE /\ x.answer = r.answer /\ x.row = r.row /\ x.seen = r.seen
  BY DEF IsServing
<1>3. x = [f \in DOMAIN r |-> x[f]]
  OBVIOUS
<1>4. DOMAIN r = {"pc", "answer", "t", "list", "item", "row", "seen", "retry", "disturbed"}
  BY DEF IsServing
<1> HIDE DEF x
<1>5. x = [pc |-> x.pc, answer |-> x.answer, t |-> x.t, list |-> x.list, item |-> x.item,
           row |-> x.row, seen |-> x.seen, retry |-> x.retry, disturbed |-> x.disturbed]
  BY <1>3, <1>4
<1>6. IsServing(x)
  <2>1. /\ x.pc \in {"read", "check", "lookup", "write", "conflict"} /\ x.answer \in {"none"}
        /\ x.t \in Tournaments /\ x.list \in Seq(Identities) /\ x.row \in Nat \cup {NoRow}
        /\ x.seen \in Nat /\ x.disturbed \in BOOLEAN
    BY <1>2 DEF IsServing
  <2>2. x.item \in Nat /\ x.item >= 1 /\ x.list \in Lists[x.t]
    BY <1>2 DEF IsServing
  <2>3. x.retry \in BOOLEAN
    BY <1>2
  <2> QED
    BY <1>5, <2>1, <2>2, <2>3 DEF IsServing
<1> QED
  BY <1>2, <1>6 DEF x

LEMMA ConflictKeepsInv ==
  ASSUME RegistryInv, NEW h \in Handlers, Conflict(h)
  PROVE  RegistryInv'
<1> DEFINE r == handlers[h]
<1> DEFINE x == [r EXCEPT !.pc = "read", !.item = 1, !.retry = FALSE]
<1>1. r.pc = "conflict" /\ UNCHANGED <<tables, command, erasures, erased>>
  BY DEF Conflict
<1>2. IsServing(r) /\ h \in DOMAIN handlers /\ ReadsHold(r) /\ Undisturbed(r)
  BY <1>1, BusyIsServing DEF RegistryInv, TypesInv, ReadsInv
<1>3. CASE \E answer \in {"ok", "conflict"} : Finish(h, answer)
  BY <1>1, <1>3, FinishKeepsInv
<1>4. CASE r.retry /\ handlers' = [handlers EXCEPT ![h] = x]
  <2>1. IsServing(x)
    BY <1>2, Restarted
  <2>2. /\ x.pc = "read" /\ x.t = r.t /\ x.list = r.list /\ x.disturbed = r.disturbed
        /\ x.item = 1 /\ ~x.retry
    BY <1>2, Restarted
  <2> HIDE DEF x, r
  <2>3. ReadsHold(x)
    BY <2>2 DEF ReadsHold
  <2>4. Undisturbed(x)
    BY <1>1, <1>2, <2>2 DEF Undisturbed, FirstIsKnown
  <2> QED
    BY <1>1, <1>4, <2>1, <2>3, <2>4, Served
<1> QED
  BY <1>3, <1>4 DEF Conflict

LEMMA AbortKeepsInv ==
  ASSUME RegistryInv, NEW h \in Handlers, Abort(h)
  PROVE  RegistryInv'
BY FinishKeepsInv DEF Abort
-----------------------------------------------------------------------------
(* The transaction.                                                          *)

\* A request no command disturbed is refused only for an identity inserted since its
\* lookup: the new profiles differ from one another and from the ones found.
LEMMA RefusedIfInserted ==
  ASSUME Numbered, NEW r, IsServing(r), r.pc = "write", Undisturbed(r), ~r.disturbed, Refused(r)
  PROVE  /\ r.item <= Len(r.list) /\ r.row = NoRow
         /\ RowsOf(opponents, r.list[r.item]) # {}
<1>1. /\ Len(r.list) \in Nat /\ Pending(r) \subseteq 1..Len(r.list) /\ New(r) \subseteq Pending(r)
      /\ \A i, j \in 1..Len(r.list) : r.list[i] = r.list[j] => i = j
  BY ListItems
<1>2. ASSUME NEW i \in Pending(r) \ New(r)
      PROVE  RowOf(r, i) \in DOMAIN opponents /\ opponents[RowOf(r, i)].who = r.list[i]
  <2>1. CASE i # r.item
    BY <2>1, FoundRows
  <2>2. CASE i = r.item
    <3>1. r.row # NoRow /\ RowOf(r, i) = r.row
      BY <2>2, FoundRows
    <3>2. r.item <= Len(r.list)
      BY <1>1, <2>2
    <3> QED
      BY <2>2, <3>1, <3>2 DEF Undisturbed
  <2> QED
    BY <2>1, <2>2
<1>3. PICK i \in Pending(r) :
        \/ i \in New(r) /\ RowsOf(opponents, r.list[i]) # {}
        \/ i \notin New(r) /\ RowOf(r, i) \notin DOMAIN opponents
        \/ \E j \in Pending(r) \ {i} : RowOf(r, j) = RowOf(r, i)
  BY DEF Refused
<1>4. CASE i \in New(r) /\ RowsOf(opponents, r.list[i]) # {}
  <2>1. i = r.item /\ r.row = NoRow
    BY <1>4 DEF New
  <2> QED
    BY <1>1, <1>4, <2>1
<1>5. CASE i \notin New(r) /\ RowOf(r, i) \notin DOMAIN opponents
  BY <1>2, <1>5
<1>6. CASE \E j \in Pending(r) \ {i} : RowOf(r, j) = RowOf(r, i)
  <2>1. PICK j \in Pending(r) : j # i /\ RowOf(r, j) = RowOf(r, i)
    BY <1>6
  <2>2. CASE i \in New(r) /\ j \in New(r)
    <3>1. i \in Nat /\ j \in Nat /\ (i < j \/ j < i)
      BY <1>1, <2>1
    <3>2. RowOf(r, i) \in Nat /\ RowOf(r, j) \in Nat
      BY <2>2, NewRows
    <3>3. i < j => RowOf(r, i) < RowOf(r, j)
      BY <2>2, NewRows
    <3>4. j < i => RowOf(r, j) < RowOf(r, i)
      BY <2>2, NewRows
    <3> QED
      BY <2>1, <3>1, <3>2, <3>3, <3>4
  <2>3. CASE i \notin New(r) /\ j \notin New(r)
    <3>1. r.list[i] = r.list[j]
      BY <1>2, <2>1, <2>3
    <3> QED
      BY <1>1, <2>1, <3>1
  <2>4. ASSUME NEW old \in Pending(r) \ New(r), NEW new \in New(r) PROVE RowOf(r, old) # RowOf(r, new)
    <3>1. RowOf(r, old) \in DOMAIN opponents
      BY <1>2
    <3>2. RowOf(r, old) \in Nat
      BY <3>1, NewRowIsNext
    <3>3. RowOf(r, old) < RowOf(r, new) /\ RowOf(r, new) \in Nat
      BY <3>1, NewRows
    <3> QED
      BY <3>2, <3>3
  <2> QED
    BY <2>1, <2>2, <2>3, <2>4
<1> QED
  BY <1>3, <1>4, <1>5, <1>6

\* What a request has read outlives what another one commits.
Grown ==
  /\ UNCHANGED <<present, suppressed, erased>>
  /\ DOMAIN receipts \subseteq DOMAIN receipts'
  /\ \A row \in DOMAIN opponents : row \in DOMAIN opponents' /\ opponents'[row].who = opponents[row].who

LEMMA GrowthKeepsReads ==
  ASSUME Grown, NEW r, ReadsHold(r), Undisturbed(r)
  PROVE  ReadsHold(r)' /\ Undisturbed(r)'
<1>1. ReadsHold(r)'
  BY DEF Grown, ReadsHold
<1>2. \A who : RowsOf(opponents, who) # {} => RowsOf(opponents', who) # {}
  <2> TAKE who
  <2> HAVE RowsOf(opponents, who) # {}
  <2>1. PICK row \in DOMAIN opponents : opponents[row].who = who
    BY DEF RowsOf
  <2>2. row \in RowsOf(opponents', who)
    BY <2>1 DEF Grown, RowsOf
  <2> QED
    BY <2>2
<1>3. FirstIsKnown(r) => FirstIsKnown(r)'
  BY <1>2 DEF Grown, FirstIsKnown
<1>4. Undisturbed(r)'
  BY <1>3 DEF Grown, Undisturbed
<1> QED
  BY <1>1, <1>4

\* What Write commits.
Committed(h, r) ==
  /\ ~Refused(r) /\ r.t \in present /\ r.t \notin DOMAIN receipts
  /\ opponents' = Stored(r)
  /\ links' = links \cup ({r.t} \X LinkedRows(r))
  /\ receipts' = With(receipts, r.t, r.list)
  /\ handlers' = [handlers EXCEPT ![h] = Free("ok")]
  /\ UNCHANGED <<present, suppressed, command, erasures, erased>>

LEMMA WriteOutcome ==
  ASSUME HandlersType, NEW h \in Handlers, Write(h)
  PROVE  /\ handlers[h].pc = "write" /\ IsServing(handlers[h])
         /\ \/ Committed(h, handlers[h])
            \/ /\ UNCHANGED <<tables, command, erasures, erased>>
               /\ \/ Finish(h, "failed")
                  \/ /\ handlers' = [handlers EXCEPT ![h] = [handlers[h] EXCEPT !.pc = "conflict"]]
                     /\ Refused(handlers[h]) \/ handlers[h].t \notin present
                          \/ handlers[h].t \in DOMAIN receipts
<1>1. handlers[h].pc = "write"
  BY DEF Write
<1>2. IsServing(handlers[h]) /\ h \in DOMAIN handlers
  BY <1>1, BusyIsServing
<1>3. Goto(h, "conflict") => handlers' = [handlers EXCEPT ![h] = [handlers[h] EXCEPT !.pc = "conflict"]]
  BY <1>2 DEF Goto
<1> QED
  BY <1>1, <1>2, <1>3 DEF Write, Committed, Finish, tables

LEMMA CommittedTypes ==
  ASSUME TypesInv, NEW h \in Handlers, NEW r, IsServing(r), Committed(h, r)
  PROVE  /\ TypesInv' /\ Grown
         /\ DOMAIN opponents' = DOMAIN opponents \cup LinkedRows(r)
         /\ handlers'[h] = Free("ok") /\ \A g \in Handlers \ {h} : handlers'[g] = handlers[g]
<1>1. /\ opponents' = Stored(r) /\ links' = links \cup ({r.t} \X LinkedRows(r))
      /\ receipts' = With(receipts, r.t, r.list)
      /\ handlers' = [handlers EXCEPT ![h] = Free("ok")]
      /\ UNCHANGED <<present, suppressed, command, erasures, erased>>
      /\ r.t \in present /\ ~Refused(r) /\ r.list \in Lists[r.t]
  BY DEF Committed, IsServing
<1>2. /\ DOMAIN opponents' = DOMAIN opponents \cup LinkedRows(r)
      /\ \A row \in DOMAIN opponents : opponents'[row].who = opponents[row].who
      /\ \A row \in DOMAIN opponents' :
           row \in Nat \ {0} /\ opponents'[row] \in [who : Identities, seen : Nat]
      /\ Numbered'
  BY <1>1, StoredTable DEF TypesInv, Numbered
<1>3. /\ DOMAIN handlers' = Handlers /\ handlers' = [g \in Handlers |-> handlers'[g]]
      /\ handlers'[h] = Free("ok") /\ \A g \in Handlers \ {h} : handlers'[g] = handlers[g]
  BY <1>1 DEF TypesInv, HandlersType
<1>4. Free("ok") \in Resting
  BY Rested
<1>5. HandlersType'
  BY <1>3, <1>4 DEF TypesInv, HandlersType
<1>6. \A g \in Handlers :
        handlers'[g].pc \in {"free", "read", "check", "lookup", "write", "conflict"}
  BY <1>5 DEF HandlersType, Resting, IsServing
<1>7. links' \subseteq present' \X DOMAIN opponents'
  BY <1>1, <1>2 DEF TypesInv, TypeOK
<1>8. /\ DOMAIN receipts' = DOMAIN receipts \cup {r.t}
      /\ \A t \in DOMAIN receipts' : receipts'[t] \in Lists[t]
  BY <1>1 DEF With, TypesInv, TypeOK
<1>9. TypeOK'
  BY <1>1, <1>2, <1>6, <1>7, <1>8 DEF TypesInv, TypeOK
<1>10. TypesInv'
  BY <1>1, <1>2, <1>5, <1>9 DEF TypesInv
<1>11. Grown
  BY <1>1, <1>2, <1>8 DEF Grown
<1> QED
  BY <1>2, <1>3, <1>10, <1>11

LEMMA WriteKeepsInv ==
  ASSUME RegistryInv, NEW h \in Handlers, Write(h)
  PROVE  RegistryInv'
<1> DEFINE r == handlers[h]
<1>1. r.pc = "write" /\ IsServing(r) /\ h \in DOMAIN handlers /\ ReadsHold(r) /\ Undisturbed(r)
  BY WriteOutcome, BusyIsServing DEF RegistryInv, TypesInv, ReadsInv
<1>2. CASE Committed(h, r)
  <2>1. /\ TypesInv' /\ Grown
        /\ handlers'[h] = Free("ok") /\ \A g \in Handlers \ {h} : handlers'[g] = handlers[g]
    BY <1>1, <1>2, CommittedTypes DEF RegistryInv
  <2>2. ASSUME NEW g \in Handlers PROVE ReadsHold(handlers[g])' /\ Undisturbed(handlers[g])'
    <3>1. CASE g = h
      <4>1. handlers'[g].pc = "free"
        BY <2>1, <3>1 DEF Free
      <4> QED
        BY <4>1 DEF ReadsHold, Undisturbed
    <3>2. CASE g # h
      <4>1. PICK x : x = handlers[g]
        OBVIOUS
      <4>2. ReadsHold(x) /\ Undisturbed(x) /\ handlers'[g] = x
        BY <2>1, <3>2, <4>1 DEF RegistryInv, ReadsInv
      <4>3. ReadsHold(x)' /\ Undisturbed(x)'
        BY <2>1, <4>2, GrowthKeepsReads
      <4> QED
        BY <4>2, <4>3 DEF ReadsHold, Undisturbed, FirstIsKnown
    <3> QED
      BY <3>1, <3>2
  <2> QED
    BY <2>1, <2>2 DEF RegistryInv, ReadsInv
<1>3. CASE UNCHANGED <<tables, command, erasures, erased>> /\ Finish(h, "failed")
  BY <1>3, FinishKeepsInv
<1>4. CASE /\ UNCHANGED <<tables, command, erasures, erased>>
           /\ handlers' = [handlers EXCEPT ![h] = [r EXCEPT !.pc = "conflict"]]
           /\ Refused(r) \/ r.t \notin present \/ r.t \in DOMAIN receipts
  <2> DEFINE x == [r EXCEPT !.pc = "conflict"]
  <2>1. IsServing(x)
    BY <1>1 DEF IsServing
  <2>2. /\ x.pc = "conflict" /\ x.t = r.t /\ x.list = r.list /\ x.disturbed = r.disturbed
        /\ x.item = r.item /\ x.retry = r.retry
    BY <1>1 DEF IsServing
  <2> HIDE DEF x, r
  <2>3. ReadsHold(x)
    BY <2>2 DEF ReadsHold
  <2>4. Undisturbed(x)
    <3> SUFFICES ASSUME ~x.disturbed PROVE Undisturbed(x)
      BY DEF Undisturbed
    <3> SUFFICES ASSUME r.t \notin DOMAIN receipts PROVE r.retry /\ FirstIsKnown(r)
      <4>1. r.t \in present
        BY <1>1, <2>2 DEF Undisturbed
      <4>2. FirstIsKnown(r) => FirstIsKnown(x)
        BY <2>2 DEF FirstIsKnown
      <4> QED
        BY <2>2, <4>1, <4>2 DEF Undisturbed
    <3>1. r.t \in present /\ ~r.disturbed
      BY <1>1, <2>2 DEF Undisturbed
    <3>2. ~r.retry => r.item <= Len(r.list) /\ r.row # NoRow
      BY <1>1, <2>2 DEF Undisturbed
    <3>3. /\ r.item <= Len(r.list) /\ r.row = NoRow
          /\ RowsOf(opponents, r.list[r.item]) # {}
      BY <1>1, <1>4, <3>1, RefusedIfInserted DEF RegistryInv, TypesInv
    <3>4. r.list[r.item] \notin suppressed
      BY <1>1, <3>1, <3>3 DEF Undisturbed
    <3>5. r.item \in 1..Len(r.list)
      BY <1>1, <3>3, ListItems
    <3>6. FirstIsKnown(r)
      BY <1>1, <3>3, <3>4, <3>5 DEF FirstIsKnown, ReadsHold
    <3> QED
      BY <3>2, <3>3, <3>6
  <2> QED
    BY <1>4, <2>1, <2>3, <2>4, Served DEF x
<1> QED
  BY <1>2, <1>3, <1>4, WriteOutcome DEF RegistryInv, TypesInv
-----------------------------------------------------------------------------
(* The maintenance commands.                                                 *)

LEMMA BeginKeepsInv ==
  ASSUME RegistryInv, NEW op \in {"suppress", "purge"}, NEW rows, NEW who \in SUBSET Identities,
         NEW cutoff, Begin(op, rows, who, cutoff)
  PROVE  RegistryInv'
<1>1. UNCHANGED <<present, opponents, links, receipts, suppressed, handlers, erased>>
  BY DEF Begin, tables
<1>2. command'.who = who /\ command'.op = op /\ erasures' \in 0..MaxErasures
  BY RegistryAssumption DEF Begin, RegistryInv, TypesInv, TypeOK
<1>3. TypesInv'
  BY <1>1, <1>2 DEF RegistryInv, TypesInv, TypeOK, HandlersType, Numbered
<1>4. ReadsInv'
  BY <1>1 DEF RegistryInv, ReadsInv, ReadsHold, Undisturbed, FirstIsKnown, RowsOf
<1> QED
  BY <1>3, <1>4 DEF RegistryInv

\* What a command erases: its rows' identities are remembered as erased.
Shrunk ==
  /\ suppressed \subseteq suppressed' /\ erased \subseteq erased'
  /\ DOMAIN opponents' \subseteq DOMAIN opponents
  /\ \A row \in DOMAIN opponents' : opponents'[row] = opponents[row]
  /\ \A row \in DOMAIN opponents : row \in DOMAIN opponents' \/ opponents[row].who \in erased'

LEMMA DisturbKeepsReads ==
  ASSUME RegistryInv, Shrunk, Disturb
  PROVE  HandlersType' /\ ReadsInv'
<1>1. handlers' = [h \in Handlers |->
        IF handlers[h].pc = "free" THEN handlers[h] ELSE [handlers[h] EXCEPT !.disturbed = TRUE]]
  BY DEF Disturb
<1>2. DOMAIN handlers' = Handlers /\ handlers' = [h \in Handlers |-> handlers'[h]]
  BY <1>1
<1>3. ASSUME NEW h \in Handlers
      PROVE  /\ handlers'[h] \in Resting \/ IsServing(handlers'[h])
             /\ ReadsHold(handlers[h])' /\ Undisturbed(handlers[h])'
  <2>1. handlers[h] \in Resting \/ IsServing(handlers[h])
    BY DEF RegistryInv, TypesInv, HandlersType
  <2>2. CASE handlers[h].pc = "free"
    <3>1. handlers'[h] = handlers[h]
      BY <1>1, <2>2
    <3> QED
      BY <2>1, <2>2, <3>1 DEF ReadsHold, Undisturbed
  <2>3. CASE handlers[h].pc # "free"
    <3>1. IsServing(handlers[h]) /\ ReadsHold(handlers[h])
      BY <2>1, <2>3 DEF Resting, RegistryInv, ReadsInv
    <3>2. PICK r : r = handlers[h]
      OBVIOUS
    <3>3. PICK x : x = [r EXCEPT !.disturbed = TRUE]
      OBVIOUS
    <3>4. IsServing(r) /\ ReadsHold(r) /\ handlers'[h] = x
      BY <1>1, <2>3, <3>1, <3>2, <3>3
    <3>5. IsServing(x)
      BY <3>3, <3>4 DEF IsServing
    <3>6. /\ x.pc = r.pc /\ x.t = r.t /\ x.list = r.list /\ x.disturbed = TRUE
          /\ x.item = r.item /\ x.row = r.row
      BY <3>3, <3>4 DEF IsServing
    <3>7. ReadsHold(x)'
      BY <3>4, <3>6 DEF Shrunk, ReadsHold
    <3>8. Undisturbed(x)'
      BY <3>6 DEF Undisturbed
    <3> QED
      BY <3>4, <3>5, <3>7, <3>8 DEF ReadsHold, Undisturbed, FirstIsKnown
  <2> QED
    BY <2>2, <2>3
<1> QED
  BY <1>2, <1>3 DEF HandlersType, ReadsInv

\* A command's step, given what it leaves of the tables.
LEMMA ErasureKeepsInv ==
  ASSUME RegistryInv, Shrunk, Disturb,
         present' \subseteq present, suppressed' \subseteq Identities,
         links' \subseteq links, links' \subseteq present' \X DOMAIN opponents',
         DOMAIN receipts' \subseteq DOMAIN receipts \cap present',
         \A t \in DOMAIN receipts' : receipts'[t] = receipts[t],
         command'.op \in {"none", "suppress", "purge"}, command'.who \subseteq Identities,
         erasures' \in 0..MaxErasures
  PROVE  RegistryInv'
<1>1. HandlersType' /\ ReadsInv'
  BY DisturbKeepsReads
<1>2. \A h \in Handlers :
        handlers'[h].pc \in {"free", "read", "check", "lookup", "write", "conflict"}
  BY <1>1 DEF HandlersType, Resting, IsServing
<1>3. TypeOK'
  <2>1. present' \subseteq Tournaments /\ suppressed' \subseteq Identities
    BY DEF RegistryInv, TypesInv, TypeOK
  <2>2. \A row \in DOMAIN opponents' :
          row \in Nat \ {0} /\ opponents'[row] \in [who : Identities, seen : Nat]
    BY DEF Shrunk, RegistryInv, TypesInv, TypeOK
  <2>3. DOMAIN receipts' \subseteq present' /\ \A t \in DOMAIN receipts' : receipts'[t] \in Lists[t]
    BY DEF RegistryInv, TypesInv, TypeOK
  <2> QED
    BY <1>2, <2>1, <2>2, <2>3 DEF TypeOK
<1>4. Numbered'
  BY DEF Shrunk, RegistryInv, TypesInv, Numbered
<1> QED
  BY <1>1, <1>3, <1>4 DEF RegistryInv, TypesInv

LEMMA CommitShrinks ==
  ASSUME TypesInv, CommitCommand
  PROVE  /\ Shrunk /\ Disturb
         /\ links' = {l \in links : l[2] \notin command.rows}
         /\ DOMAIN opponents' = DOMAIN opponents \ command.rows
         /\ UNCHANGED <<present, receipts, erasures>>
         /\ suppressed' = suppressed \cup command.who /\ command' = NoCommand
<1>1. /\ opponents' = Without(opponents, command.rows)
      /\ links' = {l \in links : l[2] \notin command.rows}
      /\ erased' = erased \cup {opponents[row].who : row \in command.rows \cap DOMAIN opponents}
      /\ suppressed' = suppressed \cup command.who /\ command' = NoCommand
      /\ Disturb /\ UNCHANGED <<present, receipts, erasures>>
  BY DEF CommitCommand, Erase
<1>2. /\ DOMAIN opponents' = DOMAIN opponents \ command.rows
      /\ \A row \in DOMAIN opponents' : opponents'[row] = opponents[row]
  BY <1>1 DEF Without
<1> QED
  BY <1>1, <1>2 DEF Shrunk

LEMMA CommitKeepsInv ==
  ASSUME RegistryInv, CommitCommand
  PROVE  RegistryInv'
<1>1. /\ Shrunk /\ Disturb
      /\ links' = {l \in links : l[2] \notin command.rows}
      /\ DOMAIN opponents' = DOMAIN opponents \ command.rows
      /\ UNCHANGED <<present, receipts, erasures>>
      /\ suppressed' = suppressed \cup command.who /\ command' = NoCommand
  BY CommitShrinks DEF RegistryInv
<1>2. suppressed' \subseteq Identities
  BY <1>1 DEF RegistryInv, TypesInv, TypeOK
<1>3. links' \subseteq links /\ links' \subseteq present' \X DOMAIN opponents'
  BY <1>1 DEF RegistryInv, TypesInv, TypeOK
<1>4. command'.op = "none" /\ command'.who = {}
  BY <1>1 DEF NoCommand
<1>5. erasures' \in 0..MaxErasures /\ DOMAIN receipts' \subseteq DOMAIN receipts \cap present'
  BY <1>1 DEF RegistryInv, TypesInv, TypeOK
<1> QED
  BY <1>1, <1>2, <1>3, <1>4, <1>5, ErasureKeepsInv

LEMMA DeleteShrinks ==
  ASSUME TypesInv, NEW m, DeleteMember(m)
  PROVE  /\ Shrunk /\ Disturb
         /\ present' \subseteq present
         /\ links' = {l \in links : l[1] \in present'}
         /\ DOMAIN opponents' = {row \in DOMAIN opponents : \E l \in links' : l[2] = row}
         /\ DOMAIN receipts' = DOMAIN receipts \cap present'
         /\ \A t \in DOMAIN receipts' : receipts'[t] = receipts[t]
         /\ UNCHANGED <<suppressed, command>> /\ erasures' \in 0..MaxErasures
<1> DEFINE gone == {t \in present : Owner[t] = m}
<1> DEFINE orphans == {row \in DOMAIN opponents : \A l \in links' : l[2] # row}
<1>1. /\ present' = present \ gone /\ receipts' = Without(receipts, gone)
      /\ links' = {l \in links : l[1] \notin gone}
      /\ Disturb /\ UNCHANGED <<suppressed, command>>
      /\ erasures < MaxErasures /\ erasures' = erasures + 1
  BY DEF DeleteMember
<1>2. /\ opponents' = Without(opponents, orphans)
      /\ erased' = erased \cup {opponents[row].who : row \in orphans}
  BY <1>1 DEF DeleteMember
<1>3. \A l \in links : l[1] \in present
  BY DEF TypesInv, TypeOK
<1>4. links' = {l \in links : l[1] \in present'}
  BY <1>1, <1>3
<1>5. /\ DOMAIN receipts' = DOMAIN receipts \cap present'
      /\ \A t \in DOMAIN receipts' : receipts'[t] = receipts[t]
  BY <1>1 DEF Without, TypesInv, TypeOK
<1>6. erasures' \in 0..MaxErasures
  BY <1>1, RegistryAssumption DEF TypesInv, TypeOK
<1> HIDE DEF gone
<1>7. /\ DOMAIN opponents' = DOMAIN opponents \ orphans
      /\ \A row \in DOMAIN opponents' : opponents'[row] = opponents[row]
  BY <1>2 DEF Without
<1>8. DOMAIN opponents' = {row \in DOMAIN opponents : \E l \in links' : l[2] = row}
  BY <1>7
<1> HIDE DEF orphans
<1>9. Shrunk
  BY <1>1, <1>2, <1>7 DEF Shrunk
<1> QED
  BY <1>1, <1>4, <1>5, <1>6, <1>8, <1>9

LEMMA DeleteKeepsInv ==
  ASSUME RegistryInv, NEW m, DeleteMember(m)
  PROVE  RegistryInv'
<1>1. /\ Shrunk /\ Disturb
      /\ present' \subseteq present
      /\ links' = {l \in links : l[1] \in present'}
      /\ DOMAIN opponents' = {row \in DOMAIN opponents : \E l \in links' : l[2] = row}
      /\ DOMAIN receipts' = DOMAIN receipts \cap present'
      /\ \A t \in DOMAIN receipts' : receipts'[t] = receipts[t]
      /\ UNCHANGED <<suppressed, command>> /\ erasures' \in 0..MaxErasures
  BY DeleteShrinks DEF RegistryInv
<1>2. links \subseteq present \X DOMAIN opponents
  BY DEF RegistryInv, TypesInv, TypeOK
<1>3. links' \subseteq present' \X DOMAIN opponents'
  BY <1>1, <1>2
<1>4. links' \subseteq links
  BY <1>1
<1>5. suppressed' \subseteq Identities /\ command'.who \subseteq Identities
      /\ command'.op \in {"none", "suppress", "purge"}
  BY <1>1 DEF RegistryInv, TypesInv, TypeOK
<1> QED
  BY <1>1, <1>3, <1>4, <1>5, ErasureKeepsInv
-----------------------------------------------------------------------------
(* The theorems.                                                             *)

LEMMA InitInv == ASSUME Init PROVE RegistryInv
<1>1. /\ present = Tournaments /\ opponents = << >> /\ links = {} /\ receipts = << >>
      /\ suppressed = {} /\ handlers = [h \in Handlers |-> Free("none")]
      /\ command = NoCommand /\ erasures = 0 /\ erased = {}
  BY DEF Init
<1>2. Free("none") \in Resting /\ ReadsHold(Free("none")) /\ Undisturbed(Free("none"))
  BY Rested
<1>3. Free("none").pc = "free"
  BY DEF Free
<1>4. DOMAIN opponents = {} /\ DOMAIN receipts = {} /\ command.op = "none" /\ command.who = {}
  BY <1>1 DEF NoCommand
<1>5. TypeOK
  BY <1>1, <1>3, <1>4, RegistryAssumption DEF TypeOK
<1>6. HandlersType /\ ReadsInv
  BY <1>1, <1>2 DEF HandlersType, ReadsInv
<1>7. Numbered
  BY <1>4 DEF Numbered
<1> QED
  BY <1>4, <1>5, <1>6, <1>7 DEF RegistryInv, TypesInv

LEMMA NextInv == ASSUME RegistryInv, [Next]_vars PROVE RegistryInv'
<1>1. CASE UNCHANGED vars
  <2>1. UNCHANGED <<present, opponents, links, receipts, suppressed, handlers, command, erasures, erased>>
    BY <1>1 DEF vars, tables
  <2> QED
    BY <2>1 DEF RegistryInv, TypesInv, TypeOK, HandlersType, Numbered, ReadsInv, ReadsHold,
                Undisturbed, FirstIsKnown, RowsOf
<1>2. ASSUME NEW h \in Handlers, HandlerStep(h) PROVE RegistryInv'
  BY <1>2, ReceiveKeepsInv, ReadReceiptKeepsInv, CheckKeepsInv, LookupKeepsInv, WriteKeepsInv,
     ConflictKeepsInv, AbortKeepsInv DEF HandlerStep
<1>3. ASSUME NEW row \in DOMAIN opponents, BeginSuppress(row) PROVE RegistryInv'
  <2>1. opponents[row].who \in Identities
    BY DEF RegistryInv, TypesInv, TypeOK
  <2>2. Begin("suppress", {row}, {opponents[row].who}, 0)
    BY <1>3 DEF BeginSuppress
  <2> QED
    BY <2>1, <2>2, BeginKeepsInv
<1>4. ASSUME NEW cutoff \in Cutoffs, BeginPurge(cutoff) PROVE RegistryInv'
  <2>1. Begin("purge", {row \in DOMAIN opponents : opponents[row].seen < cutoff}, {}, cutoff)
    BY <1>4 DEF BeginPurge
  <2> QED
    BY <2>1, BeginKeepsInv
<1> QED
  BY <1>1, <1>2, <1>3, <1>4, CommitKeepsInv, DeleteKeepsInv DEF Next, CommandStep

\* The register, its links and its receipts have their types, foreign keys included,
\* whatever requests and commands interleave.
THEOREM TypesHold == Spec => []TypeOK
<1>1. RegistryInv => TypeOK
  BY DEF RegistryInv, TypesInv
<1> QED
  BY <1>1, InitInv, NextInv, PTL DEF Spec

LEMMA AlwaysRegistryInv == Spec => []RegistryInv
BY InitInv, NextInv, PTL DEF Spec

\* What a step may do to the tables: nothing, a transaction of one request, or a command.
LEMMA Steps ==
  ASSUME RegistryInv, [Next]_vars
  PROVE  \/ UNCHANGED <<present, opponents, links, receipts, suppressed, erased>>
         \/ \E h \in Handlers : Write(h) /\ Committed(h, handlers[h])
         \/ CommitCommand
         \/ \E m : DeleteMember(m)
<1>1. CASE UNCHANGED vars
  BY <1>1 DEF vars, tables
<1>2. ASSUME NEW h \in Handlers, HandlerStep(h)
      PROVE  \/ UNCHANGED <<present, opponents, links, receipts, suppressed, erased>>
             \/ Write(h) /\ Committed(h, handlers[h])
  <2>1. CASE Write(h)
    BY <2>1, WriteOutcome DEF RegistryInv, TypesInv, tables
  <2>2. CASE ~Write(h)
    BY <1>2, <2>2 DEF HandlerStep, Receive, ReadReceipt, CheckSuppression, Lookup, Conflict, Abort, tables
  <2> QED
    BY <2>1, <2>2
<1>3. ASSUME NEW row \in DOMAIN opponents, BeginSuppress(row)
      PROVE  UNCHANGED <<present, opponents, links, receipts, suppressed, erased>>
  BY <1>3 DEF BeginSuppress, Begin, tables
<1>4. ASSUME NEW cutoff \in Cutoffs, BeginPurge(cutoff)
      PROVE  UNCHANGED <<present, opponents, links, receipts, suppressed, erased>>
  BY <1>4 DEF BeginPurge, Begin, tables
<1> QED
  BY <1>1, <1>2, <1>3, <1>4 DEF Next, CommandStep

\* A new profile is linked by the transaction that makes it, and goes with its last link:
\* none is left that no stored tournament has met.
THEOREM ProfilesHaveTournaments == Spec => []NoProfileWithoutTournament
<1>1. Init => NoProfileWithoutTournament
  BY DEF Init, NoProfileWithoutTournament
<1>2. ASSUME RegistryInv, NoProfileWithoutTournament, [Next]_vars PROVE NoProfileWithoutTournament'
  <2>1. CASE UNCHANGED <<present, opponents, links, receipts, suppressed, erased>>
    BY <1>2, <2>1 DEF NoProfileWithoutTournament
  <2>2. ASSUME NEW h \in Handlers, Write(h), Committed(h, handlers[h]) PROVE NoProfileWithoutTournament'
    <3>1. IsServing(handlers[h])
      BY <1>2, <2>2, WriteOutcome DEF RegistryInv, TypesInv
    <3>2. DOMAIN opponents' = DOMAIN opponents \cup LinkedRows(handlers[h])
      BY <1>2, <2>2, <3>1, CommittedTypes DEF RegistryInv
    <3>3. links' = links \cup ({handlers[h].t} \X LinkedRows(handlers[h]))
      BY <2>2 DEF Committed
    <3>4. \A row \in LinkedRows(handlers[h]) : <<handlers[h].t, row>> \in links'
      BY <3>3
    <3> QED
      BY <1>2, <3>2, <3>3, <3>4 DEF NoProfileWithoutTournament
  <2>3. CASE CommitCommand
    BY <1>2, <2>3, CommitShrinks DEF NoProfileWithoutTournament, RegistryInv
  <2>4. ASSUME NEW m, DeleteMember(m) PROVE NoProfileWithoutTournament'
    BY <1>2, <2>4, DeleteShrinks DEF NoProfileWithoutTournament, RegistryInv
  <2> QED
    BY <1>2, <2>1, <2>2, <2>3, <2>4, Steps
<1> QED
  BY <1>1, <1>2, AlwaysRegistryInv, PTL DEF Spec
\* A link that a step does not remove keeps naming its opponent.
LEMMA LinkStays ==
  ASSUME NEW t, NEW who, Linked(t, who),
         \A row \in DOMAIN opponents : <<t, row>> \in links /\ opponents[row].who = who =>
           row \in DOMAIN opponents' /\ opponents'[row].who = who /\ <<t, row>> \in links'
  PROVE  Linked(t, who)'
<1>1. PICK row \in DOMAIN opponents : opponents[row].who = who /\ <<t, row>> \in links
  BY DEF Linked, RowsOf
<1> QED
  BY <1>1 DEF Linked, RowsOf

LEMMA ErasureKeepsWhole ==
  ASSUME EnrichmentWhole, Shrunk, links \subseteq present \X DOMAIN opponents,
         DOMAIN receipts' \subseteq DOMAIN receipts, \A t \in DOMAIN receipts' : receipts'[t] = receipts[t],
         \A t \in DOMAIN receipts', row \in DOMAIN opponents' : <<t, row>> \in links => <<t, row>> \in links'
  PROVE  EnrichmentWhole'
<1> SUFFICES ASSUME NEW t \in DOMAIN receipts', NEW who \in Range(receipts'[t]),
                    who \notin suppressed', who \notin erased'
             PROVE  Linked(t, who)'
  BY DEF EnrichmentWhole
<1>1. Linked(t, who)
  BY DEF EnrichmentWhole, Shrunk
<1>2. \A row \in DOMAIN opponents : <<t, row>> \in links /\ opponents[row].who = who =>
           row \in DOMAIN opponents' /\ opponents'[row].who = who /\ <<t, row>> \in links'
  BY DEF Shrunk
<1> QED
  BY <1>1, <1>2, LinkStays

LEMMA WriteStoresAll ==
  ASSUME RegistryInv, NEW h \in Handlers, Write(h), Committed(h, handlers[h]),
         NEW r, r = handlers[h], NEW i \in 1..Len(r.list)
  PROVE  Linked(r.t, r.list[i])' \/ r.list[i] \in suppressed \cup erased
<1>1. r = handlers[h]
  OBVIOUS
<1>2. IsServing(r) /\ r.pc = "write" /\ ReadsHold(r) /\ Committed(h, r)
  BY <1>1, WriteOutcome DEF RegistryInv, TypesInv, ReadsInv
<1>3. SUFFICES ASSUME r.list[i] \notin suppressed, r.list[i] \notin erased
               PROVE  Linked(r.t, r.list[i])'
  OBVIOUS
<1>4. r.item \in Nat /\ Len(r.list) \in Nat
  BY <1>2, ListItems
<1>5. i >= r.item
  BY <1>1, <1>2, <1>3, <1>4 DEF ReadsHold
<1>6. i \in Pending(r)
  BY <1>1, <1>3, <1>4, <1>5 DEF Pending
<1>7. /\ opponents' = Stored(r) /\ links' = links \cup ({r.t} \X LinkedRows(r)) /\ ~Refused(r)
  BY <1>2 DEF Committed
<1>8. /\ RowOf(r, i) \in LinkedRows(r) /\ RowOf(r, i) \in DOMAIN opponents'
      /\ (i # r.item \/ r.row = NoRow) => opponents'[RowOf(r, i)].who = r.list[i]
      /\ (i = r.item /\ r.row # NoRow) => r.row \in DOMAIN opponents /\ RowOf(r, i) = r.row
      /\ \A row \in DOMAIN opponents : opponents'[row].who = opponents[row].who
  BY <1>2, <1>6, <1>7, StoredTable DEF RegistryInv, TypesInv
<1>9. opponents'[RowOf(r, i)].who = r.list[i]
  <2>1. CASE i # r.item \/ r.row = NoRow
    BY <1>8, <2>1
  <2>2. CASE i = r.item /\ r.row # NoRow
    <3>1. opponents[r.row].who = r.list[i]
      BY <1>1, <1>2, <1>3, <1>4, <2>2 DEF ReadsHold
    <3> QED
      BY <1>8, <2>2, <3>1
  <2> QED
    BY <2>1, <2>2
<1>10. <<r.t, RowOf(r, i)>> \in links'
  BY <1>7, <1>8
<1> QED
  BY <1>8, <1>9, <1>10 DEF Linked, RowsOf

\* An enrichment with a receipt names nobody it does not link, but those the host erased or
\* suppressed, however requests and commands interleave.
THEOREM EnrichmentsAreWhole == Spec => []EnrichmentWhole
<1>1. Init => EnrichmentWhole
  BY DEF Init, EnrichmentWhole
<1>2. ASSUME RegistryInv, EnrichmentWhole, [Next]_vars PROVE EnrichmentWhole'
  <2>1. CASE UNCHANGED <<present, opponents, links, receipts, suppressed, erased>>
    BY <1>2, <2>1 DEF EnrichmentWhole, Linked, RowsOf
  <2>2. ASSUME NEW h \in Handlers, Write(h), Committed(h, handlers[h]) PROVE EnrichmentWhole'
    <3>1. PICK r : r = handlers[h]
      OBVIOUS
    <3>2. IsServing(r) /\ Committed(h, r)
      BY <1>2, <2>2, <3>1, WriteOutcome DEF RegistryInv, TypesInv
    <3>3. Grown
      BY <1>2, <2>2, <3>2, CommittedTypes DEF RegistryInv
    <3>4. /\ links \subseteq links' /\ receipts' = With(receipts, r.t, r.list)
          /\ suppressed' = suppressed /\ erased' = erased /\ r.t \notin DOMAIN receipts
      BY <3>2 DEF Committed
    <3> SUFFICES ASSUME NEW t \in DOMAIN receipts', NEW who \in Range(receipts'[t]),
                        who \notin suppressed, who \notin erased
                 PROVE  Linked(t, who)'
      BY <3>4 DEF EnrichmentWhole
    <3>5. CASE t = r.t
      <4>1. receipts'[t] = r.list
        BY <3>4, <3>5 DEF With
      <4>2. PICK i \in DOMAIN r.list : r.list[i] = who
        BY <4>1 DEF Range
      <4>3. i \in 1..Len(r.list)
        BY <3>2, <4>2, ListItems
      <4>4. Linked(r.t, r.list[i])' \/ r.list[i] \in suppressed \cup erased
        BY <1>2, <2>2, <3>1, <4>3, WriteStoresAll
      <4> QED
        BY <3>5, <4>2, <4>4
    <3>6. CASE t # r.t
      <4>1. t \in DOMAIN receipts /\ receipts'[t] = receipts[t]
        BY <3>4, <3>6 DEF With
      <4>2. Linked(t, who)
        BY <1>2, <4>1 DEF EnrichmentWhole
      <4> QED
        BY <3>3, <3>4, <4>2, LinkStays DEF Grown
    <3> QED
      BY <3>5, <3>6
  <2>3. links \subseteq present \X DOMAIN opponents
    BY <1>2 DEF RegistryInv, TypesInv, TypeOK
  <2>4. CASE CommitCommand
    <3>1. /\ Shrunk /\ UNCHANGED receipts /\ links' = {l \in links : l[2] \notin command.rows}
          /\ DOMAIN opponents' = DOMAIN opponents \ command.rows
      BY <1>2, <2>4, CommitShrinks DEF RegistryInv
    <3> QED
      BY <1>2, <2>3, <3>1, ErasureKeepsWhole
  <2>5. ASSUME NEW m, DeleteMember(m) PROVE EnrichmentWhole'
    <3>1. /\ Shrunk /\ links' = {l \in links : l[1] \in present'}
          /\ DOMAIN receipts' = DOMAIN receipts \cap present'
          /\ \A t \in DOMAIN receipts' : receipts'[t] = receipts[t]
      BY <1>2, <2>5, DeleteShrinks DEF RegistryInv
    <3> QED
      BY <1>2, <2>3, <3>1, ErasureKeepsWhole
  <2> QED
    BY <1>2, <2>1, <2>2, <2>4, <2>5, Steps
<1> QED
  BY <1>1, <1>2, AlwaysRegistryInv, PTL DEF Spec

\* Only a request that a command has disturbed may bring a suppressed identity back.
THEOREM SuppressionIsRespected == Spec => SuppressionHolds
<1> DEFINE Respected == \A row \in DOMAIN opponents' :
       LET who == opponents'[row].who
       IN  who \in suppressed /\ RowsOf(opponents, who) = {} =>
             \E h \in Handlers : handlers[h].pc = "write" /\ handlers[h].disturbed
<1>1. ASSUME RegistryInv, [Next]_vars PROVE Respected
  <2> SUFFICES ASSUME NEW row \in DOMAIN opponents', opponents'[row].who \in suppressed,
                      RowsOf(opponents, opponents'[row].who) = {}
               PROVE  \E h \in Handlers : handlers[h].pc = "write" /\ handlers[h].disturbed
    OBVIOUS
  <2>1. row \notin DOMAIN opponents \/ opponents'[row].who # opponents[row].who
    BY DEF RowsOf
  <2>2. CASE UNCHANGED <<present, opponents, links, receipts, suppressed, erased>>
    BY <2>1, <2>2
  <2>3. ASSUME NEW h \in Handlers, Write(h), Committed(h, handlers[h])
        PROVE  handlers[h].pc = "write" /\ handlers[h].disturbed
    <3>1. PICK r : r = handlers[h]
      OBVIOUS
    <3>2. IsServing(r) /\ r.pc = "write" /\ Undisturbed(r) /\ ~Refused(r) /\ opponents' = Stored(r)
      BY <1>1, <2>3, <3>1, WriteOutcome DEF Committed, RegistryInv, TypesInv, ReadsInv
    <3>3. row \notin DOMAIN opponents
      BY <1>1, <2>1, <3>2, StoredTable DEF RegistryInv, TypesInv
    <3>4. PICK i \in New(r) : opponents'[row].who = r.list[i]
      <4>1. TypeOK /\ Numbered
        BY <1>1 DEF RegistryInv, TypesInv
      <4>2. row \in DOMAIN Stored(r) \ DOMAIN opponents
        BY <3>2, <3>3
      <4>3. \E i \in New(r) : Stored(r)[row].who = r.list[i]
        BY <3>2, <4>1, <4>2, StoredTable
      <4> QED
        BY <3>2, <4>3
    <3>5. i \in Pending(r) /\ i \in 1..Len(r.list) /\ Len(r.list) \in Nat
      BY <3>2, ListItems
    <3>6. i = r.item
      BY <3>4, <3>5 DEF Pending
    <3>7. r.disturbed
      BY <3>2, <3>4, <3>5, <3>6 DEF Undisturbed
    <3> QED
      BY <3>1, <3>2, <3>7
  <2>4. CASE CommitCommand
    BY <1>1, <2>1, <2>4, CommitShrinks DEF RegistryInv, Shrunk
  <2>5. ASSUME NEW m, DeleteMember(m) PROVE FALSE
    BY <1>1, <2>1, <2>5, DeleteShrinks DEF RegistryInv, Shrunk
  <2> QED
    BY <1>1, <2>2, <2>3, <2>4, <2>5, Steps
<1>2. RegistryInv /\ [Next]_vars => [Respected]_vars
  BY <1>1
<1> QED
  BY <1>2, AlwaysRegistryInv, PTL DEF Spec, SuppressionHolds

\* A retry is refused only if a command disturbed the request or the tournament has been
\* enriched: a second conflict about an identity cannot happen.
THEOREM OneRetrySuffices == Spec => RetryOnceSuffices
<1> DEFINE Suffices == \A h \in Handlers :
       (handlers[h].pc = "conflict" /\ handlers'[h].answer = "conflict") =>
         handlers[h].disturbed \/ handlers[h].t \in DOMAIN receipts
<1>1. ASSUME RegistryInv, [Next]_vars PROVE Suffices
  <2> SUFFICES ASSUME NEW h \in Handlers, handlers[h].pc = "conflict", handlers'[h].answer = "conflict",
                      ~handlers[h].disturbed
               PROVE  handlers[h].t \in DOMAIN receipts
    OBVIOUS
  <2>1. IsServing(handlers[h]) /\ h \in DOMAIN handlers /\ Undisturbed(handlers[h])
    BY <1>1, BusyIsServing DEF RegistryInv, TypesInv, ReadsInv
  <2>2. SUFFICES ASSUME handlers[h].retry, handlers[h].t \notin DOMAIN receipts PROVE FALSE
    BY <2>1 DEF Undisturbed
  <2>3. handlers[h].answer = "none"
    BY <2>1 DEF IsServing
  <2>4. handlers'[h] = handlers[h] \/ HandlerStep(h) \/ Disturb
    <3>1. ASSUME NEW g \in Handlers, HandlerStep(g), g # h PROVE handlers'[h] = handlers[h]
      <4>1. \E x : handlers' = [handlers EXCEPT ![g] = x]
        BY <3>1, Zenon DEF HandlerStep, Receive, ReadReceipt, CheckSuppression, Lookup, Write,
           Conflict, Abort, Goto, Finish
      <4> QED
        BY <2>1, <3>1, <4>1
    <3>2. CommandStep => handlers' = handlers \/ Disturb
      BY DEF CommandStep, BeginSuppress, BeginPurge, Begin, CommitCommand, DeleteMember
    <3> QED
      BY <1>1, <3>1, <3>2 DEF Next, vars
  <2>5. ~Disturb
    <3>1. SUFFICES ASSUME Disturb PROVE FALSE
      OBVIOUS
    <3>2. handlers'[h] = [handlers[h] EXCEPT !.disturbed = TRUE]
      BY <3>1 DEF Disturb
    <3>3. handlers'[h].answer = handlers[h].answer
      BY <2>1, <3>2 DEF IsServing
    <3> QED
      BY <2>3, <3>3
  <2>6. HandlerStep(h) => Conflict(h) \/ Abort(h)
    BY DEF HandlerStep, Receive, ReadReceipt, CheckSuppression, Lookup, Write
  <2>7. ~Abort(h)
    BY <2>1 DEF Abort, Finish, Free
  <2>8. ~Conflict(h)
    <3>1. SUFFICES ASSUME Conflict(h) PROVE FALSE
      OBVIOUS
    <3>2. handlers'[h] = [handlers[h] EXCEPT !.pc = "read", !.item = 1, !.retry = FALSE]
      BY <2>1, <2>2, <3>1 DEF Conflict
    <3>3. handlers'[h].answer = handlers[h].answer
      BY <2>1, <3>2 DEF IsServing
    <3> QED
      BY <2>3, <3>3
  <2> QED
    BY <2>3, <2>4, <2>5, <2>6, <2>7, <2>8
<1>2. RegistryInv /\ [Next]_vars => [Suffices]_vars
  BY <1>1
<1> QED
  BY <1>2, AlwaysRegistryInv, PTL DEF Spec, RetryOnceSuffices
=============================================================================
