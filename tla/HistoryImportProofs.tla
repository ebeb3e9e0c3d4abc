------------------------- MODULE HistoryImportProofs --------------------------
(***************************************************************************)
(* Proofs about HistoryImport, for any scanners, any files, damaged or not, *)
(* and any bounds: the tables keep their types and constraints, a           *)
(* tournament in the database has all its hands, and the importer           *)
(* implements Archive.                                                      *)
(***************************************************************************)
EXTENDS HistoryImport, WellFoundedInduction, TLAPS

Hands == {"none", "some", "half", "all"}
Parts == [hands : Hands, summary : BOOLEAN, old : BOOLEAN]

-----------------------------------------------------------------------------
(* The inductive invariant.                                                 *)

\* Once both delays have passed since the summary was written, the last hand is there.
DiskInv ==
  /\ disk \in [PairSet -> Parts]
  /\ \A p \in PairSet : disk[p].old /\ disk[p].summary => disk[p].hands = "all"

\* scan[q] is a record of the fields of Rest; only what is of use here is typed.
IsScan(r) ==
  r \in [pc : {r.pc}, todo : {r.todo}, old : SUBSET PairSet, row : {r.row}, loaded : {r.loaded},
         both : {r.both}, mark : {r.mark}, tour : {r.tour}, hands : {r.hands}]
ScanTypes ==
  /\ scan \in [Scanners -> {scan[q] : q \in Scanners}]
  /\ \A q \in Scanners : IsScan(scan[q])

Importing(q) == scan[q].pc = "lookup" \/ (scan[q].pc = "commit" /\ scan[q].mark = "import")

\* A pair that is old enough for a scan has not been written since the scan's reference time,
\* and a scan about to import a pair has read all its hands.
ScanInv(q) ==
  /\ \A p \in scan[q].old : disk[p].summary => disk[p].hands = "all"
  /\ scan[q].pc = "parse" => scan[q].mark = "waiting"
  /\ Importing(q) =>
       scan[q].hands = "all" /\ Pair(q) \in PairSet /\ disk[Pair(q)].hands = "all"

\* The rows are numbered without a gap, so that the next number is new.
Numbered(table) == \E n \in Nat : DOMAIN table = 1..n

TourInv ==
  /\ Numbered(tours)
  /\ \A row \in DOMAIN tours : tours[row].hands = "all"

ImportInv == DiskInv /\ ScanTypes /\ (\A q \in Scanners : ScanInv(q)) /\ TourInv

-----------------------------------------------------------------------------
(* Rows.                                                                    *)

LEMMA NextNumber ==
  ASSUME NEW table, Numbered(table)
  PROVE  /\ NewRow(table) \notin DOMAIN table
         /\ \A v : Numbered(With(table, NewRow(table), v))
<1>1. PICK n \in Nat : DOMAIN table = 1..n
  BY DEF Numbered
<1>2. NewRow(table) = n + 1
  <2>1. CASE n = 0
    BY <1>1, <2>1 DEF NewRow
  <2>2. CASE n # 0
    <3>1. Max(1..n) = n
      <4>1. n \in 1..n /\ \A y \in 1..n : n >= y
        BY <2>2
      <4>2. \A x \in 1..n : (\A y \in 1..n : x >= y) => x = n
        BY <4>1
      <4>q. QED BY <4>1, <4>2 DEF Max
    <3>2. 1..n # {}
      BY <2>2
    <3>q. QED BY <1>1, <3>1, <3>2 DEF NewRow
  <2>q. QED BY <2>1, <2>2
<1>3. \A v : DOMAIN With(table, n + 1, v) = 1..(n + 1)
  BY <1>1 DEF With
<1>q. QED BY <1>1, <1>2, <1>3 DEF Numbered

\* A tournament stored in a new row leaves the others as they are.
LEMMA OneMoreTour ==
  ASSUME TourInv, NEW v
  PROVE  LET more == With(tours, NewRow(tours), v)
         IN /\ Numbered(more)
            /\ {more[row] : row \in DOMAIN more} = {tours[row] : row \in DOMAIN tours} \cup {v}
<1>1. NewRow(tours) \notin DOMAIN tours /\ Numbered(With(tours, NewRow(tours), v))
  BY NextNumber DEF TourInv
<1>q. QED BY <1>1 DEF With

-----------------------------------------------------------------------------
(* Winamax and time.                                                        *)

\* A pair that is written is too young for every scan under way.
LEMMA WrittenKept ==
  ASSUME DiskInv, ScanTypes, \A q \in Scanners : ScanInv(q), NEW p \in PairSet, Written(p),
         \A o \in PairSet \ {p} : disk'[o] = disk[o],
         disk[p].hands = "all" => disk'[p].hands = "all"
  PROVE  ScanTypes' /\ \A q \in Scanners : ScanInv(q)'
<1>1. \A q \in Scanners :
        /\ scan'[q] = [scan[q] EXCEPT !.old = scan[q].old \ {p}]
        /\ scan[q].old \subseteq PairSet
  BY DEF Written, ScanTypes, IsScan
<1>2. \A q \in Scanners :
        /\ scan'[q].old = scan[q].old \ {p}
        /\ scan'[q].pc = scan[q].pc /\ scan'[q].mark = scan[q].mark
        /\ scan'[q].todo = scan[q].todo /\ scan'[q].hands = scan[q].hands
  BY <1>1 DEF ScanTypes, IsScan
<1>3. ScanTypes'
  BY <1>1 DEF Written, ScanTypes, IsScan
<1>4. ASSUME NEW q \in Scanners PROVE ScanInv(q)'
  <2>1. \A o \in scan'[q].old : disk'[o] = disk[o] /\ o \in scan[q].old
    BY <1>1, <1>2
  <2>2. Pair(q)' = Pair(q) /\ Importing(q)' = Importing(q)
    BY <1>2 DEF Importing, Pair, Place
  <2>3. ASSUME Importing(q)'
        PROVE  scan'[q].hands = "all" /\ Pair(q)' \in PairSet /\ disk'[Pair(q)'].hands = "all"
    <3>1. scan[q].hands = "all" /\ Pair(q) \in PairSet /\ disk[Pair(q)].hands = "all"
      BY <2>2, <2>3 DEF ScanInv
    <3>2. disk'[Pair(q)].hands = "all"
      BY <3>1
    <3>q. QED BY <1>2, <2>2, <3>1, <3>2
  <2>q. QED BY <1>2, <2>1, <2>3 DEF ScanInv
<1>q. QED BY <1>3, <1>4

LEMMA WriteHandKept ==
  ASSUME ImportInv, NEW p \in PairSet, WriteHand(p)
  PROVE  ImportInv'
<1>1. /\ disk[p] \in Parts /\ disk[p].hands # "all"
      /\ disk'[p] = [disk[p] EXCEPT !.hands = Progress[disk[p].hands], !.old = FALSE]
      /\ \A o \in PairSet \ {p} : disk'[o] = disk[o]
      /\ DOMAIN disk' = PairSet
  BY DEF WriteHand, ImportInv, DiskInv
<1>2. Progress[disk[p].hands] \in Hands
  BY <1>1 DEF Progress, Parts, Hands
<1>3. DiskInv'
  BY <1>1, <1>2 DEF WriteHand, ImportInv, DiskInv, Parts
<1>4. ScanTypes' /\ \A q \in Scanners : ScanInv(q)'
  BY <1>1, WrittenKept DEF WriteHand, ImportInv
<1>5. TourInv'
  BY DEF WriteHand, Environment, ImportInv, TourInv
<1>q. QED BY <1>3, <1>4, <1>5 DEF ImportInv

LEMMA WriteSummaryKept ==
  ASSUME ImportInv, NEW p \in PairSet, WriteSummary(p)
  PROVE  ImportInv'
<1>1. /\ disk[p] \in Parts
      /\ disk'[p] = [disk[p] EXCEPT !.summary = TRUE, !.old = FALSE]
      /\ \A o \in PairSet \ {p} : disk'[o] = disk[o]
      /\ DOMAIN disk' = PairSet
  BY DEF WriteSummary, ImportInv, DiskInv
<1>2. DiskInv'
  BY <1>1 DEF WriteSummary, ImportInv, DiskInv, Parts
<1>3. ScanTypes' /\ \A q \in Scanners : ScanInv(q)'
  BY <1>1, WrittenKept DEF WriteSummary, ImportInv, Parts
<1>4. TourInv'
  BY DEF WriteSummary, Environment, ImportInv, TourInv
<1>q. QED BY <1>2, <1>3, <1>4 DEF ImportInv

LEMMA GrowOldKept ==
  ASSUME ImportInv, NEW p \in PairSet, GrowOld(p)
  PROVE  ImportInv'
<1>1. /\ disk[p] \in Parts /\ (disk[p].summary => disk[p].hands = "all")
      /\ disk'[p] = [disk[p] EXCEPT !.old = TRUE]
      /\ \A o \in PairSet \ {p} : disk'[o] = disk[o]
      /\ DOMAIN disk' = PairSet
  BY DEF GrowOld, ImportInv, DiskInv
<1>2. DiskInv'
  BY <1>1 DEF GrowOld, ImportInv, DiskInv, Parts
<1>3. scan' = scan /\ tours' = tours
  BY DEF GrowOld, Environment
<1>4. \A o \in PairSet : disk'[o].hands = disk[o].hands /\ disk'[o].summary = disk[o].summary
  BY <1>1 DEF Parts
<1>5. ScanTypes' /\ TourInv'
  BY <1>3 DEF ImportInv, ScanTypes, TourInv
<1>6. ASSUME NEW q \in Scanners PROVE ScanInv(q)'
  BY <1>3, <1>4, <1>6 DEF ImportInv, ScanInv, ScanTypes, IsScan, Importing, Pair, Place
<1>q. QED BY <1>2, <1>5, <1>6 DEF ImportInv

-----------------------------------------------------------------------------
(* The scans.                                                               *)

\* A step of one scanner that leaves the disk alone.
LEMMA ScannerKept ==
  ASSUME ImportInv, NEW s \in Scanners, NEW r, IsScan(r), scan' = [scan EXCEPT ![s] = r],
         disk' = disk, ScanInv(s)'
  PROVE  DiskInv' /\ ScanTypes' /\ \A q \in Scanners : ScanInv(q)'
<1>1. \A q \in Scanners \ {s} : scan'[q] = scan[q]
  BY DEF ImportInv, ScanTypes
<1>2. scan'[s] = r
  BY DEF ImportInv, ScanTypes
<1>3. ScanTypes'
  BY <1>1, <1>2 DEF ImportInv, ScanTypes, IsScan
<1>4. DiskInv'
  BY DEF ImportInv, DiskInv
<1>5. ASSUME NEW q \in Scanners \ {s} PROVE ScanInv(q)'
  BY <1>1, <1>5 DEF ImportInv, ScanInv, Importing, Pair, Place
<1>q. QED BY <1>3, <1>4, <1>5

\* The pair is about to be marked as failed.
FailsToRead(s) == RefuseSummary(s) \/ Unreadable(s)

\* No transaction takes place, so the tournaments stay.
LEMMA ReadingKept ==
  ASSUME ImportInv, NEW s \in Scanners,
         \/ StartScan(s) \/ EndScan(s) \/ NextPair(s) \/ Stat(s) \/ Parse(s) \/ Lookup(s)
         \/ QueryAgain(s) \/ CutShort(s) \/ FailsToRead(s)
  PROVE  ImportInv' /\ tours' = tours /\ disk' = disk
<1> DEFINE now == scan[s]
<1>1. disk' = disk /\ tours' = tours
  BY DEF StartScan, EndScan, NextPair, Stat, Parse, Lookup, QueryAgain, CutShort, FailsToRead, RefuseSummary,
         Unreadable, Reading
<1>2. IsScan(now) /\ ScanInv(s) /\ DiskInv
  BY DEF ImportInv, ScanTypes
<1>3. TourInv'
  BY <1>1 DEF ImportInv, TourInv
<1>4. ASSUME NEW r, IsScan(r), scan' = [scan EXCEPT ![s] = r], ScanInv(s)' PROVE ImportInv'
  BY <1>1, <1>3, <1>4, ScannerKept DEF ImportInv
<1>5. ASSUME NEW r, scan' = [scan EXCEPT ![s] = r] PROVE scan'[s] = r
  BY <1>5 DEF ImportInv, ScanTypes
<1>6. CASE StartScan(s)
  <2> DEFINE r == [Rest EXCEPT !.pc = "next", !.todo = {i \in DOMAIN Pairs : OnDisk(Pairs[i])},
                               !.old = {p \in PairSet : disk[p].old}]
  <2>1. IsScan(r) /\ r.pc = "next" /\ r.old = {p \in PairSet : disk[p].old}
    BY DEF IsScan, Rest
  <2>2. scan' = [scan EXCEPT ![s] = r]
    BY <1>6 DEF StartScan
  <2>3. ScanInv(s)'
    BY <1>1, <1>2, <1>5, <2>1, <2>2 DEF ScanInv, Importing, DiskInv
  <2>q. QED BY <1>1, <1>4, <2>1, <2>2, <2>3
<1>7. CASE EndScan(s) \/ CutShort(s)
  <2>1. IsScan(Rest) /\ Rest.pc = "idle" /\ Rest.old = {}
    BY DEF IsScan, Rest
  <2>2. scan' = [scan EXCEPT ![s] = Rest]
    BY <1>7 DEF EndScan, CutShort, Raise
  <2>3. ScanInv(s)'
    BY <1>5, <2>1, <2>2 DEF ScanInv, Importing
  <2>q. QED BY <1>1, <1>4, <2>1, <2>2, <2>3
<1>8. CASE NextPair(s)
  <2> DEFINE r == [Queried(s) EXCEPT !.pc = IF disk[Pair(s)].summary THEN "stat" ELSE "commit",
                                     !.both = disk[Pair(s)].summary, !.mark = "waiting"]
  <2>1. IsScan(r) /\ r.pc \in {"stat", "commit"} /\ r.mark = "waiting" /\ r.old = now.old
    BY <1>2 DEF IsScan, Queried
  <2>2. scan' = [scan EXCEPT ![s] = r]
    BY <1>8 DEF NextPair
  <2>3. scan'[s].pc \in {"stat", "commit"} /\ scan'[s].mark = "waiting" /\ scan'[s].old = now.old
    BY <1>5, <2>1, <2>2
  <2>4. ScanInv(s)'
    BY <1>1, <1>2, <2>3 DEF ScanInv, Importing
  <2>q. QED BY <1>1, <1>4, <2>1, <2>2, <2>4
<1>9. CASE Stat(s)
  <2> DEFINE r == [now EXCEPT !.pc = IF OldEnough(s) THEN "parse" ELSE "commit", !.mark = "waiting"]
  <2>1. IsScan(r) /\ r.pc \in {"parse", "commit"} /\ r.mark = "waiting" /\ r.old = now.old
    BY <1>2 DEF IsScan
  <2>2. scan' = [scan EXCEPT ![s] = r]
    BY <1>9 DEF Stat, Go, ImportInv, ScanTypes
  <2>3. scan'[s].pc \in {"parse", "commit"} /\ scan'[s].mark = "waiting" /\ scan'[s].old = now.old
    BY <1>5, <2>1, <2>2
  <2>4. ScanInv(s)'
    BY <1>1, <1>2, <2>3 DEF ScanInv, Importing
  <2>q. QED BY <1>1, <1>4, <2>1, <2>2, <2>4
<1>13. CASE FailsToRead(s)
  <2> DEFINE r == [now EXCEPT !.pc = "commit", !.mark = "failed"]
  <2>1. IsScan(r) /\ r.pc = "commit" /\ r.mark = "failed" /\ r.old = now.old
    BY <1>2 DEF IsScan
  <2>2. scan' = [scan EXCEPT ![s] = r]
    BY <1>13 DEF FailsToRead, RefuseSummary, Unreadable, Go, ImportInv, ScanTypes
  <2>3. scan'[s].pc = "commit" /\ scan'[s].mark = "failed" /\ scan'[s].old = now.old
    BY <1>5, <2>1, <2>2
  <2>4. ScanInv(s)'
    BY <1>1, <1>2, <2>3 DEF ScanInv, Importing
  <2>q. QED BY <1>1, <1>4, <2>1, <2>2, <2>4
<1>10. CASE Parse(s)
  <2> DEFINE read == disk[Pair(s)]
             complete == read.summary /\ read.hands # "half" /\ OldEnough(s)
             r == [now EXCEPT !.hands = read.hands, !.pc = IF complete THEN "lookup" ELSE "commit"]
  <2>1. /\ IsScan(r) /\ r.pc = (IF complete THEN "lookup" ELSE "commit") /\ r.mark = now.mark
        /\ r.old = now.old /\ r.todo = now.todo /\ r.hands = read.hands
    BY <1>2 DEF IsScan
  <2>2. scan' = [scan EXCEPT ![s] = r]
    BY <1>10 DEF Parse, ImportInv, ScanTypes
  <2>3. now.mark = "waiting"
    BY <1>2, <1>10 DEF Parse, ScanInv
  <2>4. complete => Pair(s) \in PairSet /\ read.hands = "all"
    BY <1>2 DEF OldEnough, ScanInv, IsScan
  <2>5. ScanInv(s)'
    BY <1>1, <1>2, <1>5, <2>1, <2>2, <2>3, <2>4 DEF ScanInv, Importing, Pair, Place
  <2>q. QED BY <1>1, <1>4, <2>1, <2>2, <2>5
<1>11. CASE Lookup(s)
  <2>1. PICK m, t : scan' = [scan EXCEPT ![s] = [now EXCEPT !.pc = "commit", !.mark = m, !.tour = t]]
    <3>1. CASE Go(s, "commit", "import")
      <4>1. [now EXCEPT !.pc = "commit", !.mark = "import"]
              = [now EXCEPT !.pc = "commit", !.mark = "import", !.tour = now.tour]
        BY <1>2 DEF IsScan
      <4>2. scan' = [scan EXCEPT ![s] = [now EXCEPT !.pc = "commit", !.mark = "import"]]
        BY <3>1 DEF Go, ImportInv, ScanTypes
      <4>q. QED BY <4>1, <4>2
    <3>2. CASE \E row \in Stored(TourOf[Pair(s)]) :
                 scan' = [scan EXCEPT ![s].pc = "commit", ![s].mark = "imported", ![s].tour = row]
      <4>1. PICK row : scan' = [scan EXCEPT ![s].pc = "commit", ![s].mark = "imported", ![s].tour = row]
        BY <3>2
      <4>2. scan' = [scan EXCEPT ![s] = [now EXCEPT !.pc = "commit", !.mark = "imported", !.tour = row]]
        BY <1>2, <4>1 DEF ImportInv, ScanTypes, IsScan
      <4>q. QED BY <4>2
    <3>q. QED BY <1>11, <3>1, <3>2 DEF Lookup
  <2> DEFINE r == [now EXCEPT !.pc = "commit", !.mark = m, !.tour = t]
  <2>2. /\ IsScan(r) /\ r.pc = "commit" /\ r.old = now.old /\ r.todo = now.todo
        /\ r.hands = now.hands
    BY <1>2 DEF IsScan
  <2>3. now.hands = "all" /\ Pair(s) \in PairSet /\ disk[Pair(s)].hands = "all"
    BY <1>2, <1>11 DEF Lookup, ScanInv, Importing
  <2>4. ScanInv(s)'
    BY <1>1, <1>2, <1>5, <2>1, <2>2, <2>3 DEF ScanInv, Importing, Pair, Place
  <2>q. QED BY <1>1, <1>4, <2>1, <2>2, <2>4
<1>12. CASE QueryAgain(s)
  <2> DEFINE r == [Queried(s) EXCEPT !.pc = "commit", !.mark = "failed"]
  <2>1. IsScan(r) /\ r.pc = "commit" /\ r.mark = "failed" /\ r.old = now.old
    BY <1>2 DEF IsScan, Queried
  <2>2. scan' = [scan EXCEPT ![s] = r]
    BY <1>12 DEF QueryAgain
  <2>3. ScanInv(s)'
    BY <1>1, <1>2, <1>5, <2>1, <2>2 DEF ScanInv, Importing
  <2>q. QED BY <1>1, <1>4, <2>1, <2>2, <2>3
<1>q. QED BY <1>6, <1>7, <1>8, <1>9, <1>10, <1>11, <1>12, <1>13

-----------------------------------------------------------------------------
(* The transactions.                                                        *)

\* What a transaction leaves of the scan: the next pair, the end, or the rows read again.
LEMMA AfterCommit ==
  ASSUME ImportInv, NEW s \in Scanners, disk' = disk,
         Done(s) \/ Raise(s) \/ Go(s, "again", "failed")
  PROVE  DiskInv' /\ ScanTypes' /\ \A q \in Scanners : ScanInv(q)'
<1> DEFINE now == scan[s]
<1>1. IsScan(now) /\ ScanInv(s)
  BY DEF ImportInv, ScanTypes
<1>2. PICK r : /\ scan' = [scan EXCEPT ![s] = r] /\ IsScan(r)
               /\ r.pc \in {"next", "idle", "again"} /\ r.old \subseteq now.old
  <2>1. CASE Done(s)
    <3> DEFINE r == [Rest EXCEPT !.pc = "next", !.todo = now.todo \ {Place(s)},
                                 !.old = now.old \ {Pair(s)}]
    <3>1. IsScan(r) /\ r.pc = "next" /\ r.old \subseteq now.old
      BY <1>1 DEF IsScan, Rest
    <3>q. QED BY <2>1, <3>1 DEF Done
  <2>2. CASE Raise(s)
    <3>1. IsScan(Rest) /\ Rest.pc = "idle" /\ Rest.old \subseteq now.old
      BY DEF IsScan, Rest
    <3>q. QED BY <2>2, <3>1 DEF Raise
  <2>3. CASE Go(s, "again", "failed")
    <3> DEFINE r == [now EXCEPT !.pc = "again", !.mark = "failed"]
    <3>1. IsScan(r) /\ r.pc = "again" /\ r.old \subseteq now.old
      BY <1>1 DEF IsScan
    <3>2. scan' = [scan EXCEPT ![s] = r]
      BY <2>3 DEF Go, ImportInv, ScanTypes
    <3>q. QED BY <3>1, <3>2
  <2>q. QED BY <2>1, <2>2, <2>3
<1>3. scan'[s] = r
  BY <1>2 DEF ImportInv, ScanTypes
<1>4. ScanInv(s)'
  BY <1>1, <1>2, <1>3 DEF ScanInv, Importing
<1>q. QED BY <1>2, <1>4, ScannerKept

LEMMA CommitMarkKept ==
  ASSUME ImportInv, NEW s \in Scanners, CommitMark(s)
  PROVE  ImportInv' /\ tours' = tours /\ disk' = disk
<1>1. disk' = disk /\ tours' = tours /\ (Done(s) \/ Raise(s))
  BY DEF CommitMark
<1>2. TourInv'
  BY <1>1 DEF ImportInv, TourInv
<1>q. QED BY <1>1, <1>2, AfterCommit DEF ImportInv

\* A new tournament has all its hands, is over, and was not stored yet.
LEMMA CommitImportKept ==
  ASSUME ImportInv, NEW s \in Scanners, CommitImport(s)
  PROVE  /\ ImportInv' /\ disk' = disk
         /\ \/ tours' = tours
            \/ \E p \in PairSet :
                 /\ disk[p].hands = "all" /\ Stored(TourOf[p]) = {}
                 /\ {tours'[row] : row \in DOMAIN tours'}
                      = {tours[row] : row \in DOMAIN tours} \cup {[ext |-> TourOf[p], hands |-> "all"]}
<1> DEFINE t == TourOf[Pair(s)]
           new == [ext |-> t, hands |-> scan[s].hands]
<1>1. disk' = disk /\ (Done(s) \/ Raise(s) \/ Go(s, "again", "failed"))
  BY DEF CommitImport
<1>2. tours' = tours \/ (Stored(t) = {} /\ tours' = With(tours, NewRow(tours), new))
  BY DEF CommitImport
<1>3. scan[s].hands = "all" /\ Pair(s) \in PairSet /\ disk[Pair(s)].hands = "all"
  BY DEF CommitImport, ImportInv, ScanInv, Importing
<1>4. DiskInv' /\ ScanTypes' /\ \A q \in Scanners : ScanInv(q)'
  BY <1>1, AfterCommit
<1>5. CASE tours' = tours
  BY <1>1, <1>4, <1>5 DEF ImportInv, TourInv
<1>6. CASE Stored(t) = {} /\ tours' = With(tours, NewRow(tours), new)
  <2>1. /\ Numbered(tours')
        /\ {tours'[row] : row \in DOMAIN tours'} = {tours[row] : row \in DOMAIN tours} \cup {new}
    BY <1>6, OneMoreTour DEF ImportInv
  <2>2. TourInv'
    <3>1. new.hands = "all" /\ \A row \in DOMAIN tours : tours[row].hands = "all"
      BY <1>3 DEF ImportInv, TourInv
    <3>q. QED BY <2>1, <3>1 DEF TourInv
  <2>q. QED BY <1>1, <1>3, <1>4, <1>6, <2>1, <2>2 DEF ImportInv
<1>q. QED BY <1>2, <1>5, <1>6

LEMMA DeleteKept ==
  ASSUME ImportInv, DeleteAnalyzedData
  PROVE  ImportInv' /\ disk' = disk /\ DOMAIN tours' = {}
<1>1. disk' = disk /\ scan' = scan /\ tours' = << >>
  BY DEF DeleteAnalyzedData
<1>2. DOMAIN tours' = 1..0
  BY <1>1
<1>3. TourInv' /\ DOMAIN tours' = {}
  BY <1>2 DEF TourInv, Numbered
<1>q. QED BY <1>1, <1>3 DEF ImportInv, DiskInv, ScanTypes, ScanInv, Importing, Pair, Place

-----------------------------------------------------------------------------
(* The theorems.                                                            *)

LEMMA InitialImport == Init => ImportInv
<1> SUFFICES ASSUME Init PROVE ImportInv
  OBVIOUS
<1>1. DiskInv
  BY DEF Init, DiskInv, Parts, Hands
<1>2. ScanTypes
  BY DEF Init, ScanTypes, IsScan, Rest
<1>3. \A q \in Scanners : ScanInv(q)
  BY DEF Init, ScanInv, Importing, Rest
<1>4. DOMAIN tours = 1..0 /\ DOMAIN tours = {}
  BY DEF Init
<1>5. TourInv
  BY <1>4 DEF TourInv, Numbered
<1>q. QED BY <1>1, <1>2, <1>3, <1>5 DEF ImportInv

LEMMA StepKept == ImportInv /\ [Next]_vars => ImportInv'
<1> SUFFICES ASSUME ImportInv, [Next]_vars PROVE ImportInv'
  OBVIOUS
<1>1. ASSUME NEW s \in Scanners, Scan(s) \/ CutShort(s) \/ Unreadable(s) PROVE ImportInv'
  BY <1>1, ReadingKept, CommitMarkKept, CommitImportKept DEF Scan, FailsToRead
<1>2. ASSUME NEW p \in PairSet, Winamax(p) \/ GrowOld(p) PROVE ImportInv'
  BY <1>2, WriteHandKept, WriteSummaryKept, GrowOldKept DEF Winamax
<1>3. CASE DeleteAnalyzedData
  BY <1>3, DeleteKept
<1>4. CASE UNCHANGED vars
  BY <1>4 DEF vars, ImportInv, DiskInv, ScanTypes, ScanInv, Importing, Pair, Place, TourInv
<1>q. QED BY <1>1, <1>2, <1>3, <1>4 DEF Next

THEOREM ImportHolds == Spec => []ImportInv
<1>1. Init => ImportInv
  BY InitialImport
<1>2. ImportInv /\ [Next]_vars => ImportInv'
  BY StepKept
<1>q. QED BY <1>1, <1>2, PTL DEF Spec

\* README.md:68: however scans interleave with Winamax, with each other and with errors, no
\* tournament is stored without one of its hands.
THEOREM HistoriesAreWhole == Spec => []StoredWhole
<1>1. ImportInv => StoredWhole
  BY DEF ImportInv, TourInv, StoredWhole
<1>q. QED BY <1>1, ImportHolds, PTL

-----------------------------------------------------------------------------
(* The types, the unique constraints and the references.                    *)

Steps == {"idle", "next", "stat", "parse", "lookup", "commit", "again"}

\* Rows of import_files that refer to tournaments of refs, one for each path.
FileRows(refs) == [pair : PairSet, both : BOOLEAN, state : States, tour : refs \cup {0}]
FilesHold(table, refs) ==
  /\ Numbered(table)
  /\ \A row \in DOMAIN table : table[row] \in FileRows(refs)
  /\ \A row, other \in DOMAIN table : table[other].pair = table[row].pair => other = row

\* Of two rows for a tournament one was inserted after the other: import_pair looks first.
ToursDiffer == \A row, other \in DOMAIN tours : tours[row].ext = tours[other].ext => row = other

\* A scan is at a pair from the query of its files to the commit; a row it does not have
\* is not loaded either; and it commits one of the states.
Placed(r) ==
  /\ r.pc \in Steps /\ r.both \in BOOLEAN
  /\ r.todo \subseteq DOMAIN Pairs
  /\ r.pc \notin {"idle", "next"} => r.todo # {}
  /\ r.row = 0 => r.loaded = NoFile
  /\ r.pc = "commit" => r.mark \in States \cup {"import"}

Bounds == scans \in 0..MaxScans /\ faults \in 0..MaxFaults

TypesInv ==
  /\ FilesHold(files, DOMAIN tours)
  /\ ToursDiffer
  /\ \A q \in Scanners : Placed(scan[q])
  /\ Bounds

LEMMA LeastPlace == ASSUME NEW S, S \subseteq Nat, S # {} PROVE Min(S) \in S
<1> DEFINE less == {ss \in Nat \X Nat : ss[1] < ss[2]}
<1>1. IsWellFoundedOn(less, Nat)
  BY NatLessThanWellFounded DEF OpToRel
<1>2. \A i, j \in Nat : i < j => <<i, j>> \in less
  OBVIOUS
<1> HIDE DEF less
<1>3. PICK m \in S : \A j \in S : ~(<<j, m>> \in less)
  BY <1>1, WFMin
<1>4. \A j \in S : ~(j < m)
  BY <1>2, <1>3
<1>5. \A j \in S : m =< j
  BY <1>4
<1>6. \E x \in S : \A y \in S : x =< y
  BY <1>5
<1>q. QED BY <1>6 DEF Min

\* The pair that a scan is at.
LEMMA PairTyped ==
  ASSUME TypesInv, NEW q \in Scanners, scan[q].todo # {}
  PROVE  Pair(q) \in PairSet
<1>1. DOMAIN Pairs \subseteq Nat /\ \A i \in DOMAIN Pairs : Pairs[i] \in PairSet
  BY ImportAssumption
<1>2. Place(q) \in DOMAIN Pairs
  BY <1>1, LeastPlace DEF TypesInv, Placed, Place
<1>q. QED BY <1>1, <1>2 DEF Pair

\* A step of one scanner that leaves the tables alone.
LEMMA ScannerTyped ==
  ASSUME ImportInv, TypesInv, NEW s \in Scanners, NEW r, Placed(r), scan' = [scan EXCEPT ![s] = r],
         files' = files, tours' = tours, Bounds'
  PROVE  TypesInv'
<1>1. \A q \in Scanners : Placed(scan'[q])
  BY DEF TypesInv, ImportInv, ScanTypes
<1>2. FilesHold(files, DOMAIN tours)' /\ ToursDiffer'
  BY DEF TypesInv, ToursDiffer
<1>q. QED BY <1>1, <1>2 DEF TypesInv

\* A row that was found is there, so its number is not 0.
LEMMA QueriedTyped ==
  ASSUME ImportInv, TypesInv, NEW s \in Scanners
  PROVE  LET r == Queried(s)
         IN /\ IsScan(r) /\ r.todo = scan[s].todo /\ r.both = scan[s].both
            /\ r.row = 0 => r.loaded = NoFile
<1> DEFINE rows == RowsOf(Pair(s))
           row == CHOOSE x \in rows : TRUE
<1>1. IsScan(scan[s])
  BY DEF ImportInv, ScanTypes
<1>2. 0 \notin rows
  BY DEF TypesInv, FilesHold, Numbered, RowsOf
<1>3. CASE rows = {}
  BY <1>1, <1>3 DEF Queried, IsScan
<1>4. CASE rows # {}
  <2>1. row \in rows
    BY <1>4
  <2>2. Queried(s) = [scan[s] EXCEPT !.row = row, !.loaded = files[row]]
    BY <1>4 DEF Queried
  <2>3. row # 0
    BY <1>2, <2>1
  <2> HIDE DEF row
  <2>q. QED BY <1>1, <2>2, <2>3 DEF IsScan
<1>q. QED BY <1>3, <1>4

LEMMA ReadingTyped ==
  ASSUME ImportInv, TypesInv, NEW s \in Scanners,
         \/ StartScan(s) \/ EndScan(s) \/ NextPair(s) \/ Stat(s) \/ Parse(s) \/ Lookup(s)
         \/ QueryAgain(s) \/ CutShort(s) \/ FailsToRead(s)
  PROVE  TypesInv'
<1> DEFINE now == scan[s]
<1>1. files' = files /\ tours' = tours
  BY DEF StartScan, EndScan, NextPair, Stat, Parse, Lookup, QueryAgain, CutShort, FailsToRead, RefuseSummary,
         Unreadable, Reading
<1>2. IsScan(now) /\ Placed(now) /\ ScanInv(s) /\ scan \in [Scanners -> {scan[q] : q \in Scanners}]
  BY DEF ImportInv, ScanTypes, TypesInv
<1>3. Bounds'
  BY ImportAssumption DEF TypesInv, Bounds, StartScan, EndScan, NextPair, Stat, Parse, Lookup,
                          QueryAgain, CutShort, FailsToRead, RefuseSummary, Unreadable, Reading, Fault
<1>4. ASSUME NEW r, Placed(r), scan' = [scan EXCEPT ![s] = r] PROVE TypesInv'
  BY <1>1, <1>3, <1>4, ScannerTyped
<1>5. CASE StartScan(s)
  <2> DEFINE r == [Rest EXCEPT !.pc = "next", !.todo = {i \in DOMAIN Pairs : OnDisk(Pairs[i])},
                               !.old = {p \in PairSet : disk[p].old}]
  <2>1. Placed(r)
    BY DEF Placed, Rest, Steps
  <2>2. scan' = [scan EXCEPT ![s] = r]
    BY <1>5 DEF StartScan
  <2>q. QED BY <1>4, <2>1, <2>2
<1>6. CASE EndScan(s) \/ CutShort(s)
  <2>1. Placed(Rest)
    BY DEF Placed, Rest, Steps
  <2>q. QED BY <1>4, <1>6, <2>1 DEF EndScan, CutShort, Raise
<1>7. CASE NextPair(s)
  <2> DEFINE summary == disk[Pair(s)].summary
             r == [Queried(s) EXCEPT !.pc = IF summary THEN "stat" ELSE "commit",
                                     !.both = summary, !.mark = "waiting"]
  <2>1. now.todo # {} /\ summary \in BOOLEAN
    BY <1>7, PairTyped DEF NextPair, ImportInv, DiskInv, Parts
  <2>2. /\ r.pc \in {"stat", "commit"} /\ r.both = summary /\ r.mark = "waiting"
        /\ r.todo = now.todo /\ r.row = Queried(s).row /\ r.loaded = Queried(s).loaded
    BY QueriedTyped DEF IsScan
  <2>3. r.row = 0 => r.loaded = NoFile
    BY <2>2, QueriedTyped
  <2>4. scan' = [scan EXCEPT ![s] = r]
    BY <1>7 DEF NextPair
  <2> HIDE DEF r, summary
  <2>5. Placed(r)
    BY <1>2, <2>1, <2>2, <2>3 DEF Placed, Steps, States
  <2>q. QED BY <1>4, <2>4, <2>5
<1>8. CASE Stat(s)
  <2> DEFINE r == [now EXCEPT !.pc = IF OldEnough(s) THEN "parse" ELSE "commit", !.mark = "waiting"]
  <2>1. scan' = [scan EXCEPT ![s] = r]
    BY <1>2, <1>8 DEF Stat, Go
  <2>2. Placed(r)
    BY <1>2, <1>8 DEF Stat, Placed, IsScan, Steps, States
  <2>q. QED BY <1>4, <2>1, <2>2
<1>13. CASE FailsToRead(s)
  <2> DEFINE r == [now EXCEPT !.pc = "commit", !.mark = "failed"]
  <2>1. scan' = [scan EXCEPT ![s] = r]
    BY <1>2, <1>13 DEF FailsToRead, RefuseSummary, Unreadable, Go
  <2>2. Placed(r)
    BY <1>2, <1>13 DEF FailsToRead, RefuseSummary, Unreadable, Placed, IsScan, Steps, States
  <2>q. QED BY <1>4, <2>1, <2>2
<1>9. CASE Parse(s)
  <2> DEFINE read == disk[Pair(s)]
             complete == read.summary /\ read.hands # "half" /\ OldEnough(s)
             r == [now EXCEPT !.hands = read.hands, !.pc = IF complete THEN "lookup" ELSE "commit"]
  <2>1. scan' = [scan EXCEPT ![s] = r]
    BY <1>2, <1>9 DEF Parse
  <2>2. now.mark = "waiting"
    BY <1>2, <1>9 DEF Parse, ScanInv
  <2>3. Placed(r)
    BY <1>2, <1>9, <2>2 DEF Parse, Placed, IsScan, Steps, States
  <2>q. QED BY <1>4, <2>1, <2>3
<1>10. CASE Lookup(s)
  <2>1. CASE Go(s, "commit", "import")
    <3> DEFINE r == [now EXCEPT !.pc = "commit", !.mark = "import"]
    <3>1. scan' = [scan EXCEPT ![s] = r]
      BY <1>2, <2>1 DEF Go
    <3>2. Placed(r)
      BY <1>2, <1>10 DEF Lookup, Placed, IsScan, Steps, States
    <3>q. QED BY <1>4, <3>1, <3>2
  <2>2. CASE \E row \in Stored(TourOf[Pair(s)]) :
               scan' = [scan EXCEPT ![s].pc = "commit", ![s].mark = "imported", ![s].tour = row]
    <3>1. PICK row : scan' = [scan EXCEPT ![s].pc = "commit", ![s].mark = "imported", ![s].tour = row]
      BY <2>2
    <3> DEFINE r == [now EXCEPT !.pc = "commit", !.mark = "imported", !.tour = row]
    <3>2. scan' = [scan EXCEPT ![s] = r]
      BY <1>2, <3>1 DEF IsScan
    <3>3. Placed(r)
      BY <1>2, <1>10 DEF Lookup, Placed, IsScan, Steps, States
    <3>q. QED BY <1>4, <3>2, <3>3
  <2>q. QED BY <1>10, <2>1, <2>2 DEF Lookup
<1>11. CASE QueryAgain(s)
  <2> DEFINE r == [Queried(s) EXCEPT !.pc = "commit", !.mark = "failed"]
  <2>1. /\ r.pc = "commit" /\ r.mark = "failed" /\ r.both = now.both
        /\ r.todo = now.todo /\ r.row = Queried(s).row /\ r.loaded = Queried(s).loaded
    BY QueriedTyped DEF IsScan
  <2>2. r.row = 0 => r.loaded = NoFile
    BY <2>1, QueriedTyped
  <2>3. scan' = [scan EXCEPT ![s] = r] /\ now.pc = "again"
    BY <1>11 DEF QueryAgain
  <2> HIDE DEF r
  <2>4. Placed(r)
    BY <1>2, <2>1, <2>2, <2>3 DEF Placed, Steps, States
  <2>q. QED BY <1>4, <2>3, <2>4
<1>q. QED BY <1>5, <1>6, <1>7, <1>8, <1>9, <1>10, <1>11, <1>13

\* A transaction that is not refused inserts a path that is not there, or writes to a row that is:
\* the paths stay unique and every reference is to a tournament of refs.
LEMMA MarkedTyped ==
  ASSUME TypesInv, NEW s \in Scanners, scan[s].todo # {}, ~InsertRefused(s), ~RowLost(s),
         NEW state \in States, NEW refs, DOMAIN tours \subseteq refs,
         NEW tour, tour \in refs \/ tour = scan[s].loaded.tour
  PROVE  FilesHold(Marked(s, state, tour), refs)
<1> DEFINE new == scan[s].row = 0
           old == scan[s].loaded
           row == IF new THEN NewRow(files) ELSE scan[s].row
           was == IF new THEN [NoFile EXCEPT !.pair = Pair(s)] ELSE files[row]
           is == [was EXCEPT !.both = @ \/ (scan[s].both /\ ~old.both),
                             !.state = IF state = old.state THEN @ ELSE state,
                             !.tour = IF tour = old.tour THEN @ ELSE tour]
<1>1. /\ Numbered(files) /\ \A x \in DOMAIN files : files[x] \in FileRows(refs)
      /\ \A x, y \in DOMAIN files : files[y].pair = files[x].pair => y = x
  BY DEF TypesInv, FilesHold, FileRows
<1>2. Marked(s, state, tour) = With(files, row, is)
  BY DEF Marked
<1>3. CASE new
  <2>1. row = NewRow(files) /\ was = [NoFile EXCEPT !.pair = Pair(s)] /\ old = NoFile
    BY <1>3 DEF TypesInv, Placed
  <2>2. Pair(s) \in PairSet /\ \A x \in DOMAIN files : files[x].pair # Pair(s)
    BY <1>3, PairTyped DEF InsertRefused, Known, RowsOf
  <2>3. is \in FileRows(refs) /\ is.pair = Pair(s)
    BY <2>1, <2>2 DEF NoFile, FileRows, States
  <2>4. Numbered(With(files, row, is)) /\ row \notin DOMAIN files
    BY <1>1, <2>1, NextNumber
  <2> HIDE DEF row, was, is, old
  <2>q. QED BY <1>1, <1>2, <2>2, <2>3, <2>4 DEF FilesHold, With
<1>4. CASE ~new
  <2>1. row \in DOMAIN files /\ was = files[row]
    BY <1>4 DEF RowLost
  <2>2. was \in FileRows(refs)
    BY <1>1, <2>1
  <2>3. is \in FileRows(refs) /\ is.pair = was.pair
    <3> DEFINE both == was.both \/ (scan[s].both /\ ~old.both)
               st == IF state = old.state THEN was.state ELSE state
               ref == IF tour = old.tour THEN was.tour ELSE tour
    <3>1. both \in BOOLEAN /\ st \in States /\ ref \in refs \cup {0}
      BY <2>2 DEF FileRows
    <3>2. is = [was EXCEPT !.both = both, !.state = st, !.tour = ref]
      OBVIOUS
    <3> HIDE DEF was, old, row, both, st, ref, is
    <3>q. QED BY <2>2, <3>1, <3>2 DEF FileRows
  <2>4. DOMAIN With(files, row, is) = DOMAIN files
    BY <2>1 DEF With
  <2> HIDE DEF row, was, is, old
  <2>q. QED BY <1>1, <1>2, <2>1, <2>3, <2>4 DEF FilesHold, With, Numbered
<1>q. QED BY <1>3, <1>4

\* What a transaction leaves of the scan.
LEMMA AfterCommitTyped ==
  ASSUME ImportInv, TypesInv, NEW s \in Scanners, scan[s].pc = "commit",
         Done(s) \/ Raise(s) \/ Go(s, "again", "failed")
  PROVE  \A q \in Scanners : Placed(scan'[q])
<1> DEFINE now == scan[s]
<1>1. IsScan(now) /\ Placed(now)
  BY DEF ImportInv, ScanTypes, TypesInv
<1>2. PICK r : scan' = [scan EXCEPT ![s] = r] /\ Placed(r)
  <2>1. CASE Done(s)
    <3> DEFINE r == [Rest EXCEPT !.pc = "next", !.todo = now.todo \ {Place(s)},
                                 !.old = now.old \ {Pair(s)}]
    <3>1. Placed(r)
      BY <1>1 DEF Placed, Rest, Steps
    <3>q. QED BY <2>1, <3>1 DEF Done
  <2>2. CASE Raise(s)
    <3>1. Placed(Rest)
      BY DEF Placed, Rest, Steps
    <3>q. QED BY <2>2, <3>1 DEF Raise
  <2>3. CASE Go(s, "again", "failed")
    <3> DEFINE r == [now EXCEPT !.pc = "again", !.mark = "failed"]
    <3>1. Placed(r)
      BY <1>1 DEF IsScan, Placed, Steps
    <3>2. scan' = [scan EXCEPT ![s] = r]
      BY <2>3 DEF Go, ImportInv, ScanTypes
    <3>q. QED BY <3>1, <3>2
  <2>q. QED BY <2>1, <2>2, <2>3
<1>q. QED BY <1>2 DEF TypesInv, ImportInv, ScanTypes

LEMMA CommitMarkTyped ==
  ASSUME ImportInv, TypesInv, NEW s \in Scanners, CommitMark(s)
  PROVE  TypesInv'
<1> DEFINE mark == scan[s].mark
           loaded == scan[s].loaded.tour
           tour == IF mark = "imported" THEN scan[s].tour ELSE loaded
<1>1. tours' = tours /\ ToursDiffer' /\ Bounds'
  BY DEF CommitMark, TypesInv, ToursDiffer, Bounds
<1>2. scan[s].pc = "commit" /\ scan[s].todo # {} /\ mark \in States
  BY DEF CommitMark, TypesInv, Placed
<1>3. \A q \in Scanners : Placed(scan'[q])
  BY <1>2, AfterCommitTyped DEF CommitMark
<1>4. FilesHold(files', DOMAIN tours)
  <2>1. CASE files' = files
    BY <2>1 DEF TypesInv
  <2>2. CASE /\ ~InsertRefused(s) /\ ~RowLost(s) /\ (tour = loaded \/ tour \in DOMAIN tours)
             /\ files' = Marked(s, mark, tour)
    BY <1>2, <2>2, MarkedTyped
  <2>q. QED BY <2>1, <2>2 DEF CommitMark
<1>q. QED BY <1>1, <1>3, <1>4 DEF TypesInv

LEMMA CommitImportTyped ==
  ASSUME ImportInv, TypesInv, NEW s \in Scanners, CommitImport(s)
  PROVE  TypesInv'
<1> DEFINE t == TourOf[Pair(s)]
           number == NewRow(tours)
           new == [ext |-> t, hands |-> scan[s].hands]
<1>1. Bounds'
  BY DEF CommitImport, TypesInv, Bounds
<1>2. scan[s].pc = "commit" /\ scan[s].todo # {} /\ "imported" \in States
  BY DEF CommitImport, TypesInv, Placed, States
<1>3. \A q \in Scanners : Placed(scan'[q])
  BY <1>2, AfterCommitTyped DEF CommitImport
<1>4. CASE tours' = tours /\ files' = files
  BY <1>1, <1>3, <1>4 DEF TypesInv, ToursDiffer
<1>5. CASE /\ ~InsertRefused(s) /\ ~RowLost(s) /\ tours' = tours
           /\ \E row \in Stored(t) : files' = Marked(s, "imported", row)
  <2>1. FilesHold(files', DOMAIN tours)
    BY <1>2, <1>5, MarkedTyped DEF Stored
  <2>q. QED BY <1>1, <1>3, <1>5, <2>1 DEF TypesInv, ToursDiffer
<1>6. CASE /\ ~InsertRefused(s) /\ ~RowLost(s) /\ Stored(t) = {}
           /\ tours' = With(tours, number, new) /\ files' = Marked(s, "imported", number)
  <2>1. DOMAIN tours' = DOMAIN tours \cup {number} /\ number \notin DOMAIN tours
    BY <1>6, NextNumber DEF With, ImportInv, TourInv
  <2>2. FilesHold(files', DOMAIN tours')
    BY <1>2, <1>6, <2>1, MarkedTyped
  <2>3. ToursDiffer'
    <3>1. \A row \in DOMAIN tours : tours'[row] = tours[row] /\ tours[row].ext # t
      BY <1>6, <2>1 DEF With, Stored
    <3>2. tours'[number].ext = t
      BY <1>6 DEF With
    <3>q. QED BY <2>1, <3>1, <3>2 DEF ToursDiffer, TypesInv
  <2>q. QED BY <1>1, <1>3, <2>2, <2>3 DEF TypesInv
<1>q. QED BY <1>4, <1>5, <1>6 DEF CommitImport

LEMMA EnvironmentTyped ==
  ASSUME ImportInv, TypesInv, NEW p \in PairSet, Winamax(p) \/ GrowOld(p)
  PROVE  TypesInv'
<1>1. /\ files' = files /\ tours' = tours /\ scans' = scans /\ faults' = faults
  BY DEF Winamax, WriteHand, WriteSummary, GrowOld, Environment
<1>2. ASSUME NEW q \in Scanners PROVE Placed(scan'[q])
  <2>1. CASE scan' = scan
    BY <2>1 DEF TypesInv
  <2>2. CASE Written(p)
    <3>1. scan'[q] = [scan[q] EXCEPT !.old = scan[q].old \ {p}] /\ IsScan(scan[q])
      BY <2>2 DEF Written, ImportInv, ScanTypes, IsScan
    <3>2. Placed(scan[q])
      BY DEF TypesInv
    <3>q. QED BY <3>1, <3>2 DEF IsScan, Placed
  <2>q. QED BY <2>1, <2>2 DEF Winamax, WriteHand, WriteSummary, GrowOld
<1>q. QED BY <1>1, <1>2 DEF TypesInv, ToursDiffer, Bounds

LEMMA DeleteTyped == ASSUME TypesInv, DeleteAnalyzedData PROVE TypesInv'
<1>1. files' = << >> /\ tours' = << >> /\ scan' = scan /\ scans' = scans
  BY DEF DeleteAnalyzedData
<1>2. DOMAIN files' = 1..0 /\ DOMAIN files' = {} /\ DOMAIN tours' = {}
  BY <1>1
<1>3. FilesHold(files, DOMAIN tours)' /\ ToursDiffer'
  BY <1>2 DEF FilesHold, Numbered, ToursDiffer
<1>4. Bounds'
  BY <1>1, ImportAssumption DEF DeleteAnalyzedData, Fault, TypesInv, Bounds
<1>q. QED BY <1>1, <1>3, <1>4 DEF TypesInv

LEMMA InitialTypes == Init => TypesInv
<1> SUFFICES ASSUME Init PROVE TypesInv
  OBVIOUS
<1>1. DOMAIN files = 1..0 /\ DOMAIN files = {} /\ DOMAIN tours = {}
  BY DEF Init
<1>2. \A q \in Scanners : Placed(scan[q])
  BY DEF Init, Placed, Rest, Steps
<1>3. FilesHold(files, DOMAIN tours) /\ ToursDiffer
  BY <1>1 DEF FilesHold, Numbered, ToursDiffer
<1>q. QED BY <1>2, <1>3, ImportAssumption DEF Init, TypesInv, Bounds

LEMMA StepTyped == ImportInv /\ TypesInv /\ [Next]_vars => TypesInv'
<1> SUFFICES ASSUME ImportInv, TypesInv, [Next]_vars PROVE TypesInv'
  OBVIOUS
<1>1. ASSUME NEW s \in Scanners, Scan(s) \/ CutShort(s) \/ Unreadable(s) PROVE TypesInv'
  BY <1>1, ReadingTyped, CommitMarkTyped, CommitImportTyped DEF Scan, FailsToRead
<1>2. ASSUME NEW p \in PairSet, Winamax(p) \/ GrowOld(p) PROVE TypesInv'
  BY <1>2, EnvironmentTyped
<1>3. CASE UNCHANGED vars
  BY <1>3 DEF vars, TypesInv, ToursDiffer, Bounds
<1>q. QED BY <1>1, <1>2, <1>3, DeleteTyped DEF Next

\* However scans race, fail or write to a row that stands for another path by now, no path and
\* no tournament is in its table twice, and no file refers to a tournament that is not there
\* (the unique constraints and the foreign key of import_files and tournaments).
THEOREM TypesHold == Spec => []TypeOK
<1>1. Init => TypesInv
  BY InitialTypes
<1>2. ImportInv /\ TypesInv /\ [Next]_vars => TypesInv'
  BY StepTyped
<1>3. TypesInv => TypeOK
  BY DEF TypesInv, FilesHold, FileRows, ToursDiffer, Placed, Steps, Bounds, TypeOK
<1>q. QED BY <1>1, <1>2, <1>3, ImportHolds, PTL DEF Spec

-----------------------------------------------------------------------------
(* The importer implements Archive.                                         *)

Over == {TourOf[p] : p \in {q \in PairSet : disk[q].hands = "all"}}
Archived == {tours[row].ext : row \in DOMAIN tours}

\* A tournament whose last hand is written is over; every other step of Winamax is a stutter.
LEMMA WriteHandEnds ==
  ASSUME ImportInv, NEW p \in PairSet, WriteHand(p)
  PROVE  Archived' = Archived /\ (Over' = Over \/ Over' = Over \cup {TourOf[p]})
<1>1. /\ \A o \in PairSet \ {p} : disk'[o].hands = disk[o].hands
      /\ disk[p].hands # "all"
  BY DEF WriteHand, ImportInv, DiskInv
<1>2. Archived' = Archived
  BY DEF WriteHand, Environment, Archived
<1>3. CASE disk'[p].hands = "all"
  BY <1>1, <1>2, <1>3 DEF Over
<1>4. CASE disk'[p].hands # "all"
  BY <1>1, <1>2, <1>4 DEF Over
<1>q. QED BY <1>3, <1>4

LEMMA OtherWritesStutter ==
  ASSUME ImportInv, NEW p \in PairSet, WriteSummary(p) \/ GrowOld(p)
  PROVE  Over' = Over /\ Archived' = Archived
<1>1. tours' = tours
  BY DEF WriteSummary, GrowOld, Environment
<1>2. \A o \in PairSet : disk'[o].hands = disk[o].hands
  BY DEF WriteSummary, GrowOld, ImportInv, DiskInv, Parts
<1>q. QED BY <1>1, <1>2 DEF Over, Archived

\* An import adds a tournament that is over and was not there, or leaves the database alone.
LEMMA ImportAdds ==
  ASSUME ImportInv, NEW s \in Scanners, CommitImport(s)
  PROVE  /\ Over' = Over
         /\ \/ Archived' = Archived
            \/ \E t \in Tournaments : t \in Over \ Archived /\ Archived' = Archived \cup {t}
<1> DEFINE Table(ts) == {ts[row] : row \in DOMAIN ts}
<1>1. Over' = Over
  BY CommitImportKept DEF Over
<1>2. CASE tours' = tours
  BY <1>1, <1>2 DEF Archived
<1>3. ASSUME NEW p \in PairSet, disk[p].hands = "all", Stored(TourOf[p]) = {},
             Table(tours') = Table(tours) \cup {[ext |-> TourOf[p], hands |-> "all"]}
      PROVE  \E t \in Tournaments : t \in Over \ Archived /\ Archived' = Archived \cup {t}
  <2>1. Archived = {v.ext : v \in Table(tours)} /\ Archived' = {v.ext : v \in Table(tours')}
    BY DEF Archived
  <2>2. Archived' = Archived \cup {TourOf[p]}
    <3> DEFINE new == [ext |-> TourOf[p], hands |-> "all"]
    <3>1. Table(tours') = Table(tours) \cup {new} /\ new.ext = TourOf[p]
      BY <1>3
    <3>2. \A S, w : {v.ext : v \in S \cup {w}} = {v.ext : v \in S} \cup {w.ext}
      BY Zenon
    <3>3. {v.ext : v \in Table(tours')} = {v.ext : v \in Table(tours)} \cup {TourOf[p]}
      <4> HIDE DEF Table, new
      <4>q. QED BY <3>1, <3>2
    <3>q. QED BY <2>1, <3>3
  <2>3. TourOf[p] \in Over \ Archived
    BY <1>3 DEF Over, Archived, Stored
  <2>4. TourOf[p] \in Tournaments
    BY DEF Tournaments
  <2>q. QED BY <2>2, <2>3, <2>4
<1>q. QED BY <1>1, <1>2, <1>3, CommitImportKept

LEMMA StepImplements == ImportInv /\ [Next]_vars => [Promise!Next]_<<Over, Archived>>
<1> SUFFICES ASSUME ImportInv, [Next]_vars PROVE [Promise!Next]_<<Over, Archived>>
  OBVIOUS
<1>1. ASSUME NEW s \in Scanners, CommitImport(s) PROVE [Promise!Next]_<<Over, Archived>>
  BY <1>1, ImportAdds DEF Promise!Next, Promise!Add, Over, Archived
<1>2. ASSUME NEW s \in Scanners, Scan(s) \/ CutShort(s) \/ Unreadable(s), ~CommitImport(s)
      PROVE  Over' = Over /\ Archived' = Archived
  BY <1>2, ReadingKept, CommitMarkKept DEF Scan, FailsToRead, Over, Archived
<1>3. ASSUME NEW p \in PairSet, Winamax(p) \/ GrowOld(p)
      PROVE  [Promise!Next]_<<Over, Archived>>
  <2>1. TourOf[p] \in Tournaments
    BY DEF Tournaments
  <2>2. CASE WriteHand(p)
    BY <2>1, <2>2, WriteHandEnds DEF Promise!Next, Promise!End, Over, Archived
  <2>q. QED BY <1>3, <2>2, OtherWritesStutter DEF Winamax
<1>4. CASE DeleteAnalyzedData
  <2>1. Over' = Over /\ Archived' = {}
    BY <1>4, DeleteKept DEF Over, Archived
  <2>q. QED BY <2>1 DEF Promise!Next, Promise!Clear, Over, Archived
<1>5. CASE UNCHANGED vars
  BY <1>5 DEF vars, Over, Archived
<1>q. QED BY <1>1, <1>2, <1>3, <1>4, <1>5 DEF Next

\* The importer implements Archive: what it does to the database is to add tournaments that are
\* over, one at a time and each once, and to clear it when the user asks.
THEOREM ImporterImplementsArchive == Spec => ImplementsArchive
<1>1. Init => Promise!Init
  BY DEF Init, Promise!Init
<1>2. ImportInv /\ [Next]_vars => [Promise!Next]_<<Over, Archived>>
  BY StepImplements
<1>q. QED
  BY <1>1, <1>2, ImportHolds, PTL DEF Spec, ImplementsArchive, Promise!Spec, Over, Archived
=============================================================================
