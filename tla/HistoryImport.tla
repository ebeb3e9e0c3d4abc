---------------------------- MODULE HistoryImport ----------------------------
(***************************************************************************)
(* The importer: rescan_all and import_pair of services/importer.py, run by *)
(* the history watcher's worker and by requests (POST /import/rescan) at    *)
(* the same time, over files that Winamax is still writing.                 *)
(*                                                                          *)
(* A session reads in its own time; its transaction begins at the first     *)
(* write and is one step with all that follows to the commit, since SQLite  *)
(* lets one writer in.  The session does not flush before it must           *)
(* (autoflush=False): for files it knows already, everything up to the      *)
(* commit is read before.  The row of a hand history and that of its        *)
(* summary are written together; one record stands for both.                *)
(***************************************************************************)
EXTENDS Naturals, Sequences, SequencesExt

CONSTANTS
  Scanners,   \* the watcher's worker and the requests that rescan
  Worker,     \* the worker, which scans again and again
  Pairs,      \* a history and its summary, in the order of the scan
  TourOf,     \* TourOf[p]: the tournament the pair is about
  Broken,     \* pairs that are not imported: a hand cannot be stored, or the summary is refused
  MaxScans,   \* bound: scans that requests start
  MaxFaults   \* bound: deletions, scans that are cut short, files that cannot be read

PairSet == Range(Pairs)
Tournaments == {TourOf[p] : p \in PairSet}

ASSUME ImportAssumption ==
  /\ Worker \in Scanners /\ Broken \subseteq PairSet
  /\ Pairs \in Seq(PairSet) /\ IsInjective(Pairs)
  /\ {MaxScans, MaxFaults} \subseteq Nat

VARIABLES
  disk,     \* pair -> what is written, and whether both delays have passed since:
            \* stable_delay_seconds after the last change, the quiet period after the last hand
  files,    \* import_files: row -> pair, summary known, state, tournament's row or 0
  tours,    \* tournaments: row -> external_id and hands
  scan,     \* the scan under way of each scanner
  scans,    \* scans started by requests so far
  faults    \* deletions, scans cut short and files not read so far

vars == <<disk, files, tours, scan, scans, faults>>

States == {"waiting", "imported", "failed"}
NoFile == [pair |-> "none", both |-> FALSE, state |-> "none", tour |-> 0]
\* todo: the places in Pairs that are still to be scanned.
\* old: the pairs that are old enough by the scan's reference time, for both delays.
Rest == [pc |-> "idle", todo |-> {}, old |-> {}, row |-> 0, loaded |-> NoFile,
         both |-> FALSE, mark |-> "none", tour |-> 0, hands |-> "none"]

Init ==
  /\ disk = [p \in PairSet |-> [hands |-> "none", summary |-> FALSE, old |-> FALSE]]
  /\ files = << >> /\ tours = << >>
  /\ scan = [s \in Scanners |-> Rest]
  /\ scans = 0 /\ faults = 0

-----------------------------------------------------------------------------
(* Winamax writes; time goes by.                                             *)

\* Hands written: none, all but the last, the last one in part, all.
Progress == [none |-> "some", some |-> "half", half |-> "all"]

Environment == UNCHANGED <<files, tours, scans, faults>>
\* A file written now is younger than the reference time of every scan under way.
Written(p) == scan' = [s \in Scanners |-> [scan[s] EXCEPT !.old = @ \ {p}]]

WriteHand(p) ==
  /\ disk[p].hands # "all"
  /\ disk' = [disk EXCEPT ![p].hands = Progress[@], ![p].old = FALSE]
  /\ Written(p)
  /\ Environment

\* With the final rank; the last hand may still be to come.
WriteSummary(p) ==
  /\ ~disk[p].summary /\ disk[p].hands # "none"
  /\ disk' = [disk EXCEPT ![p].summary = TRUE, ![p].old = FALSE]
  /\ Written(p)
  /\ Environment

OnDisk(p) == disk[p].hands # "none"

\* What Winamax writes at a tournament's end it writes within stable_delay_seconds.
GrowOld(p) ==
  /\ OnDisk(p) /\ ~disk[p].old
  /\ disk[p].summary => disk[p].hands = "all"
  /\ disk' = [disk EXCEPT ![p].old = TRUE]
  /\ UNCHANGED scan /\ Environment

-----------------------------------------------------------------------------
(* rescan_all.                                                               *)

Reading == UNCHANGED <<disk, files, tours, scans, faults>>
Place(s) == Min(scan[s].todo)
Pair(s) == Pairs[Place(s)]
With(table, row, v) == [x \in DOMAIN table \cup {row} |-> IF x = row THEN v ELSE table[x]]
NewRow(table) == IF DOMAIN table = {} THEN 1 ELSE 1 + Max(DOMAIN table)
RowsOf(p) == {row \in DOMAIN files : files[row].pair = p}
Stored(t) == {row \in DOMAIN tours : tours[row].ext = t}

Go(s, pc, mark) == scan' = [scan EXCEPT ![s].pc = pc, ![s].mark = mark]
Done(s) ==
  scan' = [scan EXCEPT ![s] = [Rest EXCEPT !.pc = "next", !.todo = scan[s].todo \ {Place(s)},
                                           !.old = scan[s].old \ {Pair(s)}]]
Raise(s) == scan' = [scan EXCEPT ![s] = Rest]

\* The reference time of a scan is that of its start.
StartScan(s) ==
  /\ scan[s].pc = "idle"
  /\ IF s = Worker THEN UNCHANGED scans ELSE scans < MaxScans /\ scans' = scans + 1
  /\ scan' = [scan EXCEPT ![s] =
                [Rest EXCEPT !.pc = "next", !.todo = {i \in DOMAIN Pairs : OnDisk(Pairs[i])},
                             !.old = {p \in PairSet : disk[p].old}]]
  /\ UNCHANGED <<disk, files, tours, faults>>

EndScan(s) ==
  /\ scan[s].pc = "next" /\ scan[s].todo = {}
  /\ Raise(s)
  /\ Reading

\* The query of _upsert_file.
Queried(s) ==
  LET rows == RowsOf(Pair(s))
      row  == CHOOSE x \in rows : TRUE
  IN  IF rows = {} THEN [scan[s] EXCEPT !.row = 0, !.loaded = NoFile]
      ELSE [scan[s] EXCEPT !.row = row, !.loaded = files[row]]

\* Without a summary the history waits.
NextPair(s) ==
  /\ scan[s].pc = "next" /\ scan[s].todo # {}
  /\ LET summary == disk[Pair(s)].summary
     IN  scan' = [scan EXCEPT ![s] =
                    [Queried(s) EXCEPT !.pc = IF summary THEN "stat" ELSE "commit",
                                       !.both = summary, !.mark = "waiting"]]
  /\ Reading

-----------------------------------------------------------------------------
(* import_pair.                                                              *)

\* Mutant: how old the files are is not asked.
AnyAge(s) == TRUE

OldEnough(s) == Pair(s) \in scan[s].old

\* Both files must not have changed for a while.
Stat(s) ==
  /\ scan[s].pc = "stat"
  /\ Go(s, IF OldEnough(s) THEN "parse" ELSE "commit", "waiting")
  /\ Reading

\* The parsers, then is_complete: a final rank, no hand without its end, a quiet period.
Parse(s) ==
  /\ scan[s].pc = "parse"
  /\ LET now == disk[Pair(s)]
         complete == now.summary /\ now.hands # "half" /\ OldEnough(s)
     IN  scan' = [scan EXCEPT ![s].hands = now.hands,
                              ![s].pc = IF complete THEN "lookup" ELSE "commit"]
  /\ Reading

\* The summary is not one of an Expresso, or its number, date or hero is missing.
RefuseSummary(s) ==
  /\ scan[s].pc = "parse" /\ Pair(s) \in Broken
  /\ Go(s, "commit", "failed")
  /\ Reading

\* Once rows were inserted the transaction has begun: the query is part of Commit.
Known(s) == scan[s].row # 0 /\ (scan[s].both => scan[s].loaded.both)

\* Mutant: the tournament is not looked up.
NoLookup(s) ==
  /\ scan[s].pc = "lookup"
  /\ Go(s, "commit", "import")
  /\ Reading

Lookup(s) ==
  /\ scan[s].pc = "lookup"
  /\ LET found == Stored(TourOf[Pair(s)])
     IN  IF Known(s) /\ found # {}
         THEN \E row \in found :
                scan' = [scan EXCEPT ![s].pc = "commit", ![s].mark = "imported", ![s].tour = row]
         ELSE Go(s, "commit", "import")
  /\ Reading

\* _upsert_file after a rollback, to mark the pair as failed.
QueryAgain(s) ==
  /\ scan[s].pc = "again"
  /\ scan' = [scan EXCEPT ![s] = [Queried(s) EXCEPT !.pc = "commit", !.mark = "failed"]]
  /\ Reading

-----------------------------------------------------------------------------
(* The transactions.                                                         *)

\* A path is inserted that another scan has inserted meanwhile (unique constraint).
InsertRefused(s) ==
  ~Known(s) /\ \E row \in RowsOf(Pair(s)) : scan[s].row = 0 \/ files[row].both

\* An UPDATE of a row that is gone: StaleDataError.
RowLost(s) == scan[s].row # 0 /\ scan[s].row \notin DOMAIN files

\* The ORM writes the columns that differ from what was loaded, to the row of that number,
\* whatever its path is by now.
Marked(s, state, tour) ==
  LET old == scan[s].loaded
      row == IF scan[s].row = 0 THEN NewRow(files) ELSE scan[s].row
      was == IF scan[s].row = 0 THEN [NoFile EXCEPT !.pair = Pair(s)] ELSE files[row]
  IN  With(files, row,
           [was EXCEPT !.both = @ \/ (scan[s].both /\ ~old.both),
                       !.state = IF state = old.state THEN @ ELSE state,
                       !.tour = IF tour = old.tour THEN @ ELSE tour])

\* "waiting", "failed", or "imported" for a tournament that is there already.
CommitMark(s) ==
  /\ scan[s].pc = "commit" /\ scan[s].mark # "import"
  /\ LET tour == IF scan[s].mark = "imported" THEN scan[s].tour ELSE scan[s].loaded.tour
         lost == tour # scan[s].loaded.tour /\ tour \notin DOMAIN tours
     IN  IF InsertRefused(s) \/ RowLost(s) \/ lost
         THEN Raise(s) /\ UNCHANGED files
         ELSE files' = Marked(s, scan[s].mark, tour) /\ Done(s)
  /\ UNCHANGED <<disk, tours, scans, faults>>

\* Mutant: the tournament is committed, then its hands.
ImportInTwo(s) ==
  /\ scan[s].pc = "commit" /\ scan[s].mark = "import" /\ ~InsertRefused(s)
  /\ LET t == TourOf[Pair(s)]
         hands == IF Pair(s) \in Broken THEN "none" ELSE scan[s].hands
     IN  IF Stored(t) = {} /\ ~RowLost(s)
         THEN /\ tours' = With(tours, NewRow(tours), [ext |-> t, hands |-> hands])
              /\ files' = Marked(s, "imported", NewRow(tours))
              /\ Done(s)
         ELSE Go(s, "again", "failed") /\ UNCHANGED <<files, tours>>
  /\ UNCHANGED <<disk, scans, faults>>

\* The tournament, its hands and the two files; an error undoes them all.
CommitImport(s) ==
  /\ scan[s].pc = "commit" /\ scan[s].mark = "import"
  /\ LET t == TourOf[Pair(s)]
     IN  IF InsertRefused(s)
         THEN Raise(s) /\ UNCHANGED <<files, tours>>
         ELSE IF ~Known(s) /\ Stored(t) # {}
         THEN IF RowLost(s) THEN Raise(s) /\ UNCHANGED <<files, tours>>
              ELSE /\ \E row \in Stored(t) : files' = Marked(s, "imported", row)
                   /\ Done(s) /\ UNCHANGED tours
         ELSE IF Stored(t) = {} /\ ~RowLost(s) /\ Pair(s) \notin Broken
         THEN /\ tours' = With(tours, NewRow(tours), [ext |-> t, hands |-> scan[s].hands])
              /\ files' = Marked(s, "imported", NewRow(tours))
              /\ Done(s)
         ELSE Go(s, "again", "failed") /\ UNCHANGED <<files, tours>>
  /\ UNCHANGED <<disk, scans, faults>>

Fault == faults < MaxFaults /\ faults' = faults + 1

\* Mutant: the files are kept.
DeleteTournaments ==
  /\ Fault
  /\ tours' = << >>
  /\ UNCHANGED <<disk, files, scan, scans>>

DeleteAnalyzedData ==
  /\ Fault
  /\ files' = << >> /\ tours' = << >>
  /\ UNCHANGED <<disk, scan, scans>>

\* stat, or a parser, raises.
Unreadable(s) ==
  /\ scan[s].pc \in {"stat", "parse"}
  /\ Fault
  /\ Go(s, "commit", "failed")
  /\ UNCHANGED <<disk, files, tours, scans>>

\* The latch trips, the database stays locked for too long, or the process ends.
CutShort(s) ==
  /\ scan[s].pc # "idle"
  /\ Fault
  /\ Raise(s)
  /\ UNCHANGED <<disk, files, tours, scans>>

-----------------------------------------------------------------------------
Scan(s) ==
  \/ StartScan(s) \/ EndScan(s) \/ NextPair(s) \/ Stat(s) \/ Parse(s) \/ RefuseSummary(s)
  \/ Lookup(s) \/ QueryAgain(s) \/ CommitMark(s) \/ CommitImport(s)

Winamax(p) == WriteHand(p) \/ WriteSummary(p)

Next ==
  \/ \E s \in Scanners : Scan(s) \/ CutShort(s) \/ Unreadable(s)
  \/ \E p \in PairSet : Winamax(p) \/ GrowOld(p)
  \/ DeleteAnalyzedData

Spec == Init /\ [][Next]_vars

\* The worker scans every 30 seconds, and time goes by; nothing else has to happen.
Fairness == WF_vars(Scan(Worker)) /\ \A p \in PairSet : WF_vars(GrowOld(p))

FairSpec == Spec /\ Fairness

-----------------------------------------------------------------------------
\* Types, the unique constraints, and the reference of a file to its tournament.
TypeOK ==
  /\ \A row \in DOMAIN files :
       /\ files[row].pair \in PairSet /\ files[row].state \in States
       /\ files[row].tour \in DOMAIN tours \cup {0}
       /\ \A other \in DOMAIN files : files[other].pair = files[row].pair => other = row
  /\ \A row, other \in DOMAIN tours : tours[row].ext = tours[other].ext => row = other
  /\ \A s \in Scanners :
       scan[s].pc \in {"idle", "next", "stat", "parse", "lookup", "commit", "again"}
  /\ scans \in 0..MaxScans /\ faults \in 0..MaxFaults

\* A tournament in the database has every hand that was played in it: none that Winamax
\* was still writing when the files were looked at, none lost to an error on the way
\* (README.md:68, a recent or incomplete history waits; import_pair's one transaction).
StoredWhole == \A row \in DOMAIN tours : tours[row].hands = "all"

\* The importer implements Archive.
Promise == INSTANCE Archive WITH
  over    <- {TourOf[p] : p \in {q \in PairSet : disk[q].hands = "all"}},
  archive <- {tours[row].ext : row \in DOMAIN tours}

ImplementsArchive == Promise!Spec

\* However scans, requests, deletions and errors interleave, in the end every finished
\* pair of files that can be stored is marked as imported, with its own tournament: what a
\* scan wrote from stale reads, the worker's later scans put right.
EveryPairArchived ==
  \A p \in PairSet \ Broken :
    <>[]((disk[p].summary /\ disk[p].hands = "all") =>
           \E row \in RowsOf(p) :
             files[row].state = "imported" /\ files[row].tour \in Stored(TourOf[p]))
=============================================================================
