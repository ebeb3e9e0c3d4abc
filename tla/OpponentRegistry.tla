--------------------------- MODULE OpponentRegistry ---------------------------
(***************************************************************************)
(* The hub's register of observed opponents: sync_tournament_opponents of   *)
(* community_hub/opponents.py, and the maintenance commands that erase from *)
(* it, suppress_opponent, purge_inactive_opponents and delete_member.       *)
(*                                                                          *)
(* SQLite serialises the transactions that write, but a session opens its   *)
(* transaction at its first write: what a handler or a command reads before *)
(* may be stale when it writes.  Every query made before the first write is *)
(* therefore a step, and everything from it to the commit is one step.      *)
(* A pseudonym is its identity_key, an opponents row the number SQLite      *)
(* gives it (the largest one plus one, so a number can come back).          *)
(***************************************************************************)
EXTENDS Naturals, Sequences, SequencesExt

CONSTANTS
  Handlers,     \* requests the hub works on at a time
  Tournaments,  \* shared_tournaments stored when the behaviour starts
  Owner,        \* Owner[t]: the member who shared t
  StartedAt,    \* StartedAt[t]: the day t was played
  Lists,        \* Lists[t]: the opponent lists sent for t, sequences of identities
  Cutoffs,      \* the days before which a purge erases
  MaxErasures,  \* bound: maintenance commands
  NoRow         \* no row was found

ASSUME RegistryAssumption ==
  /\ StartedAt \in [Tournaments -> Nat] /\ Cutoffs \subseteq Nat
  /\ \A t \in Tournaments : \A p \in Lists[t] : p \in Seq(Range(p)) /\ IsInjective(p)
  /\ NoRow \notin Nat /\ MaxErasures \in Nat

VARIABLES
  present,     \* shared_tournaments
  opponents,   \* opponents: row -> identity and last_seen_at
  links,       \* shared_tournament_opponents: tournament and row
  receipts,    \* opponent_sync_receipts: tournament -> list stored
  suppressed,  \* opponent_suppressions: identities
  handlers,    \* the request each handler serves
  command,     \* the maintenance command under way
  erasures,    \* commands so far
  erased       \* history: identities a command has erased

tables == <<present, opponents, links, receipts, suppressed>>
vars == <<tables, handlers, command, erasures, erased>>

Identities == UNION {Range(p) : p \in UNION {Lists[t] : t \in Tournaments}}
Members == {Owner[t] : t \in Tournaments}

NoCommand == [op |-> "none", rows |-> {}, who |-> {}, cutoff |-> 0]
Free(answer) == [pc |-> "free", answer |-> answer]

Init ==
  /\ present = Tournaments
  /\ opponents = << >> /\ links = {} /\ receipts = << >> /\ suppressed = {}
  /\ handlers = [h \in Handlers |-> Free("none")]
  /\ command = NoCommand /\ erasures = 0 /\ erased = {}

Without(f, S) == [x \in DOMAIN f \ S |-> f[x]]
With(f, k, v) == [x \in DOMAIN f \cup {k} |-> IF x = k THEN v ELSE f[x]]
RowsOf(table, who) == {row \in DOMAIN table : table[row].who = who}
NewRow(table) == IF DOMAIN table = {} THEN 1 ELSE 1 + Max(DOMAIN table)

-----------------------------------------------------------------------------
(* sync_tournament_opponents, h serving one request.                         *)

Receive(h, t, list) ==
  /\ handlers[h].pc = "free"
  /\ handlers' = [handlers EXCEPT ![h] =
       [pc |-> "read", answer |-> "none", t |-> t, list |-> list, item |-> 1,
        row |-> NoRow, seen |-> 0, retry |-> TRUE, disturbed |-> FALSE]]
  /\ UNCHANGED <<tables, command, erasures, erased>>

Goto(h, pc) == handlers' = [handlers EXCEPT ![h].pc = pc]
Finish(h, answer) ==
  handlers' = [handlers EXCEPT ![h] = Free(answer)]

SameReceipt(r) == receipts[r.t] = r.list

\* The tournament, then its receipt: an enrichment is stored once.
ReadReceipt(h) ==
  /\ handlers[h].pc = "read"
  /\ LET r == handlers[h]
     IN  IF r.t \notin present THEN Finish(h, "missing")
         ELSE IF r.t \in DOMAIN receipts
              THEN Finish(h, IF SameReceipt(r) THEN "ok" ELSE "different")
              ELSE Goto(h, "check")
  /\ UNCHANGED <<tables, command, erasures, erased>>

\* Mutant: the suppression list is not read.
LookupAtOnce(h) ==
  /\ handlers[h].pc = "check"
  /\ Goto(h, IF handlers[h].item > Len(handlers[h].list) THEN "write" ELSE "lookup")
  /\ UNCHANGED <<tables, command, erasures, erased>>

\* Suppressed identities are skipped; when all are, only the receipt is left to write.
CheckSuppression(h) ==
  /\ handlers[h].pc = "check"
  /\ LET r == handlers[h]
     IN  IF r.item > Len(r.list) THEN Goto(h, "write")
         ELSE IF r.list[r.item] \in suppressed
              THEN handlers' = [handlers EXCEPT ![h].item = @ + 1]
              ELSE Goto(h, "lookup")
  /\ UNCHANGED <<tables, command, erasures, erased>>

Lookup(h) ==
  /\ handlers[h].pc = "lookup"
  /\ LET rows == RowsOf(opponents, handlers[h].list[handlers[h].item])
     IN  IF rows = {}
         THEN handlers' = [handlers EXCEPT ![h].pc = "write", ![h].row = NoRow]
         ELSE \E row \in rows :
                handlers' = [handlers EXCEPT ![h].pc = "write", ![h].row = row,
                                             ![h].seen = opponents[row].seen]
  /\ UNCHANGED <<tables, command, erasures, erased>>

Later(day, seen) == IF day > seen THEN day ELSE seen

\* Mutant: an identity inserted meanwhile is left as it is.
PendingUnlessInserted(r) == {i \in r.item..Len(r.list) :
  IF i = r.item THEN r.row # NoRow \/ RowsOf(opponents, r.list[i]) = {}
  ELSE r.list[i] \notin suppressed}

\* What the transaction stores of the list: the item whose row was looked up before it
\* began, and those after it that are not suppressed ...
Pending(r) == {i \in r.item..Len(r.list) : i = r.item \/ r.list[i] \notin suppressed}

\* ... of which some get a profile ...
New(r) == {i \in Pending(r) :
  IF i = r.item THEN r.row = NoRow ELSE RowsOf(opponents, r.list[i]) = {}}

\* ... under the next free numbers, and the others are linked to the one found.
RowOf(r, i) ==
  IF i \in New(r) THEN NewRow(opponents) + Cardinality({j \in New(r) : j < i})
  ELSE IF i = r.item THEN r.row
  ELSE CHOOSE row \in RowsOf(opponents, r.list[i]) : TRUE

LinkedRows(r) == {RowOf(r, i) : i \in Pending(r)}

\* A unique identity, the foreign key to opponents, and one link to a profile.
Refused(r) == \E i \in Pending(r) :
  \/ i \in New(r) /\ RowsOf(opponents, r.list[i]) # {}
  \/ i \notin New(r) /\ RowOf(r, i) \notin DOMAIN opponents
  \/ \E j \in Pending(r) \ {i} : RowOf(r, j) = RowOf(r, i)

\* last_seen_at of the item looked up before is written only when it changes, to the
\* maximum with the value read then.
ItemStored(r, i) ==
  LET day == StartedAt[r.t]
  IN  IF i \in New(r) THEN [who |-> r.list[i], seen |-> day]
      ELSE [opponents[RowOf(r, i)] EXCEPT !.seen =
              IF i # r.item THEN Later(day, @) ELSE IF day > r.seen THEN day ELSE @]

Stored(r) ==
  [row \in DOMAIN opponents \cup LinkedRows(r) |->
     IF row \in LinkedRows(r)
     THEN ItemStored(r, CHOOSE i \in Pending(r) : RowOf(r, i) = row)
     ELSE opponents[row]]

\* The UPDATE of last_seen_at found no row: StaleDataError, which nothing catches.
UpdateLost(r) ==
  r.item <= Len(r.list) /\ r.row \notin DOMAIN opponents \cup {NoRow} /\ StartedAt[r.t] > r.seen

\* From the first write to the commit.  A constraint that fails (the identity or the
\* receipt inserted meanwhile, the row or the tournament deleted) undoes everything.
Write(h) ==
  /\ handlers[h].pc = "write"
  /\ LET r == handlers[h]
     IN  IF ~Refused(r) /\ r.t \in present /\ r.t \notin DOMAIN receipts
         THEN /\ opponents' = Stored(r)
              /\ links' = links \cup ({r.t} \X LinkedRows(r))
              /\ receipts' = With(receipts, r.t, r.list)
              /\ Finish(h, "ok")
         ELSE /\ IF UpdateLost(r) THEN Finish(h, "failed") ELSE Goto(h, "conflict")
              /\ UNCHANGED <<opponents, links, receipts>>
  /\ UNCHANGED <<present, suppressed, command, erasures, erased>>

\* Mutant: a conflict is final.
ConflictNoRetry(h) ==
  /\ handlers[h].pc = "conflict"
  /\ LET r == handlers[h]
     IN  Finish(h, IF r.t \in DOMAIN receipts /\ SameReceipt(r) THEN "ok" ELSE "conflict")
  /\ UNCHANGED <<tables, command, erasures, erased>>

\* IntegrityError: somebody stored this very enrichment, or start again, once.
Conflict(h) ==
  /\ handlers[h].pc = "conflict"
  /\ LET r == handlers[h]
     IN  IF r.t \in DOMAIN receipts /\ SameReceipt(r) THEN Finish(h, "ok")
         ELSE IF r.retry
              THEN handlers' = [handlers EXCEPT ![h] =
                                  [r EXCEPT !.pc = "read", !.item = 1, !.retry = FALSE]]
              ELSE Finish(h, "conflict")
  /\ UNCHANGED <<tables, command, erasures, erased>>

\* The interlock (503), a lock held for longer than busy_timeout or a lost UPDATE of
\* first_seen_at alone (500) ends the request with nothing written.
Abort(h) ==
  /\ handlers[h].pc # "free"
  /\ Finish(h, "failed")
  /\ UNCHANGED <<tables, command, erasures, erased>>

-----------------------------------------------------------------------------
(* The maintenance commands, run by the host in a process of their own.      *)

Begin(op, rows, who, cutoff) ==
  /\ command = NoCommand /\ erasures < MaxErasures
  /\ erasures' = erasures + 1
  /\ command' = [op |-> op, rows |-> rows, who |-> who, cutoff |-> cutoff]
  /\ UNCHANGED <<tables, handlers, erased>>

BeginSuppress(row) == Begin("suppress", {row}, {opponents[row].who}, 0)

BeginPurge(cutoff) ==
  Begin("purge", {row \in DOMAIN opponents : opponents[row].seen < cutoff}, {}, cutoff)

Disturb == handlers' = [h \in Handlers |->
  IF handlers[h].pc = "free" THEN handlers[h] ELSE [handlers[h] EXCEPT !.disturbed = TRUE]]

\* Mutant: without the foreign keys' cascade.
EraseRowsOnly(rows) ==
  /\ opponents' = Without(opponents, rows)
  /\ links' = links
  /\ erased' = erased \cup {opponents[row].who : row \in rows \cap DOMAIN opponents}

Erase(rows) ==
  /\ opponents' = Without(opponents, rows)
  /\ links' = {l \in links : l[2] \notin rows}
  /\ erased' = erased \cup {opponents[row].who : row \in rows \cap DOMAIN opponents}

\* suppress_opponent and purge_inactive_opponents: the rows read are erased by number,
\* the links and observations follow by ON DELETE CASCADE.
CommitCommand ==
  /\ command # NoCommand
  /\ Erase(command.rows)
  /\ suppressed' = suppressed \cup command.who
  /\ command' = NoCommand
  /\ Disturb
  /\ UNCHANGED <<present, receipts, erasures>>

\* Mutant: the profiles nobody else contributed to stay.
DeleteMemberOnly(m) ==
  /\ erasures < MaxErasures /\ erasures' = erasures + 1
  /\ \E t \in present : Owner[t] = m
  /\ LET gone == {t \in present : Owner[t] = m}
     IN  /\ present' = present \ gone
         /\ receipts' = Without(receipts, gone)
         /\ links' = {l \in links : l[1] \notin gone}
  /\ Disturb
  /\ UNCHANGED <<opponents, erased, suppressed, command>>

\* delete_member: one transaction, which also erases the opponents nobody else has met.
DeleteMember(m) ==
  /\ erasures < MaxErasures /\ erasures' = erasures + 1
  /\ \E t \in present : Owner[t] = m
  /\ LET gone == {t \in present : Owner[t] = m}
         kept == {l \in links : l[1] \notin gone}
         orphans == {row \in DOMAIN opponents : \A l \in kept : l[2] # row}
     IN  /\ present' = present \ gone
         /\ receipts' = Without(receipts, gone)
         /\ links' = kept
         /\ opponents' = Without(opponents, orphans)
         /\ erased' = erased \cup {opponents[row].who : row \in orphans}
  /\ Disturb
  /\ UNCHANGED <<suppressed, command>>

-----------------------------------------------------------------------------
HandlerStep(h) ==
  \/ \E t \in Tournaments : \E list \in Lists[t] : Receive(h, t, list)
  \/ ReadReceipt(h) \/ CheckSuppression(h) \/ Lookup(h) \/ Write(h) \/ Conflict(h)
  \/ Abort(h)

CommandStep ==
  \/ \E row \in DOMAIN opponents : BeginSuppress(row)
  \/ \E cutoff \in Cutoffs : BeginPurge(cutoff)
  \/ CommitCommand
  \/ \E m \in Members : DeleteMember(m)

Next == (\E h \in Handlers : HandlerStep(h)) \/ CommandStep

Spec == Init /\ [][Next]_vars

-----------------------------------------------------------------------------
\* Types; links and receipts refer to rows that exist (the foreign keys).
TypeOK ==
  /\ present \subseteq Tournaments /\ suppressed \subseteq Identities
  /\ \A row \in DOMAIN opponents :
       row \in Nat \ {0} /\ opponents[row] \in [who : Identities, seen : Nat]
  /\ links \subseteq present \X DOMAIN opponents
  /\ DOMAIN receipts \subseteq present /\ \A t \in DOMAIN receipts : receipts[t] \in Lists[t]
  /\ \A h \in Handlers :
       handlers[h].pc \in {"free", "read", "check", "lookup", "write", "conflict"}
  /\ command.op \in {"none", "suppress", "purge"} /\ erasures \in 0..MaxErasures

Linked(t, who) == \E row \in RowsOf(opponents, who) : <<t, row>> \in links

\* An enrichment with a receipt is whole: each opponent it named is linked under its own
\* identity, unless the host erased or suppressed that identity, whatever other requests
\* inserted between this one's reads and its transaction.
EnrichmentWhole ==
  \A t \in DOMAIN receipts : \A who \in Range(receipts[t]) :
    Linked(t, who) \/ who \in suppressed \cup erased

\* No profile outlives the last tournament it was met in (delete_member's clean-up, the
\* cascades and the enrichments that run meanwhile).
NoProfileWithoutTournament ==
  \A row \in DOMAIN opponents : \E l \in links : l[2] = row

\* "Retry once from a clean transaction so both tournaments converge on one Opponent row"
\* (opponents.py:373): the retry is refused only if the host erased something meanwhile
\* or another list was stored for the tournament.
RetryOnceSuffices ==
  [][\A h \in Handlers :
       (handlers[h].pc = "conflict" /\ handlers'[h].answer = "conflict") =>
         handlers[h].disturbed \/ handlers[h].t \in DOMAIN receipts]_vars

\* OPPONENT_DATA_POLICY.md:42, "une synchronisation ulterieure ne peut pas recreer son
\* profil": only an enrichment under way while a command erased something may give a row to
\* a suppressed identity, none that was received afterwards, retries included.
SuppressionHolds ==
  [][\A row \in DOMAIN opponents' :
       LET who == opponents'[row].who
       IN  who \in suppressed /\ RowsOf(opponents, who) = {} =>
             \E h \in Handlers : handlers[h].pc = "write" /\ handlers[h].disturbed]_vars

\* OPPONENT_DATA_POLICY.md:48, "decrivent uniquement les mains observees": a profile has
\* only tournaments its opponent was named in.
ObservationsAreTheirs ==
  \A l \in links : opponents[l[2]].who \in Range(receipts[l[1]])

\* OPPONENT_DATA_POLICY.md:42, kept "depuis la derniere observation": what a purge is
\* about to erase was last met before its cutoff.
PurgeErasesOnlyInactive ==
  command.op = "purge" =>
    \A l \in links : l[2] \in command.rows => StartedAt[l[1]] < command.cutoff
=============================================================================
