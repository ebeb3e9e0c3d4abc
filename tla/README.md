# RiverScope: models and proofs of the community and of the local backend

This directory holds the TLA+ specifications of RiverScope (the Winamax post-session
analyser and its self-hosted community hub), the TLC configurations that check them, and the
TLAPS proofs. `PROJECT.json` lists the runs, the mutants, the hazards and, for every
definition, the source lines it models.

To repeat the results, in this directory:

    tlc -workers 2 -config MCCommunitySync.cfg MCCommunitySync      # likewise the other runs
    tlapm CommunitySyncProofs.tla                                   # likewise the other *Proofs.tla

## 1. The system

RiverScope runs in two places. On each player's PC a **local backend** (FastAPI on the
loopback address, an SQLite database) watches the Winamax history directories, imports
*completed* Expresso tournaments and computes statistics. If its user joins a community, it
sends every completed tournament to a **hub** (another FastAPI process with its own SQLite
database, on a member's PC or a VPS), from which it reads the shared views. Both processes
refuse to work while `Winamax.exe` runs: a one-way latch ends them.

| Part (code) | State | Operations | Made correct by |
|---|---|---|---|
| community client: delivery (`services/community_client.py`) | `community_sync_records`, `community_opponent_sync_records`, the config row, the DPAPI secrets, a process-wide lock | `status`, `sync`, `proxy_get`, and what imports and deletions do to its tables | nothing is marked delivered that the hub has not; everything is delivered in the end; shared views only when nothing is left to deliver |
| community client: pairing (same file, `core/community_secret.py`) | DPAPI file, config row, queues | `join`, `leave`, `upgrade_consent` | no queue of one account is carried to another; `leave` leaves no token; a device without a PC is the price of a fault |
| hub: delivery (`community_hub/service.py`) | `shared_tournaments`, `sync_receipts`, quotas | `sync_tournament` | one row per content and one receipt per `client_key`, whatever is retried |
| hub: opponents (`community_hub/opponents.py`) | `opponents`, links, observations, receipts, suppressions | `sync_tournament_opponents`, `suppress_opponent`, `purge_inactive_opponents` | enrichments are whole, no profile is orphaned, suppression and retention hold |
| hub: accounts (`service.py`, `security.py`, `admin.py`, `api.py`) | `members`, `invitations`, `devices` | `enroll`, authentication, consent, self revocation; the host's commands | an invitation is used once, a token speaks for one member, policy 2 is accepted by its member |
| process guard (`core/process_guard.py`) | the latch, the polling thread | `require_winamax_absent`, `check_now`, `start`, `stop` | the latch is never lost and always ends the process |
| local backend (`runner.py`, `main.py`, `workers/history_watcher.py`) | uvicorn's exit flag, the watcher's events and threads | start, stop, watch, import | it always ends once tripped, observes nothing afterwards, commits at most what was in flight |
| importer (`services/importer.py`) | `import_files`, `tournaments`, `hands`, `players` | `rescan_all`, `import_pair` | a tournament is stored once and whole, only once it is over, and its files end up marked as imported |
| hub runner, rate limits (`community_hub/runner.py`, `rate_limit.py`, `middleware.py`) | server, buckets | start, stop, admit | as the backend; the table of buckets is bounded and a full table resets nobody's count |
| parser, statistics, leaks (`parsers/winamax.py`, `services/poker_stats.py`, `leak_engine.py`) | a hand while it is read; otherwise the stored hands | one line, one hand, one bag of hands | the books balance; the figures are those of the game; a leak lists the hands it counted |
| reports (`services/queries.py`) and the library `analytics/` | the stored tournaments | filters, dashboard, sessions | every breakdown adds up; the downswing is the worst run; two implementations agree |
| sharing a hand (`community_client.py`, `schemas.py`, `opponents.py`) and the hub's views | the shared tournaments and observations | serialise, validate, observe, sum up | what the hub says of a player is what he did |
| local API, contribution preview, frontend, scripts | none of their own | routes, display | - |

**Interactions.** The watcher's worker, an `/import/rescan` request and a `/community/sync`
request may all import or synchronise; the client's lock serialises `join`, `leave`, `sync`
and `proxy_get` of one process, but imports and `delete_analyzed_data` do not take it. The
client calls the hub by HTTP with a timeout: the hub may act although the caller has given
up, and it serves several requests at a time, each in an SQLite session whose transaction
begins at its *first write*. What a handler read before is outside the transaction. The
host's commands run in a further process on the hub's database.

**Hard behaviours**: reads before a transaction and writes inside it (hub), answers lost
after the commit (client), deletion of a tournament whose upload is under way, re-pairing
with another `client_secret`, a stop between the three stores a `join` writes, row numbers
that SQLite gives anew, a latch that trips at any point of a start. `PROJECT.json`, under
"hazards", has each at its line, with the property that watches it, or why none does yet.

## 2. The modules

| Module | Models | Checked by | Proved in |
|---|---|---|---|
| `CommunitySync` | the client's queues, `sync`, `status`, `proxy_get`, with the hub's `sync_tournament` and access gates | `sync_safety`, `sync_live` | `CommunitySyncProofs` |
| `Delivery` | abstract: what the PCs of a member may take for delivered | `sync_safety` (`ImplementsDelivery`) | `CommunitySyncProofs` |
| `CommunityPairing` | `join`, `leave`, `upgrade_consent` step by step; the hub's accounts and host commands | `pairing`, `pairing_leave` | `CommunityPairingProofs` |
| `OpponentRegistry` | `sync_tournament_opponents` step by step and the commands that erase from it | `registry`, `registry_retention`, `registry_row_reuse` | `OpponentRegistryProofs` |
| `Archive` | abstract: what the importer promises | `importer` (`ImplementsArchive`) | `HistoryImportProofs` |
| `HistoryImport` | `rescan_all` and `import_pair` by the worker and a request, over files that Winamax writes | `importer` | `HistoryImportProofs` |
| `ProcessGuard` | the latch and the polling thread, without their surroundings | through `BackendRun` and `HubRun` | - |
| `BackendRun` | composes `ProcessGuard` with the main thread, the watcher, its worker and a request | `backend_run` | `BackendRunProofs` |
| `RateLimiter` | the hub's bounded table of fixed windows | through `HubRun` | `HubRunProofs` |
| `HubRun` | composes `ProcessGuard` and `RateLimiter` with the hub's main thread and its requests | `hub_run` | `HubRunProofs` |
| `PokerTable` | the world: one hand of hold'em, and the lines Winamax writes about it | through `Analysis` | `BooksProofs` |
| `HandHistory` | the parser's work on each line, and what the importer stores of a hand | through `Analysis` | `BooksProofs` |
| `PokerStats`, `LeakEngine` | the application's statistics and leaks | through `Analysis` | - |
| `HeroStats`, `Results` | the library `analytics/`: a second engine and a second set of reports | through `Analysis` | `AnalysisProofs` (`Results`) |
| `Reports` | `services/queries.py`: filters, dashboard, sessions | through `Analysis` | `AnalysisProofs` |
| `SharedHand`, `HubViews` | a hand and a tournament on the hub: serialisation, validation, observations, views | through `Analysis` | `AnalysisProofs` (`HubViews`) |
| `Analysis` | composes them: a hand is played, read, stored, counted, shared; tournaments are imported and reported on | `analysis`, `analysis_shove` | `AnalysisProofs` (tournaments), `BooksProofs` (the books of a hand) |
| `MC...` | the instances for TLC | | |

The lines starting with "Mutant:" in a module precede a definition that no specification
uses: it is the definition after it with a plausible bug, and shows that the property named
in `PROJECT.json` can tell the two apart.

### CommunitySync

*State.* `core[c][t]` is the row of `community_sync_records`: none, pending, or delivered,
and then it *is* the hub row it names. `opp[c][t]` is the row of
`community_opponent_sync_records` with its payload digest. `cfg[c]` holds what the config
row and the DPAPI file say: the number of the pairing (0 for none), the policy accepted,
`opponent_tracking_enabled`, `has_contribution`. `sess[c]` is the operation that holds
`CommunityClient._lock`. On the hub, `stored`, `receipts`, `enriched` and `policy` are the
member's rows of the four tables. `requests` are the uploads the hub works on.

*Steps.* `SyncStart`, `Probe`, `SendTournament`, `RecordAnswer`, `StartOpponents`,
`SendOpponents`, `SyncSave` are the stretches of `sync` between two points at which another
thread or the hub can be seen; `Timeout` and `Crash` may happen in each of them. `HubLookup`
is `sync_tournament` up to its transaction, `HubInsert` and `HubRenew` the two transactions,
`HubConflict` the code after an `IntegrityError`. Of an enrichment, `HubCheckPolicy` is the
authentication and `require_opponent_policy` (`security.py:141`), `HubEnrich` the transaction
that writes the names; an enrolment may come in between. The finer steps of that transaction
are in `OpponentRegistry`. `checked` of a request is a history: how many pairings there were
when its policy was looked at.

*Abstractions.* Every query of `sync_tournament` is restricted to one member, so one member
is followed, with any number of PCs. A tournament's payload is a *version*: two
serialisations are equal exactly when their versions are, and a hub row is the pair of
tournament and version, since the hub makes `content_digest` unique per member. A payload
may change between queueing and sending (`Reidentify`: a later import makes one of its
players a hero). Identical requests that are both unanswered are one element of `requests`:
handling one of two equal late duplicates and then the other differs from handling it once
only by a reply nobody awaits. `last_error_code` and the dates, which `status` shows, are
left out. `join` is one step here (its own steps are those of `CommunityPairing`).

*Delivery* says what a member may rely on. A tournament gets to the hub once in each content
and stays there, and so do its opponents' names. A PC takes a tournament for delivered only
once it is, and then keeps to that content until it forgets everything at once (it leaves,
joins, or deletes its analyses); it may come to doubt that the names were delivered, and
asks again. `CommunitySync` maps to it: `rows` is `stored`, `named` the rows of `enriched`,
`known` and `told` are the records marked as delivered.

### CommunityPairing

A table is a function from row numbers; a new row has the largest number plus one, as SQLite
gives it, so a number comes back once its row is deleted. A handler's reads are steps of
their own; its first write and all up to the commit is one step, with the unique constraints
and the conditional `UPDATE` of the invitation as guards. SQLAlchemy writes only changed
columns: an enrolment for an existing member writes the policy only if it differs from the
one it *loaded* (`Updated`). On the PC, each store (DPAPI file, config commit, queue commit)
is a step, and `Timeout`, `GuardRaises`, `Crash` may come in between. `GuardRaises` is
`ensure_community_post_session` raising after the hub's answer because a game has begun.
`uses`, `left` and `disturbed` are histories, for the properties only. The expiry of an
invitation or device is taken for a revocation; the hub has opponent tracking enabled;
`bootstrap_owner`'s check and insertion are one step.

### OpponentRegistry

One handler's reads of the receipt, of the suppression list and of the row of the *first*
opponent not suppressed come before its transaction: they are the steps `ReadReceipt`,
`CheckSuppression`, `Lookup`. `Write` is the rest: inside the transaction each remaining
opponent is linked to the row it is found in, or to a new one, numbered in the order of the
list; it commits, or undoes everything if a constraint fails; `Conflict` is the handler of
`IntegrityError`, which retries once. A command reads its rows (`Begin`) and erases them by
number (`CommitCommand`); `delete_member` is one transaction from its first write. Profiles
are reduced to identity and `last_seen_at`; `first_seen_at`, alias columns and the facts of
the observations follow the same rows and are left out. The cipher and the HMAC of
`opponent_identity.py` are external: an identity is a model value.

### Archive and HistoryImport

`Archive` says that a tournament gets into the database once it is over, and leaves it only
when the user deletes everything. `HistoryImport` maps to it: `over` is the tournaments with
all hands on disk, `archive` the rows of `tournaments`; `StoredWhole` adds that a row has
every hand.

*State.* `disk[p]` is what Winamax has written of a pair: no hand, some (the last is still to
come), half of the last, all; the summary with its final rank; and whether both delays have
passed since (`old`). `files` has one record for the two rows of a pair in `import_files`,
which are always written together, except that a pair may be known before its summary
(`both`). A pair of `Broken` is not imported: a hand of it cannot be stored, or its summary is
refused (`RefuseSummary`: no Expresso, or no number, date or hero); which of the two is left
open at each scan. `scan[s]` is a `rescan_all` under way, with the pairs that are old enough by its
own reference time, with the places (in the order of the files) still to be visited, and with
what its session has loaded.

*Steps.* The query of `_upsert_file`, the `stat`, the parsers with `is_complete`, and the
query for the tournament are steps of their own. A transaction begins at the first write, so
for files the session knows already it is one step at the end (`CommitMark`,
`CommitImport`); if rows were inserted first, the later query belongs to it as well. The ORM
writes the columns that differ from what was *loaded* (`Marked`), so a scan with stale data
may leave a state alone that another has changed. An error undoes the transaction;
`QueryAgain` then reads the rows again to mark them as failed. `Unreadable` is a `stat` or a
parser that raises, after which the pair is marked as failed. `CutShort` stands for the
latch, a database locked for more than five seconds, and the end of the process; the worker
goes on afterwards, which for the latch and for a crash means the next start.

*Abstractions.* A scan that finds a file too young and one that finds the last hand too
recent both end in "waiting", so the two delays are one Boolean. Players, aliases and
`import_errors` follow the tournament's row and are left out. Assumed of Winamax: it writes
a file within the stable delay of the end of a tournament (`GrowOld`), and the summary gets
its final rank only then. Were the rank to come earlier, with whole hands and a pause of a
minute before the last one, `is_complete` could not tell.

### ProcessGuard and BackendRun

`ProcessGuard` gives the latch, the probe (which may claim a detection without cause, since
a failing probe counts as one) and the polling thread. `BackendRun` runs them beside the
main thread (`boot`: every check and start of `runner.run` and of `main.lifespan`, in their
order), the watcher's start and stop (split where `_observer_started` is set after the
observer runs, and where the observer is stopped after the lock is released), and two
importers: the watcher's worker and a request's thread. What the importer stores is left
out; its looks at the latch and its commits are counted. Joins are bounded by a timeout in
the code and so hold nothing up.

### RateLimiter and HubRun

`buckets` is the `OrderedDict` as a sequence, oldest access first. Times are ages that stop
at `Window`: nothing in `check` tells apart ages beyond it, and the run needs no bound on
time. The event loop alone calls `check`, so it is one step. `admitted` is a history: the
windows as the admissions alone define them, with no table at all, which is what
`AdmittedWithinLimit` compares the table with.

`HubRun` has every check and start of `run` and of `create_hub_app` in their order; the
names that `create_hub_app` decrypts are counted. A request passes the limiter, then the
`process_interlock` middleware; what its handler does is in the modules of the hub. At most
`Handlers` requests are at work at a time.

### The modules of the analysis

`PokerTable`, `HandHistory`, `PokerStats`, `LeakEngine`, `HeroStats`, `Results`, `Reports`,
`SharedHand` and `HubViews` have no variables: they are operators over records, one per
function or branch of the code, and `Analysis` is the state machine over them.

*State.* `table` is a hand under way in the world, `hand` the parser's reading of the lines
written so far, `library` the stored hands (a bag), `games` the stored tournaments.

*Steps.* `Deal` and `Play` let the world do any legal thing: check, call, fold, the smallest
bet or raise and all chips, every outcome of a showdown, shown or mucked, uncalled bets
returned on a line of their own or collected with the pot. The parser reads each line as it
comes. `ImportHand` stores the finished hand as `_persist_hand` does, `Repeats` times, since
the leaks ask for samples of up to 30. `ImportTournament` adds one of a fixed set of
tournaments; `DeleteAll` is `delete_analyzed_data`. The properties evaluate the statistics,
leaks, reports and views on what is stored.

*Reference definitions.* The world keeps, apart from the lines, who put chips in, who raised,
who was in at the flop, who showed and what each won: `StatsAreTrue` and `ObservationsAreTrue`
compare the figures with that, not with the lines. `BooksMatchTable` compares the parser's
and the importer's sums with the world's. `WorstFall` is the worst sum of consecutive
results; the code finds it in one pass. Where the repository has two implementations, they
are compared (`EnginesAgree`, `ReportsAgree`, `SessionsEndWithAPause`) except where they
differ on purpose or by the oddities listed at the end of section 4.

*Abstractions.* Cards are left out: the best hand is chosen at the showdown. Money is in
cents, time in minutes, weeks and months are blocks of days; a rate is a numerator and a
denominator, its rounding left out. The recognition of lines by regular expressions is left
out, and so are the names of the leaks: each is a word that keeps what
`_affected_hand_ids` tells them apart by.

## 3. The runs

| Run | Bounds | What it shows |
|---|---|---|
| `sync_safety` | 2 PCs, 1 tournament in 2 versions, 3 pairings, 1 fault, 2 requests, a quota of 1 tournament | `SyncedIsOnHub`, `ReceiptsAgree`, `SharedReadOnlyWhenDelivered`, `QuotaExceededByHandlersOnly`, `NamesOnlyUnderPolicy2`, `ImplementsDelivery` |
| `sync_live` | 2 PCs, 2 tournaments in 2 versions, 2 pairings, 2 faults, not all of them at once: see below | `EveryTournamentDelivered`, `AccessIsGranted` |
| `pairing` | 2 PCs, 2 names, 2 enrolments, 2 invitations, 1 command, 1 fault | six invariants and `PolicyIsAccepted` |
| `registry` | 2 handlers, 3 tournaments of 2 members that share an opponent, 2 commands | `EnrichmentWhole`, `NoProfileWithoutTournament`, `RetryOnceSuffices`, `SuppressionHolds` |
| `backend_run` | 2 commits per importer | the latch at every point of a run: safety and termination |
| `importer` | 1 tournament in a pair of files and in a damaged copy of it, the worker and 1 request, 1 deletion, scan cut short or file that cannot be read | `StoredWhole`, `ImplementsArchive`, `EveryPairArchived` |
| `hub_run` | 3 callers with limits 1, 2, 2, a table of 2 buckets, a window of 3 ticks, 3 opponents, 2 handlers | quotas, order of the table, names decrypted late, termination |
| `analysis` | every hand of 19 setups of two or three players; every set of 8 tournaments | seven invariants: books, figures, two engines, listed hands, observations, reports, sessions |
| four violation runs | as `pairing`, `registry` and `analysis` | the findings below |

*Why the bounds suffice.* The hub's races need two concurrent requests of one member and one
content conflict: two PCs, two versions, `MaxRequests = 2`. The quota of one tournament is
reached by the first and exceeded by the second handler; that of two receipts is reached by
the second pairing. A stale duplicate needs one timeout and one re-pairing. A registry race needs two handlers and one
command between a read and a write; row reuse needs a deletion and two insertions. An
invitation race needs two enrolments; a `join` after a broken `leave` a second one. The
deletion exemption (`disturbed`) in `TokenNamesItsMember` is not reached within these bounds
(it needs three enrolments); that in `PolicyIsAccepted` is.

Liveness is checked without symmetry, so `MCCommunitySync` bounds a behaviour as a whole
(`Bounded`): one PC with one tournament may meet two faults in two pairings, with a tournament
in two versions that a later import may change; one PC with two tournaments one fault in one
pairing; two PCs with one tournament no fault, and they synchronise as the watcher does. Each
is what one of the hazards takes: an unanswered upload and a change of the payload (`Reidentify`)
are two faults; a queue that stops at a refused tournament needs a second tournament; a policy
lowered by another PC, and a row uploaded by one PC and never enriched, need two PCs and no
fault. No fair action is cut off by these bounds: they limit imports, pairings, faults and reads
that start without the watcher. Two PCs with one fault (1,583,058 states) were checked apart, with
the same result.

An import race needs two scans of one pair; the copy, which names the same tournament, gives
the unique constraint on `external_id` its say, and its damaged hand the rollback. One
deletion or interruption may fall anywhere; the worker scans as often as it likes. Two
buckets for three keys fill the table; three ticks let an access fall inside, at the end of,
and after another key's window.

In `analysis`, stacks of two to four big blinds make every depth of betting end: folds,
calls, raises, re-raises, an all-in below a call, side pots, every street. A player with one
chip in each seat is all in with less than the small or the big blind. Two players with nine,
ten and eleven big blinds, whose bets are all their chips, are on each side of the depth at
which the application speaks of a short stack, and on it. The three seatings give the hero
every position, `Repeats = 30` passes every sample size of
the leaks, `Stacks = 1..54` every band of depths with its bounds. The tournaments have what
reports go wrong at: two that start in the same minute, one inside another, a pause of
exactly the gap, a ticket, an absent end, an absent chip result, two players, one not
completed, one that is no Expresso, one whose multiplier is not known. One hand, or a set of tournaments, is looked at at a
time: the statistics add up hand by hand, and nothing relates a hand to a report. The run
does not mix different hands in one library.

*Deadlock* is checked in the registry, importer and analysis runs. In the sync runs,
`pairing`, `hub_run` and `backend_run` the system may stop: the backend exits, and with all
bounds used up nothing is left to do.

*Fairness.* `CommunitySync`, for each PC: weak fairness of the hub's steps for its requests
(the hub handles each in a thread of its own), of a started `sync` and of a
started read, because threads that run go on running; strong fairness of `SyncStart(c, TRUE)`,
the periodic sync of the watcher, because it waits on a lock that other operations take and
release again and again. Faults are bounded, so "in the end" means once faults end. Leaving,
joining, importing, `status` and `proxy_get` have no fairness. `BackendRun`: weak fairness
of each thread. Winamax, the user and the file system have none, nor has a failing probe.
`HubRun`: likewise for the main thread, the monitor and the handlers. `HistoryImport`: weak
fairness of the worker's scan, which repeats every 30 seconds, and of time (`GrowOld`); what
Winamax writes, requests, deletions and interruptions have none.

*What liveness excepts*, because the code does not recover from it:

* `EveryTournamentDelivered` excepts a PC of which the hub refuses a tournament for good
  (`UploadsStuck`): after an unanswered upload a later import has changed the tournament, so
  that the retry is a conflict (409), or a quota is used up. One refused tournament holds up
  those after it in the queue.
* `AccessIsGranted` asks that the PC holds every tournament, and excepts two cases: a later
  enrolment of the same member that accepted policy 1 only (`lowered`), and a row on the hub
  that no PC can enrich any more (`Stranded`), since the hub asks for the names of every row.

## 4. Findings

Each is a run whose property quotes what the repository says, and which TLC refutes.

1. `registry_retention`: `purge_inactive_opponents` erases by number rows it read before
   (`opponents.py:670`); a profile observed again in between is erased. A `last_seen_at`
   lost between two enrichments (`opponents.py:332`) has the same end.
2. `registry_row_reuse`: an enrichment that has looked up a row number links its tournament
   to whoever has been given that number since (`opponents.py:315`).
3. `pairing_leave`: the guard after the hub's answer (`community_client.py:605`) ends `leave`
   with the token still on the PC, against `README.md:232` and the name of the test at
   `backend/tests/test_community_client.py:464`.
4. `analysis_shove`: the hub's rate of shoves is always 0 %, because no action it receives
   has the type it counts (`opponents.py:134`), against `README.md:156`.

Met while modelling, and part of the models; a property is weakened by exactly the case
named, or says what holds instead:

* A suppression committed while an enrichment that has already looked at the list is under
  way is undone by it (`opponents.py:307`, against `docs/OPPONENT_DATA_POLICY.md:42`).
  `SuppressionHolds` shows that nothing else brings a suppressed opponent back.
* The hub refuses for good a tournament of duration 0, one that another import has
  identified anew after an unanswered upload, and one with a second player known as a hero
  (`schemas.py:119`). Each keeps the shared views shut (`HubTakes`).
* One refused upload ends a `sync` (`community_client.py:909`), so a
  tournament that the hub refuses for good keeps those after it from ever being delivered
  (`UploadsStuck` in `EveryTournamentDelivered`).
* Each enrolment writes the member's one policy (`service.py:83`). A second PC that joins with
  policy 1 shuts the first one out, whose config goes on saying 2 (`lowered` in
  `AccessIsGranted`).
* An enrolment with policy 1 may commit between the look at the policy (`security.py:141`) and
  the transaction that writes the names (`opponents.py:303`): names are then stored under
  policy 1. `NamesOnlyUnderPolicy2` excepts exactly a request whose policy was looked at before
  that enrolment (`Overtaken`).
* `bootstrap_owner` reads and inserts in two steps (`admin.py:33`): two commands at once make
  two owners. The model takes it as one step; it is typed once, by hand, on a new hub.
* `services/poker_stats.py` counts check-raises by street among hands, so the rate can exceed
  100 %; it does not take a mucked hand for a showdown, the hub does. Its 3-bets include cold
  4-bets.
* The hub's 3-bet rate can exceed 100 % for a player who limps and raises again.
* `services/leak_engine.py`: "Trop de folds face à un open" lists no hand; the gap between
  VPIP and PFR lists the hands of VPIP, by its word; a stack of exactly ten big blinds counts
  as short (`poker_stats.py:331`) but is not listed (`leak_engine.py:360`), which
  `CountedHandsAreListed` excepts (`AtTheBound`); the leak of results lists hands of every depth.
* `analytics/hero_stats.py`: `_kind` takes "uncalled_return" for a call; an occasion to bet
  the turn is counted in hands that never had one; a shove is faced after a fold.
* Tickets are a prize for `analytics/results.py` only; breaking even is negative for one
  filter and neither for the other.

## 5. The proofs

Eight developments. The first is about `CommunitySync`, for every value of its constants under
`SyncAssumption`: `TrackingEnabled` is a Boolean, the bounds are natural numbers, and the
model values differ from the data they stand beside. Clients, tournaments and versions may
be any sets, empty or infinite.

* `TypesHold`: `TypeOK`. Its inductive form `TypeInv` adds `SessionsPaired`, without which
  the `client_key` of an upload could name no pairing.
* `ReceiptsAlwaysAgree`: `ReceiptsAgree`. It is inductive only with `RenewalsFindTheirRow`:
  a handler that is about to add a receipt to an existing row knows that row is still there,
  although it looked outside any transaction. This rests on the hub never deleting a row
  while the member exists.
* `ReceiptsStay` is an action property that follows from the types and `HubInv`.
* `NamesNeedPolicy2`: `NamesOnlyUnderPolicy2`. It rests on `WritesWereChecked`, the part of
  `TypeInv` about a handler between its look at the policy and its write: it found policy 2,
  so the policy is still 2 or there has been a pairing since. Only a pairing can make the policy
  1, and it raises `pairings`; an upgrade of consent makes it 2.
* `DeliveredIsOnHub`: `SyncedIsOnHub`, the central promise of the client. A client learns
  of a delivery from one answer, and the record the answer is about may have been deleted,
  or deleted and queued anew, since the question was sent. `DeliveryInv` says what is known
  of an answer on its way: a PC awaits one request at a time and that request has no answer
  yet (`AwaitsOne`), while it waits in the core loop the answer is about the tournament it
  asked for and names a row that exists (`CoreWaits`), in the opponents' loop the record is
  either gone or still names the row that was enriched (`OppWaits`), and nothing that waits
  in the queue has been delivered already (`QueueUndelivered`), so no enrichment can be
  marked as delivered for it.

* `QuotaHolds`: `QuotaExceededByHandlersOnly`. Handlers count the member's tournaments before
  they insert, so the quota cannot hold as it is written. `QuotaInv` says that the requests
  are finite and no more than `MaxRequests`, and that once there is a row or a handler about
  to insert one, rows and such handlers together are at most
  `MaxTournaments + MaxRequests - 1`. A handler gets there only by counting fewer rows than
  the quota, and the others that may be past that count are at most `MaxRequests - 1`; an
  insertion turns a handler into a row. The case of no row and no handler is apart because the
  bound is below zero when both constants are zero.

* `ReadsAreContributed`: `SharedReadOnlyWhenDelivered`, with the invariant `ReadDelivered` of one
  PC beside `DeliveryInv`. Two steps establish it. `ReadStart` opens the view only if the queues,
  just filled from the database, hold nothing that waits: every tournament the PC has is then
  marked as delivered, and by `DeliveryInv` it is (`GatesCheckDelivery`). The PC may learn only
  with the answer that tracking is on: in that case it had not accepted policy 2 and the fetch
  is over. What happens on the hub meanwhile keeps it, because rows and enrichments only grow.
* `SyncImplementsDelivery`: `ImplementsDelivery`. The initial states map to the initial state of
  `Delivery`. Of the steps of a PC, a recorded answer maps to `Learn` or `LearnNamed`, whose
  guards are what `DeliveryInv` says of an answer on its way; joining, leaving and deleting map to
  `Forget`, the queueing of enrichments to `Doubt`, every other one to a stutter; on the hub, an
  insertion maps to `Share`, an enrichment to `Name`. Since the rows of `Delivery` cannot shrink
  and a PC cannot move from one content to another, this also says what no invariant does: how
  the PCs' belief may change.

Each invariant has one lemma per action or per group of actions that change the same state,
and lemmas for the parties the step is not about (`DeliveryFrame`, `HubInvFrame`).

The second is about `HubRun`, for any set of callers, limits, size of the table, length of
the window (positive, as the constructor demands) and number of opponents and handlers:

* `QuotasHold`: `AdmittedWithinLimit`. The table alone cannot show it, for it forgets. The
  invariant `LimiterInv` says that each bucket agrees with the history in age and count
  (`SoundTable`), and that a key whose window is open has a bucket (`ActiveKept`). Removal
  keeps the latter because a bucket is accessed no earlier than its window begins, so one
  whose last access has expired has no open window; a full table keeps it by refusing.
* `TableStaysOrdered`: `OrderedByAccess`, part of the same invariant.
* `OneNameAtMost`: `AtMostOneLateName`. A name decrypted late is followed by a look at the
  latch, which is never lifted (`RunInv`).
* `HubTypesHold`: `TypeOK` with the bound of the table, from `LimiterInv` and `RunInv`; no run
  checks it.

`UnexpiredIsAnEnd` and `Moved` state what the two operations on the table's sequence return;
`LeastElement` derives the first fresh bucket from the well-foundedness of the naturals.

The third is about `BackendRun`, for any bound on the commits. `RunInv` has four parts beside
the types, each kept by every step: `StartInv` (how far the start has come says what exists of
the watcher, its observer and its worker), `ObserverInv` (an observer that runs is being
started or can be asked to stop; whoever asks stops it, at once or as the next step of the
monitor's thread), `MonitorInv` (from its start to the exit the monitor polls, or is on its
way to end the backend, or has told it to) and `LateInv` (a late commit is followed by a look
at the latch). `BackendTypesHold`, `LateCommitsAreFew`, `StopIsAlwaysUnderWay` and
`ObserverEnds` are `TypeOK`, `AtMostOneLateCommit`, `StopIsUnderWay` and `ObserverIsStopped`.

The fourth is about `HistoryImport`, for any scanners and files, stored or not:

* `HistoriesAreWhole`: `StoredWhole`. `ImportInv` says that a pair whose summary is written and
  whose delays have passed has its last hand (`DiskInv`), that a scan's set of old enough pairs
  holds no other, since a pair written meanwhile leaves it, and that a scan from the parsers'
  verdict to the commit of an import has read all hands of a pair that has them all
  (`ScanInv`), and that rows are numbered without a gap, so that a new row overwrites none.
* `ImporterImplementsArchive`: `ImplementsArchive`. The last hand of a pair ends its tournament,
  an import that finds its tournament missing adds it, the deletion clears, and every other step
  leaves both variables of `Archive` as they are. `ImportInv` gives the guard of `Add`.

* `TypesHold`: `TypeOK`, with the unique constraints. The path of a file is unique because the row
  is inserted in the same transaction that finds none, and `external_id` because of two rows one
  was inserted after the other, by a transaction that found the tournament missing
  (`ToursDiffer`). Rows are numbered without a gap, a scan's row was there when it was read, and
  the place a scan is at exists (`Placed`).

`HistoriesAreWhole` and `ImporterImplementsArchive` rest on the assumption built into `GrowOld`,
that Winamax does not let the delays pass between a summary and the last hand.

The fifth is about `CommunityPairing`, for any PCs, names and bounds:

* `InvitesAreUsedOnce`: `InviteUsedOnce`. `InvitesChange` says all that a step can do to the
  table: claim an invitation that is still open in the claiming transaction, add one, cancel
  one, or remove some.
* `QueueFollowsPairing`: `RecordsFollowPairing`. `PairInv` adds what a PC that is in the middle
  of joining has not got yet: no token and no config before the first write, no records before
  the last.

* `TypesHold`, `TokensNameTheirMembers`, `RevocationsHold`: `TypeOK`, `TokenNamesItsMember`,
  `ConfirmedRevocationHolds`. `AccountInv` adds to `PairInv` the hub's tables (`TablesHold`: names
  and tokens are unique, references lead to rows), the requests and what a PC holds.
  `RequestsHold` is about what a handler has read: nobody else knows the token of an enrolment
  that is being served, and the member it is about to write to is the one it has read *unless it
  was disturbed by a deletion*, since the row number may have been given to another. A PC waits
  for one answer at a time (`Apart`, `Meets`), so an answer is about what the PC asked for.
  `PcHolds` then ties the device with a PC's token to its name, and to its revocation once that
  is confirmed.
* `PoliciesAreAccepted`: the action property `PolicyIsAccepted`, from `AccountInv`. The hub's ORM
  writes a policy when it differs from the *loaded* one; the step that turns 1 into 2 is served
  for the request it answers.
* `OrphansAreFaults`: `EachOrphanHasItsFault`. The number of orphans alone is not inductive: a token
  becomes an orphan later than the fault that strands it, as when an answer is lost first and the
  PC forgets the token afterwards. `StrayInv` counts a token as stray from the moment on
  when its PC can only lose it without the hub having been told, enrolments that nobody awaits
  included; each step strands at most one token, and none without a fault.

The sixth is about `OpponentRegistry`, for any handlers, tournaments, lists and commands. Its
invariant `RegistryInv` says, beside the types, what is left of a handler's reads once others have
committed (`ReadsHold`: the items passed over are suppressed, the row found is still its
identity's or was erased), and what holds as long as no command has disturbed it (`Undisturbed`:
what it read is still so, and a first conflict is explained by what is stored now).

* `TypesHold`: `TypeOK`, the foreign keys included.
* `ProfilesHaveTournaments`: `NoProfileWithoutTournament`; a write links all it creates, a command
  erases links with rows, `delete_member` erases rows with their last link.
* `EnrichmentsAreWhole`: `EnrichmentWhole`; a write that is not refused stores every item that is
  not suppressed in a row of its own, and only the host takes links away.
* `SuppressionIsRespected` and `OneRetrySuffices`: the action properties `SuppressionHolds` and
  `RetryOnceSuffices`. The retry's first lookup finds the row that made the first attempt fail,
  so its transaction begins with an update and cannot be refused by another enrichment.

The seventh is about the tournaments of `Analysis`: what the application, the library and the
hub report of any finite set of them, not only of the eight of the run.
`TournamentsAssumption` gives the fields their types and says that a tournament is known by its
`id`, a primary key, and that one started later was not started on an earlier day: the day is
the date of the naive UTC `started_at` (`community_hub/service.py:561`). The gap between two
sessions is any integer. The inductive invariant, `Kept`, says that what is stored is a finite
subset of `Tournaments` (`KeepsGames`); the work is in showing that two reports computed in
different ways say the same of such a set.

* `ReportsAlwaysAgree`: `ReportsAgree`, in three parts. `DashboardsAgree`: the dashboard of
  `services/queries.py` and the reports of `analytics/results.py` give the same sums, curve,
  breakdowns, and a downswing that is the worst sum of consecutive results. Each pass keeps
  the deepest fall found so far of the partial sums (`DownswingRuns`, `DrawdownRuns`), and the
  greatest fall is what the worst slice loses (`WorstFallIs`). `FiltersSelectTheSame`: the two
  filters keep the same tournaments, those that break even apart. `HubShowsTheSame`: the hub's
  profile is the dashboard of what was shared, and the points of its trend are the sums of the
  results up to each day (`DayAfterDay`, `TrendShows`), which is where days and starts must agree.
* `SessionsAlwaysEndWithAPause`: `SessionsEndWithAPause`. `GroupSessions` compares a start with
  the *latest* end of the session so far, `BuildSessions` with the end of the tournament started
  last. A list of groups is seen as the places where the ordered sequence is cut. `Reached`
  is the invariant of the first pass: it has cut exactly where a pause precedes, the end it
  holds is that of some tournament, and one that ended later did so more than a gap before
  another one started (without the last part, which only a negative gap or an end before the
  start makes use of, it is not inductive). `SameGroups` shows the same cuts for the second pass as long as no tournament
  outlasts a later one, as the property says; `AllPlaced` shows that it cuts at every pause in
  any case, so that `build_sessions` never makes one session of two, and `LineOfSession` the figures of a group.

The provers know no value of a fold, so the first sections of `AnalysisProofs` give it one: a
fold over a finite set has a sequence of values, one per element, in the order in which `CHOOSE`
picks them (`FoldExists`), whose last does not depend on that order when it is a sum
(`AnyOrder`, `SumIs`), and a fold over a sequence has one value per step (`LeftSteps`). A
property of every such value is shown by induction on a *set* of numbers or of subsets named in
the lemma (`UpTo`, `FromOne`, `OneByOne`), which follow from the well-foundedness of the naturals
and need no operator as a parameter.

The eighth is about the hand of `Analysis`, for any setups within `SetupsAssumption`: two or three
players in different seats, any stacks, any blinds, zero included, uncalled bets returned on a
line of their own or not. It uses the lemmas of `AnalysisProofs` on sums and folds.

* `BooksAlwaysMatch`: `BooksMatchTable`. Its inductive form `BooksInv` says of the table and of the
  reading of its lines (`Books`), as long as the hand goes on:
  - `Betting`: nobody has put in more than his stack; some player still in has put in the most, on
    the street and in the hand; and whoever may still bet, or has bet on the street, had put in as
    much as anybody before it (`Abreast`). Without that last part nothing would follow from a raise:
    the highest bet of the street need not be the highest payment of the hand. A fold is open only to
    one who owes something, so the leader never folds. That a player still in has put in the most is
    why the levels of the side pots, which are those of the players still in, reach every chip.
  - `Follows`: `invested` and `contributions` are what the table says, and the importer's pass over
    the actions (`RunOf`), which keeps contributions of its own, has counted as much. The parser
    clears the contributions at the line of a street, the importer at the first *action* of it, so
    between the two they differ: `SameStreet` says when they agree, and that the importer is never
    ahead.

  Once it is over, `Settled`: winnings, pot and running pot agree with the table. Each move is one
  line (`MovesKeepBooks` for the table, `MoveRead` for the parser and the importer, each of which
  finds what a raise costs from its level and contributions of its own). The last step writes many
  lines, which are read part after part (`FourParts`): the returned bet, what moves no chip, the collections, the
  summary, with what each part keeps (`UncalledPart`, `QuietPart`, `CollectsPart`, `SummaryRead`,
  `SeatsPart`). The summary's seat lines repeat the winnings, and `_apply_summary_seat` must not
  count them twice (`SeatRead`). `PotsShared` is the arithmetic of the pots: the shares of one pot
  add up to it, the odd chip included (`SharesAre`), and the pots, each of which is the difference
  of what lies below two levels (`UpToLevelIs`), telescope to all that was paid
  (`FlattenedWorth`).

`BackendTypesHold`, `ReceiptsStay`, `HubTypesHold` and `TypesHold` of `CommunitySyncProofs` are
proved and not checked by a run: what they say is checked there through stronger properties.

Elsewhere folds are avoided: hence the set of places a scan of `HistoryImport` keeps, and the
single function by which `Write` of `OpponentRegistry` stores a list.

**Only model-checked**:

* the liveness properties, out of the prover's reach: `EveryTournamentDelivered`,
  `AccessIsGranted`, `TripStopsBackend`, `WinamaxStopsBackend`, `EveryPairArchived`,
  `TripStopsHub`;
* the four properties of `Analysis` about what is computed from a stored hand: `StatsAreTrue`,
  `EnginesAgree`, `CountedHandsAreListed`, `ObservationsAreTrue`. They compare dozens of counters,
  each with conditions of its own on the order of the actions and over sequences filtered with
  `SelectSeq`, with the history of the table; an invariant for them has to say for each counter
  what every prefix of the lines has shown. `BooksAlwaysMatch` gives the part they share: the
  chips.

## 6. Not modelled, and why

* *Text*: the regular expressions of the parser, encodings, the summary file's format, wording
  and rounding of what is displayed, the frontend. A line is a record of what it says.
* *Cryptography*: the cipher and the HMAC of opponents' identities, DPAPI, tokens and their
  hashes. An identity or a token is a value that equals itself only.
* *The rest of the library `analytics/`*: `leaks.py`, `classification.py` and `equity.py` are
  called by tests only, except `calculate_equity`, an enumeration of cards (`router.py:15`);
  the models have no cards.
* `services/contribution.py` (an aggregation into bands, shown and not sent), the routes of
  `router.py` that only read, pagination and lists of members on the hub, body limits and
  cache headers: no state, no interaction.
* `services/activity_guard.py`: whether it raises is a choice in `CommunityPairing` and
  `CommunitySync`; what it looks at (sizes and dates of files) is not modelled.
* `restore_backup` (`data_management.py:74`): it brings back the sync records and the config of
  an earlier pairing beside the present DPAPI secret, so that records marked delivered may name
  rows of another account. It is a listed hazard without a property: it needs the records of
  several accounts in one module, and `CommunitySync` follows one member.
* Deployment scripts and hub backups: shell around the commands.

## 7. Plan

What is left, in this order:

1. Two members in one module, for `restore_backup`.
2. Libraries of two different hands in `Analysis`.
3. A proof of `StatsAreTrue` on the ground of `BooksAlwaysMatch`, counter by counter.
