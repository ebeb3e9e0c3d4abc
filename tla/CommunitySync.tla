---------------------------- MODULE CommunitySync ----------------------------
(***************************************************************************)
(* The delivery of completed tournaments from a member's PCs to the         *)
(* community hub: services/community_client.py on each PC, and the hub's    *)
(* community_hub/service.py (sync_tournament), the acceptance rules of      *)
(* opponents.py and the access gates of security.py.                        *)
(*                                                                          *)
(* Every query of sync_tournament is restricted to one member, so the       *)
(* module follows one member: Clients are the PCs that member has paired,   *)
(* now or one after the other (join, leave, join again).  A tournament's    *)
(* payloads are abstracted to a version: two serialisations of a tournament *)
(* are equal exactly when the versions are.  A hub row is named by its      *)
(* content, which the hub keeps unique per member (content_digest).         *)
(***************************************************************************)
EXTENDS Naturals, FiniteSets

CONSTANTS
  Clients,          \* PCs paired with the member's account
  Tournaments,      \* completed Expresso tournaments (external ids)
  Versions,         \* what the payload of a tournament may be
  Absent,           \* not in a PC's local database
  None,             \* no record, no row, no answer
  Pending,          \* a record that waits for its delivery
  Rejected,         \* an answer that is not 200 or 201
  TrackingEnabled,  \* hub configuration: opponent tracking on
  MaxTournaments,   \* hub quota: tournaments of one member
  MaxReceipts,      \* hub quota: receipts of one tournament
  MaxPairings,      \* bound: pairings (client secrets) ever made
  MaxFaults,        \* bound: timeouts, crashes, refusals, departures, deletions
  MaxRequests       \* bound: uploads the hub is working on at a time

ASSUME SyncAssumption ==
  /\ TrackingEnabled \in BOOLEAN
  /\ Absent \notin Versions
  /\ Pending # None /\ {None, Pending, Rejected} \cap (Tournaments \X Versions) = {}
  /\ None \notin Tournaments
  /\ {MaxTournaments, MaxReceipts, MaxPairings, MaxFaults, MaxRequests} \subseteq Nat

VARIABLES
  local,     \* [Clients -> [Tournaments -> version imported, or Absent]]
  core,      \* community_sync_records: None, Pending, or the hub row it was delivered to
  opp,       \* community_opponent_sync_records: state and payload digest
  cfg,       \* community config row and DPAPI secrets of each PC; last_error_code and the
             \* dates, which only status shows, are left out
  sess,      \* the operation that holds CommunityClient._lock, if any
  stored,    \* hub: shared_tournaments of the member
  receipts,  \* hub: sync_receipts of the member, client_key -> row
  enriched,  \* hub: opponent_sync_receipts, row -> payload digest
  policy,    \* hub: members.policy_version
  requests,  \* uploads the hub is working on; "checked" is a history: the pairings made when
             \* the request was found to be under policy 2
  pairings,  \* pairings made so far; its number names a pairing's client_secret
  faults     \* faults so far

client_vars == <<local, core, opp, cfg>>
hub_vars    == <<stored, receipts, enriched, policy>>
vars == <<client_vars, sess, hub_vars, requests, pairings, faults>>

Errors   == {"ok", "offline", "rejected", "consent"}
Policies == {"1", "2"}
Contents == Tournaments \X Versions
Keys     == (1..MaxPairings) \X Tournaments
NoOpp    == [state |-> "none", digest |-> Absent]
Unpaired == [secret |-> 0, consent |-> "1", tracking |-> FALSE, has |-> FALSE]
Idle     == [pc |-> "idle", todo |-> {}, at |-> None, result |-> None, err |-> "ok",
             has |-> FALSE, tracking |-> FALSE, revalidate |-> FALSE, seen |-> {}]
Nothing  == [k \in {} |-> None]

Put(f, k, v) == [x \in DOMAIN f \cup {k} |-> IF x = k THEN v ELSE f[x]]

Init ==
  /\ local = [c \in Clients |-> [t \in Tournaments |-> Absent]]
  /\ core  = [c \in Clients |-> [t \in Tournaments |-> None]]
  /\ opp   = [c \in Clients |-> [t \in Tournaments |-> NoOpp]]
  /\ cfg   = [c \in Clients |-> Unpaired]
  /\ sess  = [c \in Clients |-> Idle]
  /\ stored = {} /\ receipts = Nothing /\ enriched = Nothing /\ policy = "1"
  /\ requests = {} /\ pairings = 0 /\ faults = 0

Fault == faults < MaxFaults /\ faults' = faults + 1

-----------------------------------------------------------------------------
(* The local database, changed by the importer and the data-management       *)
(* routes, which do not take the community lock.                             *)

Import(c, t, v) ==
  /\ local[c][t] = Absent
  /\ local' = [local EXCEPT ![c][t] = v]
  /\ UNCHANGED <<core, opp, cfg, sess, hub_vars, requests, pairings, faults>>

\* An already imported tournament serialises differently: a later import has made
\* one of its players a hero (_get_or_create_player).
Reidentify(c, t, v) ==
  /\ local[c][t] \notin {Absent, v}
  /\ Fault
  /\ local' = [local EXCEPT ![c][t] = v]
  /\ UNCHANGED <<core, opp, cfg, sess, hub_vars, requests, pairings>>

\* delete_analyzed_data; both record tables follow by ON DELETE CASCADE.
DeleteAnalyzedData(c) ==
  /\ \E t \in Tournaments : local[c][t] # Absent
  /\ Fault
  /\ local' = [local EXCEPT ![c] = [t \in Tournaments |-> Absent]]
  /\ core'  = [core EXCEPT ![c] = [t \in Tournaments |-> None]]
  /\ opp'   = [opp EXCEPT ![c] = [t \in Tournaments |-> NoOpp]]
  /\ UNCHANGED <<cfg, sess, hub_vars, requests, pairings>>

-----------------------------------------------------------------------------
(* The client's queues.                                                      *)

Paired(c) == cfg[c].secret # 0 /\ sess[c].pc = "idle"

\* Mutant: what was delivered is queued again.
EnqueueAgain(c) == [t \in Tournaments |-> IF local[c][t] # Absent THEN Pending ELSE core[c][t]]

EnqueueCompleted(c) ==
  [t \in Tournaments |->
     IF core[c][t] = None /\ local[c][t] # Absent THEN Pending ELSE core[c][t]]

NeedsEnrichment(c, k, revalidate) ==
  {t \in Tournaments :
     /\ k[t] \in Contents /\ local[c][t] # Absent
     /\ \/ opp[c][t].state = "none"
        \/ revalidate /\ opp[c][t].digest # local[c][t]}

\* k is the core queue as just enqueued; the flags are those of the saved config.
EnqueueOpponents(c, k, g, revalidate) ==
  [t \in Tournaments |->
     IF g.tracking /\ g.consent = "2" /\ t \in NeedsEnrichment(c, k, revalidate)
     THEN [state |-> "pending", digest |-> local[c][t]]
     ELSE opp[c][t]]

PendingCore(k) == {t \in Tournaments : k[t] = Pending}
PendingOpp(o)  == {t \in Tournaments : o[t].state = "pending"}

Enqueue(c, g, revalidate) ==
  LET k == EnqueueCompleted(c)
  IN  /\ core' = [core EXCEPT ![c] = k]
      /\ opp'  = [opp EXCEPT ![c] = EnqueueOpponents(c, k, g, revalidate)]

Status(c) ==
  /\ Paired(c)
  /\ Enqueue(c, cfg[c], FALSE)
  /\ UNCHANGED <<local, cfg, sess, hub_vars, requests, pairings, faults>>

\* join, as one step (CommunityPairing models its own crash points): the hub's enroll
\* writes the policy the invitation was accepted under, and the queues start again.
Join(c, p) ==
  /\ cfg[c].secret = 0
  /\ pairings < MaxPairings
  /\ p = "2" => TrackingEnabled
  /\ pairings' = pairings + 1
  /\ policy' = p
  /\ cfg' = [cfg EXCEPT ![c] = [secret |-> pairings', consent |-> p, tracking |-> p = "2",
                                has |-> FALSE]]
  /\ core' = [core EXCEPT ![c] =
                [t \in Tournaments |-> IF local[c][t] # Absent THEN Pending ELSE None]]
  /\ opp' = [opp EXCEPT ![c] = [t \in Tournaments |-> NoOpp]]
  /\ UNCHANGED <<local, sess, stored, receipts, enriched, requests, faults>>

Leave(c) ==
  /\ Paired(c)
  /\ Fault
  /\ cfg'  = [cfg EXCEPT ![c] = Unpaired]
  /\ core' = [core EXCEPT ![c] = [t \in Tournaments |-> None]]
  /\ opp'  = [opp EXCEPT ![c] = [t \in Tournaments |-> NoOpp]]
  /\ UNCHANGED <<local, sess, hub_vars, requests, pairings>>

\* POST /v1/consent; when the answer is lost the hub has recorded it all the same.
UpgradeConsent(c) ==
  /\ Paired(c) /\ TrackingEnabled
  /\ policy' = "2"
  /\ LET g == [cfg[c] EXCEPT !.consent = "2", !.tracking = TRUE]
     IN  \/ /\ cfg' = [cfg EXCEPT ![c] = g]
            /\ opp' = [opp EXCEPT ![c] = EnqueueOpponents(c, core[c], g, FALSE)]
            /\ UNCHANGED faults
         \/ Fault /\ UNCHANGED <<cfg, opp>>
  /\ UNCHANGED <<local, core, sess, stored, receipts, enriched, requests, pairings>>

-----------------------------------------------------------------------------
(* CommunityClient.sync, holding the lock from SyncStart to SyncSave.        *)

SyncStart(c, revalidate) ==
  /\ Paired(c)
  /\ core' = [core EXCEPT ![c] = EnqueueCompleted(c)]
  /\ LET todo == PendingCore(core'[c])
     IN  sess' = [sess EXCEPT ![c] =
                    [Idle EXCEPT !.pc = IF todo = {} THEN "probe" ELSE "core", !.todo = todo,
                                 !.has = cfg[c].has, !.tracking = cfg[c].tracking,
                                 !.revalidate = revalidate]]
  /\ UNCHANGED <<local, opp, cfg, hub_vars, requests, pairings, faults>>

\* GET /v1/me, only when no tournament waits.
Probe(c) ==
  /\ sess[c].pc = "probe"
  /\ \/ /\ sess' = [sess EXCEPT ![c].pc = "core", ![c].has = stored # {},
                       ![c].tracking = TrackingEnabled,
                       ![c].err = IF TrackingEnabled /\ cfg[c].consent # "2"
                                  THEN "consent" ELSE "ok"]
        /\ UNCHANGED faults
     \/ /\ Fault
        /\ \E e \in {"offline", "rejected"} :
             sess' = [sess EXCEPT ![c].pc = "core", ![c].err = e]
  /\ UNCHANGED <<client_vars, hub_vars, requests, pairings>>

\* The payload sent is the tournament's present one, not the one whose digest was queued.
Upload(c, t, row) ==
  [from |-> c, awaited |-> TRUE, key |-> <<cfg[c].secret, t>>, row |-> row,
   body |-> local[c][t], phase |-> IF row = None THEN "new" ELSE "enrich", checked |-> 0]

Send(c, from, t, row) ==
  IF local[c][t] = Absent
  THEN /\ sess' = [sess EXCEPT ![c].todo = @ \ {t}]
       /\ UNCHANGED requests
  ELSE /\ Cardinality(requests) < MaxRequests
       /\ requests' = requests \cup {Upload(c, t, row)}
       /\ sess' = [sess EXCEPT ![c].pc = from, ![c].at = t, ![c].result = None]

SendTournament(c, t) ==
  /\ sess[c].pc = "core" /\ t \in sess[c].todo
  /\ Send(c, "coreWait", t, None)
  /\ UNCHANGED <<client_vars, hub_vars, pairings, faults>>

SendOpponents(c, t) ==
  /\ sess[c].pc = "opp" /\ t \in sess[c].todo
  /\ IF core[c][t] \in Contents
     THEN Send(c, "oppWait", t, core[c][t])
     ELSE sess' = [sess EXCEPT ![c].todo = @ \ {t}] /\ UNCHANGED requests
  /\ UNCHANGED <<client_vars, hub_vars, pairings, faults>>

Queue(pc) == IF pc = "coreWait" THEN "core" ELSE "opp"
Waiting(c) == sess[c].pc \in {"coreWait", "oppWait"}
Unawait(c) == {[r EXCEPT !.awaited = r.awaited /\ r.from # c] : r \in requests}

\* Mutant: the answer is recorded whether or not its record is still there.
RecordRecreated(c) == FALSE

\* The record the answer is about went with its tournament: the ORM's UPDATE matches no
\* row and the whole sync ends with an exception, saving nothing more.
RecordDeleted(c) == core[c][sess[c].at] = None

Stop(c, e) ==
  sess' = [sess EXCEPT ![c] =
             IF RecordDeleted(c) THEN Idle
             ELSE [sess[c] EXCEPT !.pc = Queue(@), !.todo = {}, !.err = e, !.at = None,
                                  !.result = None]]

Answered(c, s) ==
  [sess EXCEPT ![c] = [s EXCEPT !.pc = Queue(@), !.todo = @ \ {s.at}, !.at = None,
                                !.result = None]]

RecordAnswer(c) ==
  /\ Waiting(c) /\ sess[c].result # None
  /\ IF sess[c].result = Rejected \/ RecordDeleted(c)
     THEN Stop(c, "rejected") /\ UNCHANGED <<core, opp>>
     ELSE LET t == sess[c].at
          IN  IF sess[c].pc = "coreWait"
              THEN /\ core' = [core EXCEPT ![c][t] = sess[c].result]
                   /\ sess' = Answered(c, [sess[c] EXCEPT !.has = TRUE])
                   /\ UNCHANGED opp
              ELSE /\ opp' = [opp EXCEPT ![c][t].state = "synced"]
                   /\ sess' = Answered(c, sess[c])
                   /\ UNCHANGED core
  /\ UNCHANGED <<local, cfg, hub_vars, requests, pairings, faults>>

\* httpx gives up, whether or not the hub has handled the request, or still will.
Timeout(c) ==
  /\ Waiting(c)
  /\ Fault
  /\ Stop(c, "offline")
  /\ requests' = Unawait(c)
  /\ UNCHANGED <<client_vars, hub_vars, pairings>>

\* The delivery loop is over, by its end or by a break: enqueue the enrichments, and
\* go on to them unless something has failed already.
StartOpponents(c) ==
  /\ sess[c].pc = "core" /\ sess[c].todo = {}
  /\ opp' = [opp EXCEPT ![c] = EnqueueOpponents(c, core[c], cfg[c], sess[c].revalidate)]
  /\ LET pend == PendingOpp(opp'[c])
         e    == IF pend # {} /\ cfg[c].consent # "2" THEN "consent" ELSE sess[c].err
     IN  sess' = [sess EXCEPT ![c].pc = "opp", ![c].err = e,
                             ![c].todo = IF e = "ok" THEN pend ELSE {}]
  /\ UNCHANGED <<local, core, cfg, hub_vars, requests, pairings, faults>>

\* Mutant: the hub's tracking flag is not kept from one sync to the next.
SyncSaveForgets(c) ==
  /\ sess[c].pc = "opp" /\ sess[c].todo = {}
  /\ cfg' = [cfg EXCEPT ![c].has = sess[c].has, ![c].tracking = FALSE]
  /\ sess' = [sess EXCEPT ![c] = Idle]
  /\ UNCHANGED <<local, core, opp, hub_vars, requests, pairings, faults>>

SyncSave(c) ==
  /\ sess[c].pc = "opp" /\ sess[c].todo = {}
  /\ cfg' = [cfg EXCEPT ![c].has = sess[c].has, ![c].tracking = sess[c].tracking]
  /\ sess' = [sess EXCEPT ![c] = Idle]
  /\ UNCHANGED <<local, core, opp, hub_vars, requests, pairings, faults>>

\* The process ends, or a guard (ensure_community_post_session) raises, in the middle.
Crash(c) ==
  /\ sess[c].pc # "idle"
  /\ Fault
  /\ sess' = [sess EXCEPT ![c] = Idle]
  /\ requests' = Unawait(c)
  /\ UNCHANGED <<client_vars, hub_vars, pairings>>

-----------------------------------------------------------------------------
(* CommunityClient.proxy_get, the only way to the shared views.              *)

\* Mutant: only the configuration is looked at, not the queues.
MayReadWhileQueued(c) ==
  /\ ~ (cfg[c].tracking /\ cfg[c].consent # "2")
  /\ (\E t \in Tournaments : core'[c][t] \in Contents) \/ cfg[c].has

MayRead(c) ==
  /\ ~ (cfg[c].tracking /\ cfg[c].consent # "2")
  /\ PendingCore(core'[c]) = {} /\ PendingOpp(opp'[c]) = {}
  /\ (\E t \in Tournaments : core'[c][t] \in Contents) \/ cfg[c].has

ReadStart(c) ==
  /\ Paired(c)
  /\ Enqueue(c, cfg[c], FALSE)
  /\ sess' = IF MayRead(c)
             THEN [sess EXCEPT ![c] =
                     [Idle EXCEPT !.pc = "read",
                                  !.seen = {t \in Tournaments : local[c][t] # Absent}]]
             ELSE sess
  /\ UNCHANGED <<local, cfg, hub_vars, requests, pairings, faults>>

\* require_contribution and require_collective_access.
HubGrantsAccess ==
  /\ stored # {}
  /\ TrackingEnabled => policy = "2" /\ stored \subseteq DOMAIN enriched

ReadAnswer(c) ==
  /\ sess[c].pc = "read"
  /\ \/ /\ cfg' = [cfg EXCEPT ![c].tracking =
                         @ \/ (~HubGrantsAccess /\ cfg[c].consent # "2")]
        /\ UNCHANGED faults
     \/ Fault /\ UNCHANGED cfg
  /\ sess' = [sess EXCEPT ![c] = Idle]
  /\ UNCHANGED <<local, core, opp, hub_vars, requests, pairings>>

-----------------------------------------------------------------------------
(* The hub.  A handler reads outside any transaction, and its writes become  *)
(* one transaction that the unique constraints may refuse at commit; other   *)
(* handlers run in between.                                                  *)

Reply(r, answer) ==
  /\ requests' = requests \ {r}
  /\ sess' = IF r.awaited THEN [sess EXCEPT ![r.from].result = answer] ELSE sess

Advance(r, phase) ==
  /\ requests' = (requests \ {r}) \cup {[r EXCEPT !.phase = phase]}
  /\ UNCHANGED sess

Content(r) == <<r.key[2], r.body>>
Receipts(row) == {k \in DOMAIN receipts : receipts[k] = row}
HasReceipt(r) == r.key \in DOMAIN receipts

\* Mutant: a retry is a conflict.
RetryRefused(r) == Reply(r, Rejected)

\* client_key already used: the same content is answered again, another is a conflict.
ReplyFromReceipt(r) ==
  Reply(r, IF receipts[r.key] = Content(r) THEN Content(r) ELSE Rejected)

\* _ensure_receipt_quota, then the insertion of a receipt for a row already there.
GoRenew(r, phase) ==
  IF Cardinality(Receipts(Content(r))) >= MaxReceipts
  THEN Reply(r, Rejected)
  ELSE Advance(r, phase)

\* Mutant: the number of tournaments is not looked at.
HubLookupNoQuota(r) ==
  /\ r.phase = "new"
  /\ IF HasReceipt(r) THEN ReplyFromReceipt(r)
     ELSE IF Content(r) \in stored THEN GoRenew(r, "renew")
     ELSE Advance(r, "insert")
  /\ UNCHANGED <<client_vars, hub_vars, pairings, faults>>

HubLookup(r) ==
  /\ r.phase = "new"
  /\ IF HasReceipt(r) THEN ReplyFromReceipt(r)
     ELSE IF Content(r) \in stored THEN GoRenew(r, "renew")
     ELSE IF Cardinality(stored) + 1 > MaxTournaments THEN Reply(r, Rejected)
     ELSE Advance(r, "insert")
  /\ UNCHANGED <<client_vars, hub_vars, pairings, faults>>

AddReceipt(r) ==
  /\ receipts' = Put(receipts, r.key, Content(r))
  /\ Reply(r, Content(r))

HubRenew(r) ==
  /\ r.phase \in {"renew", "renewLast"}
  /\ IF ~HasReceipt(r) THEN AddReceipt(r)
     ELSE /\ IF r.phase = "renew" THEN ReplyFromReceipt(r) ELSE Reply(r, Rejected)
          /\ UNCHANGED receipts
  /\ UNCHANGED <<client_vars, stored, enriched, policy, pairings, faults>>

\* Mutant: the row is committed before its receipt.
HubInsertInTwo(r) ==
  /\ r.phase = "insert"
  /\ IF HasReceipt(r) \/ Content(r) \in stored
     THEN Advance(r, "conflict") /\ UNCHANGED <<stored, receipts>>
     ELSE /\ stored' = stored \cup {Content(r)}
          /\ Advance(r, "renewLast")
          /\ UNCHANGED receipts
  /\ UNCHANGED <<client_vars, enriched, policy, pairings, faults>>

HubInsert(r) ==
  /\ r.phase = "insert"
  /\ IF HasReceipt(r) \/ Content(r) \in stored
     THEN Advance(r, "conflict") /\ UNCHANGED <<stored, receipts>>
     ELSE AddReceipt(r) /\ stored' = stored \cup {Content(r)}
  /\ UNCHANGED <<client_vars, enriched, policy, pairings, faults>>

\* The transaction was refused (IntegrityError): find out who was first.
HubConflict(r) ==
  /\ r.phase = "conflict"
  /\ IF HasReceipt(r) /\ receipts[r.key] = Content(r) THEN Reply(r, Content(r))
     ELSE IF Content(r) \in stored THEN GoRenew(r, "renewLast")
     ELSE Reply(r, Rejected)
  /\ UNCHANGED <<client_vars, hub_vars, pairings, faults>>

\* What the hub looks at before it writes: the policy, then the row and its aliases, which
\* those of another version may not match.
MayEnrich(r) == r.row \in stored /\ TrackingEnabled /\ policy = "2"
SameEnrichment(r) == r.row \in DOMAIN enriched /\ enriched[r.row] = r.body

Checked(r) ==
  /\ requests' = (requests \ {r}) \cup {[r EXCEPT !.phase = "write", !.checked = pairings]}
  /\ UNCHANGED sess

\* Mutant: the member's policy is not asked for.
HubCheckPolicyNot(r) ==
  /\ r.phase = "enrich"
  /\ IF r.row \in stored /\ TrackingEnabled THEN Checked(r) ELSE Reply(r, Rejected)
  /\ UNCHANGED <<client_vars, hub_vars, pairings, faults>>

\* POST .../opponents, up to its transaction; an enrolment may lower the policy afterwards.
HubCheckPolicy(r) ==
  /\ r.phase = "enrich"
  /\ \/ MayEnrich(r) /\ Checked(r)
     \/ /\ ~MayEnrich(r) \/ (r.body # r.row[2] /\ ~SameEnrichment(r))
        /\ Reply(r, Rejected)
  /\ UNCHANGED <<client_vars, hub_vars, pairings, faults>>

\* ... and the transaction (OpponentRegistry has its steps): one enrichment per row, the
\* same one is answered again, another is a conflict.
HubEnrich(r) ==
  /\ r.phase = "write"
  /\ IF r.row \in DOMAIN enriched
     THEN /\ Reply(r, IF SameEnrichment(r) THEN r.row ELSE Rejected)
          /\ UNCHANGED enriched
     ELSE /\ Reply(r, r.row)
          /\ enriched' = Put(enriched, r.row, r.body)
  /\ UNCHANGED <<client_vars, stored, receipts, policy, pairings, faults>>

\* 401, 422, 429, or 503 when the hub's own interlock trips before the commit.
HubRefuse(r) ==
  /\ Fault
  /\ Reply(r, Rejected)
  /\ UNCHANGED <<client_vars, hub_vars, pairings>>

-----------------------------------------------------------------------------
LocalStep ==
  \E c \in Clients :
    \/ \E t \in Tournaments, v \in Versions : Import(c, t, v) \/ Reidentify(c, t, v)
    \/ DeleteAnalyzedData(c)
    \/ \E p \in Policies : Join(c, p)
    \/ Leave(c) \/ UpgradeConsent(c) \/ Status(c) \/ Crash(c)

SyncStep(c) ==
  \/ Probe(c) \/ RecordAnswer(c) \/ StartOpponents(c) \/ SyncSave(c)
  \/ \E t \in Tournaments : SendTournament(c, t) \/ SendOpponents(c, t)

HubServes(r) ==
  \/ HubLookup(r) \/ HubRenew(r) \/ HubInsert(r) \/ HubConflict(r)
  \/ HubCheckPolicy(r) \/ HubEnrich(r)

HubStep == \E r \in requests : HubServes(r)

ClientStep(c) ==
  \/ \E b \in BOOLEAN : SyncStart(c, b)
  \/ SyncStep(c) \/ Timeout(c) \/ ReadStart(c) \/ ReadAnswer(c)

Next ==
  \/ LocalStep
  \/ \E c \in Clients : ClientStep(c)
  \/ HubStep
  \/ \E r \in requests : HubRefuse(r)

Spec == Init /\ [][Next]_vars
\* The steps that must happen.  An answer is recorded, a started operation goes on and the
\* hub handles what it received from each PC in a thread of its own (weak fairness: nothing
\* disables them but their own success or a fault); the watcher's periodic sync, which waits
\* for the lock between other operations, is strongly fair.
Fairness ==
  \A c \in Clients : /\ WF_vars(\E r \in requests : r.from = c /\ HubServes(r))
                      /\ WF_vars(SyncStep(c) \/ ReadAnswer(c))
                      /\ SF_vars(SyncStart(c, TRUE))

FairSpec == Spec /\ Fairness

-----------------------------------------------------------------------------
Row(x) == x \in Contents

CoreRecord == Contents \cup {None, Pending}
OppRecord  == [state : {"none", "pending", "synced"}, digest : Versions \cup {Absent}]
Config     == [secret : 0..MaxPairings, consent : Policies, tracking : BOOLEAN, has : BOOLEAN]
Session    == [pc : {"idle", "probe", "core", "coreWait", "opp", "oppWait", "read"},
               todo : SUBSET Tournaments, at : Tournaments \cup {None},
               result : Contents \cup {None, Rejected}, err : Errors,
               has : BOOLEAN, tracking : BOOLEAN, revalidate : BOOLEAN,
               seen : SUBSET Tournaments]
Request    == [from : Clients, awaited : BOOLEAN, key : Keys, row : Contents \cup {None},
               body : Versions,
               phase : {"new", "renew", "renewLast", "insert", "conflict", "enrich", "write"},
               checked : 0..MaxPairings]

ClientTypes ==
  /\ local \in [Clients -> [Tournaments -> Versions \cup {Absent}]]
  /\ core \in [Clients -> [Tournaments -> CoreRecord]]
  /\ opp \in [Clients -> [Tournaments -> OppRecord]]
  /\ cfg \in [Clients -> Config]

HubTypes ==
  /\ stored \subseteq Contents
  /\ DOMAIN receipts \subseteq Keys /\ \A k \in DOMAIN receipts : Row(receipts[k])
  /\ DOMAIN enriched \subseteq Contents
  /\ \A row \in DOMAIN enriched : enriched[row] \in Versions
  /\ policy \in Policies

\* Types of the tables, of a session and of a request.
TypeOK ==
  /\ ClientTypes /\ HubTypes
  /\ sess \in [Clients -> Session] /\ requests \subseteq Request
  /\ pairings \in 0..MaxPairings /\ faults \in 0..MaxFaults

\* A record marked delivered names a row the hub still has, of that very tournament,
\* and an enrichment is marked delivered only for a row the hub has enriched, whatever
\* was lost, retried, deleted or re-imported on the way (CommunityClient.sync).
SyncedIsOnHub ==
  \A c \in Clients, t \in Tournaments :
    /\ Row(core[c][t]) => core[c][t] \in stored /\ core[c][t][1] = t
    /\ opp[c][t].state = "synced" => core[c][t] \in DOMAIN enriched

\* Every row of the hub can be reached by a client_key, every receipt leads to a row of
\* the tournament its key names (sync_tournament writes the row and its receipt in one
\* transaction, and a late duplicate cannot part them).
ReceiptsAgree ==
  /\ \A k \in DOMAIN receipts : receipts[k] \in stored /\ receipts[k][1] = k[2]
  /\ \A row \in stored : Receipts(row) # {}
  /\ DOMAIN enriched \subseteq stored

\* While a shared view is being fetched, every completed tournament the PC had is on the
\* hub, and enriched there if the PC knows that it must be (proxy_get's gates).
SharedReadOnlyWhenDelivered ==
  \A c \in Clients :
    sess[c].pc = "read" =>
      \A t \in sess[c].seen :
        \E row \in stored : row[1] = t /\ (cfg[c].tracking => row \in DOMAIN enriched)

\* Two PCs, requests that are lost or handled twice, deletions and new pairings implement
\* Delivery: no step but these undoes a delivery, none moves a record from one row to another.
Promise == INSTANCE Delivery WITH
  Nowhere <- None,
  rows  <- stored,
  named <- DOMAIN enriched,
  known <- [c \in Clients |-> [t \in Tournaments |-> IF Row(core[c][t]) THEN core[c][t] ELSE None]],
  told  <- [c \in Clients |-> {t \in Tournaments : opp[c][t].state = "synced"}]

ImplementsDelivery == Promise!Spec

\* The names being written were found to be under policy 2 before the last pairing.
Overtaken == \E r \in requests \ requests' : r.phase = "write" /\ r.checked < pairings

\* Opponent names reach the hub's tables only while the member's policy is version 2, except
\* those of a request that was found to be under policy 2 before a later enrolment lowered it
\* (require_opponent_policy looks before the transaction that writes the names).
NamesOnlyUnderPolicy2 ==
  [][enriched' # enriched => policy = "2" \/ Overtaken]_vars

\* A receipt is never redirected nor withdrawn: two answers for one client_key agree.
ReceiptsNeverMove == [][\A k \in DOMAIN receipts :
                          k \in DOMAIN receipts' /\ receipts'[k] = receipts[k]]_vars

\* The quota of tournaments is looked at outside the transaction that inserts one: handlers
\* at work together can exceed it, by one row less than there are handlers and no more.  A
\* handler past its look counts for the row it is about to insert.
QuotaExceededByHandlersOnly ==
  stored # {} =>
    Cardinality(stored) + Cardinality({r \in requests : r.phase = "insert"})
      <= MaxTournaments + MaxRequests - 1

\* What the hub would answer to the upload of t by c, however often it is retried: its
\* client_key is taken by other content, or a quota is used up.
UploadRefused(c, t) ==
  LET key == <<cfg[c].secret, t>>
      row == <<t, local[c][t]>>
  IN  /\ core[c][t] = Pending /\ local[c][t] # Absent
      /\ IF key \in DOMAIN receipts THEN receipts[key] # row
         ELSE IF row \in stored THEN Cardinality(Receipts(row)) >= MaxReceipts
         ELSE Cardinality(stored) >= MaxTournaments

\* The row was delivered, or its names were, in another version than the PC has now.
NamesRefused(c, t) ==
  LET row == core[c][t]
  IN  /\ opp[c][t].state = "pending" /\ Row(row) /\ local[c][t] # Absent
      /\ local[c][t] # IF row \in DOMAIN enriched THEN enriched[row] ELSE row[2]

\* sync stops at the first rejection, so one refused tournament holds up all behind it.
UploadsStuck(c) == \E t \in Tournaments : UploadRefused(c, t)
Stuck(c) == UploadsStuck(c) \/ \E t \in Tournaments : NamesRefused(c, t)

\* With faults that end, every tournament a paired PC holds is delivered in the end, unless
\* the hub refuses one of that PC's tournaments for good: after an unanswered upload a later
\* import has changed it, or the quotas are used up.
EveryTournamentDelivered ==
  \A c \in Clients, t \in Tournaments :
    (cfg[c].secret # 0 /\ local[c][t] # Absent)
      ~> (Row(core[c][t]) \/ local[c][t] = Absent \/ cfg[c].secret = 0 \/ UploadsStuck(c))

\* Nobody can enrich this row any more: the PC that has the tournament in this version, if
\* there still is one, has not accepted policy 2, has delivered it as another row, or is stuck.
Stranded(row) ==
  \A c \in Clients :
    \/ cfg[c].secret = 0 \/ cfg[c].consent # "2"
    \/ local[c][row[1]] # row[2]
    \/ Row(core[c][row[1]]) /\ core[c][row[1]] # row
    \/ Stuck(c)

\* A member whose PC holds every tournament and consents to policy 2 is in the end granted
\* the shared views, unless a later enrolment of the same member accepted only policy 1
\* (each enrolment writes the one policy of the member), or the hub has a row that nobody
\* can enrich any more (it asks for the names of every row, whoever uploaded it).
AccessIsGranted ==
  \A c \in Clients :
    LET holdsAll == /\ cfg[c].secret # 0 /\ cfg[c].consent = "2"
                    /\ \A t \in Tournaments : local[c][t] # Absent
        lowered  == policy = "1" /\ cfg[c].secret < pairings
    IN  holdsAll ~> \/ HubGrantsAccess \/ ~holdsAll \/ lowered
                    \/ \E row \in stored \ DOMAIN enriched : Stranded(row)
=============================================================================
