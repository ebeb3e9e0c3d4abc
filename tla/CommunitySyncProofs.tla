------------------------- MODULE CommunitySyncProofs -------------------------
(***************************************************************************)
(* Theorems about CommunitySync, for any number of PCs, tournaments,         *)
(* versions, pairings, faults and requests.                                  *)
(***************************************************************************)
EXTENDS CommunitySync, FiniteSetTheorems, TLAPS

\* Only a paired PC has an operation under way: what TypeOK needs to be inductive, so
\* that the key of an upload names a pairing.
SessionsPaired == \A c \in Clients : sess[c].pc # "idle" => cfg[c].secret # 0

SessTypes == sess \in [Clients -> Session]

Typed == TypeOK /\ SessionsPaired

\* An enrichment that is about to be written was found to be for a row, under policy 2; only
\* a later enrolment may have lowered the policy since.
WasChecked(r) ==
  /\ r.row \in stored /\ r.checked \in 0..pairings
  /\ policy = "2" \/ r.checked < pairings

WritesWereChecked == \A r \in requests : r.phase = "write" => WasChecked(r)

TypeInv == Typed /\ WritesWereChecked

-----------------------------------------------------------------------------
(* What an action leaves alone keeps its type.                               *)

LEMMA FrameClient == ASSUME ClientTypes, UNCHANGED client_vars PROVE ClientTypes'
  BY DEF ClientTypes, client_vars

LEMMA FrameHub == ASSUME HubTypes, UNCHANGED hub_vars PROVE HubTypes'
  BY DEF HubTypes, hub_vars

LEMMA FaultCounted == ASSUME faults \in 0..MaxFaults, Fault PROVE faults' \in 0..MaxFaults
  BY SyncAssumption DEF Fault

LEMMA FramePaired ==
  ASSUME SessTypes, SessionsPaired, NEW c \in Clients, NEW s \in Session,
         UNCHANGED cfg, sess' = [sess EXCEPT ![c] = s],
         s.pc # "idle" => cfg[c].secret # 0
  PROVE  SessTypes' /\ SessionsPaired'
  BY DEF SessTypes, SessionsPaired

LEMMA IdleType == Idle \in Session /\ Idle.pc = "idle"
  BY DEF Idle, Session, Errors

LEMMA RecordTypes == NoOpp \in OppRecord /\ Unpaired \in Config /\ None \in CoreRecord
                     /\ Pending \in CoreRecord
  BY SyncAssumption DEF NoOpp, OppRecord, Unpaired, Config, Policies, CoreRecord

LEMMA EnqueueType ==
  ASSUME ClientTypes, NEW c \in Clients
  PROVE  EnqueueCompleted(c) \in [Tournaments -> CoreRecord]
  BY DEF ClientTypes, EnqueueCompleted, CoreRecord

LEMMA EnqueueOppType ==
  ASSUME ClientTypes, NEW c \in Clients, NEW k, NEW g, NEW b \in BOOLEAN
  PROVE  EnqueueOpponents(c, k, g, b) \in [Tournaments -> OppRecord]
<1>1. ASSUME NEW t \in Tournaments PROVE
        [state |-> "pending", digest |-> local[c][t]] \in OppRecord
  BY DEF ClientTypes, OppRecord
<1>2. opp[c] \in [Tournaments -> OppRecord]
  BY DEF ClientTypes
<1> QED
  BY <1>1, <1>2 DEF EnqueueOpponents

LEMMA TypeInit == Init => TypeInv
<1> SUFFICES ASSUME Init PROVE TypeInv
  OBVIOUS
<1>1. ClientTypes
  BY RecordTypes DEF Init, ClientTypes
<1>2. HubTypes
  BY DEF Init, HubTypes, Nothing, Policies
<1>3. SessTypes /\ SessionsPaired
  BY IdleType DEF Init, SessTypes, SessionsPaired
<1>4. requests \subseteq Request /\ pairings \in 0..MaxPairings /\ faults \in 0..MaxFaults
  BY SyncAssumption DEF Init
<1>5. WritesWereChecked
  BY DEF Init, WritesWereChecked
<1> QED
  BY <1>1, <1>2, <1>3, <1>4, <1>5 DEF TypeInv, Typed, TypeOK, SessTypes

-----------------------------------------------------------------------------
(* The steps of one PC outside a sync.                                       *)

LEMMA TypeImport ==
  ASSUME TypeInv, NEW c \in Clients, NEW t \in Tournaments, NEW v \in Versions,
         Import(c, t, v) \/ Reidentify(c, t, v)
  PROVE  Typed'
<1>1. ClientTypes'
  <2>1. local' = [local EXCEPT ![c][t] = v] /\ UNCHANGED <<core, opp, cfg>>
    BY DEF Import, Reidentify
  <2> QED
    BY <2>1 DEF TypeInv, Typed, TypeOK, ClientTypes
<1>2. faults' \in 0..MaxFaults
  BY FaultCounted DEF TypeInv, Typed, TypeOK, Import, Reidentify
<1>3. UNCHANGED <<cfg, sess, hub_vars, requests, pairings>>
  BY DEF Import, Reidentify
<1>4. HubTypes'
  BY <1>3, FrameHub DEF TypeInv, Typed, TypeOK
<1> QED
  BY <1>1, <1>2, <1>3, <1>4 DEF TypeInv, Typed, TypeOK, SessionsPaired

LEMMA TypeDelete ==
  ASSUME TypeInv, NEW c \in Clients, DeleteAnalyzedData(c)
  PROVE  Typed'
<1>1. ClientTypes'
  BY RecordTypes DEF TypeInv, Typed, TypeOK, ClientTypes, DeleteAnalyzedData
<1>2. faults' \in 0..MaxFaults
  BY FaultCounted DEF TypeInv, Typed, TypeOK, DeleteAnalyzedData
<1>3. UNCHANGED <<cfg, sess, hub_vars, requests, pairings>>
  BY DEF DeleteAnalyzedData
<1>4. HubTypes'
  BY <1>3, FrameHub DEF TypeInv, Typed, TypeOK
<1> QED
  BY <1>1, <1>2, <1>3, <1>4 DEF TypeInv, Typed, TypeOK, SessionsPaired

LEMMA TypeLeave ==
  ASSUME TypeInv, NEW c \in Clients, Leave(c)
  PROVE  Typed'
<1>1. ClientTypes'
  BY RecordTypes DEF TypeInv, Typed, TypeOK, ClientTypes, Leave
<1>2. faults' \in 0..MaxFaults
  BY FaultCounted DEF TypeInv, Typed, TypeOK, Leave
<1>3. UNCHANGED <<sess, hub_vars, requests, pairings>>
  BY DEF Leave
<1>4. HubTypes'
  BY <1>3, FrameHub DEF TypeInv, Typed, TypeOK
<1>5. SessionsPaired'
  BY DEF TypeInv, Typed, TypeOK, ClientTypes, SessionsPaired, Leave, Paired
<1> QED
  BY <1>1, <1>2, <1>3, <1>4, <1>5 DEF TypeInv, Typed, TypeOK

LEMMA TypeJoin ==
  ASSUME TypeInv, NEW c \in Clients, NEW p \in Policies, Join(c, p)
  PROVE  Typed'
<1> USE DEF TypeInv, Typed, TypeOK
<1>1. pairings' \in 0..MaxPairings
  BY SyncAssumption DEF Join
<1>2. [secret |-> pairings', consent |-> p, tracking |-> p = "2", has |-> FALSE] \in Config
  BY <1>1 DEF Config
<1>3. cfg' \in [Clients -> Config]
  BY <1>2 DEF Join, ClientTypes
<1>4. core' \in [Clients -> [Tournaments -> CoreRecord]]
      /\ opp' \in [Clients -> [Tournaments -> OppRecord]]
  BY RecordTypes DEF Join, ClientTypes
<1>5. ClientTypes'
  BY <1>3, <1>4 DEF Join, ClientTypes
<1>6. HubTypes'
  BY DEF HubTypes, Join
<1>7. SessionsPaired'
  <2>1. pairings' # 0
    BY SyncAssumption DEF Join
  <2> QED
    BY <2>1 DEF Join, SessionsPaired, ClientTypes
<1>8. UNCHANGED <<sess, requests, faults>>
  BY DEF Join
<1> QED
  BY <1>1, <1>5, <1>6, <1>7, <1>8

LEMMA TypeUpgrade ==
  ASSUME TypeInv, NEW c \in Clients, UpgradeConsent(c)
  PROVE  Typed'
<1> USE DEF TypeInv, Typed, TypeOK
<1> DEFINE g == [cfg[c] EXCEPT !.consent = "2", !.tracking = TRUE]
<1>1. g \in Config /\ g.secret = cfg[c].secret
  BY DEF ClientTypes, Config, Policies
<1>2. EnqueueOpponents(c, core[c], g, FALSE) \in [Tournaments -> OppRecord]
  BY EnqueueOppType
<1>3. CASE cfg' = [cfg EXCEPT ![c] = g]
           /\ opp' = [opp EXCEPT ![c] = EnqueueOpponents(c, core[c], g, FALSE)]
           /\ UNCHANGED faults
  <2>1. ClientTypes'
    BY <1>1, <1>2, <1>3 DEF ClientTypes, UpgradeConsent
  <2>2. SessionsPaired'
    BY <1>1, <1>3 DEF ClientTypes, UpgradeConsent, SessionsPaired
  <2> QED
    BY <1>3, <2>1, <2>2 DEF UpgradeConsent, HubTypes, Policies
<1>4. CASE Fault /\ UNCHANGED <<cfg, opp>>
  <2>1. faults' \in 0..MaxFaults
    BY <1>4, FaultCounted
  <2>2. ClientTypes' /\ SessionsPaired'
    BY <1>4 DEF ClientTypes, SessionsPaired, UpgradeConsent
  <2> QED
    BY <2>1, <2>2 DEF UpgradeConsent, HubTypes, Policies
<1> QED
  BY <1>3, <1>4 DEF UpgradeConsent
LEMMA TypeEnqueue ==
  ASSUME TypeInv, NEW c \in Clients, NEW b \in BOOLEAN, Enqueue(c, cfg[c], b),
         UNCHANGED <<local, cfg>>
  PROVE  ClientTypes'
<1>1. EnqueueCompleted(c) \in [Tournaments -> CoreRecord]
  BY EnqueueType DEF TypeInv, Typed, TypeOK
<1>2. EnqueueOpponents(c, EnqueueCompleted(c), cfg[c], b) \in [Tournaments -> OppRecord]
  BY EnqueueOppType DEF TypeInv, Typed, TypeOK
<1> QED
  BY <1>1, <1>2 DEF TypeInv, Typed, TypeOK, ClientTypes, Enqueue

LEMMA TypeStatus ==
  ASSUME TypeInv, NEW c \in Clients, Status(c)
  PROVE  Typed'
<1>1. ClientTypes'
  BY TypeEnqueue DEF Status
<1>2. UNCHANGED <<cfg, sess, hub_vars, requests, pairings, faults>>
  BY DEF Status
<1>3. HubTypes'
  BY <1>2, FrameHub DEF TypeInv, Typed, TypeOK
<1> QED
  BY <1>1, <1>2, <1>3 DEF TypeInv, Typed, TypeOK, SessionsPaired

-----------------------------------------------------------------------------
(* The steps of a sync and of a read.                                        *)

LEMMA SessionFields ==
  ASSUME SessTypes, NEW c \in Clients
  PROVE  /\ sess[c] \in Session
         /\ sess[c].pc \in {"idle", "probe", "core", "coreWait", "opp", "oppWait", "read"}
         /\ sess[c].todo \in SUBSET Tournaments
         /\ sess[c].at \in Tournaments \cup {None}
         /\ sess[c].result \in Contents \cup {None, Rejected}
         /\ sess[c].err \in Errors
         /\ sess[c].has \in BOOLEAN /\ sess[c].tracking \in BOOLEAN
         /\ sess[c].revalidate \in BOOLEAN /\ sess[c].seen \in SUBSET Tournaments
  BY DEF SessTypes, Session

LEMMA TypeSyncStart ==
  ASSUME TypeInv, NEW c \in Clients, NEW b \in BOOLEAN, SyncStart(c, b)
  PROVE  Typed'
<1> USE DEF TypeInv, Typed, TypeOK
<1> DEFINE todo == PendingCore(core'[c])
           s == [Idle EXCEPT !.pc = IF todo = {} THEN "probe" ELSE "core", !.todo = todo,
                             !.has = cfg[c].has, !.tracking = cfg[c].tracking,
                             !.revalidate = b]
<1>1. EnqueueCompleted(c) \in [Tournaments -> CoreRecord]
  BY EnqueueType
<1>2. ClientTypes' /\ HubTypes'
  BY <1>1, FrameHub DEF ClientTypes, SyncStart
<1>3. cfg[c].has \in BOOLEAN /\ cfg[c].tracking \in BOOLEAN
  BY DEF ClientTypes, Config
<1>4. todo \in SUBSET Tournaments
  BY DEF PendingCore
<1>5. s \in Session
  BY <1>3, <1>4 DEF Session, Idle, Errors
<1>6. sess' = [sess EXCEPT ![c] = s] /\ UNCHANGED cfg /\ cfg[c].secret # 0
  BY DEF SyncStart, Paired
<1>7. SessTypes' /\ SessionsPaired'
  BY <1>5, <1>6, FramePaired DEF SessTypes
<1> QED
  BY <1>2, <1>7 DEF SyncStart, SessTypes

LEMMA ProbeSession ==
  ASSUME SessTypes, NEW c \in Clients, Probe(c)
  PROVE  \E h \in BOOLEAN, k \in BOOLEAN, e \in Errors :
           sess' = [sess EXCEPT ![c] = [sess[c] EXCEPT !.pc = "core", !.has = h, !.tracking = k,
                                                       !.err = e]]
<1>1. ASSUME NEW e \in {"offline", "rejected"},
             sess' = [sess EXCEPT ![c].pc = "core", ![c].err = e]
      PROVE  sess' = [sess EXCEPT ![c] = [sess[c] EXCEPT !.pc = "core", !.has = sess[c].has,
                                            !.tracking = sess[c].tracking, !.err = e]]
  BY <1>1 DEF SessTypes, Session
<1>2. ASSUME NEW e \in Errors,
             sess' = [sess EXCEPT ![c].pc = "core", ![c].has = stored # {},
                                  ![c].tracking = TrackingEnabled, ![c].err = e]
      PROVE  sess' = [sess EXCEPT ![c] = [sess[c] EXCEPT !.pc = "core", !.has = (stored # {}),
                                            !.tracking = TrackingEnabled, !.err = e]]
  BY <1>2
<1>3. (stored # {}) \in BOOLEAN /\ TrackingEnabled \in BOOLEAN
  BY SyncAssumption
<1>4. CASE \E e \in {"offline", "rejected"} :
             sess' = [sess EXCEPT ![c].pc = "core", ![c].err = e]
  BY <1>1, <1>4, SessionFields DEF SessTypes, Errors
<1>5. CASE \E e \in Errors :
             sess' = [sess EXCEPT ![c].pc = "core", ![c].has = stored # {},
                                  ![c].tracking = TrackingEnabled, ![c].err = e]
  BY <1>2, <1>3, <1>5
<1>6. (IF TrackingEnabled /\ cfg[c].consent # "2" THEN "consent" ELSE "ok") \in Errors
  BY DEF Errors
<1> QED
  BY <1>4, <1>5, <1>6 DEF Probe

LEMMA TypeProbe ==
  ASSUME TypeInv, NEW c \in Clients, Probe(c)
  PROVE  Typed'
<1> USE DEF TypeInv, Typed, TypeOK
<1>1. ClientTypes' /\ HubTypes'
  BY FrameClient, FrameHub DEF Probe
<1>2. faults' \in 0..MaxFaults
  BY FaultCounted DEF Probe
<1>3. PICK h \in BOOLEAN, k \in BOOLEAN, e \in Errors :
        sess' = [sess EXCEPT ![c] = [sess[c] EXCEPT !.pc = "core", !.has = h, !.tracking = k,
                                              !.err = e]]
  BY ProbeSession DEF SessTypes
<1>4. SessTypes' /\ SessionsPaired'
  BY <1>3, FramePaired, SessionFields DEF SessTypes, Session, Probe, client_vars, SessionsPaired
<1> QED
  BY <1>1, <1>2, <1>4 DEF Probe, SessTypes
LEMMA TypeUnawait ==
  ASSUME requests \subseteq Request, NEW c \in Clients
  PROVE  Unawait(c) \subseteq Request
<1>1. ASSUME NEW r \in Request
      PROVE  [r EXCEPT !.awaited = r.awaited /\ r.from # c] \in Request
  <2>1. (r.awaited /\ r.from # c) \in BOOLEAN
    BY DEF Request
  <2> QED
    BY <2>1 DEF Request
<1> QED
  BY <1>1 DEF Unawait

LEMMA TypeSend ==
  ASSUME TypeInv, NEW c \in Clients, NEW t \in Tournaments, NEW from \in {"coreWait", "oppWait"},
         NEW row \in Contents \cup {None}, sess[c].pc # "idle", Send(c, from, t, row),
         UNCHANGED <<client_vars, hub_vars, pairings, faults>>
  PROVE  Typed'
<1> USE DEF TypeInv, Typed, TypeOK
<1>1. ClientTypes' /\ HubTypes'
  BY FrameClient, FrameHub
<1>2. cfg[c].secret # 0 /\ UNCHANGED cfg
  BY DEF SessionsPaired, client_vars
<1>3. CASE local[c][t] = Absent
  <2>1. [sess[c] EXCEPT !.todo = @ \ {t}] \in Session
    BY SessionFields DEF SessTypes, Session
  <2>2. sess' = [sess EXCEPT ![c] = [sess[c] EXCEPT !.todo = @ \ {t}]] /\ UNCHANGED requests
    BY <1>3 DEF Send
  <2> QED
    BY <1>1, <1>2, <2>1, <2>2, FramePaired DEF SessTypes
<1>4. CASE local[c][t] # Absent
  <2> DEFINE s == [sess[c] EXCEPT !.pc = from, !.at = t, !.result = None]
  <2>1. s \in Session
    BY SessionFields DEF SessTypes, Session
  <2>2. sess' = [sess EXCEPT ![c] = s] /\ requests' = requests \cup {Upload(c, t, row)}
    BY <1>4 DEF Send
  <2>3. Upload(c, t, row) \in Request
    <3>1. local[c][t] \in Versions
      BY <1>4 DEF ClientTypes
    <3>2. <<cfg[c].secret, t>> \in Keys
      BY <1>2, SyncAssumption DEF ClientTypes, Config, Keys
    <3>3. 0 \in 0..MaxPairings
      BY SyncAssumption
    <3> QED
      BY <3>1, <3>2, <3>3 DEF Upload, Request
  <2> QED
    BY <1>1, <1>2, <2>1, <2>2, <2>3, FramePaired DEF SessTypes
<1> QED
  BY <1>3, <1>4

LEMMA TypeSendTournament ==
  ASSUME TypeInv, NEW c \in Clients, NEW t \in Tournaments, SendTournament(c, t)
  PROVE  Typed'
  BY TypeSend DEF SendTournament

LEMMA TypeSendOpponents ==
  ASSUME TypeInv, NEW c \in Clients, NEW t \in Tournaments, SendOpponents(c, t)
  PROVE  Typed'
<1>1. CASE core[c][t] \in Contents
  BY <1>1, TypeSend DEF SendOpponents
<1>2. CASE core[c][t] \notin Contents
  <2>1. [sess[c] EXCEPT !.todo = @ \ {t}] \in Session
    BY SessionFields DEF TypeInv, Typed, TypeOK, SessTypes, Session
  <2>2. /\ sess' = [sess EXCEPT ![c] = [sess[c] EXCEPT !.todo = @ \ {t}]]
        /\ UNCHANGED <<requests, client_vars, hub_vars, pairings, faults>>
    BY <1>2 DEF SendOpponents
  <2>3. cfg[c].secret # 0
    BY DEF SendOpponents, TypeInv, Typed, SessionsPaired
  <2> QED
    BY <2>1, <2>2, <2>3, FramePaired, FrameClient, FrameHub
    DEF TypeInv, Typed, TypeOK, SessTypes, client_vars
<1> QED
  BY <1>1, <1>2

LEMMA TypeStop ==
  ASSUME TypeInv, NEW c \in Clients, NEW e \in Errors, Waiting(c), Stop(c, e), UNCHANGED cfg
  PROVE  SessTypes' /\ SessionsPaired'
<1> DEFINE s == [sess[c] EXCEPT !.pc = Queue(@), !.todo = {}, !.err = e, !.at = None,
                                !.result = None]
<1>1. s \in Session
  BY SessionFields DEF Queue, Session, TypeInv, Typed, TypeOK, SessTypes
<1>2. cfg[c].secret # 0
  BY DEF TypeInv, Typed, SessionsPaired, Waiting
<1>3. sess' = [sess EXCEPT ![c] = Idle] \/ sess' = [sess EXCEPT ![c] = s]
  <2>1. CASE RecordDeleted(c)
    BY <2>1 DEF Stop
  <2>2. CASE ~RecordDeleted(c)
    BY <2>2 DEF Stop
  <2> QED
    BY <2>1, <2>2
<1> QED
  BY <1>1, <1>2, <1>3, IdleType, FramePaired DEF TypeInv, Typed, TypeOK, SessTypes

LEMMA TypeTimeout ==
  ASSUME TypeInv, NEW c \in Clients, Timeout(c)
  PROVE  Typed'
<1>1. ClientTypes' /\ HubTypes' /\ faults' \in 0..MaxFaults /\ requests' \subseteq Request
  BY FrameClient, FrameHub, FaultCounted, TypeUnawait DEF Timeout, TypeInv, Typed, TypeOK
<1>2. SessTypes' /\ SessionsPaired'
  BY TypeStop DEF Timeout, Errors, client_vars
<1> QED
  BY <1>1, <1>2 DEF Timeout, TypeInv, Typed, TypeOK, SessTypes

LEMMA SyncedType ==
  ASSUME NEW o \in OppRecord PROVE [o EXCEPT !.state = "synced"] \in OppRecord
  BY DEF OppRecord

LEMMA TypeRecordAnswer ==
  ASSUME TypeInv, NEW c \in Clients, RecordAnswer(c)
  PROVE  Typed'
<1> USE DEF TypeInv, Typed, TypeOK
<1>1. HubTypes' /\ UNCHANGED <<local, cfg, requests, pairings, faults>>
  BY FrameHub DEF RecordAnswer
<1>2. CASE sess[c].result = Rejected \/ RecordDeleted(c)
  <2>1. SessTypes' /\ SessionsPaired'
    BY <1>2, TypeStop DEF RecordAnswer, Errors
  <2> QED
    BY <1>1, <1>2, <2>1 DEF RecordAnswer, ClientTypes, SessTypes
<1>3. CASE ~(sess[c].result = Rejected \/ RecordDeleted(c))
  <2> DEFINE t == sess[c].at
             u == [sess[c] EXCEPT !.has = TRUE]
             done(s) == [s EXCEPT !.pc = Queue(@), !.todo = @ \ {s.at}, !.at = None,
                                  !.result = None]
  <2>1. sess[c].result \in CoreRecord
    BY <1>3, SessionFields DEF RecordAnswer, CoreRecord, SessTypes
  <2>2. u \in Session /\ sess[c] \in Session
    BY SessionFields DEF SessTypes, Session
  <2>3. ASSUME NEW s \in Session PROVE done(s) \in Session
    BY <2>3 DEF Session, Queue
  <2>4. PICK s \in Session : sess' = [sess EXCEPT ![c] = done(s)]
    BY <1>3, <2>2 DEF RecordAnswer, Answered
  <2>5. cfg[c].secret # 0
    BY DEF SessionsPaired, RecordAnswer, Waiting
  <2>6. SessTypes' /\ SessionsPaired'
    BY <1>1, <2>3, <2>4, <2>5, FramePaired DEF SessTypes
  <2>7. ClientTypes'
    <3>1. CASE core' = [core EXCEPT ![c][t] = sess[c].result] /\ UNCHANGED opp
      BY <1>1, <2>1, <3>1 DEF ClientTypes
    <3>2. CASE opp' = [opp EXCEPT ![c][t].state = "synced"] /\ UNCHANGED core
      <4> HIDE DEF t
      <4>1. \A d \in Clients : opp[d] \in [Tournaments -> OppRecord]
        BY DEF ClientTypes
      <4>2. [opp[c] EXCEPT ![t] = [opp[c][t] EXCEPT !.state = "synced"]]
              \in [Tournaments -> OppRecord]
        BY <4>1, SyncedType
      <4> QED
        BY <1>1, <3>2, <4>1, <4>2 DEF ClientTypes
    <3> QED
      BY <1>3, <3>1, <3>2 DEF RecordAnswer
  <2> QED
    BY <1>1, <2>6, <2>7 DEF SessTypes
<1> QED
  BY <1>2, <1>3

LEMMA TypeStartOpponents ==
  ASSUME TypeInv, NEW c \in Clients, StartOpponents(c)
  PROVE  Typed'
<1> USE DEF TypeInv, Typed, TypeOK
<1> DEFINE o    == EnqueueOpponents(c, core[c], cfg[c], sess[c].revalidate)
           pend == PendingOpp(opp'[c])
           e    == IF pend # {} /\ cfg[c].consent # "2" THEN "consent" ELSE sess[c].err
           s    == [sess[c] EXCEPT !.pc = "opp", !.err = e,
                                   !.todo = IF e = "ok" THEN pend ELSE {}]
<1>1. o \in [Tournaments -> OppRecord]
  BY EnqueueOppType, SessionFields DEF SessTypes
<1>2. ClientTypes' /\ HubTypes'
  BY <1>1, FrameHub DEF StartOpponents, ClientTypes
<1>3. pend \in SUBSET Tournaments /\ e \in Errors
  BY SessionFields DEF PendingOpp, Errors, SessTypes
<1>4. s \in Session
  <2> HIDE DEF e, pend
  <2> QED
    BY <1>3, SessionFields DEF SessTypes, Session
<1>5. sess' = [sess EXCEPT ![c] = s] /\ UNCHANGED cfg
  <2>1. sess' = [sess EXCEPT ![c].pc = "opp", ![c].err = e,
                             ![c].todo = IF e = "ok" THEN pend ELSE {}] /\ UNCHANGED cfg
    BY DEF StartOpponents
  <2> HIDE DEF e, pend
  <2> QED
    BY <2>1
<1>6. cfg[c].secret # 0
  BY DEF StartOpponents, SessionsPaired
<1>7. SessTypes' /\ SessionsPaired'
  BY <1>4, <1>5, <1>6, FramePaired DEF SessTypes
<1> QED
  BY <1>2, <1>7 DEF StartOpponents, SessTypes

LEMMA TypeSyncSave ==
  ASSUME TypeInv, NEW c \in Clients, SyncSave(c)
  PROVE  Typed'
<1> USE DEF TypeInv, Typed, TypeOK
<1> DEFINE g == [cfg[c] EXCEPT !.has = sess[c].has, !.tracking = sess[c].tracking]
<1>1. g \in Config
  BY SessionFields DEF ClientTypes, Config, SessTypes
<1>2. cfg' = [cfg EXCEPT ![c] = g] /\ sess' = [sess EXCEPT ![c] = Idle]
  BY DEF SyncSave
<1>3. ClientTypes' /\ HubTypes'
  BY <1>1, <1>2, FrameHub DEF SyncSave, ClientTypes
<1>4. SessTypes' /\ SessionsPaired'
  BY <1>2, IdleType DEF SessionsPaired, SessTypes, ClientTypes
<1> QED
  BY <1>3, <1>4 DEF SyncSave, SessTypes

LEMMA TypeCrash ==
  ASSUME TypeInv, NEW c \in Clients, Crash(c)
  PROVE  Typed'
<1> USE DEF TypeInv, Typed, TypeOK
<1>1. ClientTypes' /\ HubTypes' /\ faults' \in 0..MaxFaults /\ requests' \subseteq Request
  BY FrameClient, FrameHub, FaultCounted, TypeUnawait DEF Crash
<1>2. SessTypes' /\ SessionsPaired'
  BY IdleType, FramePaired DEF Crash, SessTypes, client_vars
<1> QED
  BY <1>1, <1>2 DEF Crash, SessTypes

LEMMA TypeReadStart ==
  ASSUME TypeInv, NEW c \in Clients, ReadStart(c)
  PROVE  Typed'
<1> USE DEF TypeInv, Typed, TypeOK
<1> DEFINE s == [Idle EXCEPT !.pc = "read",
                             !.seen = {t \in Tournaments : local[c][t] # Absent}]
<1>1. ClientTypes' /\ HubTypes'
  BY TypeEnqueue, FrameHub DEF ReadStart
<1>2. s \in Session
  BY DEF Idle, Session, Errors
<1>3. cfg[c].secret # 0 /\ UNCHANGED cfg
  BY DEF ReadStart, Paired
<1>4. SessTypes' /\ SessionsPaired'
  <2>1. CASE MayRead(c)
    <3>1. sess' = [sess EXCEPT ![c] = s]
      BY <2>1 DEF ReadStart
    <3> QED
      BY <1>2, <1>3, <3>1, FramePaired DEF SessTypes
  <2>2. CASE ~MayRead(c)
    BY <1>3, <2>2 DEF ReadStart, SessTypes, SessionsPaired
  <2> QED
    BY <2>1, <2>2
<1> QED
  BY <1>1, <1>4 DEF ReadStart, SessTypes

LEMMA TypeReadAnswer ==
  ASSUME TypeInv, NEW c \in Clients, ReadAnswer(c)
  PROVE  Typed'
<1> USE DEF TypeInv, Typed, TypeOK
<1>1. faults' \in 0..MaxFaults /\ HubTypes' /\ UNCHANGED <<local, core, opp, requests, pairings>>
  BY FaultCounted, FrameHub DEF ReadAnswer
<1>2. PICK b \in BOOLEAN : cfg' = [cfg EXCEPT ![c].tracking = b] \/ UNCHANGED cfg
  BY DEF ReadAnswer
<1>3. [cfg[c] EXCEPT !.tracking = b] \in Config
  BY DEF ClientTypes, Config
<1>4. ClientTypes'
  BY <1>1, <1>2, <1>3 DEF ClientTypes
<1>5. SessTypes' /\ SessionsPaired'
  BY <1>2, IdleType DEF ReadAnswer, SessionsPaired, SessTypes, ClientTypes
<1> QED
  BY <1>1, <1>4, <1>5 DEF ReadAnswer, SessTypes
-----------------------------------------------------------------------------
(* The steps of the hub.                                                     *)

Moved == SessTypes' /\ SessionsPaired' /\ requests' \subseteq Request

LEMMA TypeReply ==
  ASSUME TypeInv, NEW r \in requests, NEW a \in Contents \cup {None, Rejected}, Reply(r, a),
         UNCHANGED cfg
  PROVE  Moved
<1> USE DEF TypeInv, Typed, TypeOK
<1>1. requests' \subseteq Request /\ r.from \in Clients
  BY DEF Reply, Request
<1>2. CASE r.awaited
  <2> DEFINE s == [sess[r.from] EXCEPT !.result = a]
  <2>1. s \in Session /\ s.pc = sess[r.from].pc
    BY <1>1, SessionFields DEF SessTypes, Session
  <2>2. sess' = [sess EXCEPT ![r.from] = s]
    BY <1>2 DEF Reply
  <2> QED
    BY <1>1, <2>1, <2>2, FramePaired DEF Moved, SessTypes, SessionsPaired
<1>3. CASE ~r.awaited
  BY <1>1, <1>3 DEF Reply, Moved, SessTypes, SessionsPaired
<1> QED
  BY <1>2, <1>3

LEMMA TypeAdvance ==
  ASSUME TypeInv, NEW r \in requests, NEW p \in {"renew", "renewLast", "insert", "conflict"},
         Advance(r, p), UNCHANGED cfg
  PROVE  Moved
<1>1. [r EXCEPT !.phase = p] \in Request
  BY DEF TypeInv, Typed, TypeOK, Request
<1> QED
  BY <1>1 DEF TypeInv, Typed, TypeOK, Moved, SessTypes, SessionsPaired, Advance

LEMMA ContentType ==
  ASSUME TypeInv, NEW r \in requests
  PROVE  Content(r) \in Contents /\ Row(Content(r)) /\ r.key \in Keys /\ r.body \in Versions
  BY DEF TypeInv, Typed, TypeOK, Request, Content, Contents, Keys, Row

LEMMA TypeReplyFromReceipt ==
  ASSUME TypeInv, NEW r \in requests, ReplyFromReceipt(r), UNCHANGED cfg
  PROVE  Moved
  BY TypeReply, ContentType DEF ReplyFromReceipt

LEMMA TypeGoRenew ==
  ASSUME TypeInv, NEW r \in requests, NEW p \in {"renew", "renewLast"}, GoRenew(r, p),
         UNCHANGED cfg
  PROVE  Moved
  BY TypeReply, TypeAdvance DEF GoRenew

LEMMA TypeAddReceipt ==
  ASSUME TypeInv, NEW r \in requests, AddReceipt(r), UNCHANGED <<cfg, enriched, policy>>,
         stored' = stored \/ stored' = stored \cup {Content(r)}
  PROVE  Moved /\ HubTypes'
<1>1. Moved
  BY TypeReply, ContentType DEF AddReceipt
<1>2. HubTypes'
  BY ContentType DEF TypeInv, Typed, TypeOK, HubTypes, AddReceipt, Put
<1> QED
  BY <1>1, <1>2

LEMMA TypeHubLookup ==
  ASSUME TypeInv, NEW r \in requests, HubLookup(r) \/ HubConflict(r)
  PROVE  Typed'
<1>1. ClientTypes' /\ HubTypes' /\ UNCHANGED <<cfg, pairings, faults>>
  BY FrameClient, FrameHub DEF HubLookup, HubConflict, TypeInv, Typed, TypeOK, client_vars
<1>2. Moved
  BY <1>1, TypeReply, TypeReplyFromReceipt, TypeGoRenew, TypeAdvance, ContentType
  DEF HubLookup, HubConflict
<1> QED
  BY <1>1, <1>2 DEF TypeInv, Typed, TypeOK, Moved, SessTypes

LEMMA TypeHubRenew ==
  ASSUME TypeInv, NEW r \in requests, HubRenew(r)
  PROVE  Typed'
<1>1. ClientTypes' /\ UNCHANGED <<cfg, stored, enriched, policy, pairings, faults>>
  BY FrameClient DEF HubRenew, TypeInv, Typed, TypeOK, client_vars
<1>2. CASE ~HasReceipt(r)
  BY <1>1, <1>2, TypeAddReceipt DEF HubRenew, TypeInv, Typed, TypeOK, Moved, SessTypes
<1>3. CASE HasReceipt(r)
  <2>1. Moved
    BY <1>1, <1>3, TypeReply, TypeReplyFromReceipt DEF HubRenew
  <2> QED
    BY <1>1, <1>3, <2>1, FrameHub DEF HubRenew, TypeInv, Typed, TypeOK, Moved, SessTypes, hub_vars
<1> QED
  BY <1>2, <1>3

LEMMA TypeHubInsert ==
  ASSUME TypeInv, NEW r \in requests, HubInsert(r)
  PROVE  Typed'
<1>1. ClientTypes' /\ UNCHANGED <<cfg, enriched, policy, pairings, faults>>
  BY FrameClient DEF HubInsert, TypeInv, Typed, TypeOK, client_vars
<1>2. CASE HasReceipt(r) \/ Content(r) \in stored
  BY <1>1, <1>2, TypeAdvance, FrameHub
  DEF HubInsert, TypeInv, Typed, TypeOK, Moved, SessTypes, hub_vars
<1>3. CASE ~(HasReceipt(r) \/ Content(r) \in stored)
  BY <1>1, <1>3, TypeAddReceipt DEF HubInsert, TypeInv, Typed, TypeOK, Moved, SessTypes
<1> QED
  BY <1>2, <1>3

LEMMA TypeHubCheckPolicy ==
  ASSUME TypeInv, NEW r \in requests, HubCheckPolicy(r)
  PROVE  Typed'
<1>1. ClientTypes' /\ HubTypes' /\ UNCHANGED <<cfg, pairings, faults>>
  BY FrameClient, FrameHub DEF HubCheckPolicy, TypeInv, Typed, TypeOK, client_vars
<1>2. ASSUME Checked(r) PROVE Moved
  <2>1. r \in Request /\ pairings \in 0..MaxPairings
    BY DEF TypeInv, Typed, TypeOK
  <2>2. [r EXCEPT !.phase = "write"] \in Request
    BY <2>1 DEF Request
  <2>3. [r EXCEPT !.phase = "write", !.checked = pairings] \in Request
    BY <2>1, <2>2 DEF Request
  <2>4. sess' = sess /\ requests' \subseteq Request
    BY <1>2, <2>3 DEF Checked, TypeInv, Typed, TypeOK
  <2> QED
    BY <1>1, <2>4 DEF TypeInv, Typed, TypeOK, Moved, SessTypes, SessionsPaired
<1>3. Moved
  <2>1. CASE Checked(r)
    BY <1>2, <2>1
  <2>2. CASE Reply(r, Rejected)
    BY <1>1, <2>2, TypeReply
  <2> QED
    BY <2>1, <2>2 DEF HubCheckPolicy
<1> QED
  BY <1>1, <1>3 DEF TypeInv, Typed, TypeOK, Moved, SessTypes

LEMMA TypeHubEnrich ==
  ASSUME TypeInv, NEW r \in requests, HubEnrich(r)
  PROVE  Typed'
<1> USE DEF TypeInv, Typed, TypeOK
<1>1. ClientTypes' /\ UNCHANGED <<cfg, stored, receipts, policy, pairings, faults>>
  BY FrameClient DEF HubEnrich, client_vars
<1>2. r.row \in Contents /\ r.body \in Versions
  BY ContentType DEF HubEnrich, WritesWereChecked, WasChecked, HubTypes
<1>3. Moved
  BY <1>1, <1>2, TypeReply DEF HubEnrich
<1>4. HubTypes'
  <2>1. CASE r.row \in DOMAIN enriched
    BY <1>1, <2>1, FrameHub DEF HubEnrich, hub_vars
  <2>2. CASE r.row \notin DOMAIN enriched
    BY <1>1, <1>2, <2>2 DEF HubEnrich, HubTypes, Put
  <2> QED
    BY <2>1, <2>2
<1> QED
  BY <1>1, <1>3, <1>4 DEF Moved, SessTypes

LEMMA TypeHubRefuse ==
  ASSUME TypeInv, NEW r \in requests, HubRefuse(r)
  PROVE  Typed'
<1>1. Moved
  BY TypeReply DEF HubRefuse, client_vars
<1> QED
  BY <1>1, FrameClient, FrameHub, FaultCounted
  DEF HubRefuse, TypeInv, Typed, TypeOK, Moved, SessTypes

LEMMA TypedNext == TypeInv /\ [Next]_vars => Typed'
<1> SUFFICES ASSUME TypeInv, [Next]_vars PROVE Typed'
  OBVIOUS
<1>1. CASE LocalStep
  BY <1>1, TypeImport, TypeDelete, TypeJoin, TypeLeave, TypeUpgrade, TypeStatus, TypeCrash
  DEF LocalStep
<1>2. ASSUME NEW c \in Clients, ClientStep(c) PROVE Typed'
  BY <1>2, TypeSyncStart, TypeProbe, TypeRecordAnswer, TypeStartOpponents, TypeSyncSave,
     TypeSendTournament, TypeSendOpponents, TypeTimeout, TypeReadStart, TypeReadAnswer
  DEF ClientStep, SyncStep
<1>3. CASE HubStep
  BY <1>3, TypeHubLookup, TypeHubRenew, TypeHubInsert, TypeHubCheckPolicy, TypeHubEnrich
  DEF HubStep, HubServes
<1>4. CASE \E r \in requests : HubRefuse(r)
  BY <1>4, TypeHubRefuse
<1>5. CASE UNCHANGED vars
  BY <1>5, FrameClient, FrameHub
  DEF vars, client_vars, hub_vars, TypeInv, Typed, TypeOK, SessionsPaired
<1> QED
  BY <1>1, <1>2, <1>3, <1>4, <1>5 DEF Next

\* A request that is about to write comes from one that already was, or has just been
\* found to be under policy 2.
WriterKnown(r) ==
  \E q \in requests : q.phase = "write" /\ q.row = r.row /\ q.checked = r.checked

LEMMA ChecksKept ==
  ASSUME TypeInv, stored \subseteq stored', UNCHANGED pairings, policy' = policy \/ policy' = "2",
         \A r \in requests' : r.phase = "write" => WriterKnown(r) \/ WasChecked(r)
  PROVE  WritesWereChecked'
  BY DEF WritesWereChecked, WasChecked, WriterKnown, TypeInv

LEMMA WritersOfUnawait ==
  ASSUME TypeInv, NEW c, NEW r \in Unawait(c), r.phase = "write"
  PROVE  WriterKnown(r)
  BY DEF Unawait, WriterKnown, TypeInv, Typed, TypeOK, Request

LEMMA SameWriters ==
  ASSUME TypeInv, UNCHANGED <<stored, policy, pairings>>, NEW c,
         requests' \subseteq requests \/ requests' = Unawait(c)
  PROVE  WritesWereChecked'
  BY ChecksKept, WritersOfUnawait DEF WriterKnown

LEMMA ChecksLocal ==
  ASSUME TypeInv, LocalStep
  PROVE  WritesWereChecked'
<1>1. ASSUME NEW c \in Clients, NEW p \in Policies, Join(c, p) PROVE WritesWereChecked'
  <2>1. UNCHANGED <<stored, requests>> /\ pairings' = pairings + 1 /\ pairings \in Nat
    BY <1>1, SyncAssumption DEF Join, TypeInv, Typed, TypeOK
  <2> QED
    BY <2>1 DEF TypeInv, WritesWereChecked, WasChecked
<1>2. ASSUME NEW c \in Clients, UpgradeConsent(c) PROVE WritesWereChecked'
  <2>1. UNCHANGED <<stored, requests, pairings>> /\ policy' = "2"
    BY <1>2 DEF UpgradeConsent
  <2> QED
    BY <2>1, ChecksKept DEF WriterKnown
<1>3. ASSUME NEW c \in Clients, Crash(c) \/ Leave(c) \/ Status(c) \/ DeleteAnalyzedData(c)
      PROVE  WritesWereChecked'
  <2>1. UNCHANGED <<stored, policy, pairings>>
    BY <1>3 DEF Crash, Leave, Status, DeleteAnalyzedData, hub_vars
  <2>2. requests' = requests \/ requests' = Unawait(c)
    BY <1>3 DEF Crash, Leave, Status, DeleteAnalyzedData
  <2> QED
    BY <2>1, <2>2, SameWriters
<1>4. ASSUME NEW c \in Clients, NEW t \in Tournaments, NEW v \in Versions,
             Import(c, t, v) \/ Reidentify(c, t, v)
      PROVE  WritesWereChecked'
  BY <1>4, SameWriters DEF Import, Reidentify, hub_vars
<1> QED
  BY <1>1, <1>2, <1>3, <1>4 DEF LocalStep

LEMMA ChecksClient ==
  ASSUME TypeInv, NEW c \in Clients, ClientStep(c)
  PROVE  WritesWereChecked'
<1>1. ASSUME NEW t \in Tournaments, SendTournament(c, t) \/ SendOpponents(c, t)
      PROVE  WritesWereChecked'
  <2>1. UNCHANGED <<stored, policy, pairings>>
    BY <1>1 DEF SendTournament, SendOpponents, hub_vars
  <2>2. \A r \in requests' : r.phase = "write" => r \in requests
    BY <1>1 DEF SendTournament, SendOpponents, Send, Upload
  <2> QED
    BY <2>1, <2>2, ChecksKept DEF WriterKnown
<1>2. CASE \/ \E b \in BOOLEAN : SyncStart(c, b)
           \/ Probe(c) \/ StartOpponents(c) \/ SyncSave(c) \/ ReadStart(c) \/ ReadAnswer(c)
  BY <1>2, SameWriters
  DEF SyncStart, Probe, StartOpponents, SyncSave, ReadStart, ReadAnswer, hub_vars
<1>3. CASE RecordAnswer(c) \/ Timeout(c)
  BY <1>3, SameWriters DEF RecordAnswer, Timeout, hub_vars
<1> QED
  BY <1>1, <1>2, <1>3 DEF ClientStep, SyncStep

LEMMA ChecksHub ==
  ASSUME TypeInv, NEW r \in requests, HubServes(r) \/ HubRefuse(r)
  PROVE  WritesWereChecked'
<1> UNCHANGED <<policy, pairings>> /\ stored \subseteq stored'
  BY DEF HubServes, HubLookup, HubRenew, HubInsert, HubConflict, HubCheckPolicy, HubEnrich,
         HubRefuse, hub_vars
<1>1. ASSUME NEW a, Reply(r, a) PROVE WritesWereChecked'
  BY <1>1, ChecksKept DEF Reply, WriterKnown
<1>2. ASSUME NEW p \in {"renew", "renewLast", "insert", "conflict"}, Advance(r, p)
      PROVE  WritesWereChecked'
  <2>1. [r EXCEPT !.phase = p].phase # "write"
    BY DEF TypeInv, Typed, TypeOK, Request
  <2> QED
    BY <1>2, <2>1, ChecksKept DEF Advance, WriterKnown
<1>3. ASSUME MayEnrich(r), Checked(r) PROVE WritesWereChecked'
  <2>1. WasChecked([r EXCEPT !.phase = "write", !.checked = pairings])
    BY <1>3, SyncAssumption DEF MayEnrich, WasChecked, TypeInv, Typed, TypeOK, Request
  <2> QED
    BY <1>3, <2>1, ChecksKept DEF Checked, WriterKnown
<1>4. CASE HubLookup(r) \/ HubConflict(r)
  BY <1>1, <1>2, <1>4 DEF HubLookup, HubConflict, ReplyFromReceipt, GoRenew
<1>5. CASE HubRenew(r)
  BY <1>1, <1>5 DEF HubRenew, AddReceipt, ReplyFromReceipt
<1>6. CASE HubInsert(r)
  BY <1>1, <1>2, <1>6 DEF HubInsert, AddReceipt
<1>7. CASE HubCheckPolicy(r)
  BY <1>1, <1>3, <1>7 DEF HubCheckPolicy
<1>8. CASE HubEnrich(r) \/ HubRefuse(r)
  BY <1>1, <1>8 DEF HubEnrich, HubRefuse
<1> QED
  BY <1>4, <1>5, <1>6, <1>7, <1>8 DEF HubServes

LEMMA TypeNext == TypeInv /\ [Next]_vars => TypeInv'
<1> SUFFICES ASSUME TypeInv, [Next]_vars PROVE WritesWereChecked'
  BY TypedNext DEF TypeInv
<1>1. CASE UNCHANGED vars
  BY <1>1, SameWriters DEF vars, hub_vars
<1> QED
  BY <1>1, ChecksLocal, ChecksClient, ChecksHub DEF Next, HubStep

\* The tables, the sessions and the requests keep their types, in the client as in the
\* hub: no upload is ever built from a tournament that has been deleted, whenever the
\* deletion falls in the sync (CommunityClient.sync re-reads it before every send).
THEOREM TypesHold == Spec => []TypeOK
<1>1. TypeInv => TypeOK
  BY DEF TypeInv, Typed
<1> QED
  BY <1>1, TypeInit, TypeNext, PTL DEF Spec

-----------------------------------------------------------------------------
(* The hub's tables agree.                                                   *)

\* What makes ReceiptsAgree inductive: a handler that adds a receipt to a row it has
\* found finds the row still there, since the hub deletes no tournament of a member.
RenewalsFindTheirRow ==
  \A r \in requests : r.phase \in {"renew", "renewLast"} => Content(r) \in stored

HubInv == ReceiptsAgree /\ RenewalsFindTheirRow

LEMMA ContentKept ==
  ASSUME NEW r, NEW p, NEW w
  PROVE  /\ Content([r EXCEPT !.phase = p]) = Content(r)
         /\ Content([r EXCEPT !.awaited = w]) = Content(r)
  BY DEF Content

\* No step but the hub's four writers touches its tables, and the requests it leaves in
\* phase renew were in it already.
Renewing(r) == r.phase \in {"renew", "renewLast"}

LEMMA HubInvFrame ==
  ASSUME HubInv, UNCHANGED <<stored, receipts, enriched>>,
         \A r \in requests' : Renewing(r) =>
           Content(r) \in stored \/ \E q \in requests : Renewing(q) /\ Content(q) = Content(r)
  PROVE  HubInv'
<1>1. ReceiptsAgree'
  BY DEF HubInv, ReceiptsAgree, Receipts
<1>2. RenewalsFindTheirRow'
  BY DEF HubInv, RenewalsFindTheirRow, Content, Renewing
<1> QED
  BY <1>1, <1>2 DEF HubInv

LEMMA SendKeepsRenewals ==
  ASSUME NEW c, NEW t, NEW from, NEW row, Send(c, from, t, row),
         NEW r \in requests', Renewing(r)
  PROVE  r \in requests
  BY DEF Send, Upload, Renewing

LEMMA ClientsLeaveTables ==
  ASSUME TypeInv, NEW c \in Clients, ClientStep(c)
  PROVE  /\ UNCHANGED hub_vars
         /\ \/ requests' \subseteq requests \/ requests' = Unawait(c)
            \/ \A r \in requests' : Renewing(r) => r \in requests
<1>1. CASE SyncStep(c)
  <2>1. ASSUME NEW t \in Tournaments, SendTournament(c, t) \/ SendOpponents(c, t)
        PROVE  UNCHANGED hub_vars /\ \A r \in requests' : Renewing(r) => r \in requests
    BY <2>1, SendKeepsRenewals DEF SendTournament, SendOpponents
  <2> QED
    BY <1>1, <2>1 DEF SyncStep, Probe, RecordAnswer, StartOpponents, SyncSave
<1> QED
  BY <1>1 DEF ClientStep, SyncStart, Timeout, ReadStart, ReadAnswer

LEMMA LocalsLeaveTables ==
  ASSUME LocalStep
  PROVE  /\ UNCHANGED <<stored, receipts, enriched>>
         /\ requests' = requests \/ \E c \in Clients : requests' = Unawait(c)
  BY DEF LocalStep, Import, Reidentify, DeleteAnalyzedData, Join, Leave, UpgradeConsent, Status,
     Crash, hub_vars

LEMMA UnawaitKeeps ==
  ASSUME TypeInv, NEW c \in Clients, NEW r \in Unawait(c)
  PROVE  \E q \in requests : /\ q.phase = r.phase /\ Content(q) = Content(r) /\ q.from = r.from
                             /\ q.row = r.row /\ q.key = r.key
                             /\ r.awaited <=> q.awaited /\ q.from # c
                             /\ r = [q EXCEPT !.awaited = q.awaited /\ q.from # c]
  BY DEF Unawait, Content, TypeInv, Typed, TypeOK, Request

LEMMA HubInvClient ==
  ASSUME TypeInv, HubInv, LocalStep \/ \E c \in Clients : ClientStep(c)
  PROVE  HubInv'
<1>1. UNCHANGED <<stored, receipts, enriched>>
  BY ClientsLeaveTables, LocalsLeaveTables DEF hub_vars
<1>2. ASSUME NEW r \in requests', Renewing(r)
      PROVE  \E q \in requests : Renewing(q) /\ Content(q) = Content(r)
  BY <1>2, ClientsLeaveTables, LocalsLeaveTables, UnawaitKeeps DEF Renewing
<1> QED
  BY <1>1, <1>2, HubInvFrame

LEMMA HubInvAddReceipt ==
  ASSUME TypeInv, HubInv, NEW r \in requests, ~HasReceipt(r), AddReceipt(r),
         stored' = stored \cup {Content(r)}, UNCHANGED enriched
  PROVE  HubInv'
<1>1. Content(r)[1] = r.key[2]
  BY DEF Content
<1>2. \A k \in DOMAIN receipts' : receipts'[k] \in stored' /\ receipts'[k][1] = k[2]
  BY <1>1 DEF AddReceipt, Put, HubInv, ReceiptsAgree
<1>3. ASSUME NEW row \in stored' PROVE \E k \in DOMAIN receipts' : receipts'[k] = row
  <2>1. CASE row = Content(r)
    BY <2>1 DEF AddReceipt, Put
  <2>2. CASE row \in stored
    <3>1. PICK k \in DOMAIN receipts : receipts[k] = row
      BY <2>2 DEF HubInv, ReceiptsAgree, Receipts
    <3>2. k # r.key
      BY DEF HasReceipt
    <3> QED
      BY <3>1, <3>2 DEF AddReceipt, Put
  <2> QED
    BY <2>1, <2>2
<1>4. ReceiptsAgree'
  BY <1>2, <1>3 DEF HubInv, ReceiptsAgree, Receipts
<1>5. requests' \subseteq requests
  BY DEF AddReceipt, Reply
<1>6. RenewalsFindTheirRow'
  BY <1>5 DEF HubInv, RenewalsFindTheirRow, Content
<1> QED
  BY <1>4, <1>6 DEF HubInv

LEMMA HubInvHub ==
  ASSUME TypeInv, HubInv, NEW r \in requests,
         HubServes(r) \/ HubRefuse(r)
  PROVE  HubInv'
<1>1. ASSUME NEW p \in {"insert", "conflict"}, Advance(r, p),
             UNCHANGED <<stored, receipts, enriched>>
      PROVE  HubInv'
  BY <1>1, HubInvFrame, ContentKept DEF Advance, Renewing, TypeInv, Typed, TypeOK, Request
<1>2. ASSUME NEW p \in {"renew", "renewLast"}, Content(r) \in stored, GoRenew(r, p),
             UNCHANGED <<stored, receipts, enriched>>
      PROVE  HubInv'
  <2>1. ASSUME NEW q \in requests', q \notin requests PROVE Content(q) \in stored
    <3>1. q = [r EXCEPT !.phase = p]
      BY <1>2, <2>1 DEF GoRenew, Advance, Reply
    <3> QED
      BY <1>2, <3>1, ContentKept
  <2> QED
    BY <1>2, <2>1, HubInvFrame
<1>3. ASSUME NEW a, Reply(r, a), UNCHANGED <<stored, receipts, enriched>>
      PROVE  HubInv'
  BY <1>3, HubInvFrame DEF Reply
<1>4. CASE HubLookup(r)
  BY <1>1, <1>2, <1>3, <1>4 DEF HubLookup, ReplyFromReceipt, hub_vars
<1>5. CASE HubRenew(r)
  <2>1. Content(r) \in stored /\ UNCHANGED <<stored, enriched>>
    BY <1>5 DEF HubRenew, HubInv, RenewalsFindTheirRow
  <2> QED
    BY <1>3, <1>5, <2>1, HubInvAddReceipt DEF HubRenew, ReplyFromReceipt
<1>6. CASE HubInsert(r)
  BY <1>1, <1>6, HubInvAddReceipt DEF HubInsert
<1>7. CASE HubConflict(r)
  BY <1>2, <1>3, <1>7 DEF HubConflict, hub_vars
<1>8. CASE HubEnrich(r)
  <2>1. CASE UNCHANGED enriched
    BY <1>3, <1>8, <2>1 DEF HubEnrich
  <2>2. CASE enriched' = Put(enriched, r.row, r.body)
    <3>0. r.row \in stored
      BY <1>8 DEF HubEnrich, TypeInv, WritesWereChecked, WasChecked
    <3>1. requests' \subseteq requests /\ UNCHANGED <<stored, receipts>>
      BY <1>8 DEF HubEnrich, Reply
    <3>2. DOMAIN enriched' \subseteq stored'
      BY <2>2, <3>0, <3>1 DEF Put, HubInv, ReceiptsAgree
    <3> QED
      BY <3>1, <3>2 DEF HubInv, ReceiptsAgree, Receipts, RenewalsFindTheirRow, Content
  <2> QED
    BY <1>8, <2>1, <2>2 DEF HubEnrich
<1>9. CASE HubRefuse(r)
  BY <1>3, <1>9 DEF HubRefuse, hub_vars
<1>10. CASE HubCheckPolicy(r)
  <2>1. ASSUME Checked(r) PROVE HubInv'
    <3>1. ~Renewing([r EXCEPT !.phase = "write", !.checked = pairings])
      BY DEF Renewing, TypeInv, Typed, TypeOK, Request
    <3> QED
      BY <1>10, <2>1, <3>1, HubInvFrame DEF HubCheckPolicy, Checked, hub_vars
  <2> QED
    BY <1>3, <1>10, <2>1 DEF HubCheckPolicy, hub_vars
<1> QED
  BY <1>4, <1>5, <1>6, <1>7, <1>8, <1>9, <1>10 DEF HubServes

LEMMA HubInvNext == TypeInv /\ HubInv /\ [Next]_vars => HubInv'
<1> SUFFICES ASSUME TypeInv, HubInv, [Next]_vars PROVE HubInv'
  OBVIOUS
<1>1. CASE UNCHANGED vars
  BY <1>1, HubInvFrame DEF vars, hub_vars
<1> QED
  BY <1>1, HubInvClient, HubInvHub DEF Next, HubStep

LEMMA HubInvInit == Init => HubInv
  BY DEF Init, HubInv, ReceiptsAgree, RenewalsFindTheirRow, Receipts, Nothing

\* However the uploads of one member's PCs interleave, are lost, repeated, refused at the
\* commit or answered late, the hub's three tables agree (sync_tournament).
THEOREM ReceiptsAlwaysAgree == Spec => []ReceiptsAgree
<1>1. HubInv => ReceiptsAgree
  BY DEF HubInv
<1> QED
  BY <1>1, TypeInit, TypeNext, HubInvInit, HubInvNext, PTL DEF Spec

-----------------------------------------------------------------------------
(* What the hub has answered it keeps.                                       *)

Kept == \A k \in DOMAIN receipts : k \in DOMAIN receipts' /\ receipts'[k] = receipts[k]

\* Steps other than the hub's change neither its rows, its receipts nor its enrichments.
LEMMA OnlyHubWrites ==
  ASSUME TypeInv, LocalStep \/ \E c \in Clients : ClientStep(c)
  PROVE  UNCHANGED <<stored, receipts, enriched>>
  BY ClientsLeaveTables, LocalsLeaveTables DEF hub_vars

LEMMA AddReceiptKeeps ==
  ASSUME NEW r, ~HasReceipt(r), AddReceipt(r) PROVE Kept
  BY DEF Kept, AddReceipt, Put, HasReceipt

\* The hub forgets nothing, and only sync_opponents writes names, for a request that was
\* found to be under policy 2.
LEMMA HubGrows ==
  ASSUME TypeInv, [Next]_vars
  PROVE  /\ Kept /\ stored \subseteq stored' /\ DOMAIN enriched \subseteq DOMAIN enriched'
         /\ enriched' # enriched => policy = "2" \/ Overtaken
<1>1. CASE UNCHANGED <<stored, receipts, enriched>>
  BY <1>1 DEF Kept
<1>2. ASSUME NEW r \in requests, HubRenew(r)
      PROVE  UNCHANGED <<stored, enriched>> /\ Kept
  BY <1>2, AddReceiptKeeps DEF HubRenew, Kept
<1>3. ASSUME NEW r \in requests, HubInsert(r)
      PROVE  stored \subseteq stored' /\ UNCHANGED enriched /\ Kept
  BY <1>3, AddReceiptKeeps DEF HubInsert, Kept, HasReceipt
<1>4. ASSUME NEW r \in requests, HubEnrich(r)
      PROVE  /\ UNCHANGED <<stored, receipts>> /\ DOMAIN enriched \subseteq DOMAIN enriched'
             /\ policy = "2" \/ Overtaken
  <2>1. r.phase = "write" /\ r \notin requests'
    BY <1>4 DEF HubEnrich, Reply
  <2>2. policy = "2" \/ r.checked < pairings
    BY <2>1 DEF TypeInv, WritesWereChecked, WasChecked
  <2> QED
    BY <1>4, <2>1, <2>2 DEF HubEnrich, Put, Overtaken
<1>5. ASSUME NEW r \in requests,
             HubLookup(r) \/ HubConflict(r) \/ HubCheckPolicy(r) \/ HubRefuse(r)
      PROVE  UNCHANGED <<stored, receipts, enriched>>
  BY <1>5 DEF HubLookup, HubConflict, HubCheckPolicy, HubRefuse, hub_vars
<1>6. CASE UNCHANGED vars
  BY <1>1, <1>6 DEF vars, hub_vars
<1> QED
  BY <1>1, <1>2, <1>3, <1>4, <1>5, <1>6, OnlyHubWrites DEF Next, HubStep, HubServes, Kept

\* Two answers ever given for one client_key agree: the receipt that the first one is
\* read from is neither redirected nor withdrawn by any later step (sync_tournament).
THEOREM ReceiptsStay == Spec => ReceiptsNeverMove
<1>1. TypeInv /\ [Next]_vars => [Kept]_vars
  BY HubGrows
<1> QED
  BY <1>1, TypeInit, TypeNext, PTL DEF Spec, ReceiptsNeverMove, Kept

\* A step that writes opponent names is taken by the hub, while the member's policy is
\* version 2, or for a request that was found to be under version 2 before an enrolment that
\* came in between, whatever the client believed when it sent them (sync_opponents).
THEOREM NamesNeedPolicy2 == Spec => NamesOnlyUnderPolicy2
<1>1. TypeInv /\ [Next]_vars => [enriched' # enriched => policy = "2" \/ Overtaken]_vars
  BY HubGrows
<1> QED
  BY <1>1, TypeInit, TypeNext, PTL DEF Spec, NamesOnlyUnderPolicy2

-----------------------------------------------------------------------------
(* SyncedIsOnHub, SharedReadOnlyWhenDelivered and the quota.  A client     *)
(* learns what the hub did from one answer, which may be about a record    *)
(* that has been deleted since: the invariant says what is known of an     *)
(* answer on its way.                                                      *)

\* The two records of each tournament are right about the hub.
Records(c) ==
  \A t \in Tournaments :
    /\ Row(core[c][t]) => core[c][t] \in stored /\ core[c][t][1] = t
    /\ opp[c][t].state = "synced" => core[c][t] \in DOMAIN enriched

\* What is still to be delivered has not been: no enrichment can be synced for it.
QueueUndelivered(c) ==
  sess[c].pc \in {"probe", "core", "coreWait"} =>
    \A t \in sess[c].todo : ~Row(core[c][t])

Awaits(c, r) == r.awaited /\ r.from = c

\* The request carries opponent names.
Naming(r) == r.phase \in {"enrich", "write"}

\* A PC waits for one answer at a time.
AwaitsOne(c) ==
  \A r \in requests : Awaits(c, r) =>
    /\ Waiting(c) /\ sess[c].result = None
    /\ \A q \in requests : Awaits(c, q) => q = r

CoreWaits(c) ==
  sess[c].pc = "coreWait" =>
    /\ sess[c].at \in sess[c].todo
    /\ Row(sess[c].result) => sess[c].result \in stored /\ sess[c].result[1] = sess[c].at
    /\ \A r \in requests : Awaits(c, r) => ~Naming(r) /\ r.key[2] = sess[c].at

OppWaits(c) ==
  sess[c].pc = "oppWait" =>
    LET t == sess[c].at
    IN  /\ t \in Tournaments
        /\ core[c][t] = None \/ Row(core[c][t])
        /\ Row(sess[c].result) => core[c][t] \in DOMAIN enriched \cup {None}
        /\ \A r \in requests : Awaits(c, r) => Naming(r) /\ core[c][t] \in {None, r.row}

Delivery(c) ==
  Records(c) /\ QueueUndelivered(c) /\ AwaitsOne(c) /\ CoreWaits(c) /\ OppWaits(c)

DeliveryInv == \A c \in Clients : Delivery(c)

\* The rows the hub has and the enrichments it has recorded only grow.
Grows == stored \subseteq stored' /\ DOMAIN enriched \subseteq DOMAIN enriched'

LEMMA Distinct ==
  /\ ~Row(None) /\ ~Row(Pending) /\ ~Row(Rejected) /\ None # Pending
  /\ None \notin Tournaments
  BY SyncAssumption DEF Row, Contents

-----------------------------------------------------------------------------
(* A PC that the step is not about.                                          *)

LEMMA RecordsKept ==
  ASSUME NEW c \in Clients, Records(c), Grows, core'[c] = core[c], opp'[c] = opp[c]
  PROVE  Records(c)'
  BY DEF Records, Grows, Row

LEMMA DeliveryFrame ==
  ASSUME NEW c \in Clients, Delivery(c), Grows, core'[c] = core[c], opp'[c] = opp[c],
         sess'[c] = sess[c], \A r \in requests' : Awaits(c, r) => r \in requests
  PROVE  Delivery(c)'
<1>1. Records(c)'
  BY RecordsKept DEF Delivery
<1>2. QueueUndelivered(c)' /\ AwaitsOne(c)'
  BY DEF Delivery, QueueUndelivered, AwaitsOne, Awaits, Waiting, Row
<1>3. CoreWaits(c)'
  BY DEF Delivery, CoreWaits, Awaits, Grows, Row
<1>4. OppWaits(c)'
  BY DEF Delivery, OppWaits, Awaits, Grows, Row
<1> QED
  BY <1>1, <1>2, <1>3, <1>4 DEF Delivery

\* A PC outside the two waits owes nothing about answers.
LEMMA NotWaiting ==
  ASSUME NEW c \in Clients, Delivery(c), Records(c)', ~Waiting(c)', QueueUndelivered(c)',
         \A r \in requests' : Awaits(c, r) => r \in requests,
         \A r \in requests : ~Awaits(c, r)
  PROVE  Delivery(c)'
  BY DEF Delivery, AwaitsOne, CoreWaits, OppWaits, Waiting, Awaits

\* Nothing is on its way for a PC that does not wait, or that has its answer.
LEMMA NothingAwaited ==
  ASSUME NEW c \in Clients, Delivery(c), ~Waiting(c) \/ sess[c].result # None
  PROVE  \A r \in requests : ~Awaits(c, r)
  BY DEF Delivery, AwaitsOne

LEMMA UnawaitedGone ==
  ASSUME TypeInv, NEW c \in Clients, NEW d \in Clients, NEW r \in Unawait(c), Awaits(d, r)
  PROVE  d # c /\ r \in requests
<1>1. PICK q \in requests : /\ r.awaited <=> q.awaited /\ q.from # c
                            /\ q.from = r.from
                            /\ r = [q EXCEPT !.awaited = q.awaited /\ q.from # c]
  BY UnawaitKeeps
<1>2. q.awaited /\ q.from = d /\ d # c
  BY <1>1 DEF Awaits
<1>3. (q.awaited /\ q.from # c) = TRUE /\ q.awaited = TRUE
  BY <1>2 DEF TypeInv, Typed, TypeOK, Request
<1>4. r = q
  BY <1>1, <1>3 DEF TypeInv, Typed, TypeOK, Request
<1> QED
  BY <1>2, <1>4

-----------------------------------------------------------------------------
(* The queues.                                                               *)

LEMMA EnqueueRecords ==
  ASSUME TypeInv, NEW c \in Clients, Records(c), NEW b, NEW g, NEW k, Grows,
         k = core[c] \/ k = EnqueueCompleted(c),
         core'[c] = k,
         opp'[c] = EnqueueOpponents(c, k, g, b) \/ opp'[c] = opp[c]
  PROVE  Records(c)'
<1> SUFFICES ASSUME NEW t \in Tournaments
             PROVE  /\ Row(k[t]) => k[t] \in stored' /\ k[t][1] = t
                    /\ opp'[c][t].state = "synced" => k[t] \in DOMAIN enriched'
  BY DEF Records, Row
<1>1. k[t] = core[c][t] \/ (~Row(core[c][t]) /\ k[t] = Pending)
  <2>1. CASE k = core[c]
    BY <2>1
  <2>2. CASE k = EnqueueCompleted(c)
    BY <2>2, Distinct DEF EnqueueCompleted
  <2> QED
    BY <2>1, <2>2
<1>2. Row(k[t]) => k[t] = core[c][t]
  BY <1>1, Distinct
<1>3. opp'[c][t].state = "synced" => opp[c][t].state = "synced"
  BY DEF EnqueueOpponents
<1>4. opp[c][t].state = "synced" => Row(core[c][t])
  BY DEF Records, TypeInv, Typed, TypeOK, HubTypes, Row
<1> QED
  BY <1>1, <1>2, <1>3, <1>4 DEF Records, Grows

LEMMA FreshRecords ==
  ASSUME NEW c \in Clients,
         \A t \in Tournaments : core'[c][t] \in {None, Pending} /\ opp'[c][t] = NoOpp
  PROVE  Records(c)'
  BY Distinct DEF Records, NoOpp, Row

-----------------------------------------------------------------------------
(* The steps of a PC outside a sync.                                         *)

LEMMA DeliveryDelete ==
  ASSUME TypeInv, NEW c \in Clients, Delivery(c), DeleteAnalyzedData(c)
  PROVE  Delivery(c)'
<1>1. /\ core'[c] = [t \in Tournaments |-> None] /\ opp'[c] = [t \in Tournaments |-> NoOpp]
      /\ UNCHANGED <<sess, requests, stored, enriched>>
  BY DEF DeleteAnalyzedData, TypeInv, Typed, TypeOK, ClientTypes, hub_vars
<1>2. Records(c)'
  BY <1>1, FreshRecords
<1>3. sess[c].todo \subseteq Tournaments
  BY SessionFields DEF TypeInv, Typed, TypeOK, SessTypes
<1>4. QueueUndelivered(c)'
  BY <1>1, <1>3, Distinct DEF QueueUndelivered, Row
<1>5. AwaitsOne(c)' /\ CoreWaits(c)'
  BY <1>1 DEF Delivery, AwaitsOne, CoreWaits, Awaits, Waiting, Row
<1>6. OppWaits(c)'
  BY <1>1 DEF Delivery, OppWaits, Awaits, Row
<1> QED
  BY <1>2, <1>4, <1>5, <1>6 DEF Delivery

LEMMA DeliveryAtRest ==
  ASSUME TypeInv, NEW c \in Clients, Delivery(c), UNCHANGED <<sess, requests>>,
         ~Waiting(c), sess[c].pc = "idle", Records(c)'
  PROVE  Delivery(c)'
<1>1. QueueUndelivered(c)' /\ ~Waiting(c)'
  BY DEF QueueUndelivered, Waiting
<1> QED
  BY <1>1, NothingAwaited, NotWaiting

LEMMA DeliveryLocal ==
  ASSUME TypeInv, DeliveryInv, Grows, LocalStep
  PROVE  DeliveryInv'
<1> SUFFICES ASSUME NEW d \in Clients PROVE Delivery(d)'
  BY DEF DeliveryInv
<1>0. Delivery(d)
  BY DEF DeliveryInv
<1>1. ASSUME NEW c \in Clients, NEW t \in Tournaments, NEW v \in Versions,
             Import(c, t, v) \/ Reidentify(c, t, v)
      PROVE  Delivery(d)'
  BY <1>0, <1>1, DeliveryFrame DEF Import, Reidentify, Awaits
<1>2. ASSUME NEW c \in Clients, DeleteAnalyzedData(c) PROVE Delivery(d)'
  <2>1. CASE c = d
    BY <1>0, <1>2, <2>1, DeliveryDelete
  <2>2. CASE c # d
    BY <1>0, <1>2, <2>2, DeliveryFrame DEF DeleteAnalyzedData, Awaits, TypeInv, Typed, TypeOK, ClientTypes
  <2> QED
    BY <2>1, <2>2
<1>3. ASSUME NEW c \in Clients, NEW p \in Policies, Join(c, p) PROVE Delivery(d)'
  <2>1. CASE c = d
    <3>1. sess[d].pc = "idle" /\ ~Waiting(d)
      BY <1>3, <2>1 DEF Join, TypeInv, Typed, SessionsPaired, Waiting
    <3>2. Records(d)'
      BY <1>3, <2>1, FreshRecords DEF Join, TypeInv, Typed, TypeOK, ClientTypes
    <3> QED
      BY <1>0, <1>3, <3>1, <3>2, DeliveryAtRest DEF Join
  <2>2. CASE c # d
    BY <1>0, <1>3, <2>2, DeliveryFrame DEF Join, Awaits, TypeInv, Typed, TypeOK, ClientTypes
  <2> QED
    BY <2>1, <2>2
<1>4. ASSUME NEW c \in Clients, Leave(c) PROVE Delivery(d)'
  <2>1. CASE c = d
    <3>1. Records(d)'
      BY <1>4, <2>1, FreshRecords DEF Leave, TypeInv, Typed, TypeOK, ClientTypes
    <3> QED
      BY <1>0, <1>4, <2>1, <3>1, DeliveryAtRest DEF Leave, Paired, Waiting
  <2>2. CASE c # d
    BY <1>0, <1>4, <2>2, DeliveryFrame DEF Leave, Awaits, TypeInv, Typed, TypeOK, ClientTypes
  <2> QED
    BY <2>1, <2>2
<1>5. ASSUME NEW c \in Clients, UpgradeConsent(c) PROVE Delivery(d)'
  <2>1. CASE c = d
    <3>1. PICK g : opp'[d] = EnqueueOpponents(d, core[d], g, FALSE) \/ opp'[d] = opp[d]
      BY <1>5, <2>1 DEF UpgradeConsent, TypeInv, Typed, TypeOK, ClientTypes
    <3>2. core'[d] = core[d]
      BY <1>5 DEF UpgradeConsent
    <3>3. Records(d)'
      BY <1>0, <3>1, <3>2, EnqueueRecords DEF Delivery
    <3> QED
      BY <1>0, <1>5, <2>1, <3>3, DeliveryAtRest DEF UpgradeConsent, Paired, Waiting
  <2>2. CASE c # d
    BY <1>0, <1>5, <2>2, DeliveryFrame DEF UpgradeConsent, Awaits, TypeInv, Typed, TypeOK, ClientTypes
  <2> QED
    BY <2>1, <2>2
<1>6. ASSUME NEW c \in Clients, Status(c) PROVE Delivery(d)'
  <2>1. CASE c = d
    <3>1. Records(d)'
      BY <1>0, <1>6, <2>1, EnqueueRecords
      DEF Delivery, Status, Enqueue, TypeInv, Typed, TypeOK, ClientTypes
    <3> QED
      BY <1>0, <1>6, <2>1, <3>1, DeliveryAtRest DEF Status, Paired, Waiting
  <2>2. CASE c # d
    BY <1>0, <1>6, <2>2, DeliveryFrame DEF Status, Enqueue, Awaits, TypeInv, Typed, TypeOK, ClientTypes
  <2> QED
    BY <2>1, <2>2
<1>7. ASSUME NEW c \in Clients, Crash(c) PROVE Delivery(d)'
  <2>1. \A r \in requests' : Awaits(d, r) => d # c /\ r \in requests
    BY <1>7, UnawaitedGone DEF Crash
  <2>2. CASE c = d
    <3>1. sess'[d] = Idle
      BY <1>7, <2>2 DEF Crash, TypeInv, Typed, TypeOK
    <3>2. Records(d)'
      BY <1>0, <1>7, RecordsKept DEF Delivery, Crash, client_vars
    <3>3. /\ QueueUndelivered(d)' /\ AwaitsOne(d)' /\ CoreWaits(d)' /\ OppWaits(d)'
      BY <2>1, <2>2, <3>1 DEF QueueUndelivered, AwaitsOne, CoreWaits, OppWaits, Idle, Awaits
    <3> QED
      BY <3>2, <3>3 DEF Delivery
  <2>3. CASE c # d
    BY <1>0, <1>7, <2>1, <2>3, DeliveryFrame DEF Crash, client_vars, TypeInv, Typed, TypeOK
  <2> QED
    BY <2>2, <2>3
<1> QED
  BY <1>1, <1>2, <1>3, <1>4, <1>5, <1>6, <1>7 DEF LocalStep

-----------------------------------------------------------------------------
(* The steps of a sync and of a read: what they change is the PC's own.      *)

LEMMA OthersKept ==
  ASSUME TypeInv, NEW c \in Clients, ClientStep(c), NEW d \in Clients, d # c
  PROVE  core'[d] = core[d] /\ opp'[d] = opp[d] /\ sess'[d] = sess[d]
  BY DEF ClientStep, SyncStep, SyncStart, Probe, SendTournament, SendOpponents, Send, RecordAnswer,
     Answered, Stop, Timeout, StartOpponents, SyncSave, ReadStart, Enqueue, ReadAnswer,
     client_vars, TypeInv, Typed, TypeOK, ClientTypes

LEMMA DeliveryOther ==
  ASSUME TypeInv, DeliveryInv, Grows, NEW c \in Clients, ClientStep(c), NEW d \in Clients,
         d # c
  PROVE  Delivery(d)'
<1>1. core'[d] = core[d] /\ opp'[d] = opp[d] /\ sess'[d] = sess[d]
  BY OthersKept
<1>2. \A r \in requests' : Awaits(d, r) => r \in requests
  <2>1. ASSUME NEW t, NEW from, NEW row, Send(c, from, t, row)
        PROVE  \A r \in requests' : Awaits(d, r) => r \in requests
    BY <2>1 DEF Send, Upload, Awaits
  <2> QED
    BY <2>1, UnawaitedGone
    DEF ClientStep, SyncStep, SyncStart, Probe, SendTournament, SendOpponents, RecordAnswer,
        Timeout, StartOpponents, SyncSave, ReadStart, ReadAnswer
<1> QED
  BY <1>1, <1>2, DeliveryFrame DEF DeliveryInv

LEMMA DeliverySyncStart ==
  ASSUME TypeInv, NEW c \in Clients, Delivery(c), NEW b \in BOOLEAN, SyncStart(c, b), Grows
  PROVE  Delivery(c)'
<1>1. /\ core'[c] = EnqueueCompleted(c) /\ opp'[c] = opp[c] /\ requests' = requests
      /\ sess'[c].pc \in {"core", "probe"} /\ sess'[c].todo = PendingCore(core'[c])
      /\ ~Waiting(c)
  BY DEF SyncStart, Paired, Waiting, Idle, TypeInv, Typed, TypeOK, ClientTypes
<1>2. Records(c)'
  BY <1>1, EnqueueRecords DEF Delivery
<1>3. QueueUndelivered(c)' /\ ~Waiting(c)'
  BY <1>1, Distinct DEF QueueUndelivered, PendingCore, Waiting, Row
<1> QED
  BY <1>1, <1>2, <1>3, NothingAwaited, NotWaiting

\* Steps outside the two waits that leave the records alone.
LEMMA DeliveryQuiet ==
  ASSUME TypeInv, NEW c \in Clients, Delivery(c), Grows, UNCHANGED <<core, opp, requests>>,
         ~Waiting(c), ~Waiting(c)',
         \/ sess'[c].pc \notin {"probe", "core", "coreWait"}
         \/ /\ sess[c].pc \in {"probe", "core"}
            /\ sess'[c].todo \subseteq sess[c].todo
  PROVE  Delivery(c)'
<1>1. Records(c)' /\ QueueUndelivered(c)'
  BY RecordsKept DEF Delivery, QueueUndelivered, Row
<1> QED
  BY <1>1, NothingAwaited, NotWaiting

LEMMA DeliverySend ==
  ASSUME TypeInv, NEW c \in Clients, Delivery(c), Grows, NEW t \in sess[c].todo,
         NEW from \in {"coreWait", "oppWait"}, NEW row, Send(c, from, t, row),
         UNCHANGED <<client_vars, hub_vars>>,
         sess[c].pc = Queue(from),
         from = "coreWait" => row = None,
         from = "oppWait" => Row(row) /\ row = core[c][t]
  PROVE  Delivery(c)'
<1>1. Records(c)' /\ UNCHANGED <<core, opp, stored, enriched>>
  BY RecordsKept DEF Delivery, client_vars, hub_vars
<1>2. \A r \in requests : ~Awaits(c, r)
  BY NothingAwaited DEF Queue, Waiting
<1>3. CASE local[c][t] = Absent
  <2>1. sess'[c].pc = Queue(from) /\ sess'[c].todo \subseteq sess[c].todo /\ requests' = requests
    BY <1>3 DEF Send, TypeInv, Typed, TypeOK, Session
  <2> QED
    BY <1>1, <2>1, DeliveryQuiet DEF Queue, Waiting
<1>4. CASE local[c][t] # Absent
  <2> DEFINE u == Upload(c, t, row)
  <2>1. /\ sess'[c] = [sess[c] EXCEPT !.pc = from, !.at = t, !.result = None]
        /\ requests' = requests \cup {u}
    BY <1>4 DEF Send, TypeInv, Typed, TypeOK
  <2>2. /\ sess'[c].pc = from /\ sess'[c].at = t /\ sess'[c].result = None
        /\ sess'[c].todo = sess[c].todo
    BY <2>1 DEF TypeInv, Typed, TypeOK, Session
  <2>3. \A r \in requests' : Awaits(c, r) => r = u
    BY <1>2, <2>1
  <2>4. u.row = row /\ u.key[2] = t /\ u.phase = IF row = None THEN "new" ELSE "enrich"
    BY DEF Upload
  <2>5. QueueUndelivered(c)'
    BY <1>1, <2>2 DEF QueueUndelivered, Delivery, Queue, Row
  <2>6. AwaitsOne(c)'
    BY <2>2, <2>3 DEF AwaitsOne, Waiting, Awaits
  <2>7. CoreWaits(c)'
    BY <2>2, <2>3, <2>4, Distinct DEF CoreWaits, Awaits, Row, Naming
  <2>8. OppWaits(c)'
    <3>1. t \in Tournaments
      BY SessionFields DEF TypeInv, Typed, TypeOK, SessTypes
    <3> QED
      BY <1>1, <2>2, <2>3, <2>4, <3>1, Distinct DEF OppWaits, Awaits, Row, Naming
  <2> QED
    BY <1>1, <2>5, <2>6, <2>7, <2>8 DEF Delivery
<1> QED
  BY <1>3, <1>4

\* Stop leaves the records alone and ends the wait, whatever was on its way.
LEMMA DeliveryStop ==
  ASSUME TypeInv, NEW c \in Clients, Delivery(c), Grows, UNCHANGED <<core, opp>>, Waiting(c),
         NEW e, Stop(c, e), \A r \in requests' : ~Awaits(c, r)
  PROVE  Delivery(c)'
<1>1. sess'[c].todo = {} /\ sess'[c].pc \in {"idle", "core", "opp"}
  BY DEF Stop, Idle, Queue, TypeInv, Typed, TypeOK, Session
<1>2. Records(c)'
  BY RecordsKept DEF Delivery
<1>3. QueueUndelivered(c)' /\ AwaitsOne(c)' /\ CoreWaits(c)' /\ OppWaits(c)'
  BY <1>1 DEF QueueUndelivered, AwaitsOne, CoreWaits, OppWaits, Awaits
<1> QED
  BY <1>2, <1>3 DEF Delivery

LEMMA DeliveryRecord ==
  ASSUME TypeInv, NEW c \in Clients, Delivery(c), Grows, RecordAnswer(c)
  PROVE  Delivery(c)'
<1> DEFINE t == sess[c].at
<1>1. /\ Waiting(c) /\ sess[c].result # None /\ UNCHANGED requests
      /\ \A r \in requests : ~Awaits(c, r)
  BY NothingAwaited DEF RecordAnswer
<1>2. CASE sess[c].result = Rejected \/ RecordDeleted(c)
  BY <1>1, <1>2, DeliveryStop DEF RecordAnswer, Awaits
<1>3. CASE ~(sess[c].result = Rejected \/ RecordDeleted(c))
  <2>1. Row(sess[c].result) /\ t \in Tournaments /\ core[c][t] # None
    <3>1. sess[c].result \in Contents \cup {None, Rejected} /\ sess[c].todo \subseteq Tournaments
      BY SessionFields DEF TypeInv, Typed, TypeOK, SessTypes
    <3>2. t \in Tournaments
      BY <1>1, <3>1 DEF Delivery, CoreWaits, OppWaits, Waiting
    <3> QED
      BY <1>1, <1>3, <3>1, <3>2 DEF Row, RecordDeleted
  <2>2. /\ sess'[c].pc = Queue(sess[c].pc) /\ sess'[c].todo = sess[c].todo \ {t}
    <3>1. PICK s \in Session : /\ s.pc = sess[c].pc /\ s.todo = sess[c].todo /\ s.at = t
                              /\ sess' = Answered(c, s)
      <4>1. [sess[c] EXCEPT !.has = TRUE] \in Session /\ sess[c] \in Session
        BY DEF TypeInv, Typed, TypeOK, Session
      <4>2. [sess[c] EXCEPT !.has = TRUE].pc = sess[c].pc
            /\ [sess[c] EXCEPT !.has = TRUE].todo = sess[c].todo
            /\ [sess[c] EXCEPT !.has = TRUE].at = t
        BY DEF TypeInv, Typed, TypeOK, Session
      <4> QED
        BY <1>3, <4>1, <4>2 DEF RecordAnswer
    <3> QED
      BY <3>1 DEF Answered, TypeInv, Typed, TypeOK, Session
  <2>3. ~Waiting(c)'
    BY <2>2 DEF Waiting, Queue
  <2>4. CASE sess[c].pc = "coreWait"
    <3>1. core'[c] = [core[c] EXCEPT ![t] = sess[c].result] /\ opp' = opp
      BY <1>3, <2>4 DEF RecordAnswer, TypeInv, Typed, TypeOK, ClientTypes
    <3>2. sess[c].result \in stored /\ sess[c].result[1] = t /\ ~Row(core[c][t])
      BY <2>1, <2>4 DEF Delivery, CoreWaits, QueueUndelivered
    <3>3. opp[c][t].state # "synced"
      BY <2>1, <3>2 DEF Delivery, Records, Row, TypeInv, Typed, TypeOK, HubTypes
    <3>4. Records(c)'
      <4> SUFFICES ASSUME NEW u \in Tournaments
                   PROVE  /\ Row(core'[c][u]) => core'[c][u] \in stored' /\ core'[c][u][1] = u
                          /\ opp[c][u].state = "synced" => core'[c][u] \in DOMAIN enriched'
        BY <3>1 DEF Records, Row
      <4>1. CASE u = t
        BY <2>1, <3>1, <3>2, <3>3, <4>1 DEF Grows, TypeInv, Typed, TypeOK, ClientTypes
      <4>2. CASE u # t
        BY <3>1, <4>2 DEF Delivery, Records, Grows, TypeInv, Typed, TypeOK, ClientTypes
      <4> QED
        BY <4>1, <4>2
    <3>5. QueueUndelivered(c)'
      BY <2>2, <2>4, <3>1 DEF Delivery, QueueUndelivered, Row, TypeInv, Typed, TypeOK, ClientTypes
    <3> QED
      BY <1>1, <2>3, <3>4, <3>5, NotWaiting
  <2>5. CASE sess[c].pc = "oppWait"
    <3>1. opp'[c] = [opp[c] EXCEPT ![t].state = "synced"] /\ core' = core
      BY <1>3, <2>5 DEF RecordAnswer, TypeInv, Typed, TypeOK, ClientTypes
    <3>2. core[c][t] \in DOMAIN enriched
      BY <2>1, <2>5 DEF Delivery, OppWaits
    <3>3. Records(c)'
      BY <2>1, <3>1, <3>2 DEF Delivery, Records, Grows, Row, TypeInv, Typed, TypeOK, ClientTypes
    <3>4. QueueUndelivered(c)'
      BY <2>2, <2>5 DEF QueueUndelivered, Queue
    <3> QED
      BY <1>1, <2>3, <3>3, <3>4, NotWaiting
  <2> QED
    BY <1>1, <2>4, <2>5 DEF Waiting
<1> QED
  BY <1>2, <1>3

LEMMA DeliveryClient ==
  ASSUME TypeInv, NEW c \in Clients, Delivery(c), Grows, ClientStep(c)
  PROVE  Delivery(c)'
<1>1. ASSUME NEW b \in BOOLEAN, SyncStart(c, b) PROVE Delivery(c)'
  BY <1>1, DeliverySyncStart
<1>2. CASE Probe(c)
  <2>1. /\ UNCHANGED <<core, opp, requests>> /\ sess[c].pc = "probe"
        /\ sess'[c].pc = "core" /\ sess'[c].todo = sess[c].todo
    <3>1. PICK h \in BOOLEAN, k \in BOOLEAN, e \in Errors :
            sess' = [sess EXCEPT ![c] = [sess[c] EXCEPT !.pc = "core", !.has = h, !.tracking = k,
                                                        !.err = e]]
      BY <1>2, ProbeSession DEF TypeInv, Typed, TypeOK, SessTypes
    <3>2. sess'[c].pc = "core" /\ sess'[c].todo = sess[c].todo
      BY <3>1 DEF TypeInv, Typed, TypeOK, Session
    <3> QED
      BY <1>2, <3>2 DEF Probe, client_vars
  <2> QED
    BY <2>1, DeliveryQuiet DEF Waiting
<1>3. ASSUME NEW t \in Tournaments, SendTournament(c, t) PROVE Delivery(c)'
  BY <1>3, DeliverySend DEF SendTournament, Queue
<1>4. ASSUME NEW t \in Tournaments, SendOpponents(c, t) PROVE Delivery(c)'
  <2>1. CASE core[c][t] \in Contents
    BY <1>4, <2>1, DeliverySend DEF SendOpponents, Queue, Row
  <2>2. CASE core[c][t] \notin Contents
    <3>1. UNCHANGED <<core, opp, requests>> /\ sess[c].pc = "opp" /\ sess'[c].pc = "opp"
      BY <1>4, <2>2 DEF SendOpponents, client_vars, TypeInv, Typed, TypeOK, Session
    <3> QED
      BY <3>1, DeliveryQuiet DEF Waiting
  <2> QED
    BY <2>1, <2>2
<1>5. CASE RecordAnswer(c)
  BY <1>5, DeliveryRecord
<1>6. CASE Timeout(c)
  <2>1. \A r \in requests' : ~Awaits(c, r)
    BY <1>6, UnawaitedGone DEF Timeout
  <2> QED
    BY <1>6, <2>1, DeliveryStop DEF Timeout, client_vars
<1>7. CASE StartOpponents(c)
  <2>1. /\ core' = core /\ requests' = requests /\ sess'[c].pc = "opp"
        /\ opp'[c] = EnqueueOpponents(c, core[c], cfg[c], sess[c].revalidate)
        /\ sess[c].pc = "core"
    BY <1>7 DEF StartOpponents, TypeInv, Typed, TypeOK, ClientTypes, Session
  <2>2. Records(c)'
    BY <2>1, EnqueueRecords DEF Delivery
  <2>3. QueueUndelivered(c)' /\ ~Waiting(c) /\ ~Waiting(c)'
    BY <2>1 DEF QueueUndelivered, Waiting
  <2> QED
    BY <2>1, <2>2, <2>3, NothingAwaited, NotWaiting
<1>8. CASE SyncSave(c)
  <2>1. UNCHANGED <<core, opp, requests>> /\ sess[c].pc = "opp" /\ sess'[c].pc = "idle"
    BY <1>8 DEF SyncSave, Idle, TypeInv, Typed, TypeOK
  <2> QED
    BY <2>1, DeliveryQuiet DEF Waiting
<1>9. CASE ReadStart(c)
  <2>1. /\ core'[c] = EnqueueCompleted(c) /\ requests' = requests /\ sess[c].pc = "idle"
        /\ opp'[c] = EnqueueOpponents(c, EnqueueCompleted(c), cfg[c], FALSE)
        /\ sess'[c].pc \in {"idle", "read"}
    BY <1>9 DEF ReadStart, Paired, Enqueue, Idle, TypeInv, Typed, TypeOK, ClientTypes, Session
  <2>2. Records(c)'
    BY <2>1, EnqueueRecords DEF Delivery
  <2>3. QueueUndelivered(c)' /\ ~Waiting(c) /\ ~Waiting(c)'
    BY <2>1 DEF QueueUndelivered, Waiting
  <2> QED
    BY <2>1, <2>2, <2>3, NothingAwaited, NotWaiting
<1>10. CASE ReadAnswer(c)
  <2>1. UNCHANGED <<core, opp, requests>> /\ sess[c].pc = "read" /\ sess'[c].pc = "idle"
    BY <1>10 DEF ReadAnswer, Idle, TypeInv, Typed, TypeOK
  <2> QED
    BY <2>1, DeliveryQuiet DEF Waiting
<1> QED
  BY <1>1, <1>2, <1>3, <1>4, <1>5, <1>6, <1>7, <1>8, <1>9, <1>10 DEF ClientStep, SyncStep

-----------------------------------------------------------------------------
(* The steps of the hub.                                                     *)

\* An answer is safe to record when what it says is true of the hub.
Truthful(r, a) ==
  Row(a) => IF Naming(r) THEN r.row \in DOMAIN enriched'
            ELSE a \in stored' /\ a[1] = r.key[2]

LEMMA DeliveryReply ==
  ASSUME TypeInv, DeliveryInv, Grows, UNCHANGED client_vars, NEW r \in requests, NEW a,
         Reply(r, a), Truthful(r, a)
  PROVE  DeliveryInv'
<1> SUFFICES ASSUME NEW d \in Clients PROVE Delivery(d)'
  BY DEF DeliveryInv
<1>1. Delivery(d) /\ UNCHANGED <<core, opp>> /\ requests' = requests \ {r}
  BY DEF DeliveryInv, client_vars, Reply
<1>2. CASE ~Awaits(d, r)
  <2>1. sess'[d] = sess[d]
    BY <1>2 DEF Reply, Awaits, TypeInv, Typed, TypeOK
  <2> QED
    BY <1>1, <2>1, DeliveryFrame
<1>3. CASE Awaits(d, r)
  <2>1. /\ sess'[d] = [sess[d] EXCEPT !.result = a]
    BY <1>3 DEF Reply, Awaits, TypeInv, Typed, TypeOK
  <2>2. /\ sess'[d].pc = sess[d].pc /\ sess'[d].at = sess[d].at /\ sess'[d].todo = sess[d].todo
        /\ sess'[d].result = a
    BY <2>1 DEF TypeInv, Typed, TypeOK, Session
  <2>3. \A q \in requests' : ~Awaits(d, q)
    BY <1>1, <1>3 DEF Delivery, AwaitsOne
  <2>4. Records(d)' /\ QueueUndelivered(d)' /\ AwaitsOne(d)'
    BY <1>1, <2>2, <2>3, RecordsKept DEF Delivery, QueueUndelivered, AwaitsOne, Awaits, Row
  <2>5. CoreWaits(d)'
    BY <1>1, <1>3, <2>2, <2>3 DEF Delivery, CoreWaits, Truthful, Awaits, Row
  <2>6. OppWaits(d)'
    BY <1>1, <1>3, <2>2, <2>3 DEF Delivery, OppWaits, Truthful, Awaits, Row
  <2> QED
    BY <2>4, <2>5, <2>6 DEF Delivery
<1> QED
  BY <1>2, <1>3

\* The request goes on as n.
GoesOn(r, n) ==
  /\ requests' = (requests \ {r}) \cup {n} /\ UNCHANGED sess
  /\ n.from = r.from /\ n.awaited = r.awaited /\ n.key = r.key /\ n.row = r.row
  /\ Naming(n) <=> Naming(r)

LEMMA DeliveryGoesOn ==
  ASSUME TypeInv, DeliveryInv, Grows, UNCHANGED client_vars, NEW r \in requests,
         NEW n, GoesOn(r, n)
  PROVE  DeliveryInv'
<1> SUFFICES ASSUME NEW d \in Clients PROVE Delivery(d)'
  BY DEF DeliveryInv
<1>1. /\ Delivery(d) /\ UNCHANGED <<core, opp, sess>> /\ requests' = (requests \ {r}) \cup {n}
      /\ n.from = r.from /\ n.awaited = r.awaited /\ n.key = r.key /\ n.row = r.row
      /\ Naming(n) <=> Naming(r)
  BY DEF DeliveryInv, client_vars, GoesOn
<1>2. CASE ~Awaits(d, r)
  <2>1. \A q \in requests' : Awaits(d, q) => q \in requests
    BY <1>1, <1>2 DEF Awaits
  <2> QED
    BY <1>1, <2>1, DeliveryFrame
<1>3. CASE Awaits(d, r)
  <2>1. \A q \in requests' : Awaits(d, q) => q = n
    BY <1>1, <1>3 DEF Delivery, AwaitsOne
  <2>2. Records(d)' /\ QueueUndelivered(d)'
    BY <1>1, RecordsKept DEF Delivery, QueueUndelivered, Row
  <2>3. AwaitsOne(d)'
    BY <1>1, <1>3, <2>1 DEF Delivery, AwaitsOne, Awaits, Waiting
  <2>4. CoreWaits(d)'
    <3>1. ASSUME sess[d].pc = "coreWait" 
          PROVE  /\ sess[d].at \in sess[d].todo /\ n.key[2] = sess[d].at /\ ~Naming(n)
                 /\ Row(sess[d].result) => sess[d].result \in stored /\ sess[d].result[1] = sess[d].at
      BY <1>1, <1>3, <3>1 DEF Delivery, CoreWaits
    <3>2. Row(sess[d].result)' <=> Row(sess[d].result)
      BY <1>1 DEF Row
    <3> QED
      BY <1>1, <2>1, <3>1, <3>2 DEF CoreWaits, Awaits, Grows, Naming
  <2>5. OppWaits(d)'
    BY <1>1, <1>3, <2>1 DEF Delivery, OppWaits, Awaits, Grows, Row, Naming
  <2> QED
    BY <2>2, <2>3, <2>4, <2>5 DEF Delivery
<1> QED
  BY <1>2, <1>3

LEMMA DeliveryAdvance ==
  ASSUME TypeInv, DeliveryInv, Grows, UNCHANGED client_vars, NEW r \in requests,
         NEW p \in {"renew", "renewLast", "insert", "conflict"}, Advance(r, p), ~Naming(r)
  PROVE  DeliveryInv'
<1>1. GoesOn(r, [r EXCEPT !.phase = p])
  BY DEF GoesOn, Advance, Naming, TypeInv, Typed, TypeOK, Request
<1> QED
  BY <1>1, DeliveryGoesOn

LEMMA DeliveryChecked ==
  ASSUME TypeInv, DeliveryInv, Grows, UNCHANGED client_vars, NEW r \in requests,
         r.phase = "enrich", Checked(r)
  PROVE  DeliveryInv'
<1>1. GoesOn(r, [r EXCEPT !.phase = "write", !.checked = pairings])
  BY DEF GoesOn, Checked, Naming, TypeInv, Typed, TypeOK, Request
<1> QED
  BY <1>1, DeliveryGoesOn

LEMMA DeliveryHub ==
  ASSUME TypeInv, HubInv, DeliveryInv, Grows, NEW r \in requests,
         HubServes(r) \/ HubRefuse(r)
  PROVE  DeliveryInv'
<1>1. UNCHANGED client_vars
  BY DEF HubServes, HubLookup, HubRenew, HubInsert, HubConflict, HubCheckPolicy, HubEnrich, HubRefuse
<1>2. CASE Reply(r, Rejected)
  BY <1>1, <1>2, DeliveryReply, Distinct DEF Truthful
<1>3. ASSUME Reply(r, Content(r)), Content(r) \in stored', ~Naming(r)
      PROVE  DeliveryInv'
  BY <1>1, <1>3, DeliveryReply DEF Truthful, Content
<1>4. ASSUME HasReceipt(r), ReplyFromReceipt(r), ~Naming(r) PROVE DeliveryInv'
  <2>1. receipts[r.key] \in stored
    BY <1>4 DEF HasReceipt, HubInv, ReceiptsAgree
  <2> QED
    BY <1>2, <1>3, <1>4, <2>1 DEF ReplyFromReceipt, Grows
<1>5. ASSUME NEW p \in {"renew", "renewLast"}, GoRenew(r, p), ~Naming(r)
      PROVE  DeliveryInv'
  BY <1>1, <1>2, <1>5, DeliveryAdvance DEF GoRenew
<1>6. CASE HubLookup(r)
  BY <1>1, <1>2, <1>4, <1>5, <1>6, DeliveryAdvance DEF HubLookup, Naming
<1>7. CASE HubRenew(r)
  <2>1. Content(r) \in stored' /\ ~Naming(r)
    BY <1>7 DEF HubInv, RenewalsFindTheirRow, HubRenew, Grows, Naming
  <2> QED
    BY <1>2, <1>3, <1>4, <1>7, <2>1 DEF HubRenew, AddReceipt
<1>8. CASE HubInsert(r)
  BY <1>1, <1>3, <1>8, DeliveryAdvance DEF HubInsert, AddReceipt, Naming
<1>9. CASE HubConflict(r)
  <2>1. HasReceipt(r) => receipts[r.key] \in stored'
    BY DEF HasReceipt, HubInv, ReceiptsAgree, Grows
  <2> QED
    BY <1>2, <1>3, <1>5, <1>9, <2>1 DEF HubConflict, Naming
<1>10. CASE HubEnrich(r)
  <2>1. CASE enriched' = Put(enriched, r.row, r.body) /\ Reply(r, r.row)
    BY <1>1, <1>10, <2>1, DeliveryReply DEF HubEnrich, Truthful, Put, Naming
  <2>2. ASSUME UNCHANGED enriched, r.row \in DOMAIN enriched, Reply(r, r.row)
        PROVE  DeliveryInv'
    BY <1>1, <1>10, <2>2, DeliveryReply DEF HubEnrich, Truthful, Naming
  <2> QED
    BY <1>2, <1>10, <2>1, <2>2 DEF HubEnrich, SameEnrichment
<1>11. CASE HubRefuse(r)
  BY <1>2, <1>11 DEF HubRefuse
<1>12. CASE HubCheckPolicy(r)
  BY <1>1, <1>2, <1>12, DeliveryChecked DEF HubCheckPolicy
<1> QED
  BY <1>6, <1>7, <1>8, <1>9, <1>10, <1>11, <1>12 DEF HubServes

LEMMA DeliveryNext == TypeInv /\ HubInv /\ DeliveryInv /\ [Next]_vars => DeliveryInv'
<1> SUFFICES ASSUME TypeInv, HubInv, DeliveryInv, [Next]_vars PROVE DeliveryInv'
  OBVIOUS
<1>1. Grows
  BY HubGrows DEF Grows
<1>2. ASSUME NEW c \in Clients, ClientStep(c) PROVE DeliveryInv'
  <2> SUFFICES ASSUME NEW d \in Clients PROVE Delivery(d)'
    BY DEF DeliveryInv
  <2> QED
    BY <1>1, <1>2, DeliveryClient, DeliveryOther DEF DeliveryInv
<1>3. CASE UNCHANGED vars
  <2> SUFFICES ASSUME NEW d \in Clients PROVE Delivery(d)'
    BY DEF DeliveryInv
  <2>1. UNCHANGED <<core, opp, sess, requests>>
    BY <1>3 DEF vars, client_vars
  <2> QED
    BY <1>1, <2>1, DeliveryFrame DEF DeliveryInv
<1> QED
  BY <1>1, <1>2, <1>3, DeliveryLocal, DeliveryHub DEF Next, HubStep

LEMMA DeliveryInit == Init => DeliveryInv
<1> SUFFICES ASSUME Init, NEW c \in Clients PROVE Delivery(c)
  BY DEF DeliveryInv
<1>1. Records(c)
  BY Distinct DEF Init, Records, NoOpp, Row
<1>2. sess[c].pc = "idle" /\ requests = {}
  BY DEF Init, Idle
<1> QED
  BY <1>1, <1>2 DEF Delivery, QueueUndelivered, AwaitsOne, CoreWaits, OppWaits

\* A record marked delivered is delivered: the hub has the row it names, of that very
\* tournament, and has enriched it when the enrichment is marked so, for any number of
\* PCs, lost answers, late duplicates, deletions and pairings (CommunityClient.sync).
THEOREM DeliveredIsOnHub == Spec => []SyncedIsOnHub
<1>1. DeliveryInv => SyncedIsOnHub
  BY DEF DeliveryInv, Delivery, Records, SyncedIsOnHub
<1> QED
  BY <1>1, TypeInit, TypeNext, HubInvInit, HubInvNext, DeliveryInit, DeliveryNext, PTL DEF Spec
-----------------------------------------------------------------------------
(* The shared views.                                                         *)

\* What SharedReadOnlyWhenDelivered says of one PC.
ReadDelivered(c) ==
  sess[c].pc = "read" =>
    \A t \in sess[c].seen :
      \E row \in stored : row[1] = t /\ (cfg[c].tracking => row \in DOMAIN enriched)

\* The gates of proxy_get: the queues just filled hold every tournament the PC has, and
\* nothing in them waits.
LEMMA GatesCheckDelivery ==
  ASSUME TypeInv, NEW c \in Clients, DeliveryInv', Grows, ReadStart(c)
  PROVE  ReadDelivered(c)'
<1> DEFINE seen == {t \in Tournaments : local[c][t] # Absent}
<1> DEFINE g == cfg[c]
<1> DEFINE k == EnqueueCompleted(c)
<1>1. /\ sess[c].pc = "idle" /\ cfg' = cfg
      /\ core'[c] = k /\ opp'[c] = EnqueueOpponents(c, k, g, FALSE)
  BY DEF ReadStart, Enqueue, Paired, TypeInv, Typed, TypeOK, ClientTypes
<1>2. CASE ~MayRead(c)
  BY <1>1, <1>2 DEF ReadStart, ReadDelivered
<1>3. CASE MayRead(c)
  <2>1. sess'[c].seen = seen
    BY <1>3 DEF ReadStart, Idle, TypeInv, Typed, TypeOK
  <2>2. /\ ~(g.tracking /\ g.consent # "2")
        /\ \A t \in Tournaments : k[t] # Pending /\ opp'[c][t].state # "pending"
    BY <1>1, <1>3 DEF MayRead, PendingCore, PendingOpp
  <2>3. SUFFICES ASSUME NEW t \in seen
                 PROVE  \E row \in stored' : row[1] = t /\ (g.tracking => row \in DOMAIN enriched')
    BY <1>1, <2>1 DEF ReadDelivered
  <2>4. Row(k[t])
    <3>1. core[c][t] \in Contents \cup {None, Pending}
      BY DEF TypeInv, Typed, TypeOK, ClientTypes, CoreRecord
    <3>2. k[t] = IF core[c][t] = None THEN Pending ELSE core[c][t]
      BY DEF EnqueueCompleted
    <3> HIDE DEF k
    <3> QED
      BY <2>2, <3>1, <3>2 DEF Row
  <2>5. /\ core'[c][t] = k[t] /\ k[t] \in stored' /\ k[t][1] = t
        /\ opp'[c][t].state = "synced" => k[t] \in DOMAIN enriched'
    BY <1>1, <2>4 DEF DeliveryInv, Delivery, Records, Row
  <2>6. g.tracking => opp'[c][t].state = "synced"
    <3>1. SUFFICES ASSUME g.tracking PROVE opp'[c][t].state = "synced"
      OBVIOUS
    <3>2. g.consent = "2"
      BY <2>2, <3>1
    <3>3. t \notin NeedsEnrichment(c, k, FALSE)
      <4>1. SUFFICES ASSUME t \in NeedsEnrichment(c, k, FALSE) PROVE FALSE
        OBVIOUS
      <4>2. opp'[c][t] = [state |-> "pending", digest |-> local[c][t]]
        BY <1>1, <3>1, <3>2, <4>1 DEF EnqueueOpponents
      <4>3. opp'[c][t].state = "pending"
        BY <4>2
      <4> QED
        BY <2>2, <4>3
    <3>4. opp[c][t].state # "none" /\ opp'[c][t] = opp[c][t]
      BY <1>1, <2>4, <3>3 DEF NeedsEnrichment, EnqueueOpponents, Row
    <3>5. opp[c][t].state \in {"none", "pending", "synced"}
      BY DEF TypeInv, Typed, TypeOK, ClientTypes, OppRecord
    <3> QED
      BY <2>2, <3>4, <3>5
  <2> QED
    BY <2>5, <2>6
<1> QED
  BY <1>2, <1>3

\* A PC goes on reading with what it saw and knew when it began.
StillReads(c) ==
  sess'[c].pc = "read" =>
    sess[c].pc = "read" /\ sess'[c].seen = sess[c].seen /\ cfg'[c].tracking = cfg[c].tracking

LEMMA ReadGoesOn ==
  ASSUME NEW c \in Clients, ReadDelivered(c), Grows, StillReads(c)
  PROVE  ReadDelivered(c)'
  BY DEF ReadDelivered, Grows, StillReads

LEMMA LocalsStillRead ==
  ASSUME TypeInv, LocalStep, NEW c \in Clients
  PROVE  StillReads(c)
<1> USE DEF TypeInv, Typed, TypeOK, ClientTypes, StillReads
<1>1. ASSUME NEW d \in Clients, NEW t \in Tournaments, NEW v \in Versions,
             Import(d, t, v) \/ Reidentify(d, t, v)
      PROVE  StillReads(c)
  BY <1>1 DEF Import, Reidentify
<1>2. ASSUME NEW d \in Clients, DeleteAnalyzedData(d) \/ Status(d)
      PROVE  StillReads(c)
  BY <1>2 DEF DeleteAnalyzedData, Status
<1>3. ASSUME NEW d \in Clients, Leave(d) \/ UpgradeConsent(d) PROVE StillReads(c)
  <2>1. sess' = sess /\ sess[d].pc = "idle" /\ \A e \in Clients \ {d} : cfg'[e] = cfg[e]
    BY <1>3 DEF Leave, UpgradeConsent, Paired
  <2> QED
    BY <2>1
<1>4. ASSUME NEW d \in Clients, NEW p \in Policies, Join(d, p) PROVE StillReads(c)
  <2>1. sess' = sess /\ cfg[d].secret = 0 /\ \A e \in Clients \ {d} : cfg'[e] = cfg[e]
    BY <1>4 DEF Join
  <2> QED
    BY <2>1 DEF SessionsPaired
<1>5. ASSUME NEW d \in Clients, Crash(d) PROVE StillReads(c)
  BY <1>5, IdleType DEF Crash, client_vars
<1> QED
  BY <1>1, <1>2, <1>3, <1>4, <1>5 DEF LocalStep

LEMMA StopsReading ==
  ASSUME SessTypes, NEW d \in Clients, ClientStep(d), ~ReadStart(d)
  PROVE  sess'[d].pc # "read"
<1>1. DOMAIN sess = Clients /\ sess[d] \in Session
  BY DEF SessTypes
<1>2. ASSUME NEW b \in BOOLEAN, SyncStart(d, b) PROVE sess'[d].pc # "read"
  BY <1>1, <1>2 DEF SyncStart, Idle
<1>3. CASE Probe(d)
  <2>1. PICK h \in BOOLEAN, k \in BOOLEAN, e \in Errors :
          sess' = [sess EXCEPT ![d] = [sess[d] EXCEPT !.pc = "core", !.has = h, !.tracking = k,
                                                !.err = e]]
    BY <1>3, ProbeSession DEF SessTypes
  <2> QED
    BY <1>1, <2>1 DEF Session
<1>4. ASSUME NEW t, NEW row, NEW from \in {"coreWait", "oppWait"}, Send(d, from, t, row),
             sess[d].pc \in {"core", "opp"}
      PROVE  sess'[d].pc # "read"
  <2>1. \/ sess' = [sess EXCEPT ![d].todo = @ \ {t}]
        \/ sess' = [sess EXCEPT ![d].pc = from, ![d].at = t, ![d].result = None]
    BY <1>4 DEF Send
  <2>2. \/ sess'[d] = [sess[d] EXCEPT !.todo = @ \ {t}]
        \/ sess'[d] = [sess[d] EXCEPT !.pc = from, !.at = t, !.result = None]
    BY <1>1, <2>1
  <2> QED
    BY <1>1, <1>4, <2>2 DEF Session
<1>5. ASSUME NEW t, SendTournament(d, t) PROVE sess'[d].pc # "read"
  BY <1>4, <1>5 DEF SendTournament
<1>6. ASSUME NEW t, SendOpponents(d, t) PROVE sess'[d].pc # "read"
  <2>1. CASE sess' = [sess EXCEPT ![d].todo = @ \ {t}]
    <3>1. sess'[d] = [sess[d] EXCEPT !.todo = @ \ {t}]
      BY <1>1, <2>1
    <3> QED
      BY <1>1, <1>6, <3>1 DEF SendOpponents, Session
  <2>2. CASE Send(d, "oppWait", t, core[d][t])
    BY <1>4, <1>6, <2>2 DEF SendOpponents
  <2> QED
    BY <1>6, <2>1, <2>2 DEF SendOpponents
<1>7. ASSUME NEW s \in Session, sess' = Answered(d, s)
      PROVE  sess'[d].pc # "read"
  <2>1. sess'[d] = [s EXCEPT !.pc = Queue(@), !.todo = @ \ {s.at}, !.at = None, !.result = None]
    BY <1>1, <1>7 DEF Answered
  <2>2. sess'[d].pc = Queue(s.pc)
    BY <2>1 DEF Session
  <2> QED
    BY <2>2 DEF Queue
<1>8. ASSUME NEW e, Stop(d, e) PROVE sess'[d].pc # "read"
  <2>1. sess'[d] = IF RecordDeleted(d) THEN Idle
                   ELSE [sess[d] EXCEPT !.pc = Queue(@), !.todo = {}, !.err = e, !.at = None,
                                        !.result = None]
    BY <1>1, <1>8 DEF Stop
  <2>2. sess'[d].pc \in {"idle", Queue(sess[d].pc)}
    BY <1>1, <2>1 DEF Session, Idle
  <2> QED
    BY <2>2 DEF Queue
<1>9. CASE RecordAnswer(d)
  <2>1. CASE Stop(d, "rejected")
    BY <1>8, <2>1
  <2>2. CASE sess' = Answered(d, [sess[d] EXCEPT !.has = TRUE])
    <3>1. [sess[d] EXCEPT !.has = TRUE] \in Session
      BY <1>1 DEF Session
    <3> QED
      BY <1>7, <2>2, <3>1
  <2>3. CASE sess' = Answered(d, sess[d])
    BY <1>1, <1>7, <2>3
  <2> QED
    BY <1>9, <2>1, <2>2, <2>3 DEF RecordAnswer
<1>10. CASE Timeout(d)
  BY <1>8, <1>10 DEF Timeout
<1>11. CASE StartOpponents(d)
  <2>1. PICK e, todo : sess' = [sess EXCEPT ![d].pc = "opp", ![d].err = e, ![d].todo = todo]
    BY <1>11 DEF StartOpponents
  <2> QED
    BY <1>1, <2>1 DEF Session
<1>12. CASE SyncSave(d) \/ ReadAnswer(d)
  BY <1>1, <1>12, IdleType DEF SyncSave, ReadAnswer
<1> QED
  BY <1>2, <1>3, <1>5, <1>6, <1>9, <1>10, <1>11, <1>12 DEF ClientStep, SyncStep

LEMMA ClientsStillRead ==
  ASSUME TypeInv, NEW d \in Clients, ClientStep(d), NEW c \in Clients
  PROVE  StillReads(c) \/ (c = d /\ ReadStart(c))
<1>1. CASE c # d
  <2>1. sess'[c] = sess[c]
    BY <1>1, OthersKept
  <2>2. SyncSave(d) \/ ReadAnswer(d) \/ cfg' = cfg
    BY DEF ClientStep, SyncStep, SyncStart, Probe, SendTournament, SendOpponents,
       RecordAnswer, Timeout, StartOpponents, ReadStart, client_vars
  <2>3. SyncSave(d) \/ ReadAnswer(d) => cfg'[c] = cfg[c]
    BY <1>1 DEF SyncSave, ReadAnswer, TypeInv, Typed, TypeOK, ClientTypes
  <2> QED
    BY <2>1, <2>2, <2>3 DEF StillReads
<1>2. CASE c = d
  BY <1>2, StopsReading DEF StillReads, TypeInv, Typed, TypeOK, SessTypes
<1> QED
  BY <1>1, <1>2

LEMMA HubStillReads ==
  ASSUME TypeInv, NEW c \in Clients, NEW r \in requests,
         HubServes(r) \/ HubRefuse(r)
  PROVE  StillReads(c)
<1>1. cfg' = cfg
  BY DEF HubServes, HubLookup, HubRenew, HubInsert, HubConflict, HubCheckPolicy, HubEnrich,
         HubRefuse, client_vars
<1>2. sess' = sess \/ \E a : Reply(r, a)
  BY DEF HubServes, HubLookup, HubRenew, HubInsert, HubConflict, HubCheckPolicy, HubEnrich,
         HubRefuse, ReplyFromReceipt,
     GoRenew, AddReceipt, Advance, Checked
<1>3. sess' = sess \/ \E a : sess' = [sess EXCEPT ![r.from].result = a]
  BY <1>2 DEF Reply
<1>4. sess[c] \in Session /\ DOMAIN sess = Clients
  BY DEF TypeInv, Typed, TypeOK
<1>5. sess'[c].pc = sess[c].pc /\ sess'[c].seen = sess[c].seen
  <2>1. CASE sess' = sess
    BY <2>1
  <2>2. ASSUME NEW a, sess' = [sess EXCEPT ![r.from].result = a]
        PROVE  sess'[c].pc = sess[c].pc /\ sess'[c].seen = sess[c].seen
    <3>1. sess'[c] = sess[c] \/ sess'[c] = [sess[c] EXCEPT !.result = a]
      BY <1>4, <2>2
    <3> QED
      BY <1>4, <3>1 DEF Session
  <2> QED
    BY <1>3, <2>1, <2>2
<1> QED
  BY <1>1, <1>5 DEF StillReads

\* While a PC reads a shared view, every tournament it had when its queues were looked at
\* is on the hub, and enriched there if it knows that it must be, whatever is imported,
\* deleted, timed out or consented meanwhile (proxy_get).
THEOREM ReadsAreContributed == Spec => []SharedReadOnlyWhenDelivered
<1> DEFINE Inv == \A c \in Clients : ReadDelivered(c)
<1>1. Init => Inv
  BY DEF Init, Idle, ReadDelivered
<1>2. TypeInv /\ HubInv /\ DeliveryInv /\ Inv /\ [Next]_vars => Inv'
  <2> SUFFICES ASSUME TypeInv, HubInv, DeliveryInv, Inv, [Next]_vars, NEW c \in Clients
               PROVE  ReadDelivered(c)'
    OBVIOUS
  <2>1. Grows /\ DeliveryInv' /\ ReadDelivered(c)
    BY HubGrows, DeliveryNext DEF Grows
  <2>2. CASE StillReads(c)
    BY <2>1, <2>2, ReadGoesOn
  <2>3. CASE ReadStart(c)
    BY <2>1, <2>3, GatesCheckDelivery
  <2>4. UNCHANGED vars => StillReads(c)
    BY DEF vars, client_vars, StillReads
  <2> QED
    BY <2>2, <2>3, <2>4, LocalsStillRead, ClientsStillRead, HubStillReads DEF Next, HubStep
<1>3. Inv => SharedReadOnlyWhenDelivered
  BY DEF ReadDelivered, SharedReadOnlyWhenDelivered
<1> QED
  BY <1>1, <1>2, <1>3, TypeInit, TypeNext, HubInvInit, HubInvNext, DeliveryInit, DeliveryNext,
     PTL DEF Spec
-----------------------------------------------------------------------------
(* The refinement of Delivery.                                               *)

\* What a PC takes for delivered: tournaments, and their names.
KnownOf(c) == [t \in Tournaments |-> IF Row(core[c][t]) THEN core[c][t] ELSE None]
ToldOf(c) == {t \in Tournaments : opp[c][t].state = "synced"}
Known == [c \in Clients |-> KnownOf(c)]
Told == [c \in Clients |-> ToldOf(c)]
Observed == <<stored, DOMAIN enriched, Known, Told>>

\* The four things a PC can do to them.
Forgets(c) == KnownOf(c)' = [t \in Tournaments |-> None] /\ ToldOf(c)' = {}
Doubts(c) ==
  /\ KnownOf(c)' = KnownOf(c)
  /\ \E ts \in SUBSET Tournaments : ToldOf(c)' = ToldOf(c) \ ts
Learns(c) ==
  /\ ToldOf(c)' = ToldOf(c)
  /\ \E t \in Tournaments, v \in Versions :
       /\ KnownOf(c)[t] = None /\ <<t, v>> \in stored
       /\ KnownOf(c)' = [KnownOf(c) EXCEPT ![t] = <<t, v>>]
LearnsNames(c) ==
  /\ KnownOf(c)' = KnownOf(c)
  /\ \E t \in Tournaments :
       KnownOf(c)[t] \in DOMAIN enriched /\ ToldOf(c)' = ToldOf(c) \cup {t}

LEMMA OfOnePC ==
  ASSUME NEW c \in Clients, \A d \in Clients \ {c} : core'[d] = core[d] /\ opp'[d] = opp[d]
  PROVE  /\ Known' = [Known EXCEPT ![c] = KnownOf(c)']
         /\ Told' = [Told EXCEPT ![c] = ToldOf(c)']
<1>1. \A d \in Clients \ {c} : KnownOf(d)' = KnownOf(d) /\ ToldOf(d)' = ToldOf(d)
  BY DEF KnownOf, ToldOf, Row
<1> QED
  BY <1>1 DEF Known, Told

LEMMA PCImplements ==
  ASSUME NEW c \in Clients, \A d \in Clients \ {c} : core'[d] = core[d] /\ opp'[d] = opp[d],
         UNCHANGED <<stored, enriched>>,
         Forgets(c) \/ Doubts(c) \/ Learns(c) \/ LearnsNames(c)
  PROVE  [Promise!Next]_Observed
<1>1. /\ Known' = [Known EXCEPT ![c] = KnownOf(c)'] /\ Told' = [Told EXCEPT ![c] = ToldOf(c)']
      /\ Known[c] = KnownOf(c) /\ Told[c] = ToldOf(c) /\ ToldOf(c) \subseteq Tournaments
      /\ stored' = stored /\ DOMAIN enriched' = DOMAIN enriched
  BY OfOnePC DEF Known, Told, ToldOf
<1>2. KnownOf(c)' = KnownOf(c) => Known' = Known
  BY <1>1 DEF Known
<1>3. ToldOf(c)' = ToldOf(c) => Told' = Told
  BY <1>1 DEF Told
<1>4. CASE Forgets(c)
  <2>1. Promise!Forget(c)
    BY <1>1, <1>4 DEF Promise!Forget, Promise!Nothing, Forgets, Known, Told, KnownOf, ToldOf
  <2> QED
    BY <2>1 DEF Promise!Next
<1>5. CASE Doubts(c)
  <2>1. PICK ts \in SUBSET Tournaments : ToldOf(c)' = ToldOf(c) \ ts
    BY <1>5 DEF Doubts
  <2>2. Promise!Doubt(c, ts)
    <3>1. Told' = [Told EXCEPT ![c] = Told[c] \ ts] /\ Known' = Known
      BY <1>1, <1>2, <1>5, <2>1 DEF Doubts
    <3> QED
      BY <1>1, <3>1 DEF Promise!Doubt, Known, Told, KnownOf, ToldOf
  <2> QED
    BY <2>1, <2>2 DEF Promise!Next
<1>6. CASE Learns(c)
  <2>1. PICK t \in Tournaments, v \in Versions :
          /\ KnownOf(c)[t] = None /\ <<t, v>> \in stored
          /\ KnownOf(c)' = [KnownOf(c) EXCEPT ![t] = <<t, v>>]
    BY <1>6 DEF Learns
  <2>2. Known' = [Known EXCEPT ![c][t] = <<t, v>>] /\ Told' = Told /\ Known[c][t] = None
    BY <1>1, <1>3, <1>6, <2>1 DEF Learns
  <2>3. Promise!Learn(c, t, v)
    BY <1>1, <2>1, <2>2 DEF Promise!Learn, Known, Told, KnownOf, ToldOf
  <2> QED
    BY <2>3 DEF Promise!Next
<1>7. CASE LearnsNames(c)
  <2>1. PICK t \in Tournaments :
          KnownOf(c)[t] \in DOMAIN enriched /\ ToldOf(c)' = ToldOf(c) \cup {t}
    BY <1>7 DEF LearnsNames
  <2>2. Told' = [Told EXCEPT ![c] = Told[c] \cup {t}] /\ Known' = Known
        /\ Known[c][t] \in DOMAIN enriched
    BY <1>1, <1>2, <1>7, <2>1 DEF LearnsNames
  <2>3. Promise!LearnNamed(c, t)
    BY <1>1, <2>2 DEF Promise!LearnNamed, Known, Told, KnownOf, ToldOf
  <2> QED
    BY <2>3 DEF Promise!Next
<1> QED
  BY <1>4, <1>5, <1>6, <1>7

\* To queue what waits is to forget no delivery; an enrichment may be queued anew.
LEMMA EnqueueDoubts ==
  ASSUME NEW c \in Clients, NEW b, NEW g, NEW k, k = core[c] \/ k = EnqueueCompleted(c),
         core'[c] = k, opp'[c] = EnqueueOpponents(c, k, g, b) \/ opp'[c] = opp[c]
  PROVE  Doubts(c)
<1>1. ASSUME NEW t \in Tournaments
      PROVE  (IF Row(k[t]) THEN k[t] ELSE None) = (IF Row(core[c][t]) THEN core[c][t] ELSE None)
  BY Distinct DEF EnqueueCompleted
<1>2. KnownOf(c)' = KnownOf(c)
  BY <1>1 DEF KnownOf, Row
<1>3. PICK s : s = ToldOf(c)'
  OBVIOUS
<1>4. s \subseteq ToldOf(c)
  BY <1>3 DEF ToldOf, EnqueueOpponents
<1>5. s = ToldOf(c) \ (ToldOf(c) \ s) /\ ToldOf(c) \ s \in SUBSET Tournaments
  BY <1>4 DEF ToldOf
<1> QED
  BY <1>2, <1>3, <1>5 DEF Doubts

LEMMA FreshForgets ==
  ASSUME NEW c \in Clients,
         \A t \in Tournaments : core'[c][t] \in {None, Pending} /\ opp'[c][t] = NoOpp
  PROVE  Forgets(c)
  BY Distinct DEF Forgets, KnownOf, ToldOf, NoOpp, Row

LEMMA KeptDoubts ==
  ASSUME NEW c \in Clients, core'[c] = core[c], opp'[c] = opp[c] PROVE Doubts(c)
<1>1. KnownOf(c)' = KnownOf(c) /\ ToldOf(c)' = ToldOf(c)
  BY DEF KnownOf, ToldOf, Row
<1>2. ToldOf(c) = ToldOf(c) \ {} /\ {} \in SUBSET Tournaments
  OBVIOUS
<1> QED
  BY <1>1, <1>2 DEF Doubts

LEMMA LocalImplements == ASSUME TypeInv, LocalStep PROVE [Promise!Next]_Observed
<1>0. UNCHANGED <<stored, enriched>>
  BY LocalsLeaveTables
<1> SUFFICES \E c \in Clients :
               /\ \A d \in Clients \ {c} : core'[d] = core[d] /\ opp'[d] = opp[d]
               /\ Forgets(c) \/ Doubts(c)
  BY <1>0, PCImplements
<1> USE DEF TypeInv, Typed, TypeOK, ClientTypes
<1>1. ASSUME NEW c \in Clients, NEW t \in Tournaments, NEW v \in Versions,
             Import(c, t, v) \/ Reidentify(c, t, v)
      PROVE  UNCHANGED <<core, opp>>
  BY <1>1 DEF Import, Reidentify
<1>2. ASSUME NEW c \in Clients, DeleteAnalyzedData(c) \/ Leave(c) \/ \E p \in Policies : Join(c, p)
      PROVE  /\ \A d \in Clients \ {c} : core'[d] = core[d] /\ opp'[d] = opp[d]
             /\ Forgets(c)
  <2>1. \A t \in Tournaments : core'[c][t] \in {None, Pending} /\ opp'[c][t] = NoOpp
    BY <1>2 DEF DeleteAnalyzedData, Leave, Join
  <2> QED
    BY <1>2, <2>1, FreshForgets DEF DeleteAnalyzedData, Leave, Join
<1>3. ASSUME NEW c \in Clients, UpgradeConsent(c)
      PROVE  /\ \A d \in Clients \ {c} : core'[d] = core[d] /\ opp'[d] = opp[d]
             /\ Doubts(c)
  <2>1. PICK g : opp'[c] = EnqueueOpponents(c, core[c], g, FALSE) \/ opp'[c] = opp[c]
    BY <1>3 DEF UpgradeConsent
  <2> QED
    BY <1>3, <2>1, EnqueueDoubts DEF UpgradeConsent
<1>4. ASSUME NEW c \in Clients, Status(c)
      PROVE  /\ \A d \in Clients \ {c} : core'[d] = core[d] /\ opp'[d] = opp[d]
             /\ Doubts(c)
  <2>1. /\ core'[c] = EnqueueCompleted(c)
        /\ opp'[c] = EnqueueOpponents(c, EnqueueCompleted(c), cfg[c], FALSE)
    BY <1>4 DEF Status, Enqueue
  <2> QED
    BY <1>4, <2>1, EnqueueDoubts DEF Status, Enqueue
<1>5. ASSUME NEW c \in Clients, Crash(c) PROVE UNCHANGED <<core, opp>>
  BY <1>5 DEF Crash, client_vars
<1> QED
  BY <1>1, <1>2, <1>3, <1>4, <1>5, KeptDoubts DEF LocalStep

\* An answer that is recorded says of a tournament not delivered yet that it is, or of one that
\* is that its names are.
LEMMA RecordImplements ==
  ASSUME TypeInv, DeliveryInv, NEW c \in Clients, RecordAnswer(c)
  PROVE  Doubts(c) \/ Learns(c) \/ LearnsNames(c)
<1> DEFINE t == sess[c].at
           row == sess[c].result
<1>1. Waiting(c) /\ row # None /\ Delivery(c)
  BY DEF RecordAnswer, DeliveryInv
<1>2. CASE row = Rejected \/ RecordDeleted(c)
  BY <1>2, KeptDoubts DEF RecordAnswer
<1>3. CASE ~(row = Rejected \/ RecordDeleted(c))
  <2>1. Row(row) /\ t \in Tournaments /\ core[c][t] # None
    <3>1. row \in Contents \cup {None, Rejected} /\ sess[c].todo \subseteq Tournaments
      BY SessionFields DEF TypeInv, Typed, TypeOK, SessTypes
    <3>2. t \in Tournaments
      BY <1>1, <3>1 DEF Delivery, CoreWaits, OppWaits, Waiting
    <3> QED
      BY <1>1, <1>3, <3>1, <3>2 DEF Row, RecordDeleted
  <2>2. CASE sess[c].pc = "coreWait"
    <3>1. core'[c] = [core[c] EXCEPT ![t] = row] /\ opp'[c] = opp[c]
      BY <1>3, <2>2 DEF RecordAnswer, TypeInv, Typed, TypeOK, ClientTypes
    <3>2. row \in stored /\ row[1] = t /\ ~Row(core[c][t])
      BY <1>1, <2>1, <2>2 DEF Delivery, CoreWaits, QueueUndelivered
    <3>3. PICK v \in Versions : row = <<t, v>>
      BY <2>1, <3>2 DEF Row, Contents
    <3>4. KnownOf(c)' = [KnownOf(c) EXCEPT ![t] = row]
      BY <2>1, <3>1 DEF KnownOf, Row, TypeInv, Typed, TypeOK, ClientTypes
    <3>5. KnownOf(c)[t] = None /\ ToldOf(c)' = ToldOf(c)
      BY <2>1, <3>1, <3>2 DEF KnownOf, ToldOf
    <3> QED
      BY <2>1, <3>2, <3>3, <3>4, <3>5 DEF Learns
  <2>3. CASE sess[c].pc = "oppWait"
    <3>1. opp'[c] = [opp[c] EXCEPT ![t].state = "synced"] /\ core'[c] = core[c]
      BY <1>3, <2>3 DEF RecordAnswer, TypeInv, Typed, TypeOK, ClientTypes
    <3>2. core[c][t] \in DOMAIN enriched /\ Row(core[c][t])
      BY <1>1, <2>1, <2>3 DEF Delivery, OppWaits
    <3>3. KnownOf(c)' = KnownOf(c) /\ KnownOf(c)[t] \in DOMAIN enriched
      BY <2>1, <3>1, <3>2 DEF KnownOf, Row
    <3>4. ToldOf(c)' = ToldOf(c) \cup {t}
      BY <2>1, <3>1 DEF ToldOf, TypeInv, Typed, TypeOK, ClientTypes, OppRecord
    <3> QED
      BY <2>1, <3>3, <3>4 DEF LearnsNames
  <2> QED
    BY <1>1, <2>2, <2>3 DEF Waiting
<1> QED
  BY <1>2, <1>3

LEMMA ClientImplements ==
  ASSUME TypeInv, DeliveryInv, NEW c \in Clients, ClientStep(c)
  PROVE  [Promise!Next]_Observed
<1>0. /\ UNCHANGED <<stored, enriched>>
      /\ \A d \in Clients \ {c} : core'[d] = core[d] /\ opp'[d] = opp[d]
  BY ClientsLeaveTables, OthersKept DEF hub_vars
<1> SUFFICES Doubts(c) \/ Learns(c) \/ LearnsNames(c)
  BY <1>0, PCImplements
<1>1. ASSUME NEW b \in BOOLEAN, SyncStart(c, b) PROVE Doubts(c)
  <2>1. core'[c] = EnqueueCompleted(c) /\ opp'[c] = opp[c]
    BY <1>1 DEF SyncStart, TypeInv, Typed, TypeOK, ClientTypes
  <2> QED
    BY <2>1, EnqueueDoubts
<1>2. CASE StartOpponents(c)
  <2>1. /\ core'[c] = core[c]
        /\ opp'[c] = EnqueueOpponents(c, core[c], cfg[c], sess[c].revalidate)
    BY <1>2 DEF StartOpponents, TypeInv, Typed, TypeOK, ClientTypes
  <2> QED
    BY <2>1, EnqueueDoubts
<1>3. CASE ReadStart(c)
  <2>1. /\ core'[c] = EnqueueCompleted(c)
        /\ opp'[c] = EnqueueOpponents(c, EnqueueCompleted(c), cfg[c], FALSE)
    BY <1>3 DEF ReadStart, Enqueue, TypeInv, Typed, TypeOK, ClientTypes
  <2> QED
    BY <2>1, EnqueueDoubts
<1>4. CASE \/ Probe(c) \/ SyncSave(c) \/ Timeout(c) \/ ReadAnswer(c)
           \/ \E t \in Tournaments : SendTournament(c, t) \/ SendOpponents(c, t)
  <2>1. UNCHANGED <<core, opp>>
    BY <1>4 DEF Probe, SyncSave, Timeout, ReadAnswer, SendTournament, SendOpponents, client_vars
  <2> QED
    BY <2>1, KeptDoubts
<1> QED
  BY <1>1, <1>2, <1>3, <1>4, RecordImplements DEF ClientStep, SyncStep

LEMMA HubImplements ==
  ASSUME TypeInv, NEW r \in requests,
         HubServes(r) \/ HubRefuse(r)
  PROVE  [Promise!Next]_Observed
<1>1. UNCHANGED client_vars
  BY DEF HubServes, HubLookup, HubRenew, HubInsert, HubConflict, HubCheckPolicy, HubEnrich,
         HubRefuse
<1>2. Known' = Known /\ Told' = Told
  BY <1>1 DEF client_vars, Known, Told, KnownOf, ToldOf, Row
<1>3. CASE UNCHANGED <<stored, enriched>>
  BY <1>2, <1>3 DEF Observed
<1>4. CASE /\ Content(r) \notin stored /\ stored' = stored \cup {Content(r)}
           /\ UNCHANGED enriched
  <2>1. PICK t \in Tournaments, v \in Versions : Content(r) = <<t, v>>
    BY ContentType DEF Contents
  <2>2. Promise!Share(t, v)
    BY <1>2, <1>4, <2>1 DEF Promise!Share, Known, Told, KnownOf, ToldOf
  <2> QED
    BY <2>2 DEF Promise!Next
<1>5. CASE /\ r.row \in stored \ DOMAIN enriched /\ UNCHANGED stored
           /\ enriched' = Put(enriched, r.row, r.body)
  <2>1. DOMAIN enriched' = DOMAIN enriched \cup {r.row}
    BY <1>5 DEF Put
  <2>2. Promise!Name(r.row)
    BY <1>2, <1>5, <2>1 DEF Promise!Name, Known, Told, KnownOf, ToldOf
  <2> QED
    BY <1>5, <2>2 DEF Promise!Next
<1>6. CASE HubEnrich(r) /\ enriched' # enriched
  BY <1>5, <1>6 DEF HubEnrich, TypeInv, WritesWereChecked, WasChecked
<1> QED
  BY <1>3, <1>4, <1>6 DEF HubServes, HubLookup, HubRenew, HubInsert, HubConflict, HubCheckPolicy, HubEnrich,
         HubRefuse, hub_vars

\* Whatever is lost, retried, deleted or paired anew, the PCs and the hub do no more to what is
\* delivered, and to what the PCs take for delivered, than Delivery allows (CommunityClient.sync,
\* sync_tournament).
THEOREM SyncImplementsDelivery == Spec => ImplementsDelivery
<1>1. Init => Promise!Init
  <2>1. Init => Known = [c \in Clients |-> Promise!Nothing] /\ Told = [c \in Clients |-> {}]
    BY Distinct DEF Init, Known, Told, KnownOf, ToldOf, NoOpp, Row, Promise!Nothing
  <2>2. Init => stored = {} /\ DOMAIN enriched = {}
    BY DEF Init, Nothing
  <2> QED
    BY <2>1, <2>2 DEF Promise!Init, Known, Told, KnownOf, ToldOf
<1>2. TypeInv /\ DeliveryInv /\ [Next]_vars => [Promise!Next]_Observed
  <2>1. UNCHANGED vars => UNCHANGED Observed
    BY DEF vars, client_vars, hub_vars, Observed, Known, Told, KnownOf, ToldOf, Row
  <2> QED
    BY <2>1, LocalImplements, ClientImplements, HubImplements DEF Next, HubStep
<1> QED
  BY <1>1, <1>2, TypeInit, TypeNext, HubInvInit, HubInvNext, DeliveryInit, DeliveryNext, PTL
  DEF Spec, ImplementsDelivery, Promise!Spec, Promise!vars, Observed, Known, Told, KnownOf, ToldOf

-----------------------------------------------------------------------------
(* QuotaExceededByHandlersOnly: by how much the quota of tournaments can be  *)
(* exceeded.  The hub looks at the quota when it reads a request and inserts *)
(* the row later; what bounds the rows is that the requests past that look   *)
(* were all there together.                                                  *)

Inserting == {r \in requests : r.phase = "insert"}

\* A request can be about to insert although nothing is stored yet: it has then seen room
\* for one row.
QuotaInv ==
  /\ IsFiniteSet(requests) /\ Cardinality(requests) <= MaxRequests
  /\ IsFiniteSet(stored)
  /\ stored # {} \/ Inserting # {} =>
       Cardinality(stored) + Cardinality(Inserting) <= MaxTournaments + MaxRequests - 1

LEMMA BoundsAreNumbers == MaxTournaments \in Nat /\ MaxRequests \in Nat
  BY SyncAssumption

LEMMA Counted == \A S : IsFiniteSet(S) => Cardinality(S) \in Nat
  BY FS_CardinalityType

LEMMA OneMore ==
  ASSUME NEW S, IsFiniteSet(S), NEW x
  PROVE  IsFiniteSet(S \cup {x}) /\ Cardinality(S \cup {x}) <= Cardinality(S) + 1
<1>1. Cardinality(S) \in Nat
  BY Counted
<1>2. /\ IsFiniteSet(S \cup {x})
      /\ Cardinality(S \cup {x}) = IF x \in S THEN Cardinality(S) ELSE Cardinality(S) + 1
  BY FS_AddElement
<1>3. CASE x \in S
  BY <1>1, <1>2, <1>3
<1>4. CASE x \notin S
  BY <1>1, <1>2, <1>4
<1> QED
  BY <1>3, <1>4

\* As many elements as there are arguments, or fewer.
LEMMA ImageIsSmaller ==
  \A S, T : \A f \in [S -> T] :
    IsFiniteSet(S) /\ (\A y \in T : \E x \in S : f[x] = y) =>
      IsFiniteSet(T) /\ Cardinality(T) <= Cardinality(S)
<1> SUFFICES ASSUME NEW S, NEW T, NEW f \in [S -> T], IsFiniteSet(S),
                    \A y \in T : \E x \in S : f[x] = y
             PROVE  IsFiniteSet(T) /\ Cardinality(T) <= Cardinality(S)
  OBVIOUS
<1>1. f \in Surjection(S, T)
  BY DEF Surjection
<1> QED
  BY <1>1, FS_Surjection

-----------------------------------------------------------------------------
(* What a step may do to the requests and the rows.                          *)

\* Requests are answered or stay as they are.
LEMMA QuotaFewer ==
  ASSUME QuotaInv, requests' \subseteq requests, stored' = stored
  PROVE  QuotaInv'
<1>1. IsFiniteSet(requests') /\ Cardinality(requests') <= Cardinality(requests)
  BY FS_Subset DEF QuotaInv
<1>2. Inserting' \subseteq Inserting /\ IsFiniteSet(Inserting)
  BY FS_Subset DEF Inserting, QuotaInv
<1>3. Cardinality(Inserting') <= Cardinality(Inserting)
  BY <1>2, FS_Subset
<1>4. /\ Cardinality(Inserting) \in Nat /\ Cardinality(Inserting') \in Nat
      /\ Cardinality(requests) \in Nat /\ Cardinality(requests') \in Nat
      /\ Cardinality(stored) \in Nat
  BY <1>1, <1>2, FS_Subset, Counted DEF QuotaInv
<1> QED
  BY <1>1, <1>2, <1>3, <1>4, BoundsAreNumbers DEF QuotaInv

\* A PC no longer waits: each of its requests stays, in its phase.
LEMMA QuotaUnawaited ==
  ASSUME TypeInv, QuotaInv, NEW c, requests' = Unawait(c), stored' = stored
  PROVE  QuotaInv'
<1> DEFINE g(r) == [r EXCEPT !.awaited = r.awaited /\ r.from # c]
           f == [r \in requests |-> g(r)]
           h == [r \in Inserting |-> g(r)]
<1>1. IsFiniteSet(requests') /\ Cardinality(requests') <= Cardinality(requests)
  <2>1. f \in [requests -> requests'] /\ \A y \in requests' : \E x \in requests : f[x] = y
    BY DEF Unawait
  <2> QED
    BY <2>1, ImageIsSmaller DEF QuotaInv
<1>2. \A r \in requests : g(r).phase = r.phase
  BY DEF TypeInv, Typed, TypeOK, Request
<1>3. IsFiniteSet(Inserting)
  BY FS_Subset DEF Inserting, QuotaInv
<1>4. \A y \in Inserting' : \E x \in Inserting : g(x) = y
  <2> SUFFICES ASSUME NEW y \in Inserting' PROVE \E x \in Inserting : g(x) = y
    OBVIOUS
  <2>1. PICK x \in requests : g(x) = y
    BY DEF Unawait, Inserting
  <2>2. x.phase = y.phase /\ y.phase = "insert"
    BY <1>2, <2>1 DEF Inserting
  <2> QED
    BY <2>1, <2>2 DEF Inserting
<1>5. IsFiniteSet(Inserting') /\ Cardinality(Inserting') <= Cardinality(Inserting)
  <2>1. \A x \in Inserting : h[x] = g(x) /\ g(x) \in requests' /\ g(x).phase = "insert"
    BY <1>2 DEF Unawait, Inserting
  <2>2. h \in [Inserting -> Inserting']
    BY <2>1 DEF Inserting
  <2>3. \A y \in Inserting' : \E x \in Inserting : h[x] = y
    BY <1>4, <2>1
  <2> QED
    BY <1>3, <2>2, <2>3, ImageIsSmaller
<1>6. Inserting' # {} => Inserting # {}
  BY <1>4
<1>7. /\ Cardinality(Inserting) \in Nat /\ Cardinality(Inserting') \in Nat
      /\ Cardinality(requests) \in Nat /\ Cardinality(requests') \in Nat
      /\ Cardinality(stored) \in Nat
  BY <1>1, <1>3, <1>5, Counted DEF QuotaInv
<1> QED
  BY <1>1, <1>5, <1>6, <1>7, BoundsAreNumbers DEF QuotaInv

\* A request arrives, to be looked at.
LEMMA QuotaSent ==
  ASSUME QuotaInv, Cardinality(requests) < MaxRequests, stored' = stored,
         NEW q, q.phase # "insert", requests' = requests \cup {q}
  PROVE  QuotaInv'
<1>1. IsFiniteSet(requests') /\ Cardinality(requests') <= Cardinality(requests) + 1
  BY OneMore DEF QuotaInv
<1>2. Inserting' = Inserting
  BY DEF Inserting
<1>3. Cardinality(requests) \in Nat /\ Cardinality(requests') \in Nat
  BY <1>1, Counted DEF QuotaInv
<1> QED
  BY <1>1, <1>2, <1>3, BoundsAreNumbers DEF QuotaInv

\* One request changes; how many there are does not grow.
LEMMA Exchanged ==
  ASSUME QuotaInv, NEW r \in requests, NEW q, requests' = (requests \ {r}) \cup {q}
  PROVE  IsFiniteSet(requests') /\ Cardinality(requests') <= Cardinality(requests)
<1>1. IsFiniteSet(requests \ {r}) /\ Cardinality(requests \ {r}) = Cardinality(requests) - 1
  BY FS_RemoveElement DEF QuotaInv
<1>2. IsFiniteSet(requests') /\ Cardinality(requests') <= Cardinality(requests \ {r}) + 1
  BY <1>1, OneMore
<1>3. Cardinality(requests) \in Nat /\ Cardinality(requests \ {r}) \in Nat /\ Cardinality(requests') \in Nat
  BY <1>1, <1>2, Counted DEF QuotaInv
<1> QED
  BY <1>1, <1>2, <1>3

\* It goes on, but not to insert a row.
LEMMA QuotaOnward ==
  ASSUME QuotaInv, stored' = stored,
         NEW r \in requests, NEW q, q.phase # "insert", requests' = (requests \ {r}) \cup {q}
  PROVE  QuotaInv'
<1>1. IsFiniteSet(requests') /\ Cardinality(requests') <= Cardinality(requests)
  BY Exchanged
<1>2. Inserting' \subseteq Inserting /\ IsFiniteSet(Inserting)
  BY FS_Subset DEF Inserting, QuotaInv
<1>3. Cardinality(Inserting') <= Cardinality(Inserting)
  BY <1>2, FS_Subset
<1>4. /\ Cardinality(Inserting) \in Nat /\ Cardinality(Inserting') \in Nat
      /\ Cardinality(requests) \in Nat /\ Cardinality(requests') \in Nat
      /\ Cardinality(stored) \in Nat
  BY <1>1, <1>2, FS_Subset, Counted DEF QuotaInv
<1> QED
  BY <1>1, <1>2, <1>3, <1>4, BoundsAreNumbers DEF QuotaInv

\* It has found room for its row.
LEMMA QuotaRoomFound ==
  ASSUME QuotaInv, stored' = stored, Cardinality(stored) + 1 <= MaxTournaments,
         NEW r \in requests, NEW q, requests' = (requests \ {r}) \cup {q}
  PROVE  QuotaInv'
<1>1. IsFiniteSet(requests') /\ Cardinality(requests') <= Cardinality(requests)
  BY Exchanged
<1>2. Inserting' \subseteq requests'
  BY DEF Inserting
<1>3. Cardinality(Inserting') <= Cardinality(requests')
  BY <1>1, <1>2, FS_Subset
<1>4. /\ Cardinality(Inserting') \in Nat /\ Cardinality(stored) \in Nat
      /\ Cardinality(requests) \in Nat /\ Cardinality(requests') \in Nat
  BY <1>1, <1>2, FS_Subset, Counted DEF QuotaInv
<1> QED
  BY <1>1, <1>3, <1>4, BoundsAreNumbers DEF QuotaInv

\* It inserts the row it counted for.
LEMMA QuotaInserted ==
  ASSUME QuotaInv, NEW r \in requests, r.phase = "insert", requests' = requests \ {r},
         NEW row, stored' = stored \cup {row}
  PROVE  QuotaInv'
<1>1. IsFiniteSet(requests') /\ Cardinality(requests') = Cardinality(requests) - 1
  BY FS_RemoveElement DEF QuotaInv
<1>2. IsFiniteSet(stored') /\ Cardinality(stored') <= Cardinality(stored) + 1
  BY OneMore DEF QuotaInv
<1>3. r \in Inserting /\ Inserting' = Inserting \ {r} /\ IsFiniteSet(Inserting)
  BY FS_Subset DEF Inserting, QuotaInv
<1>4. IsFiniteSet(Inserting') /\ Cardinality(Inserting') = Cardinality(Inserting) - 1
  BY <1>3, FS_RemoveElement
<1>5. /\ Cardinality(Inserting) \in Nat /\ Cardinality(Inserting') \in Nat
      /\ Cardinality(stored) \in Nat /\ Cardinality(stored') \in Nat
      /\ Cardinality(requests) \in Nat /\ Cardinality(requests') \in Nat
  BY <1>1, <1>2, <1>3, <1>4, Counted DEF QuotaInv
<1> QED
  BY <1>1, <1>2, <1>3, <1>4, <1>5, BoundsAreNumbers DEF QuotaInv

-----------------------------------------------------------------------------
(* Which of these each step is.                                              *)

LEMMA SendIsSeen ==
  ASSUME QuotaInv, NEW c, NEW from, NEW t, NEW row, Send(c, from, t, row), stored' = stored
  PROVE  QuotaInv'
<1>1. CASE requests' = requests
  BY <1>1, QuotaFewer
<1>2. CASE /\ Cardinality(requests) < MaxRequests
           /\ requests' = requests \cup {Upload(c, t, row)}
  <2>1. Upload(c, t, row).phase # "insert"
    BY DEF Upload
  <2> QED
    BY <1>2, <2>1, QuotaSent
<1> QED
  BY <1>1, <1>2 DEF Send

LEMMA QuotaClients ==
  ASSUME TypeInv, QuotaInv, NEW c \in Clients, ClientStep(c)
  PROVE  QuotaInv'
<1>1. stored' = stored
  BY ClientsLeaveTables DEF hub_vars
<1>2. ASSUME NEW t \in Tournaments, SendTournament(c, t) \/ SendOpponents(c, t)
      PROVE  QuotaInv'
  BY <1>1, <1>2, SendIsSeen, QuotaFewer DEF SendTournament, SendOpponents
<1>3. CASE Timeout(c)
  BY <1>1, <1>3, QuotaUnawaited DEF Timeout
<1>4. CASE requests' = requests
  BY <1>1, <1>4, QuotaFewer
<1> QED
  BY <1>2, <1>3, <1>4
  DEF ClientStep, SyncStep, SyncStart, Probe, RecordAnswer, StartOpponents, SyncSave,
      ReadStart, ReadAnswer

LEMMA QuotaLocal ==
  ASSUME TypeInv, QuotaInv, LocalStep
  PROVE  QuotaInv'
  BY LocalsLeaveTables, QuotaFewer, QuotaUnawaited

LEMMA QuotaReply ==
  ASSUME QuotaInv, NEW r, NEW answer, Reply(r, answer), stored' = stored
  PROVE  QuotaInv'
  BY QuotaFewer DEF Reply

LEMMA QuotaAdvance ==
  ASSUME TypeInv, QuotaInv, NEW r \in requests, NEW p, Advance(r, p), stored' = stored,
         p # "insert" \/ Cardinality(stored) + 1 <= MaxTournaments
  PROVE  QuotaInv'
<1> DEFINE q == [r EXCEPT !.phase = p]
<1>1. q.phase = p
  BY DEF TypeInv, Typed, TypeOK, Request
<1>2. requests' = (requests \ {r}) \cup {q}
  BY DEF Advance
<1> HIDE DEF q
<1> QED
  BY <1>1, <1>2, QuotaOnward, QuotaRoomFound

LEMMA QuotaHub ==
  ASSUME TypeInv, QuotaInv, NEW r \in requests,
         HubServes(r) \/ HubRefuse(r)
  PROVE  QuotaInv'
<1>1. ASSUME GoRenew(r, "renew") \/ GoRenew(r, "renewLast"), stored' = stored
      PROVE  QuotaInv'
  BY <1>1, QuotaReply, QuotaAdvance DEF GoRenew
<1>2. CASE HubLookup(r)
  <2>1. Cardinality(stored) \in Nat
    BY Counted DEF QuotaInv
  <2> QED
    BY <1>1, <1>2, <2>1, BoundsAreNumbers, QuotaReply, QuotaAdvance
    DEF HubLookup, ReplyFromReceipt, hub_vars
<1>3. CASE HubRenew(r)
  BY <1>3, QuotaReply DEF HubRenew, AddReceipt, ReplyFromReceipt
<1>4. CASE HubInsert(r)
  <2>1. CASE HasReceipt(r) \/ Content(r) \in stored
    BY <1>4, <2>1, QuotaAdvance DEF HubInsert
  <2>2. CASE ~(HasReceipt(r) \/ Content(r) \in stored)
    BY <1>4, <2>2, QuotaInserted DEF HubInsert, AddReceipt, Reply
  <2> QED
    BY <2>1, <2>2
<1>5. CASE HubConflict(r)
  BY <1>1, <1>5, QuotaReply DEF HubConflict, hub_vars
<1>6. CASE HubEnrich(r)
  BY <1>6, QuotaReply DEF HubEnrich
<1>7. CASE HubRefuse(r)
  BY <1>7, QuotaReply DEF HubRefuse, hub_vars
<1>8. CASE HubCheckPolicy(r)
  <2>1. ASSUME Checked(r), stored' = stored PROVE QuotaInv'
    <3> DEFINE q == [r EXCEPT !.phase = "write", !.checked = pairings]
    <3>1. q.phase = "write"
      BY DEF TypeInv, Typed, TypeOK, Request
    <3>2. requests' = (requests \ {r}) \cup {q}
      BY <2>1 DEF Checked
    <3> HIDE DEF q
    <3> QED
      BY <2>1, <3>1, <3>2, QuotaOnward
  <2> QED
    BY <1>8, <2>1, QuotaReply DEF HubCheckPolicy, hub_vars
<1> QED
  BY <1>2, <1>3, <1>4, <1>5, <1>6, <1>7, <1>8 DEF HubServes

LEMMA QuotaInit == Init => QuotaInv
<1> SUFFICES ASSUME Init PROVE QuotaInv
  OBVIOUS
<1>1. requests = {} /\ stored = {} /\ Inserting = {}
  BY DEF Init, Inserting
<1> QED
  BY <1>1, FS_EmptySet, BoundsAreNumbers DEF QuotaInv

LEMMA QuotaNext == TypeInv /\ QuotaInv /\ [Next]_vars => QuotaInv'
<1> SUFFICES ASSUME TypeInv, QuotaInv, [Next]_vars PROVE QuotaInv'
  OBVIOUS
<1>1. CASE LocalStep
  BY <1>1, QuotaLocal
<1>2. CASE \E c \in Clients : ClientStep(c)
  BY <1>2, QuotaClients
<1>3. CASE HubStep
  BY <1>3, QuotaHub DEF HubStep
<1>4. CASE \E r \in requests : HubRefuse(r)
  BY <1>4, QuotaHub
<1>5. CASE UNCHANGED vars
  BY <1>5, QuotaFewer DEF vars, hub_vars
<1> QED
  BY <1>1, <1>2, <1>3, <1>4, <1>5 DEF Next

\* Whatever uploads the hub works on together, and however late their rows are inserted
\* after the look at the quota (sync_tournament, service.py:260), a member has at most one
\* row less than there are handlers beyond the quota.
THEOREM QuotaHolds == Spec => []QuotaExceededByHandlersOnly
<1>1. QuotaInv => QuotaExceededByHandlersOnly
  BY DEF QuotaInv, QuotaExceededByHandlersOnly, Inserting
<1> QED
  BY <1>1, TypeInit, TypeNext, QuotaInit, QuotaNext, PTL DEF Spec

=============================================================================
