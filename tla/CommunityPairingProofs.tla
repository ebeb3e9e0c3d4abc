------------------------ MODULE CommunityPairingProofs ------------------------
(***************************************************************************)
(* Proofs about CommunityPairing, for any PCs, names and bounds: an         *)
(* invitation enrols one device; the records queued on a PC belong to its   *)
(* present pairing; its token is a device of the member it joined as, and   *)
(* is revoked when leave has been told so; a policy is accepted by the      *)
(* member itself; a device without a PC comes from a fault of its own.      *)
(*                                                                          *)
(* AccountInv says what a handler of the hub may still believe of what it   *)
(* has read in an earlier transaction, and what a PC may believe of an      *)
(* answer; StrayInv counts the tokens that nobody will ever revoke.         *)
(***************************************************************************)
EXTENDS CommunityPairing, FiniteSetTheorems, WellFoundedInduction, TLAPS

-----------------------------------------------------------------------------
(* Invitations.                                                             *)

\* A row is a record, used once at most.
IsInvite(v) == v \in [target : {v.target}, uses : 0..1, revoked : BOOLEAN]
InviteInv == \A i \in DOMAIN invites : IsInvite(invites[i])

\* All that a step can do to the table.
Claimed(i) == Open(i) /\ invites' = [invites EXCEPT ![i].uses = @ + 1]
Added == \E i, t : invites' = With(invites, i, [target |-> t, uses |-> 0, revoked |-> FALSE])
Cancelled == \E i \in DOMAIN invites : invites' = [invites EXCEPT ![i].revoked = TRUE]
Fewer == \E S \in SUBSET DOMAIN invites : invites' = [i \in S |-> invites[i]]

LEMMA InvitesChange ==
  ASSUME [Next]_vars
  PROVE  invites' = invites \/ (\E i : Claimed(i)) \/ Added \/ Cancelled \/ Fewer
<1>1. ASSUME NEW c \in Clients, ClientStep(c) PROVE invites' = invites
  BY <1>1 DEF ClientStep, JoinSend, JoinSaveSecret, JoinSaveConfig, JoinQueue, Enqueue, LeaveSend,
              LeaveAnswered, LeaveErase, LeaveCommit, ConsentSend, ConsentSave, Refused, Timeout,
              GuardRaises, Crash, hub
<1>2. ASSUME NEW r \in requests, HubStep(r) PROVE invites' = invites \/ \E i : Claimed(i)
  <2>1. CASE EnrollCreate(r) \/ EnrollClaim(r)
    BY <2>1 DEF EnrollCreate, EnrollClaim, Enrolled, Claimed, hub
  <2>2. CASE EnrollRead(r) \/ EnrollTarget(r) \/ Authenticate(r) \/ HubRefuse(r)
    BY <2>2 DEF EnrollRead, EnrollTarget, Authenticate, HubRefuse, hub
  <2>3. CASE ConsentWrite(r) \/ RevokeWrite(r)
    BY <2>3 DEF ConsentWrite, RevokeWrite
  <2>q. QED BY <1>2, <2>1, <2>2, <2>3 DEF HubStep
<1>3. ASSUME HostStep PROVE invites' = invites \/ Added \/ Cancelled \/ Fewer
  <2>1. CASE BootstrapOwner
    BY <2>1 DEF BootstrapOwner
  <2>2. ASSUME NEW t, CreateInvite(t) PROVE Added
    BY <2>2 DEF CreateInvite, Added
  <2>3. CASE Revoke
    BY <2>3 DEF Revoke, Cancelled
  <2>4. ASSUME NEW row \in DOMAIN members, DeleteMember(row) PROVE Fewer
    BY <2>4 DEF DeleteMember, Keep, Fewer
  <2>q. QED BY <1>3, <2>1, <2>2, <2>3, <2>4 DEF HostStep
<1>4. CASE UNCHANGED vars
  BY <1>4 DEF vars, hub
<1>q. QED BY <1>1, <1>2, <1>3, <1>4 DEF Next

LEMMA InvitesKept ==
  ASSUME InviteInv, [Next]_vars
  PROVE  InviteInv'
<1>1. CASE \E i : Claimed(i)
  <2>1. PICK i : Claimed(i)
    BY <1>1
  <2>2. i \in DOMAIN invites /\ IsInvite(invites[i]) /\ invites[i].uses = 0
    BY <2>1 DEF Claimed, Open, InviteInv
  <2>3. \A j \in DOMAIN invites \ {i} : IsInvite(invites'[j])
    BY <2>1 DEF Claimed, InviteInv
  <2>4. IsInvite([invites[i] EXCEPT !.uses = 1])
    BY <2>2 DEF IsInvite
  <2>5. invites'[i] = [invites[i] EXCEPT !.uses = 1] /\ DOMAIN invites' = DOMAIN invites
    BY <2>1, <2>2 DEF Claimed
  <2>q. QED BY <2>3, <2>4, <2>5 DEF InviteInv
<1>2. CASE Added
  BY <1>2 DEF Added, With, InviteInv, IsInvite
<1>3. CASE Cancelled
  <2>1. PICK i \in DOMAIN invites : invites' = [invites EXCEPT ![i].revoked = TRUE]
    BY <1>3 DEF Cancelled
  <2>2. IsInvite([invites[i] EXCEPT !.revoked = TRUE])
    BY DEF InviteInv, IsInvite
  <2>q. QED BY <2>1, <2>2 DEF InviteInv
<1>4. CASE Fewer
  BY <1>4 DEF Fewer, InviteInv
<1>5. CASE invites' = invites
  BY <1>5 DEF InviteInv
<1>q. QED BY <1>1, <1>2, <1>3, <1>4, <1>5, InvitesChange

\* README.md:187: however many handlers have read an invitation as unused, and whatever the
\* host revokes or deletes meanwhile, it enrols one device at most.
THEOREM InvitesAreUsedOnce == Spec => []InviteUsedOnce
<1>1. Init => InviteInv
  BY DEF Init, InviteInv
<1>2. InviteInv /\ [Next]_vars => InviteInv'
  BY InvitesKept
<1>3. InviteInv => InviteUsedOnce
  BY DEF InviteInv, IsInvite, InviteUsedOnce
<1>q. QED BY <1>1, <1>2, <1>3, PTL DEF Spec

-----------------------------------------------------------------------------
(* The records queued on a PC.                                              *)

Session == [pc : Pcs, token : Nat, name : Names \cup {Host}, policy : Policies,
            answer : {"none", "ok", "no"}, left : BOOLEAN]
PcTypes ==
  /\ secret \in [Clients -> Nat] /\ queue \in [Clients -> Nat]
  /\ config \in [Clients -> [enabled : BOOLEAN, consent : Policies]]
  /\ session \in [Clients -> Session]
  /\ joins \in Nat

\* join starts with nothing left of a pairing, and the records come last.
PairInv(c) ==
  /\ queue[c] # 0 => config[c].enabled /\ secret[c] \in {0, queue[c]}
  /\ session[c].pc = "join" => ~config[c].enabled /\ secret[c] = 0
  /\ session[c].pc = "joinConfig" => queue[c] = 0
  /\ session[c].pc = "joinQueue" => config[c].enabled
QueueInv == PcTypes /\ \A c \in Clients : PairInv(c)

\* An answer of the hub changes nothing but what the PC knows of it.
LEMMA AnswerKept ==
  ASSUME QueueInv, NEW r, NEW answer \in {"ok", "no"}, Reply(r, answer),
         UNCHANGED <<disk, joins>>
  PROVE  QueueInv'
<1>1. session' \in [Clients -> Session] /\ \A c \in Clients : session'[c].pc = session[c].pc
  <2>1. session \in [Clients -> Session]
    BY DEF QueueInv, PcTypes
  <2>2. CASE session' = session
    BY <2>1, <2>2
  <2>3. CASE session' = [session EXCEPT ![r.from].answer = answer]
    <3> DEFINE v == [session[r.from] EXCEPT !.answer = answer]
    <3>1. r.from \in Clients => v \in Session /\ v.pc = session[r.from].pc
      BY <2>1 DEF Session
    <3>2. session' = [session EXCEPT ![r.from] = v]
      BY <2>3
    <3>q. QED BY <2>1, <3>1, <3>2
  <2>q. QED BY <2>2, <2>3 DEF Reply
<1>q. QED BY <1>1 DEF QueueInv, PcTypes, PairInv, disk

LEMMA HubStepKept ==
  ASSUME QueueInv, NEW r \in requests, HubStep(r)
  PROVE  QueueInv'
<1>1. UNCHANGED <<disk, joins>>
  BY DEF HubStep, EnrollRead, EnrollTarget, EnrollCreate, EnrollClaim, Authenticate, ConsentWrite,
         RevokeWrite, HubRefuse
<1>2. \/ session' = session
      \/ \E answer \in {"ok", "no"} : Reply(r, answer)
  BY DEF HubStep, EnrollRead, EnrollTarget, EnrollCreate, EnrollClaim, Enrolled, Authenticate,
         ConsentWrite, RevokeWrite, HubRefuse, Read
<1>3. CASE session' = session
  BY <1>1, <1>3 DEF QueueInv, PcTypes, PairInv, disk
<1>q. QED BY <1>1, <1>2, <1>3, AnswerKept

\* A step of one PC leaves the others alone.
LEMMA OtherPcsKept ==
  ASSUME QueueInv, NEW c \in Clients, PcTypes', PairInv(c)',
         \A o \in Clients \ {c} : /\ secret'[o] = secret[o] /\ queue'[o] = queue[o]
                                  /\ config'[o] = config[o] /\ session'[o] = session[o]
  PROVE  QueueInv'
BY DEF QueueInv, PairInv

\* What a join writes, in the order in which it writes it.
LEMMA JoinKept ==
  ASSUME QueueInv, NEW c \in Clients,
         \/ \E i \in DOMAIN invites, n \in Names, p \in Policies : JoinSend(c, i, n, p)
         \/ JoinSaveSecret(c) \/ JoinSaveConfig(c) \/ JoinQueue(c) \/ Enqueue(c)
  PROVE  QueueInv'
<1>1. PcTypes /\ PairInv(c)
  BY DEF QueueInv
<1>2. ASSUME NEW i, NEW n \in Names, NEW p \in Policies, JoinSend(c, i, n, p) PROVE QueueInv'
  <2>1. joins' \in Nat /\ ~config[c].enabled /\ secret[c] = 0 /\ queue[c] = 0
    <3>1. joins' = joins + 1 /\ ~config[c].enabled /\ secret[c] = 0
      BY <1>2 DEF JoinSend
    <3>2. queue[c] = 0
      BY <1>1, <3>1 DEF PairInv
    <3>q. QED BY <1>1, <3>1, <3>2 DEF PcTypes
  <2>2. session' = [session EXCEPT ![c] = [Idle EXCEPT !.pc = "join", !.token = joins',
                                                       !.name = n, !.policy = p]]
    BY <1>2 DEF JoinSend
  <2>3. [Idle EXCEPT !.pc = "join", !.token = joins', !.name = n, !.policy = p] \in Session
    BY <2>1 DEF Idle, Session, Pcs
  <2>4. UNCHANGED disk
    BY <1>2 DEF JoinSend
  <2>5. session'[c].pc = "join"
    BY <1>1, <2>2 DEF PcTypes, Idle
  <2>6. PcTypes'
    BY <1>1, <2>1, <2>2, <2>3, <2>4 DEF PcTypes, disk
  <2>7. PairInv(c)'
    BY <2>1, <2>4, <2>5 DEF PairInv, disk
  <2>q. QED BY <1>1, <2>2, <2>4, <2>6, <2>7, OtherPcsKept DEF PcTypes, disk
<1>3. CASE JoinSaveSecret(c)
  <2>1. session[c].pc = "join" /\ session'[c].pc = "joinConfig"
    BY <1>1, <1>3 DEF JoinSaveSecret, At, Goto, PcTypes, Session
  <2>2. PcTypes'
    BY <1>1, <1>3 DEF JoinSaveSecret, Goto, PcTypes, Session, Pcs
  <2>3. PairInv(c)'
    BY <1>1, <1>3, <2>1 DEF JoinSaveSecret, PairInv
  <2>q. QED BY <1>1, <1>3, <2>2, <2>3, OtherPcsKept DEF JoinSaveSecret, Goto, PcTypes
<1>4. CASE JoinSaveConfig(c)
  <2>1. session[c].pc = "joinConfig" /\ session'[c].pc = "joinQueue"
    BY <1>1, <1>4 DEF JoinSaveConfig, At, Goto, PcTypes, Session
  <2>2. PcTypes'
    BY <1>1, <1>4 DEF JoinSaveConfig, Goto, PcTypes, Session, Pcs
  <2>3. PairInv(c)'
    BY <1>1, <1>4, <2>1 DEF JoinSaveConfig, PairInv, PcTypes
  <2>q. QED BY <1>1, <1>4, <2>2, <2>3, OtherPcsKept DEF JoinSaveConfig, Goto, PcTypes
<1>5. CASE JoinQueue(c)
  <2>1. session[c].pc = "joinQueue" /\ session'[c].pc = "idle"
    BY <1>1, <1>5 DEF JoinQueue, At, Stop, End, Idle, PcTypes
  <2>2. PcTypes'
    BY <1>1, <1>5 DEF JoinQueue, Stop, End, Idle, PcTypes, Session, Pcs, Policies
  <2>3. PairInv(c)'
    BY <1>1, <1>5, <2>1 DEF JoinQueue, PairInv, PcTypes
  <2>q. QED BY <1>1, <1>5, <2>2, <2>3, OtherPcsKept DEF JoinQueue, Stop, End, PcTypes
<1>6. CASE Enqueue(c)
  <2>1. PcTypes'
    BY <1>1, <1>6 DEF Enqueue, PcTypes
  <2>2. PairInv(c)'
    BY <1>1, <1>6 DEF Enqueue, At, Paired, PairInv, PcTypes
  <2>q. QED BY <1>1, <1>6, <2>1, <2>2, OtherPcsKept DEF Enqueue, PcTypes
<1>q. QED BY <1>2, <1>3, <1>4, <1>5, <1>6

\* leave erases the token first; the config and the records go together.
LEMMA LeaveKept ==
  ASSUME QueueInv, NEW c \in Clients, LeaveErase(c) \/ LeaveCommit(c)
  PROVE  QueueInv'
<1>1. PcTypes /\ PairInv(c)
  BY DEF QueueInv
<1>2. CASE LeaveErase(c)
  <2>1. session'[c].pc = "commit"
    BY <1>1, <1>2 DEF LeaveErase, Goto, PcTypes, Session
  <2>2. PcTypes'
    BY <1>1, <1>2 DEF LeaveErase, Goto, PcTypes, Session, Pcs
  <2>3. PairInv(c)'
    BY <1>1, <1>2, <2>1 DEF LeaveErase, PairInv, PcTypes
  <2>q. QED BY <1>1, <1>2, <2>2, <2>3, OtherPcsKept DEF LeaveErase, Goto, PcTypes
<1>3. CASE LeaveCommit(c)
  <2>1. session'[c].pc = "idle"
    BY <1>1, <1>3 DEF LeaveCommit, End, Idle, PcTypes
  <2>2. PcTypes'
    BY <1>1, <1>3 DEF LeaveCommit, End, Idle, Unpaired, PcTypes, Session, Pcs, Policies
  <2>3. PairInv(c)'
    BY <1>1, <1>3, <2>1 DEF LeaveCommit, PairInv, PcTypes
  <2>q. QED BY <1>1, <1>3, <2>2, <2>3, OtherPcsKept DEF LeaveCommit, End, PcTypes
<1>q. QED BY <1>2, <1>3

Elsewhere(c) ==
  \E v \in Session : /\ session' = [session EXCEPT ![c] = v]
                     /\ v.pc \notin {"join", "joinConfig", "joinQueue"}

\* The other steps write neither the token nor the records, and do not go on with a join.
LEMMA ElseKept ==
  ASSUME QueueInv, NEW c \in Clients,
         \/ LeaveSend(c) \/ LeaveAnswered(c) \/ ConsentSend(c) \/ ConsentSave(c) \/ Refused(c)
         \/ Timeout(c) \/ GuardRaises(c) \/ Crash(c)
  PROVE  QueueInv'
<1>1. PcTypes /\ PairInv(c)
  BY DEF QueueInv
<1>2. Elsewhere(c)
  <2>1. session[c] \in Session
    BY <1>1 DEF PcTypes
  <2>2. CASE LeaveSend(c)
    <3> DEFINE v == [session[c] EXCEPT !.pc = IF Paired(c) THEN "leave" ELSE "erase",
                                       !.token = secret[c], !.answer = "none"]
    <3>1. v \in Session /\ v.pc \in {"leave", "erase"}
      BY <1>1, <2>1 DEF PcTypes, Session, Pcs
    <3>2. session' = [session EXCEPT ![c] = v]
      BY <1>1, <2>2 DEF LeaveSend, PcTypes
    <3>q. QED BY <3>1, <3>2 DEF Elsewhere
  <2>3. CASE LeaveAnswered(c)
    <3> DEFINE v == [session[c] EXCEPT !.pc = "erase"]
    <3>1. v \in Session /\ v.pc = "erase"
      BY <2>1 DEF Session, Pcs
    <3>2. session' = [session EXCEPT ![c] = v]
      BY <1>1, <2>3 DEF LeaveAnswered, Goto, PcTypes
    <3>q. QED BY <3>1, <3>2 DEF Elsewhere
  <2>4. CASE ConsentSend(c)
    <3> DEFINE v == [session[c] EXCEPT !.pc = "consent", !.answer = "none"]
    <3>1. v \in Session /\ v.pc = "consent"
      BY <2>1 DEF Session, Pcs
    <3>2. session' = [session EXCEPT ![c] = v]
      BY <1>1, <2>4 DEF ConsentSend, PcTypes
    <3>q. QED BY <3>1, <3>2 DEF Elsewhere
  <2>5. CASE Timeout(c) /\ At(c, "leave")
    <3> DEFINE v == [session[c] EXCEPT !.answer = "no"]
    <3>1. v \in Session /\ v.pc = "leave"
      BY <2>1, <2>5 DEF Session, At
    <3>2. session' = [session EXCEPT ![c] = v]
      BY <1>1, <2>5 DEF Timeout, PcTypes
    <3>q. QED BY <3>1, <3>2 DEF Elsewhere
  <2>6. CASE \/ ConsentSave(c) \/ Refused(c) \/ GuardRaises(c) \/ Crash(c)
             \/ Timeout(c) /\ ~At(c, "leave")
    <3>1. PICK left \in BOOLEAN :
            session' = [session EXCEPT ![c] = [Idle EXCEPT !.name = session[c].name, !.left = left]]
      BY <2>1, <2>6 DEF ConsentSave, Refused, GuardRaises, Crash, Timeout, Stop, End, At, Session
    <3> DEFINE v == [Idle EXCEPT !.name = session[c].name, !.left = left]
    <3>2. v \in Session /\ v.pc = "idle"
      BY <2>1 DEF Idle, Session, Pcs, Policies
    <3>q. QED BY <3>1, <3>2 DEF Elsewhere
  <2>q. QED BY <2>2, <2>3, <2>4, <2>5, <2>6
<1>3. PICK v \in Session : /\ session' = [session EXCEPT ![c] = v]
                           /\ v.pc \notin {"join", "joinConfig", "joinQueue"}
  BY <1>2 DEF Elsewhere
<1>4. UNCHANGED <<secret, queue, joins>>
  BY DEF LeaveSend, LeaveAnswered, ConsentSend, ConsentSave, Refused, Timeout, GuardRaises, Crash,
         disk
<1>5. config' = config \/ config' = [config EXCEPT ![c].consent = "2"]
  BY DEF LeaveSend, LeaveAnswered, ConsentSend, ConsentSave, Refused, Timeout, GuardRaises, Crash,
         disk
<1>6. /\ config' \in [Clients -> [enabled : BOOLEAN, consent : Policies]]
      /\ \A o \in Clients : config'[o].enabled = config[o].enabled
      /\ \A o \in Clients \ {c} : config'[o] = config[o]
  BY <1>1, <1>5 DEF PcTypes, Policies
<1>7. PcTypes'
  BY <1>1, <1>3, <1>4, <1>6 DEF PcTypes
<1>8. PairInv(c)'
  BY <1>1, <1>3, <1>4, <1>6 DEF PcTypes, PairInv
<1>q. QED BY <1>1, <1>3, <1>4, <1>6, <1>7, <1>8, OtherPcsKept DEF PcTypes

LEMMA QueueKept ==
  ASSUME QueueInv, [Next]_vars
  PROVE  QueueInv'
<1>1. ASSUME NEW c \in Clients, ClientStep(c) PROVE QueueInv'
  BY <1>1, JoinKept, LeaveKept, ElseKept DEF ClientStep
<1>2. ASSUME NEW r \in requests, HubStep(r) PROVE QueueInv'
  BY <1>2, HubStepKept
<1>3. CASE HostStep \/ UNCHANGED vars
  <2>1. UNCHANGED <<disk, session, joins>>
    BY <1>3 DEF HostStep, BootstrapOwner, CreateInvite, Revoke, DeleteMember, vars
  <2>q. QED BY <2>1 DEF QueueInv, PcTypes, PairInv, disk
<1>q. QED BY <1>1, <1>2, <1>3 DEF Next

\* Wherever a join or a leave crashes, times out or is refused, no record of an earlier
\* pairing is left to be sent under the token of the next.
THEOREM QueueFollowsPairing == Spec => []RecordsFollowPairing
<1>1. Init => QueueInv
  BY DEF Init, Idle, Unpaired, QueueInv, PcTypes, PairInv, Session, Pcs, Policies
<1>2. QueueInv /\ [Next]_vars => QueueInv'
  BY QueueKept
<1>3. QueueInv => RecordsFollowPairing
  BY DEF QueueInv, PairInv, RecordsFollowPairing
<1>q. QED BY <1>1, <1>2, <1>3, PTL DEF Spec

-----------------------------------------------------------------------------
(* The accounts of the hub, and what the PCs hold of them.                   *)

Numbered(table) == \E n \in Nat : DOMAIN table \subseteq 1..n
MemberRow == [name : Names \cup {Host}, policy : Policies, disabled : BOOLEAN, owner : BOOLEAN]
DeviceRow == [token : Nat \ {0}, member : Nat, revoked : BOOLEAN, disturbed : BOOLEAN]

MembersHold ==
  /\ members \in [DOMAIN members -> MemberRow] /\ Numbered(members)
  /\ \A row \in DOMAIN members : members[row].owner <=> members[row].name = Host
  /\ \A row, other \in DOMAIN members : members[row].name = members[other].name => row = other
DevicesHold ==
  /\ devices \in [DOMAIN devices -> DeviceRow] /\ Numbered(devices)
  /\ \A d \in DOMAIN devices : devices[d].token <= joins /\ devices[d].member \in DOMAIN members
  /\ \A d, other \in DOMAIN devices : devices[d].token = devices[other].token => d = other
InvitesHold ==
  /\ InviteInv /\ Numbered(invites)
  /\ \A i \in DOMAIN invites : invites[i].target \in DOMAIN members \cup {0}
TablesHold == MembersHold /\ DevicesHold /\ InvitesHold

Served ==
  [op : {"enroll", "consent", "revoke"}, from : Clients, awaited : BOOLEAN, token : Nat,
   invite : Nat, name : Names \cup {Host}, policy : Policies, loaded : Policies,
   phase : {"read", "target", "create", "claim", "write"}, member : Nat, device : Nat,
   disturbed : BOOLEAN]

\* No device has the token of an enrolment that is being served; the member whose row a
\* handler holds is the one it has read, unless the host has deleted a member since.
EnrollHolds(r) ==
  r.op = "enroll" =>
    /\ r.token # 0
    /\ \A d \in DOMAIN devices : devices[d].token # r.token
    /\ r.phase = "claim" =>
         r.disturbed \/ (r.member \in DOMAIN members /\ members[r.member].name = r.name)
ConsentHolds(r) ==
  r.op = "consent" =>
    /\ r.policy = "2"
    /\ r.phase = "write" =>
         \/ r.disturbed
         \/ /\ r.device \in DOMAIN devices
            /\ devices[r.device].token = r.token /\ devices[r.device].member = r.member
RevokeHolds(r) ==
  r.op = "revoke" /\ r.phase = "write" =>
    \A d \in DOMAIN devices : devices[d].token = r.token => d = r.device
DataHolds(r) == EnrollHolds(r) /\ ConsentHolds(r) /\ RevokeHolds(r)

\* A PC waits for one answer at a time, and nothing else knows the token of an enrolment.
Leaving == {"leave", "erase", "commit"}
Waits(op) == IF op = "enroll" THEN "join" ELSE IF op = "revoke" THEN "leave" ELSE "consent"
Meets(r, c) ==
  /\ r.op = "enroll" =>
       /\ secret[c] # r.token
       /\ session[c].pc \in Leaving => session[c].token # r.token
       /\ session[c].pc = "join" /\ session[c].token = r.token =>
            r.awaited /\ r.from = c /\ r.name = session[c].name
  /\ r.awaited /\ r.from = c =>
       /\ session[c].answer = "none" /\ session[c].pc = Waits(r.op)
       /\ r.op # "consent" => session[c].token = r.token
Apart(r, o) ==
  /\ r.op = "enroll" /\ o.token = r.token => o.op # "revoke" /\ (o.op = "enroll" => o = r)
  /\ r.awaited /\ o.awaited /\ r.from = o.from => o = r

RequestHolds(r) ==
  /\ r \in Served /\ r.token <= joins
  /\ DataHolds(r)
  /\ \A c \in Clients : Meets(r, c)
RequestsHold == /\ \A r \in requests : RequestHolds(r)
                /\ \A r, o \in requests : Apart(r, o)

\* The token a PC holds, on its disk or in an operation, is that of a device of its member;
\* one that it has been told is revoked is.
Named(d, c) == members[devices[d].member].name = session[c].name \/ devices[d].disturbed
DeviceMeets(d, c) ==
  /\ devices[d].token = secret[c] => Named(d, c)
  /\ session[c].pc = "join" /\ devices[d].token = session[c].token =>
       session[c].answer = "ok" /\ Named(d, c)
  /\ session[c].pc \in Leaving /\ session[c].answer = "ok" /\ devices[d].token = session[c].token =>
       devices[d].revoked
TokensHold(c) ==
  /\ queue[c] <= joins /\ secret[c] <= joins /\ session[c].token <= joins
  /\ session[c].pc \in {"idle", "consent"} => session[c].token = 0
  /\ session[c].pc \in {"joinConfig", "joinQueue", "leave", "erase"} =>
       session[c].token = secret[c]
  /\ session[c].pc = "commit" => secret[c] = 0
PcHolds(c) == TokensHold(c) /\ \A d \in DOMAIN devices : DeviceMeets(d, c)
AccountInv == QueueInv /\ TablesHold /\ RequestsHold /\ \A c \in Clients : PcHolds(c)

-----------------------------------------------------------------------------
(* The numbers of the rows.                                                  *)

LEMMA LeastElement == ASSUME NEW S, S \subseteq Nat, S # {} PROVE \E m \in S : \A j \in S : m <= j
<1> DEFINE less == {ss \in Nat \X Nat : ss[1] < ss[2]}
<1>1. IsWellFoundedOn(less, Nat)
  BY NatLessThanWellFounded DEF OpToRel
<1>2. \A i, j \in Nat : i < j => <<i, j>> \in less
  OBVIOUS
<1> HIDE DEF less
<1>3. PICK m \in S : \A j \in S : ~(<<j, m>> \in less)
  BY <1>1, WFMin
<1>4. \A j \in S : ~(j < m)
  BY <1>2, <1>3
<1>q. QED BY <1>4

\* The number of a new row is that of no other.
LEMMA NewRowIsNew ==
  ASSUME NEW table, Numbered(table)
  PROVE  NewRow(table) \in Nat \ {0} /\ NewRow(table) \notin DOMAIN table
<1>1. PICK n \in Nat : DOMAIN table \subseteq 1..n
  BY DEF Numbered
<1>2. CASE DOMAIN table # {}
  <2> DEFINE S == DOMAIN table
             bounds == {m \in Nat : \A x \in S : x <= m}
  <2>1. n \in bounds
    BY <1>1
  <2>2. PICK m \in bounds : \A j \in bounds : m <= j
    BY <2>1, LeastElement
  <2>3. m \in S
    <3>1. SUFFICES ASSUME m \notin S PROVE FALSE
      OBVIOUS
    <3>2. PICK x \in S : x \in 1..n /\ x <= m
      BY <1>1, <1>2, <2>2
    <3>3. m - 1 \in Nat
      BY <2>2, <3>1, <3>2
    <3>4. \A y \in S : y <= m - 1
      BY <1>1, <2>2, <3>1
    <3>q. QED BY <2>2, <3>3, <3>4
  <2>4. \E y \in S : \A x \in S : y >= x
    BY <1>1, <2>2, <2>3
  <2>5. Max(S) = CHOOSE y \in S : \A x \in S : y >= x
    BY Zenon DEF Max
  <2> HIDE DEF bounds
  <2>6. Max(S) \in S /\ \A x \in S : Max(S) >= x
    BY <2>4, <2>5
  <2>7. NewRow(table) = 1 + Max(S)
    BY <1>2 DEF NewRow
  <2> HIDE DEF S
  <2>8. Max(S) \in Nat \ {0} /\ (1 + Max(S)) \notin S
    BY <1>1, <2>6 DEF S
  <2>q. QED BY <2>7, <2>8 DEF S
<1>3. CASE DOMAIN table = {}
  BY <1>3 DEF NewRow
<1>q. QED BY <1>2, <1>3

LEMMA NumberedWith ==
  ASSUME NEW table, NEW v, Numbered(table)
  PROVE  Numbered(With(table, NewRow(table), v))
<1>1. PICK n \in Nat : DOMAIN table \subseteq 1..n
  BY DEF Numbered
<1> DEFINE new == NewRow(table)
<1>2. new \in Nat \ {0}
  BY NewRowIsNew
<1> HIDE DEF new
<1>3. DOMAIN table \cup {new} \subseteq 1..(n + new) /\ n + new \in Nat
  BY <1>1, <1>2
<1>4. DOMAIN With(table, new, v) = DOMAIN table \cup {new}
  BY DEF With
<1>q. QED BY <1>3, <1>4 DEF Numbered, new

-----------------------------------------------------------------------------
(* What the steps do to a request or a PC they are not about.                *)

\* The names and the devices are as they were, but for revocations and a new member.
Steady ==
  /\ DOMAIN members \subseteq DOMAIN members'
  /\ \A row \in DOMAIN members : members'[row].name = members[row].name
  /\ DOMAIN devices' = DOMAIN devices
  /\ \A d \in DOMAIN devices :
       /\ devices'[d].token = devices[d].token /\ devices'[d].member = devices[d].member
       /\ devices'[d].disturbed = devices[d].disturbed
       /\ devices[d].revoked => devices'[d].revoked

LEMMA DataKept ==
  ASSUME Steady, NEW r, DataHolds(r)
  PROVE  DataHolds(r)'
BY DEF Steady, DataHolds, EnrollHolds, ConsentHolds, RevokeHolds

\* A request goes on with what it has read.
LEMMA ReadKept ==
  ASSUME AccountInv, QueueInv', NEW r \in requests, NEW next \in Served, Read(r, next),
         next.op = r.op, next.from = r.from, next.awaited = r.awaited, next.token = r.token,
         next.name = r.name, DataHolds(next), UNCHANGED <<disk, hub, joins>>
  PROVE  AccountInv'
<1>1. requests' = (requests \ {r}) \cup {next} /\ UNCHANGED <<disk, hub, joins, session>>
  BY DEF Read
<1>2. TablesHold'
  BY <1>1 DEF AccountInv, TablesHold, MembersHold, DevicesHold, InvitesHold, InviteInv, hub
<1>3. \A c \in Clients : PcHolds(c)'
  BY <1>1 DEF AccountInv, PcHolds, TokensHold, DeviceMeets, Named, hub, disk
<1>4. \A q \in requests' : RequestHolds(q)'
  <2>1. ASSUME NEW q, RequestHolds(q) PROVE RequestHolds(q)'
    BY <1>1, <2>1 DEF RequestHolds, DataHolds, EnrollHolds, ConsentHolds, RevokeHolds, Meets,
                      hub, disk
  <2>2. RequestHolds(next)
    BY DEF AccountInv, RequestsHold, RequestHolds, Meets
  <2>q. QED BY <1>1, <2>1, <2>2 DEF AccountInv, RequestsHold
<1>5. \A q, o \in requests' : Apart(q, o)
  BY <1>1 DEF AccountInv, RequestsHold, Apart
<1>q. QED BY <1>2, <1>3, <1>4, <1>5 DEF AccountInv, RequestsHold

\* What an answer changes: one PC that waits for it learns it.
LEMMA AnswerOnly ==
  ASSUME AccountInv, NEW r \in requests, NEW answer, Reply(r, answer), NEW c \in Clients
  PROVE  /\ session'[c].pc = session[c].pc /\ session'[c].token = session[c].token
         /\ session'[c].name = session[c].name
         /\ session'[c].answer = IF r.awaited /\ r.from = c THEN answer ELSE session[c].answer
<1>1. session \in [Clients -> Session] /\ r.from \in Clients /\ session[c] \in Session
  BY DEF AccountInv, QueueInv, PcTypes, RequestsHold, RequestHolds, Served
<1>2. CASE r.awaited /\ r.from = c
  <2> DEFINE v == [session[c] EXCEPT !.answer = answer]
  <2>1. session'[c] = v
    BY <1>1, <1>2 DEF Reply
  <2>2. /\ v.pc = session[c].pc /\ v.token = session[c].token /\ v.name = session[c].name
        /\ v.answer = answer
    BY <1>1 DEF Session
  <2>q. QED BY <1>2, <2>1, <2>2
<1>3. CASE ~(r.awaited /\ r.from = c)
  <2>1. session'[c] = session[c]
    BY <1>1, <1>3 DEF Reply
  <2>q. QED BY <1>3, <2>1
<1>q. QED BY <1>2, <1>3

LEMMA OtherRequestsMeet ==
  ASSUME AccountInv, NEW r \in requests, NEW answer, Reply(r, answer), UNCHANGED disk,
         NEW q \in requests \ {r}, NEW c \in Clients
  PROVE  Meets(q, c)'
<1>1. Meets(q, c) /\ Apart(q, r)
  BY DEF AccountInv, RequestsHold, RequestHolds
<1>2. secret'[c] = secret[c]
  BY DEF disk
<1>q. QED BY <1>1, <1>2, AnswerOnly DEF Meets, Apart

LEMMA OthersApart ==
  ASSUME AccountInv, NEW r \in requests, NEW answer, Reply(r, answer)
  PROVE  \A q, o \in requests' : Apart(q, o)'
BY DEF AccountInv, RequestsHold, Apart, Reply

\* A request is answered, and what it has written at most revokes a device.
LEMMA ReplyKept ==
  ASSUME AccountInv, QueueInv', TablesHold', NEW r \in requests, NEW answer \in {"ok", "no"},
         Reply(r, answer), Steady, UNCHANGED <<disk, joins>>,
         answer = "ok" =>
           /\ r.op # "enroll"
           /\ r.op = "revoke" =>
                \A d \in DOMAIN devices : devices[d].token = r.token => devices'[d].revoked
  PROVE  AccountInv'
<1>1. requests' = requests \ {r}
  BY DEF Reply
<1>2. \A q \in requests' : RequestHolds(q)'
  BY <1>1, DataKept, OtherRequestsMeet DEF AccountInv, RequestsHold, RequestHolds
<1>3. ASSUME NEW c \in Clients PROVE PcHolds(c)'
  <2>1. TokensHold(c) /\ UNCHANGED <<secret[c], queue[c], joins>>
    BY DEF AccountInv, PcHolds, disk
  <2>2. TokensHold(c)'
    BY <2>1, AnswerOnly DEF TokensHold
  <2>3. ASSUME NEW d \in DOMAIN devices PROVE DeviceMeets(d, c)'
    <3>1. DeviceMeets(d, c) /\ Meets(r, c) /\ r \in Served
      BY DEF AccountInv, PcHolds, RequestsHold, RequestHolds
    <3>2. Named(d, c) => Named(d, c)'
      <4>1. devices[d].member \in DOMAIN members
        BY DEF AccountInv, TablesHold, DevicesHold
      <4>q. QED BY <4>1, AnswerOnly DEF Steady, Named
    <3>3. devices'[d].token = devices[d].token /\ (devices[d].revoked => devices'[d].revoked)
      BY DEF Steady
    <3>4. CASE r.awaited /\ r.from = c
      <4>1. session[c].answer = "none" /\ session[c].pc = Waits(r.op)
        BY <3>1, <3>4 DEF Meets
      <4>2. session[c].pc = "leave" => r.op = "revoke" /\ session[c].token = r.token
        BY <3>1, <3>4, <4>1 DEF Meets, Waits, Served
      <4>3. session[c].pc \in Leaving => session[c].pc = "leave"
        BY <4>1 DEF Waits, Leaving
      <4>q. QED BY <2>1, <3>1, <3>2, <3>3, <3>4, <4>1, <4>2, <4>3, AnswerOnly DEF DeviceMeets
    <3>5. CASE ~(r.awaited /\ r.from = c)
      BY <2>1, <3>1, <3>2, <3>3, <3>5, AnswerOnly DEF DeviceMeets
    <3>q. QED BY <3>4, <3>5
  <2>q. QED BY <2>2, <2>3 DEF PcHolds, Steady
<1>q. QED BY <1>2, <1>3, OthersApart DEF AccountInv, RequestsHold

-----------------------------------------------------------------------------
(* The steps of a PC.                                                        *)

\* A step of one PC leaves the others alone.
OnlyPc(c) ==
  \A o \in Clients \ {c} : secret'[o] = secret[o] /\ queue'[o] = queue[o]
                           /\ session'[o] = session[o]

LEMMA OtherPcHolds ==
  ASSUME AccountInv, NEW c \in Clients, OnlyPc(c), UNCHANGED hub, joins <= joins', joins' \in Nat,
         NEW o \in Clients \ {c}
  PROVE  PcHolds(o)' /\ \A r : Meets(r, o) => Meets(r, o)'
<1>1. /\ PcHolds(o) /\ secret[o] \in Nat /\ queue[o] \in Nat /\ session[o] \in Session
      /\ joins \in Nat
  BY DEF AccountInv, QueueInv, PcTypes
<1>2. UNCHANGED <<secret[o], queue[o], session[o]>> /\ UNCHANGED <<members, devices>>
  BY DEF OnlyPc, hub
<1>3. TokensHold(o)'
  BY <1>1, <1>2 DEF PcHolds, TokensHold, Session
<1>4. \A d \in DOMAIN devices' : DeviceMeets(d, o)'
  BY <1>1, <1>2 DEF PcHolds, DeviceMeets, Named
<1>q. QED BY <1>2, <1>3, <1>4 DEF PcHolds, Meets

LEMMA TablesKeptByPc ==
  ASSUME AccountInv, UNCHANGED hub, joins <= joins', joins' \in Nat
  PROVE  TablesHold' /\ \A r : DataHolds(r) => DataHolds(r)'
<1>1. joins \in Nat
  BY DEF AccountInv, QueueInv, PcTypes
<1>2. MembersHold' /\ InvitesHold'
  BY DEF AccountInv, TablesHold, MembersHold, InvitesHold, InviteInv, hub
<1>3. DevicesHold'
  <2>1. devices' = devices /\ members' = members
    BY DEF hub
  <2>2. \A d \in DOMAIN devices : devices[d].token \in Nat
    BY DEF AccountInv, TablesHold, DevicesHold, DeviceRow
  <2>q. QED BY <1>1, <2>1, <2>2 DEF AccountInv, TablesHold, DevicesHold
<1>4. \A r : DataHolds(r) => DataHolds(r)'
  BY DEF DataHolds, EnrollHolds, ConsentHolds, RevokeHolds, hub
<1>q. QED BY <1>2, <1>3, <1>4 DEF TablesHold

\* A step that sends nothing, and waits for no answer after it that it did not before.
LEMMA PcStepKept ==
  ASSUME AccountInv, QueueInv', NEW c \in Clients, OnlyPc(c), UNCHANGED <<hub, joins, requests>>,
         PcHolds(c)', \A r \in requests : Meets(r, c)'
  PROVE  AccountInv'
<1>1. joins \in Nat /\ joins' = joins /\ UNCHANGED hub
  BY DEF AccountInv, QueueInv, PcTypes
<1>2. TablesHold' /\ \A r : DataHolds(r) => DataHolds(r)'
  BY <1>1, TablesKeptByPc
<1>3. \A o \in Clients : PcHolds(o)' /\ \A r \in requests : Meets(r, o)'
  BY <1>1, OtherPcHolds DEF AccountInv, RequestsHold, RequestHolds
<1>4. \A r \in requests' : RequestHolds(r)'
  BY <1>1, <1>2, <1>3 DEF AccountInv, RequestsHold, RequestHolds
<1>q. QED BY <1>2, <1>3, <1>4 DEF AccountInv, RequestsHold, Apart

\* One that sends a request.
LEMMA SendKept ==
  ASSUME AccountInv, QueueInv', NEW c \in Clients, OnlyPc(c), UNCHANGED hub,
         joins <= joins', NEW q, requests' = requests \cup {q}, RequestHolds(q)',
         \A r \in requests : Apart(r, q) /\ Apart(q, r),
         PcHolds(c)', \A r \in requests : Meets(r, c)'
  PROVE  AccountInv'
<1>1. joins \in Nat /\ joins' \in Nat
  BY DEF AccountInv, QueueInv, PcTypes
<1>2. TablesHold' /\ \A r : DataHolds(r) => DataHolds(r)'
  BY <1>1, TablesKeptByPc
<1>3. \A o \in Clients : PcHolds(o)' /\ \A r \in requests : Meets(r, o)'
  BY <1>1, OtherPcHolds DEF AccountInv, RequestsHold, RequestHolds
<1>4. \A r \in requests : RequestHolds(r)'
  <2>1. \A r \in requests : r.token \in Nat /\ r.token <= joins
    BY DEF AccountInv, RequestsHold, RequestHolds, Served
  <2>2. \A r \in requests : r.token <= joins'
    BY <1>1, <2>1
  <2>q. QED BY <1>2, <1>3, <2>2 DEF AccountInv, RequestsHold, RequestHolds
<1>5. \A r, o \in requests' : Apart(r, o)
  BY DEF AccountInv, RequestsHold, Apart
<1>q. QED BY <1>2, <1>3, <1>4, <1>5 DEF AccountInv, RequestsHold, Apart

\* One after which the PC waits for nothing.
LEMMA UnawaitKept ==
  ASSUME AccountInv, QueueInv', NEW c \in Clients, OnlyPc(c), UNCHANGED <<hub, joins>>,
         requests' = Unawait(c), PcHolds(c)',
         \A r \in requests : r.op = "enroll" =>
           /\ secret'[c] # r.token /\ session'[c].pc # "join"
           /\ session'[c].pc \in Leaving => session'[c].token # r.token
  PROVE  AccountInv'
<1>1. joins \in Nat /\ joins' = joins /\ UNCHANGED hub
  BY DEF AccountInv, QueueInv, PcTypes
<1>2. TablesHold' /\ \A r : DataHolds(r) => DataHolds(r)'
  BY <1>1, TablesKeptByPc
<1> DEFINE Left(r) == [r EXCEPT !.awaited = r.awaited /\ r.from # c]
<1>3. ASSUME NEW r \in requests
      PROVE  /\ Left(r) \in Served /\ Left(r).awaited = (r.awaited /\ r.from # c)
             /\ Left(r).op = r.op /\ Left(r).from = r.from /\ Left(r).token = r.token
             /\ Left(r).name = r.name /\ Left(r).policy = r.policy /\ Left(r).phase = r.phase
             /\ Left(r).member = r.member /\ Left(r).device = r.device
             /\ Left(r).disturbed = r.disturbed
  <2>1. r \in Served
    BY DEF AccountInv, RequestsHold, RequestHolds
  <2>q. QED BY <2>1 DEF Served
<1> HIDE DEF Left
<1>4. requests' = {Left(r) : r \in requests}
  BY DEF Unawait, Left
<1>5. ASSUME NEW r \in requests PROVE RequestHolds(Left(r))'
  <2> DEFINE q == Left(r)
  <2>0. /\ q \in Served /\ q.awaited = (r.awaited /\ r.from # c)
        /\ q.op = r.op /\ q.from = r.from /\ q.token = r.token
        /\ q.name = r.name /\ q.policy = r.policy /\ q.phase = r.phase
        /\ q.member = r.member /\ q.device = r.device
        /\ q.disturbed = r.disturbed
    BY <1>3
  <2>k. RequestHolds(r)
    BY DEF AccountInv, RequestsHold
  <2>p. PICK x : x = q
    OBVIOUS
  <2> HIDE DEF q
  <2>1. DataHolds(q)
    BY <2>0, <2>k DEF RequestHolds, DataHolds, EnrollHolds, ConsentHolds, RevokeHolds
  <2>2. DataHolds(x)'
    BY <1>2, <2>1, <2>p
  <2>3. ASSUME NEW o \in Clients \ {c} PROVE Meets(x, o)'
    <3>1. Meets(r, o)'
      BY <1>1, <2>k, OtherPcHolds DEF RequestHolds
    <3>q. QED BY <2>0, <2>p, <3>1 DEF Meets
  <2>4. Meets(x, c)'
    BY <2>0, <2>p DEF Meets
  <2>5. RequestHolds(x)'
    BY <1>1, <2>0, <2>k, <2>p, <2>2, <2>3, <2>4 DEF RequestHolds
  <2>6. x = Left(r)
    BY <2>p DEF q
  <2>q. QED BY <2>5, <2>6
<1>6. ASSUME NEW r \in requests, NEW o \in requests PROVE Apart(Left(r), Left(o))
  <2>1. Apart(r, o) /\ Apart(o, r)
    BY DEF AccountInv, RequestsHold
  <2>2. /\ Left(r).op = r.op /\ Left(r).token = r.token /\ Left(r).from = r.from
        /\ Left(r).awaited = (r.awaited /\ r.from # c)
        /\ Left(o).op = o.op /\ Left(o).token = o.token /\ Left(o).from = o.from
        /\ Left(o).awaited = (o.awaited /\ o.from # c)
    BY <1>3
  <2>q. QED BY <2>1, <2>2 DEF Apart
<1>7. \A o \in Clients : PcHolds(o)'
  BY <1>1, OtherPcHolds
<1>q. QED BY <1>2, <1>4, <1>5, <1>6, <1>7 DEF AccountInv, RequestsHold, Apart

\* What a PC knows, in the terms of the steps.
LEMMA PcFacts ==
  ASSUME AccountInv, NEW c \in Clients
  PROVE  /\ session \in [Clients -> Session] /\ session[c] \in Session
         /\ secret \in [Clients -> Nat] /\ queue \in [Clients -> Nat] /\ joins \in Nat
         /\ PairInv(c) /\ PcHolds(c)
         /\ \A r \in requests : /\ r \in Served /\ r.token \in Nat /\ r.token <= joins
                                /\ Meets(r, c) /\ (r.op = "enroll" => r.token # 0)
         /\ \A d \in DOMAIN devices : /\ devices[d].token \in Nat \ {0} /\ devices[d].token <= joins
                                      /\ DeviceMeets(d, c)
BY DEF AccountInv, QueueInv, PcTypes, PcHolds, TablesHold, DevicesHold, DeviceRow, RequestsHold,
       RequestHolds, DataHolds, EnrollHolds, Served

\* A PC that does not wait is awaited by nothing.
LEMMA NotAwaited ==
  ASSUME AccountInv, NEW c \in Clients, NEW r \in requests, r.awaited, r.from = c
  PROVE  session[c].answer = "none" /\ session[c].pc \in {"join", "leave", "consent"}
BY PcFacts DEF Meets, Waits

LEMMA JoinSendKept ==
  ASSUME AccountInv, QueueInv', NEW c \in Clients, NEW i \in DOMAIN invites, NEW n \in Names,
         NEW p \in Policies, JoinSend(c, i, n, p)
  PROVE  AccountInv'
<1> DEFINE q == [Request(c, "enroll", joins') EXCEPT !.invite = i, !.name = n, !.policy = p]
           v == [Idle EXCEPT !.pc = "join", !.token = joins', !.name = n, !.policy = p]
<1>1. /\ session[c].pc = "idle" /\ secret[c] = 0 /\ joins' = joins + 1
      /\ UNCHANGED <<secret, queue, members, invites, devices>>
      /\ session' = [session EXCEPT ![c] = v] /\ requests' = requests \cup {q}
  BY DEF JoinSend, At, disk, hub
<1>2. /\ q.op = "enroll" /\ q.token = joins' /\ q.awaited /\ q.from = c /\ q.name = n
      /\ q.phase = "read"
  BY DEF Request
<1>3. v.pc = "join" /\ v.token = joins' /\ v.name = n /\ v.answer = "none"
  BY DEF Idle
<1>4. q \in Served
  <2>1. i \in Nat /\ joins' \in Nat
    BY <1>1, PcFacts DEF AccountInv, TablesHold, InvitesHold, Numbered
  <2>q. QED BY <2>1 DEF Request, Served, Policies
<1>5. PICK x : x = q
  OBVIOUS
<1> HIDE DEF q, v
<1>6. session'[c] = v /\ joins \in Nat /\ OnlyPc(c) /\ UNCHANGED hub
  BY <1>1, PcFacts DEF OnlyPc, hub
<1>7. RequestHolds(x)'
  <2>1. DataHolds(x)'
    <3>1. \A d \in DOMAIN devices : devices[d].token # joins + 1
      BY PcFacts
    <3>q. QED BY <1>1, <1>2, <1>5, <1>6, <3>1
              DEF DataHolds, EnrollHolds, ConsentHolds, RevokeHolds
  <2>2. ASSUME NEW o \in Clients \ {c} PROVE Meets(x, o)'
    <3>1. TokensHold(o) /\ secret[o] \in Nat /\ session[o].token \in Nat
      BY PcFacts DEF PcHolds, Session
    <3>2. secret[o] # joins + 1 /\ session[o].token # joins + 1
      BY <1>6, <3>1 DEF TokensHold
    <3>q. QED BY <1>1, <1>2, <1>5, <1>6, <3>2 DEF Meets, OnlyPc
  <2>3. Meets(x, c)'
    BY <1>1, <1>2, <1>3, <1>5, <1>6 DEF Meets, Waits, Leaving
  <2>q. QED BY <1>1, <1>2, <1>4, <1>5, <1>6, <2>1, <2>2, <2>3 DEF RequestHolds
<1>8. PcHolds(c)'
  <2>1. TokensHold(c)'
    BY <1>1, <1>3, <1>6, PcFacts DEF PcHolds, TokensHold
  <2>2. \A d \in DOMAIN devices : DeviceMeets(d, c)'
    BY <1>1, <1>3, <1>6, PcFacts DEF DeviceMeets, Leaving
  <2>q. QED BY <1>1, <2>1, <2>2 DEF PcHolds
<1>9. ASSUME NEW r \in requests PROVE Meets(r, c)' /\ Apart(r, x) /\ Apart(x, r)
  <2>1. ~(r.awaited /\ r.from = c)
    BY <1>1, NotAwaited
  <2>2. r.token # joins + 1 /\ (r.op = "enroll" => r.token # 0)
    BY PcFacts
  <2>3. Meets(r, c)'
    BY <1>1, <1>3, <1>6, <2>1, <2>2 DEF Meets, Leaving
  <2>q. QED BY <1>1, <1>2, <1>5, <2>1, <2>2, <2>3 DEF Apart
<1>q. QED BY <1>1, <1>5, <1>6, <1>7, <1>8, <1>9, SendKept

\* The other two requests have the PC's token, which no enrolment has.
LEMMA SendOwnKept ==
  ASSUME AccountInv, QueueInv', NEW c \in Clients, (LeaveSend(c) /\ Paired(c)) \/ ConsentSend(c)
  PROVE  AccountInv'
<1>1. PICK op \in {"revoke", "consent"} :
        /\ session[c].pc = "idle"
        /\ UNCHANGED <<secret, queue, members, invites, devices, joins>>
        /\ requests' = requests \cup {Request(c, op, secret[c])}
        /\ op = "revoke" => LeaveSend(c) /\ Paired(c)
        /\ op = "consent" => ConsentSend(c)
  BY DEF LeaveSend, ConsentSend, At, disk, hub
<1>2. PICK q : q = Request(c, op, secret[c])
  OBVIOUS
<1>3. /\ q.op = op /\ q.token = secret[c] /\ q.awaited /\ q.from = c /\ q.policy = "2"
      /\ q.phase = "read"
  BY <1>2 DEF Request
<1>4. q \in Served
  BY <1>2, PcFacts DEF Request, Served, Policies
<1>5. /\ session'[c].pc = Waits(op) /\ session'[c].answer = "none"
      /\ session'[c].name = session[c].name
      /\ session'[c].token = IF op = "revoke" THEN secret[c] ELSE session[c].token
  BY <1>1, PcFacts DEF LeaveSend, ConsentSend, Waits, Session
<1>6. OnlyPc(c) /\ UNCHANGED hub /\ joins' = joins /\ joins \in Nat
  <2>1. \A o \in Clients \ {c} : session'[o] = session[o]
    BY <1>1, PcFacts DEF LeaveSend, ConsentSend
  <2>q. QED BY <1>1, <2>1, PcFacts DEF OnlyPc, hub
<1>7. TokensHold(c) /\ session[c].token = 0
  BY <1>1, PcFacts DEF PcHolds, TokensHold
<1>8. RequestHolds(q)'
  <2>1. DataHolds(q)'
    BY <1>3 DEF DataHolds, EnrollHolds, ConsentHolds, RevokeHolds
  <2>2. \A o \in Clients \ {c} : Meets(q, o)'
    BY <1>3 DEF Meets
  <2>3. Meets(q, c)'
    BY <1>3, <1>5 DEF Meets
  <2>4. q.token <= joins'
    BY <1>3, <1>6, <1>7 DEF TokensHold
  <2>q. QED BY <1>4, <2>1, <2>2, <2>3, <2>4 DEF RequestHolds
<1>9. PcHolds(c)'
  <2>1. TokensHold(c)'
    BY <1>1, <1>5, <1>7 DEF TokensHold, Waits
  <2>2. \A d \in DOMAIN devices : DeviceMeets(d, c)'
    BY <1>1, <1>5, PcFacts DEF DeviceMeets, Named, Waits
  <2>q. QED BY <1>1, <2>1, <2>2 DEF PcHolds
<1>10. ASSUME NEW r \in requests PROVE Meets(r, c)' /\ Apart(r, q) /\ Apart(q, r)
  <2>1. ~(r.awaited /\ r.from = c)
    BY <1>1, NotAwaited
  <2>2. r.op = "enroll" => r.token # secret[c] /\ r.token # 0
    BY PcFacts DEF Meets
  <2>3. Meets(r, c)'
    BY <1>1, <1>5, <1>7, <2>1, <2>2 DEF Meets, Waits, Leaving
  <2>q. QED BY <1>1, <1>3, <2>1, <2>2, <2>3 DEF Apart
<1>q. QED BY <1>1, <1>2, <1>6, <1>8, <1>9, <1>10, SendKept

\* The end of an operation: what is left of it is the token on the disk.
LEMMA StopKept ==
  ASSUME AccountInv, NEW c \in Clients, NEW left,
         End(c, session[c].name, left), UNCHANGED <<secret, members, devices, joins>>,
         queue'[c] \in {queue[c], secret[c]}
  PROVE  /\ PcHolds(c)' /\ session'[c].pc = "idle"
         /\ \A o \in Clients \ {c} : session'[o] = session[o]
<1>1. /\ session'[c].pc = "idle" /\ session'[c].token = 0
      /\ session'[c].name = session[c].name
  BY PcFacts DEF End, Idle
<1>2. TokensHold(c)'
  BY <1>1, PcFacts DEF PcHolds, TokensHold
<1>3. \A d \in DOMAIN devices : DeviceMeets(d, c)'
  BY <1>1, PcFacts DEF DeviceMeets, Named, Leaving
<1>4. \A o \in Clients \ {c} : session'[o] = session[o]
  BY PcFacts DEF End
<1>q. QED BY <1>1, <1>2, <1>3, <1>4 DEF PcHolds

LEMMA EndKept ==
  ASSUME AccountInv, QueueInv', NEW c \in Clients,
         \/ JoinQueue(c) \/ ConsentSave(c) \/ Refused(c) \/ Timeout(c) \/ GuardRaises(c)
         \/ Crash(c),
         ~(Timeout(c) /\ At(c, "leave"))
  PROVE  AccountInv'
<1>1. PICK left : End(c, session[c].name, left)
  BY DEF JoinQueue, ConsentSave, Refused, Timeout, GuardRaises, Crash, Stop
<1>2. UNCHANGED <<secret, hub, joins>>
  BY DEF JoinQueue, ConsentSave, Refused, Timeout, GuardRaises, Crash, disk
<1>3. queue' = queue \/ queue' = [queue EXCEPT ![c] = secret[c]]
  BY DEF JoinQueue, ConsentSave, Refused, Timeout, GuardRaises, Crash, disk
<1>4. queue'[c] \in {queue[c], secret[c]} /\ \A o \in Clients \ {c} : queue'[o] = queue[o]
  BY <1>3, PcFacts
<1>5. PcHolds(c)' /\ session'[c].pc = "idle" /\ OnlyPc(c)
  BY <1>1, <1>2, <1>4, StopKept DEF OnlyPc, hub
<1>6. \A r \in requests : r.op = "enroll" => secret[c] # r.token
  BY PcFacts DEF Meets
<1>7. CASE Timeout(c) \/ Crash(c)
  <2>1. requests' = Unawait(c)
    BY <1>7 DEF Timeout, Crash
  <2>q. QED BY <1>2, <1>5, <1>6, <2>1, UnawaitKept DEF Leaving
<1>8. CASE JoinQueue(c) \/ ConsentSave(c) \/ Refused(c) \/ GuardRaises(c)
  <2>1. requests' = requests
    BY <1>8 DEF JoinQueue, ConsentSave, Refused, GuardRaises
  <2>2. session[c].answer # "none" \/ session[c].pc = "joinQueue"
    BY <1>8 DEF JoinQueue, ConsentSave, Refused, GuardRaises, At
  <2>3. \A r \in requests : ~(r.awaited /\ r.from = c)
    BY <2>2, NotAwaited
  <2>4. \A r \in requests : Meets(r, c)'
    BY <1>2, <1>5, <1>6, <2>3 DEF Meets, Leaving
  <2>q. QED BY <1>2, <1>5, <2>1, <2>4, PcStepKept
<1>q. QED BY <1>7, <1>8

LEMMA JoinStepKept ==
  ASSUME AccountInv, QueueInv', NEW c \in Clients,
         JoinSaveSecret(c) \/ JoinSaveConfig(c) \/ Enqueue(c)
  PROVE  AccountInv'
<1>1. UNCHANGED <<hub, members, devices, requests, joins>>
  BY DEF JoinSaveSecret, JoinSaveConfig, Enqueue, hub
<1>2. CASE JoinSaveSecret(c)
  <2>1. /\ session[c].pc = "join" /\ session[c].answer = "ok"
        /\ session'[c].pc = "joinConfig" /\ session'[c].token = session[c].token
        /\ session'[c].name = session[c].name /\ secret'[c] = session[c].token
    BY <1>2, PcFacts DEF JoinSaveSecret, At, Goto, Session
  <2>2. OnlyPc(c) /\ queue'[c] = queue[c]
    BY <1>2, PcFacts DEF JoinSaveSecret, Goto, OnlyPc
  <2>3. TokensHold(c)'
    BY <1>1, <2>1, <2>2, PcFacts DEF PcHolds, TokensHold
  <2>4. \A d \in DOMAIN devices : DeviceMeets(d, c)'
    BY <1>1, <2>1, PcFacts DEF DeviceMeets, Named, Leaving
  <2>5. \A r \in requests : Meets(r, c)'
    BY <2>1, PcFacts DEF Meets, Leaving
  <2>q. QED BY <1>1, <2>2, <2>3, <2>4, <2>5, PcStepKept DEF PcHolds
<1>3. CASE JoinSaveConfig(c)
  <2>1. /\ session[c].pc = "joinConfig"
        /\ session'[c].pc = "joinQueue" /\ session'[c].token = session[c].token
        /\ session'[c].name = session[c].name /\ secret' = secret
    BY <1>3, PcFacts DEF JoinSaveConfig, At, Goto, Session
  <2>2. OnlyPc(c) /\ queue'[c] = queue[c]
    BY <1>3, PcFacts DEF JoinSaveConfig, Goto, OnlyPc
  <2>3. TokensHold(c)'
    BY <1>1, <2>1, <2>2, PcFacts DEF PcHolds, TokensHold
  <2>4. \A d \in DOMAIN devices : DeviceMeets(d, c)'
    BY <1>1, <2>1, PcFacts DEF DeviceMeets, Named, Leaving
  <2>5. \A r \in requests : Meets(r, c)'
    BY <2>1, PcFacts, NotAwaited DEF Meets, Leaving
  <2>q. QED BY <1>1, <2>2, <2>3, <2>4, <2>5, PcStepKept DEF PcHolds
<1>4. CASE Enqueue(c)
  <2>1. secret' = secret /\ session' = session /\ queue'[c] = secret[c]
    BY <1>4, PcFacts DEF Enqueue
  <2>2. OnlyPc(c)
    BY <1>4, PcFacts DEF Enqueue, OnlyPc
  <2>3. TokensHold(c)'
    BY <1>1, <2>1, PcFacts DEF PcHolds, TokensHold
  <2>4. \A d \in DOMAIN devices : DeviceMeets(d, c)'
    BY <1>1, <2>1, PcFacts DEF DeviceMeets, Named
  <2>5. \A r \in requests : Meets(r, c)'
    BY <2>1, PcFacts DEF Meets
  <2>q. QED BY <1>1, <2>2, <2>3, <2>4, <2>5, PcStepKept DEF PcHolds
<1>q. QED BY <1>2, <1>3, <1>4

LEMMA LeaveStepKept ==
  ASSUME AccountInv, QueueInv', NEW c \in Clients,
         \/ (LeaveSend(c) /\ ~Paired(c)) \/ LeaveAnswered(c) \/ LeaveErase(c) \/ LeaveCommit(c)
  PROVE  AccountInv'
<1>1. UNCHANGED <<hub, members, devices, requests, joins>>
  BY DEF LeaveSend, LeaveAnswered, LeaveErase, LeaveCommit, hub
<1>2. CASE LeaveSend(c) /\ ~Paired(c)
  <2>1. /\ session[c].pc = "idle"
        /\ session'[c].pc = "erase" /\ session'[c].token = secret[c]
        /\ session'[c].answer = "none" /\ session'[c].name = session[c].name
        /\ secret' = secret /\ queue' = queue
    BY <1>2, PcFacts DEF LeaveSend, At, Session, disk
  <2>2. OnlyPc(c)
    BY <1>2, <2>1, PcFacts DEF LeaveSend, OnlyPc
  <2>3. TokensHold(c)'
    BY <1>1, <2>1, PcFacts DEF PcHolds, TokensHold
  <2>4. \A d \in DOMAIN devices : DeviceMeets(d, c)'
    BY <1>1, <2>1, PcFacts DEF DeviceMeets, Named, Leaving
  <2>5. \A r \in requests : Meets(r, c)'
    BY <2>1, PcFacts, NotAwaited DEF Meets, Leaving
  <2>q. QED BY <1>1, <2>2, <2>3, <2>4, <2>5, PcStepKept DEF PcHolds
<1>3. CASE LeaveAnswered(c)
  <2>1. /\ session[c].pc = "leave" /\ session[c].answer # "none"
        /\ session'[c].pc = "erase" /\ session'[c].token = session[c].token
        /\ session'[c].answer = session[c].answer /\ session'[c].name = session[c].name
        /\ secret' = secret /\ queue' = queue
    BY <1>3, PcFacts DEF LeaveAnswered, At, Goto, Session, disk
  <2>2. OnlyPc(c)
    BY <1>3, <2>1, PcFacts DEF LeaveAnswered, Goto, OnlyPc
  <2>3. TokensHold(c)'
    BY <1>1, <2>1, PcFacts DEF PcHolds, TokensHold
  <2>4. \A d \in DOMAIN devices : DeviceMeets(d, c)'
    BY <1>1, <2>1, PcFacts DEF DeviceMeets, Named, Leaving
  <2>5. \A r \in requests : Meets(r, c)'
    BY <2>1, PcFacts, NotAwaited DEF Meets, Leaving
  <2>q. QED BY <1>1, <2>2, <2>3, <2>4, <2>5, PcStepKept DEF PcHolds
<1>4. CASE LeaveErase(c)
  <2>1. /\ session[c].pc = "erase"
        /\ session'[c].pc = "commit" /\ session'[c].token = session[c].token
        /\ session'[c].answer = session[c].answer /\ session'[c].name = session[c].name
        /\ secret'[c] = 0 /\ queue' = queue
    BY <1>4, PcFacts DEF LeaveErase, At, Goto, Session
  <2>2. OnlyPc(c)
    BY <1>4, <2>1, PcFacts DEF LeaveErase, Goto, OnlyPc
  <2>3. TokensHold(c)'
    BY <1>1, <2>1, PcFacts DEF PcHolds, TokensHold
  <2>4. \A d \in DOMAIN devices : DeviceMeets(d, c)'
    BY <1>1, <2>1, PcFacts DEF DeviceMeets, Named, Leaving
  <2>5. \A r \in requests : Meets(r, c)'
    BY <2>1, PcFacts, NotAwaited DEF Meets, Leaving
  <2>q. QED BY <1>1, <2>2, <2>3, <2>4, <2>5, PcStepKept DEF PcHolds
<1>5. CASE LeaveCommit(c)
  <2>1. /\ session[c].pc = "commit" /\ session'[c].pc = "idle" /\ session'[c].token = 0
        /\ secret' = secret /\ secret[c] = 0 /\ queue'[c] = 0
    BY <1>5, PcFacts DEF LeaveCommit, At, End, Idle, PcHolds, TokensHold
  <2>2. OnlyPc(c)
    BY <1>5, <2>1, PcFacts DEF LeaveCommit, End, OnlyPc
  <2>3. TokensHold(c)'
    BY <1>1, <2>1, PcFacts DEF PcHolds, TokensHold
  <2>4. \A d \in DOMAIN devices : DeviceMeets(d, c)'
    BY <1>1, <2>1, PcFacts DEF DeviceMeets, Leaving
  <2>5. \A r \in requests : Meets(r, c)'
    BY <2>1, PcFacts, NotAwaited DEF Meets, Leaving
  <2>q. QED BY <1>1, <2>2, <2>3, <2>4, <2>5, PcStepKept DEF PcHolds
<1>q. QED BY <1>2, <1>3, <1>4, <1>5

\* A leave that hears nothing goes on as if it had been refused.
LEMMA LeaveTimeoutKept ==
  ASSUME AccountInv, QueueInv', NEW c \in Clients, Timeout(c), At(c, "leave")
  PROVE  AccountInv'
<1>1. /\ session[c].pc = "leave" /\ session'[c].pc = "leave"
      /\ session'[c].token = session[c].token /\ session'[c].answer = "no"
      /\ session'[c].name = session[c].name
      /\ UNCHANGED <<secret, queue, hub, members, devices, joins>> /\ requests' = Unawait(c)
  BY PcFacts DEF Timeout, At, Session, disk, hub
<1>2. OnlyPc(c)
  BY <1>1, PcFacts DEF Timeout, OnlyPc
<1>3. TokensHold(c)'
  BY <1>1, PcFacts DEF PcHolds, TokensHold
<1>4. \A d \in DOMAIN devices : DeviceMeets(d, c)'
  BY <1>1, PcFacts DEF DeviceMeets, Named, Leaving
<1>5. \A r \in requests : r.op = "enroll" =>
        /\ secret'[c] # r.token /\ session'[c].pc # "join"
        /\ session'[c].pc \in Leaving => session'[c].token # r.token
  BY <1>1, PcFacts DEF Meets, Leaving
<1>q. QED BY <1>1, <1>2, <1>3, <1>4, <1>5, UnawaitKept DEF PcHolds

LEMMA ClientStepKeepsAccounts ==
  ASSUME AccountInv, QueueInv', NEW c \in Clients, ClientStep(c)
  PROVE  AccountInv'
BY JoinSendKept, SendOwnKept, EndKept, JoinStepKept, LeaveStepKept, LeaveTimeoutKept DEF ClientStep

-----------------------------------------------------------------------------
(* The steps of the hub.                                                     *)

LEMMA Refusal ==
  ASSUME AccountInv, QueueInv', NEW r \in requests, Reply(r, "no"), UNCHANGED <<disk, hub, joins>>
  PROVE  AccountInv'
<1>1. joins \in Nat
  BY DEF AccountInv, QueueInv, PcTypes
<1>2. TablesHold' /\ Steady
  BY <1>1, TablesKeptByPc DEF Steady, hub
<1>q. QED BY <1>2, ReplyKept

LEMMA EnrollReadKept ==
  ASSUME AccountInv, QueueInv', NEW r \in requests, EnrollRead(r) \/ EnrollTarget(r)
  PROVE  AccountInv'
<1>0. r \in Served /\ DataHolds(r) /\ r.op = "enroll" /\ UNCHANGED <<disk, hub, joins>>
  BY DEF AccountInv, RequestsHold, RequestHolds, EnrollRead, EnrollTarget
<1>1. CASE Reply(r, "no")
  BY <1>0, <1>1, Refusal
<1>2. CASE EnrollRead(r) /\ ~Reply(r, "no")
  <2>1. PICK m \in Nat, ph \in {"create", "target"} :
          /\ Open(r.invite) /\ m = invites[r.invite].target
          /\ Read(r, [r EXCEPT !.member = m, !.phase = ph])
    <3> DEFINE m == invites[r.invite].target
               ph == IF invites[r.invite].target = 0 THEN "create" ELSE "target"
    <3>1. Open(r.invite) /\ Read(r, [r EXCEPT !.member = m, !.phase = ph])
      BY <1>2 DEF EnrollRead
    <3>2. ph \in {"create", "target"}
      OBVIOUS
    <3>3. m \in Nat
      BY <3>1 DEF Open, AccountInv, TablesHold, InvitesHold, MembersHold, Numbered
    <3> HIDE DEF m, ph
    <3>4. Open(r.invite) /\ m = invites[r.invite].target
      BY <3>1 DEF m
    <3>q. QED BY <3>1, <3>2, <3>3, <3>4
  <2>2. PICK next : next = [r EXCEPT !.member = m, !.phase = ph]
    OBVIOUS
  <2>3. /\ next \in Served /\ next.op = r.op /\ next.from = r.from /\ next.awaited = r.awaited
        /\ next.token = r.token /\ next.name = r.name /\ next.phase = ph
    BY <1>0, <2>2 DEF Served
  <2>4. DataHolds(next)
    BY <1>0, <2>3 DEF DataHolds, EnrollHolds, ConsentHolds, RevokeHolds
  <2>q. QED BY <1>0, <2>1, <2>2, <2>3, <2>4, ReadKept
<1>3. CASE EnrollTarget(r) /\ ~Reply(r, "no")
  <2>1. PICK l : /\ r.member \in DOMAIN members /\ members[r.member].name = r.name
                 /\ l = members[r.member].policy
                 /\ Read(r, [r EXCEPT !.phase = "claim", !.loaded = l])
    BY <1>3 DEF EnrollTarget
  <2>2. l \in Policies
    BY <2>1 DEF AccountInv, TablesHold, MembersHold, MemberRow
  <2>3. PICK next : next = [r EXCEPT !.phase = "claim", !.loaded = l]
    OBVIOUS
  <2>4. /\ next \in Served /\ next.op = r.op /\ next.from = r.from /\ next.awaited = r.awaited
        /\ next.token = r.token /\ next.name = r.name /\ next.member = r.member
    BY <1>0, <2>2, <2>3 DEF Served
  <2>5. DataHolds(next)
    BY <1>0, <2>1, <2>4 DEF DataHolds, EnrollHolds, ConsentHolds, RevokeHolds
  <2>q. QED BY <1>0, <2>1, <2>3, <2>4, <2>5, ReadKept
<1>q. QED BY <1>1, <1>2, <1>3

\* The device found is the one that has the token.
LEMMA AuthenticateKept ==
  ASSUME AccountInv, QueueInv', NEW r \in requests, Authenticate(r)
  PROVE  AccountInv'
<1>0. r \in Served /\ DataHolds(r) /\ r.op # "enroll" /\ UNCHANGED <<disk, hub, joins>>
  BY DEF AccountInv, RequestsHold, RequestHolds, Authenticate
<1>1. CASE Reply(r, "no")
  BY <1>0, <1>1, Refusal
<1>2. CASE ~Reply(r, "no")
  <2>1. PICK d, m, l : /\ d \in DevicesOf(r.token) /\ m = devices[d].member /\ l = members[m].policy
                       /\ Read(r, [r EXCEPT !.phase = "write", !.device = d, !.member = m,
                                            !.loaded = l])
    BY <1>2 DEF Authenticate
  <2>2. d \in DOMAIN devices /\ devices[d].token = r.token
    BY <2>1 DEF DevicesOf
  <2>3. d \in Nat /\ m \in DOMAIN members /\ m \in Nat /\ l \in Policies
    <3>1. d \in Nat /\ m \in DOMAIN members
      BY <2>1, <2>2 DEF AccountInv, TablesHold, DevicesHold, Numbered
    <3>q. QED BY <2>1, <3>1 DEF AccountInv, TablesHold, MembersHold, MemberRow, Numbered
  <2>4. PICK next : next = [r EXCEPT !.phase = "write", !.device = d, !.member = m, !.loaded = l]
    OBVIOUS
  <2>5. /\ next \in Served /\ next.op = r.op /\ next.from = r.from /\ next.awaited = r.awaited
        /\ next.token = r.token /\ next.name = r.name /\ next.policy = r.policy
        /\ next.device = d /\ next.member = m
    BY <1>0, <2>3, <2>4 DEF Served
  <2>6. \A x \in DOMAIN devices : devices[x].token = r.token => x = d
    BY <2>2 DEF AccountInv, TablesHold, DevicesHold
  <2>7. DataHolds(next)
    BY <1>0, <2>1, <2>2, <2>5, <2>6 DEF DataHolds, EnrollHolds, ConsentHolds, RevokeHolds
  <2>q. QED BY <1>0, <2>1, <2>4, <2>5, <2>7, ReadKept
<1>q. QED BY <1>1, <1>2

\* An UPDATE of a member's policy renames nobody.
LEMMA UpdateKept ==
  ASSUME AccountInv, NEW r \in requests, r.member \in DOMAIN members, members' = Updated(r)
  PROVE  /\ DOMAIN members' = DOMAIN members /\ MembersHold'
         /\ \A row \in DOMAIN members : members'[row].name = members[row].name
<1>1. r \in Served /\ MembersHold
  BY DEF AccountInv, TablesHold, RequestsHold, RequestHolds
<1> DEFINE m == r.member
           v == [members[m] EXCEPT !.policy = IF r.policy = r.loaded THEN members[m].policy
                                              ELSE r.policy]
<1>2. members[m] \in MemberRow
  BY <1>1 DEF MembersHold
<1>3. v \in MemberRow /\ v.name = members[m].name /\ v.owner = members[m].owner
  BY <1>1, <1>2 DEF MemberRow, Served
<1>4. members' = [members EXCEPT ![m] = v]
  BY DEF Updated
<1> HIDE DEF v
<1>5. /\ DOMAIN members' = DOMAIN members
      /\ \A row \in DOMAIN members : /\ members'[row] \in MemberRow
                                     /\ members'[row].name = members[row].name
                                     /\ members'[row].owner = members[row].owner
  BY <1>1, <1>3, <1>4 DEF MembersHold
<1>6. members' = [row \in DOMAIN members |-> members'[row]]
  BY <1>1, <1>4 DEF MembersHold
<1>q. QED BY <1>1, <1>5, <1>6 DEF MembersHold, Numbered

LEMMA ConsentWriteKept ==
  ASSUME AccountInv, QueueInv', NEW r \in requests, ConsentWrite(r)
  PROVE  AccountInv'
<1>1. r.op = "consent" /\ UNCHANGED <<disk, invites, devices, joins>>
  BY DEF ConsentWrite
<1>2. CASE r.member \in DOMAIN members
  <2>1. members' = Updated(r) /\ Reply(r, "ok")
    BY <1>2 DEF ConsentWrite
  <2>2. /\ DOMAIN members' = DOMAIN members /\ MembersHold'
        /\ \A row \in DOMAIN members : members'[row].name = members[row].name
    BY <1>2, <2>1, UpdateKept
  <2>3. TablesHold' /\ Steady
    BY <1>1, <2>2 DEF AccountInv, TablesHold, DevicesHold, InvitesHold, InviteInv, Steady
  <2>q. QED BY <1>1, <2>1, <2>3, ReplyKept
<1>3. CASE r.member \notin DOMAIN members
  BY <1>1, <1>3, Refusal DEF ConsentWrite, hub
<1>q. QED BY <1>2, <1>3

\* A revocation, of the device or by the host.
LEMMA RevokedKept ==
  ASSUME AccountInv, NEW d \in DOMAIN devices, devices' = [devices EXCEPT ![d].revoked = TRUE],
         UNCHANGED <<members, invites, joins>>
  PROVE  TablesHold' /\ Steady /\ devices'[d].revoked
<1>1. DevicesHold /\ devices[d] \in DeviceRow
  BY DEF AccountInv, TablesHold, DevicesHold
<1> DEFINE v == [devices[d] EXCEPT !.revoked = TRUE]
<1>2. /\ v \in DeviceRow /\ v.token = devices[d].token /\ v.member = devices[d].member
      /\ v.disturbed = devices[d].disturbed /\ v.revoked
  BY <1>1 DEF DeviceRow
<1>3. devices' = [devices EXCEPT ![d] = v]
  OBVIOUS
<1> HIDE DEF v
<1>4. /\ DOMAIN devices' = DOMAIN devices /\ devices'[d].revoked
      /\ \A x \in DOMAIN devices :
           /\ devices'[x] \in DeviceRow
           /\ devices'[x].token = devices[x].token /\ devices'[x].member = devices[x].member
           /\ devices'[x].disturbed = devices[x].disturbed
           /\ devices[x].revoked => devices'[x].revoked
  BY <1>1, <1>2, <1>3 DEF DevicesHold
<1>5. devices' = [x \in DOMAIN devices |-> devices'[x]]
  BY <1>1, <1>3 DEF DevicesHold
<1>6. DevicesHold'
  <2>1. devices' \in [DOMAIN devices' -> DeviceRow] /\ Numbered(devices)'
    BY <1>1, <1>4, <1>5 DEF DevicesHold, Numbered
  <2>2. \A x \in DOMAIN devices' : /\ devices'[x].token <= joins'
                                   /\ devices'[x].member \in DOMAIN members'
    BY <1>1, <1>4 DEF DevicesHold
  <2>3. \A x, o \in DOMAIN devices' : devices'[x].token = devices'[o].token => x = o
    BY <1>1, <1>4 DEF DevicesHold
  <2>q. QED BY <2>1, <2>2, <2>3 DEF DevicesHold
<1>q. QED BY <1>4, <1>6 DEF AccountInv, TablesHold, MembersHold, InvitesHold, InviteInv, Steady

LEMMA RevokeWriteKept ==
  ASSUME AccountInv, QueueInv', NEW r \in requests, RevokeWrite(r)
  PROVE  AccountInv'
<1>1. /\ r.op = "revoke" /\ r.phase = "write" /\ UNCHANGED <<disk, members, invites, joins>>
      /\ RevokeHolds(r)
  BY DEF RevokeWrite, AccountInv, RequestsHold, RequestHolds, DataHolds
<1>2. CASE r.device \in DOMAIN devices
  <2>1. devices' = [devices EXCEPT ![r.device].revoked = TRUE] /\ Reply(r, "ok")
    BY <1>2 DEF RevokeWrite
  <2>2. TablesHold' /\ Steady /\ devices'[r.device].revoked
    BY <1>1, <1>2, <2>1, RevokedKept
  <2>3. \A d \in DOMAIN devices : devices[d].token = r.token => devices'[d].revoked
    BY <1>1, <2>2 DEF RevokeHolds
  <2>q. QED BY <1>1, <2>1, <2>2, <2>3, ReplyKept
<1>3. CASE r.device \notin DOMAIN devices
  BY <1>1, <1>3, Refusal DEF RevokeWrite, hub
<1>q. QED BY <1>2, <1>3

\* The device of an enrolment has a token of its own, and a PC that waits for the answer.
LEMMA EnrolledKept ==
  ASSUME AccountInv, QueueInv', MembersHold', InviteInv', NEW r \in requests, r.op = "enroll",
         Open(r.invite), NEW row, Enrolled(r, row), UNCHANGED <<disk, joins>>,
         row \in DOMAIN members', members'[row].name = r.name \/ r.disturbed,
         DOMAIN members \subseteq DOMAIN members',
         \A m \in DOMAIN members : members'[m].name = members[m].name
  PROVE  AccountInv'
<1> DEFINE dev == [token |-> r.token, member |-> row, revoked |-> FALSE, disturbed |-> r.disturbed]
<1>0. PICK new : new = NewRow(devices)
  OBVIOUS
<1>1. /\ r \in Served /\ r.token \in Nat \ {0} /\ r.token <= joins
      /\ \A d \in DOMAIN devices : devices[d].token # r.token
  BY DEF AccountInv, RequestsHold, RequestHolds, DataHolds, EnrollHolds, Served
<1>2. DevicesHold /\ InvitesHold /\ row \in Nat
  BY DEF AccountInv, TablesHold, MembersHold, Numbered
<1>3. dev \in DeviceRow /\ dev.token = r.token /\ dev.member = row /\ dev.disturbed = r.disturbed
  BY <1>1, <1>2 DEF DeviceRow, Served
<1>4. devices' = With(devices, new, dev) /\ Reply(r, "ok")
      /\ invites' = [invites EXCEPT ![r.invite].uses = @ + 1]
  BY <1>0 DEF Enrolled
<1>5. new \notin DOMAIN devices /\ Numbered(devices)'
  BY <1>0, <1>2, <1>4, NewRowIsNew, NumberedWith DEF DevicesHold
<1> HIDE DEF dev
<1>6. /\ DOMAIN devices' = DOMAIN devices \cup {new} /\ devices'[new] = dev
      /\ \A d \in DOMAIN devices : devices'[d] = devices[d]
      /\ devices' = [d \in DOMAIN devices' |-> devices'[d]]
  BY <1>4, <1>5 DEF With
<1>7. DevicesHold'
  <2>1. devices' \in [DOMAIN devices' -> DeviceRow]
    BY <1>2, <1>3, <1>6 DEF DevicesHold
  <2>2. \A d \in DOMAIN devices' : /\ devices'[d].token <= joins'
                                   /\ devices'[d].member \in DOMAIN members'
    BY <1>1, <1>2, <1>3, <1>6 DEF DevicesHold
  <2>3. \A d, o \in DOMAIN devices' : devices'[d].token = devices'[o].token => d = o
    BY <1>1, <1>2, <1>3, <1>6 DEF DevicesHold
  <2>q. QED BY <1>5, <2>1, <2>2, <2>3 DEF DevicesHold
<1>8. InvitesHold'
  <2>1. DOMAIN invites' = DOMAIN invites
    BY <1>4
  <2>2. ASSUME NEW i \in DOMAIN invites PROVE invites'[i].target = invites[i].target
    <3>1. IsInvite(invites[i])
      BY <1>2 DEF InvitesHold, InviteInv
    <3>2. [invites[i] EXCEPT !.uses = invites[i].uses + 1].target = invites[i].target
      BY <3>1 DEF IsInvite
    <3>3. invites'[i] = invites[i] \/ invites'[i] = [invites[i] EXCEPT !.uses = invites[i].uses + 1]
      BY <1>4
    <3>q. QED BY <3>2, <3>3
  <2>q. QED BY <1>2, <2>1, <2>2 DEF InvitesHold, Numbered
<1>9. ASSUME NEW q \in requests \ {r} PROVE RequestHolds(q)'
  <2>1. RequestHolds(q) /\ Apart(r, q)
    BY DEF AccountInv, RequestsHold
  <2>2. EnrollHolds(q)'
    BY <1>3, <1>6, <2>1 DEF RequestHolds, DataHolds, EnrollHolds, Apart
  <2>3. ConsentHolds(q)'
    BY <1>6, <2>1 DEF RequestHolds, DataHolds, ConsentHolds
  <2>4. RevokeHolds(q)'
    BY <1>3, <1>6, <2>1 DEF RequestHolds, DataHolds, RevokeHolds, Apart
  <2>5. \A c \in Clients : Meets(q, c)'
    BY <1>4, OtherRequestsMeet
  <2>q. QED BY <2>1, <2>2, <2>3, <2>4, <2>5 DEF RequestHolds, DataHolds
<1>10. ASSUME NEW c \in Clients PROVE PcHolds(c)'
  <2>1. TokensHold(c) /\ Meets(r, c) /\ UNCHANGED <<secret[c], queue[c], joins>>
    BY PcFacts DEF PcHolds, disk
  <2>2. TokensHold(c)'
    BY <1>4, <2>1, AnswerOnly DEF TokensHold
  <2>3. ASSUME NEW d \in DOMAIN devices PROVE DeviceMeets(d, c)'
    <3>1. DeviceMeets(d, c) /\ devices'[d] = devices[d]
      BY <1>6, PcFacts
    <3>2. Named(d, c) => Named(d, c)'
      <4>1. devices[d].member \in DOMAIN members
        BY <1>2 DEF DevicesHold
      <4>q. QED BY <1>4, <3>1, <4>1, AnswerOnly DEF Named
    <3>3. CASE r.awaited /\ r.from = c
      <4>1. session[c].answer = "none" /\ session[c].pc = "join"
        BY <2>1, <3>3 DEF Meets, Waits
      <4>q. QED BY <1>4, <2>1, <3>1, <3>2, <4>1, AnswerOnly DEF DeviceMeets, Leaving
    <3>4. CASE ~(r.awaited /\ r.from = c)
      BY <1>4, <2>1, <3>1, <3>2, <3>4, AnswerOnly DEF DeviceMeets
    <3>q. QED BY <3>3, <3>4
  <2>4. DeviceMeets(new, c)'
    <3>1. session[c].pc = "join" /\ session[c].token = r.token => Named(new, c)'
      BY <1>3, <1>4, <1>6, <2>1, AnswerOnly DEF Meets, Named
    <3>q. QED BY <1>3, <1>4, <1>6, <2>1, <3>1, AnswerOnly DEF DeviceMeets, Meets
  <2>q. QED BY <1>6, <2>2, <2>3, <2>4 DEF PcHolds
<1>11. requests' = requests \ {r}
  BY <1>4 DEF Reply
<1>q. QED BY <1>4, <1>7, <1>8, <1>9, <1>10, <1>11, OthersApart
          DEF AccountInv, TablesHold, RequestsHold

\* A new member has a number and a name of its own.
LEMMA MemberAdded ==
  ASSUME MembersHold, NEW name \in Names \cup {Host}, NEW policy \in Policies,
         \A row \in DOMAIN members : members[row].name # name,
         members' = With(members, NewRow(members), Row(name, policy))
  PROVE  /\ MembersHold' /\ DOMAIN members' = DOMAIN members \cup {NewRow(members)}
         /\ NewRow(members) \notin DOMAIN members /\ members'[NewRow(members)].name = name
         /\ \A row \in DOMAIN members : members'[row] = members[row]
<1> DEFINE v == Row(name, policy)
<1>0. PICK new : new = NewRow(members)
  OBVIOUS
<1>1. v \in MemberRow /\ v.name = name /\ (v.owner <=> v.name = Host)
  BY DEF Row, MemberRow
<1>2. new \notin DOMAIN members /\ Numbered(members)'
  BY <1>0, NewRowIsNew, NumberedWith DEF MembersHold
<1> HIDE DEF v
<1>3. /\ DOMAIN members' = DOMAIN members \cup {new} /\ members'[new] = v
      /\ \A row \in DOMAIN members : members'[row] = members[row]
      /\ members' = [row \in DOMAIN members' |-> members'[row]]
  BY <1>0, <1>2 DEF With, v
<1>4. members' \in [DOMAIN members' -> MemberRow]
  BY <1>1, <1>3 DEF MembersHold
<1>5. \A row \in DOMAIN members' : members'[row].owner <=> members'[row].name = Host
  BY <1>1, <1>3 DEF MembersHold
<1>6. \A row, other \in DOMAIN members' : members'[row].name = members'[other].name => row = other
  BY <1>1, <1>3 DEF MembersHold
<1>q. QED BY <1>0, <1>1, <1>2, <1>3, <1>4, <1>5, <1>6 DEF MembersHold

LEMMA EnrollWriteKept ==
  ASSUME AccountInv, QueueInv', InviteInv', NEW r \in requests, EnrollCreate(r) \/ EnrollClaim(r)
  PROVE  AccountInv'
<1>0. /\ r \in Served /\ DataHolds(r) /\ r.op = "enroll" /\ UNCHANGED <<disk, joins>>
      /\ MembersHold
  BY DEF AccountInv, TablesHold, RequestsHold, RequestHolds, EnrollCreate, EnrollClaim
<1>1. CASE Reply(r, "no") /\ UNCHANGED hub
  BY <1>0, <1>1, Refusal
<1>2. CASE EnrollCreate(r) /\ ~(Reply(r, "no") /\ UNCHANGED hub)
  <2>1. PICK new : new = NewRow(members)
    OBVIOUS
  <2>2. /\ Open(r.invite) /\ \A row \in DOMAIN members : members[row].name # r.name
        /\ members' = With(members, new, Row(r.name, r.policy)) /\ Enrolled(r, new)
    BY <1>2, <2>1 DEF EnrollCreate
  <2>3. r.name \in Names \cup {Host} /\ r.policy \in Policies
    BY <1>0 DEF Served
  <2>4. /\ MembersHold' /\ DOMAIN members' = DOMAIN members \cup {new}
        /\ members'[new].name = r.name
        /\ \A row \in DOMAIN members : members'[row] = members[row]
    BY <1>0, <2>1, <2>2, <2>3, MemberAdded
  <2>q. QED BY <1>0, <2>2, <2>4, EnrolledKept
<1>3. CASE EnrollClaim(r) /\ ~(Reply(r, "no") /\ UNCHANGED hub)
  <2>1. /\ Open(r.invite) /\ r.member \in DOMAIN members /\ r.phase = "claim"
        /\ members' = Updated(r) /\ Enrolled(r, r.member)
    BY <1>3 DEF EnrollClaim
  <2>2. /\ DOMAIN members' = DOMAIN members /\ MembersHold'
        /\ \A row \in DOMAIN members : members'[row].name = members[row].name
    BY <2>1, UpdateKept
  <2>3. members'[r.member].name = r.name \/ r.disturbed
    BY <1>0, <2>1, <2>2 DEF DataHolds, EnrollHolds
  <2>q. QED BY <1>0, <2>1, <2>2, <2>3, EnrolledKept
<1>q. QED BY <1>1, <1>2, <1>3

LEMMA HubStepKeepsAccounts ==
  ASSUME AccountInv, QueueInv', InviteInv', NEW r \in requests, HubStep(r)
  PROVE  AccountInv'
<1>1. CASE HubRefuse(r)
  BY <1>1, Refusal DEF HubRefuse
<1>q. QED BY <1>1, EnrollReadKept, EnrollWriteKept, AuthenticateKept, ConsentWriteKept,
             RevokeWriteKept DEF HubStep

-----------------------------------------------------------------------------
(* The host's commands.                                                      *)

LEMMA SteadyKept ==
  ASSUME AccountInv, QueueInv', TablesHold', Steady, UNCHANGED <<disk, session, requests, joins>>
  PROVE  AccountInv'
<1>1. \A r \in requests' : RequestHolds(r)'
  BY DataKept DEF AccountInv, RequestsHold, RequestHolds, Meets, disk
<1>2. ASSUME NEW c \in Clients PROVE PcHolds(c)'
  <2>1. PcHolds(c) /\ UNCHANGED <<secret, queue, session, joins>>
    BY DEF AccountInv, disk
  <2>2. TokensHold(c)'
    BY <2>1 DEF PcHolds, TokensHold
  <2>3. ASSUME NEW d \in DOMAIN devices PROVE DeviceMeets(d, c)'
    <3>1. Named(d, c) => Named(d, c)'
      BY <2>1 DEF Steady, Named, AccountInv, TablesHold, DevicesHold
    <3>q. QED BY <2>1, <3>1 DEF PcHolds, DeviceMeets, Steady
  <2>q. QED BY <2>2, <2>3 DEF PcHolds, Steady
<1>3. \A r, o \in requests' : Apart(r, o)
  BY DEF AccountInv, RequestsHold
<1>q. QED BY <1>1, <1>2, <1>3 DEF AccountInv, RequestsHold, Apart

LEMMA BootstrapOwnerKept ==
  ASSUME AccountInv, QueueInv', BootstrapOwner
  PROVE  AccountInv'
<1>1. /\ UNCHANGED <<disk, session, invites, devices, requests, joins>>
      /\ members' = With(members, NewRow(members), Row(Host, "2"))
  BY DEF BootstrapOwner
<1>2. \A row \in DOMAIN members : members[row].name # Host
  BY DEF BootstrapOwner, AccountInv, TablesHold, MembersHold
<1>3. "2" \in Policies /\ MembersHold
  BY DEF Policies, AccountInv, TablesHold
<1>4. /\ MembersHold' /\ DOMAIN members \subseteq DOMAIN members'
      /\ \A row \in DOMAIN members : members'[row] = members[row]
  BY <1>1, <1>2, <1>3, MemberAdded
<1>5. TablesHold' /\ Steady
  BY <1>1, <1>4 DEF AccountInv, TablesHold, DevicesHold, InvitesHold, InviteInv, Steady
<1>q. QED BY <1>1, <1>5, SteadyKept

LEMMA CreateInviteKept ==
  ASSUME AccountInv, QueueInv', InviteInv', NEW target \in DOMAIN members \cup {0},
         CreateInvite(target)
  PROVE  AccountInv'
<1> DEFINE v == [target |-> target, uses |-> 0, revoked |-> FALSE]
<1>1. /\ UNCHANGED <<disk, session, members, devices, requests, joins>>
      /\ invites' = With(invites, NewRow(invites), v)
  BY DEF CreateInvite
<1>2. Numbered(invites)'
  BY <1>1, NumberedWith DEF AccountInv, TablesHold, InvitesHold
<1>3. \A i \in DOMAIN invites' :
        invites'[i].target = target \/ (i \in DOMAIN invites /\ invites'[i] = invites[i])
  BY <1>1 DEF With
<1>4. InvitesHold'
  BY <1>1, <1>2, <1>3 DEF AccountInv, TablesHold, InvitesHold
<1>5. TablesHold' /\ Steady
  BY <1>1, <1>4 DEF AccountInv, TablesHold, MembersHold, DevicesHold, Steady
<1>q. QED BY <1>1, <1>5, SteadyKept

LEMMA RevokeKept ==
  ASSUME AccountInv, QueueInv', InviteInv', Revoke
  PROVE  AccountInv'
<1>0. UNCHANGED <<disk, session, requests, joins>>
  BY DEF Revoke
<1>1. CASE /\ \E row \in DOMAIN invites : invites' = [invites EXCEPT ![row].revoked = TRUE]
           /\ UNCHANGED <<members, devices>>
  <2>1. PICK row \in DOMAIN invites : invites' = [invites EXCEPT ![row].revoked = TRUE]
    BY <1>1
  <2>2. IsInvite(invites[row])
    BY DEF AccountInv, TablesHold, InvitesHold, InviteInv
  <2>3. /\ DOMAIN invites' = DOMAIN invites
        /\ invites'[row].target = invites[row].target
        /\ \A i \in DOMAIN invites \ {row} : invites'[i] = invites[i]
    BY <2>1, <2>2 DEF IsInvite
  <2>4. InvitesHold'
    BY <1>1, <2>3 DEF AccountInv, TablesHold, InvitesHold, Numbered
  <2>5. TablesHold' /\ Steady
    BY <1>0, <1>1, <2>4 DEF AccountInv, TablesHold, MembersHold, DevicesHold, Steady
  <2>q. QED BY <1>0, <2>5, SteadyKept
<1>2. CASE /\ \E row \in DOMAIN devices : devices' = [devices EXCEPT ![row].revoked = TRUE]
           /\ UNCHANGED <<members, invites>>
  BY <1>0, <1>2, RevokedKept, SteadyKept
<1>3. CASE /\ \E row \in DOMAIN members : members' = [members EXCEPT ![row].disabled = TRUE]
           /\ UNCHANGED <<invites, devices>>
  <2>1. PICK row \in DOMAIN members : members' = [members EXCEPT ![row].disabled = TRUE]
    BY <1>3
  <2> DEFINE v == [members[row] EXCEPT !.disabled = TRUE]
  <2>2. MembersHold /\ members[row] \in MemberRow
    BY DEF AccountInv, TablesHold, MembersHold
  <2>3. v \in MemberRow /\ v.name = members[row].name /\ v.owner = members[row].owner
    BY <2>2 DEF MemberRow
  <2>4. members' = [members EXCEPT ![row] = v]
    BY <2>1
  <2> HIDE DEF v
  <2>5. /\ DOMAIN members' = DOMAIN members
        /\ \A m \in DOMAIN members : /\ members'[m] \in MemberRow
                                     /\ members'[m].name = members[m].name
                                     /\ members'[m].owner = members[m].owner
        /\ members' = [m \in DOMAIN members |-> members'[m]]
    BY <2>2, <2>3, <2>4 DEF MembersHold
  <2>6. MembersHold'
    BY <2>2, <2>5 DEF MembersHold, Numbered
  <2>7. TablesHold' /\ Steady
    BY <1>0, <1>3, <2>5, <2>6
       DEF AccountInv, TablesHold, DevicesHold, InvitesHold, InviteInv, Steady
  <2>q. QED BY <1>0, <2>7, SteadyKept
<1>q. QED BY <1>1, <1>2, <1>3 DEF Revoke

\* What is left refers to what is left; who has read anything is not to be trusted with it.
LEMMA DeleteMemberKept ==
  ASSUME AccountInv, QueueInv', InviteInv', NEW row \in DOMAIN members, DeleteMember(row)
  PROVE  AccountInv'
<1> DEFINE Marked(r) == [r EXCEPT !.disturbed = r.phase # "read"]
<1>1. /\ UNCHANGED <<disk, session, joins>> /\ requests' = {Marked(r) : r \in requests}
      /\ members' = [m \in DOMAIN members \ {row} |-> members[m]]
      /\ devices' = [d \in {x \in DOMAIN devices : devices[x].member # row} |-> devices[d]]
      /\ \A i \in DOMAIN invites' : /\ i \in DOMAIN invites /\ invites'[i] = invites[i]
                                    /\ invites[i].target # row
  <2>1. members' = [m \in {y \in DOMAIN members : y # row} |-> members[m]]
    BY DEF DeleteMember, Keep
  <2>2. {y \in DOMAIN members : y # row} = DOMAIN members \ {row}
    OBVIOUS
  <2>q. QED BY <2>1, <2>2 DEF DeleteMember, Keep
<1>2. MembersHold'
  <2>1. members' \in [DOMAIN members' -> MemberRow] /\ Numbered(members)'
    BY <1>1 DEF AccountInv, TablesHold, MembersHold, Numbered
  <2>q. QED BY <1>1, <2>1 DEF AccountInv, TablesHold, MembersHold
<1>3. DevicesHold'
  <2>1. devices' \in [DOMAIN devices' -> DeviceRow] /\ Numbered(devices)'
    BY <1>1 DEF AccountInv, TablesHold, DevicesHold, Numbered
  <2>2. \A d \in DOMAIN devices' : /\ d \in DOMAIN devices /\ devices'[d] = devices[d]
                                   /\ devices[d].member # row
    BY <1>1
  <2>3. DOMAIN members' = DOMAIN members \ {row} /\ joins' = joins
    BY <1>1
  <2>q. QED BY <2>1, <2>2, <2>3 DEF AccountInv, TablesHold, DevicesHold
<1>4. InvitesHold'
  <2>1. Numbered(invites)'
    BY <1>1 DEF AccountInv, TablesHold, InvitesHold, Numbered
  <2>q. QED BY <1>1, <2>1 DEF AccountInv, TablesHold, InvitesHold
<1>5. ASSUME NEW c \in Clients PROVE PcHolds(c)'
  <2>1. PcHolds(c) /\ UNCHANGED <<secret, queue, session, joins>>
    BY <1>1 DEF AccountInv, disk
  <2>2. TokensHold(c)'
    BY <2>1 DEF PcHolds, TokensHold
  <2>3. ASSUME NEW d \in DOMAIN devices' PROVE DeviceMeets(d, c)'
    <3>1. d \in DOMAIN devices /\ devices'[d] = devices[d] /\ devices[d].member # row
      BY <1>1
    <3>2. devices[d].member \in DOMAIN members'
      BY <1>1, <3>1 DEF AccountInv, TablesHold, DevicesHold
    <3>3. Named(d, c) => Named(d, c)'
      BY <1>1, <2>1, <3>1, <3>2 DEF Named
    <3>q. QED BY <2>1, <3>1, <3>3 DEF PcHolds, DeviceMeets
  <2>q. QED BY <2>2, <2>3 DEF PcHolds
<1>6. ASSUME NEW r \in requests
      PROVE  /\ Marked(r) \in Served /\ Marked(r).disturbed = (r.phase # "read")
             /\ Marked(r).op = r.op /\ Marked(r).from = r.from /\ Marked(r).token = r.token
             /\ Marked(r).name = r.name /\ Marked(r).policy = r.policy
             /\ Marked(r).phase = r.phase /\ Marked(r).device = r.device
             /\ Marked(r).awaited = r.awaited
  BY DEF AccountInv, RequestsHold, RequestHolds, Served
<1>7. ASSUME NEW r \in requests PROVE RequestHolds(Marked(r))'
  <2>1. PICK q : q = Marked(r)
    OBVIOUS
  <2>2. /\ q \in Served /\ q.disturbed = (r.phase # "read")
        /\ q.op = r.op /\ q.from = r.from /\ q.token = r.token /\ q.name = r.name
        /\ q.policy = r.policy /\ q.phase = r.phase /\ q.device = r.device
        /\ q.awaited = r.awaited
    BY <1>6, <2>1
  <2>3. RequestHolds(r)
    BY DEF AccountInv, RequestsHold
  <2>4. \A d \in DOMAIN devices' : d \in DOMAIN devices /\ devices'[d] = devices[d]
    BY <1>1
  <2>5. DataHolds(q)'
    BY <2>2, <2>3, <2>4 DEF RequestHolds, DataHolds, EnrollHolds, ConsentHolds, RevokeHolds
  <2>6. \A c \in Clients : Meets(q, c)'
    BY <1>1, <2>2, <2>3 DEF RequestHolds, Meets, disk
  <2>7. RequestHolds(q)'
    BY <1>1, <2>2, <2>3, <2>5, <2>6 DEF RequestHolds
  <2>q. QED BY <2>1, <2>7
<1>8. ASSUME NEW r \in requests, NEW o \in requests PROVE Apart(Marked(r), Marked(o))
  <2>1. Apart(r, o)
    BY DEF AccountInv, RequestsHold
  <2>2. /\ Marked(r).op = r.op /\ Marked(r).token = r.token /\ Marked(r).from = r.from
        /\ Marked(r).awaited = r.awaited
        /\ Marked(o).op = o.op /\ Marked(o).token = o.token /\ Marked(o).from = o.from
        /\ Marked(o).awaited = o.awaited
    BY <1>6
  <2> HIDE DEF Marked
  <2>q. QED BY <2>1, <2>2 DEF Apart
<1> HIDE DEF Marked
<1>q. QED BY <1>1, <1>2, <1>3, <1>4, <1>5, <1>7, <1>8
          DEF AccountInv, TablesHold, RequestsHold, Apart

-----------------------------------------------------------------------------
(* The invariant, and what it says.                                          *)

LEMMA AccountsStart ==
  ASSUME Init
  PROVE  AccountInv
<1>1. QueueInv
  BY DEF Init, Idle, Unpaired, QueueInv, PcTypes, PairInv, Session, Pcs, Policies
<1>2. MembersHold
  <2>1. DOMAIN members \subseteq 1..1 /\ members = [row \in {1} |-> Row(Host, "2")]
    BY DEF Init
  <2>2. Row(Host, "2") \in MemberRow /\ Row(Host, "2").owner /\ Row(Host, "2").name = Host
    BY DEF Row, MemberRow, Policies
  <2>q. QED BY <2>1, <2>2 DEF MembersHold, Numbered
<1>3. DevicesHold /\ InvitesHold
  BY DEF Init, DevicesHold, InvitesHold, InviteInv, Numbered
<1>4. RequestsHold
  BY DEF Init, RequestsHold
<1>5. \A c \in Clients : PcHolds(c)
  BY DEF Init, Idle, PcHolds, TokensHold
<1>q. QED BY <1>1, <1>2, <1>3, <1>4, <1>5 DEF AccountInv, TablesHold

LEMMA AccountsKept ==
  ASSUME AccountInv, [Next]_vars
  PROVE  AccountInv'
<1>0. QueueInv' /\ InviteInv'
  BY QueueKept, InvitesKept DEF AccountInv, TablesHold, InvitesHold
<1>1. CASE \E c \in Clients : ClientStep(c)
  BY <1>0, <1>1, ClientStepKeepsAccounts
<1>2. CASE \E r \in requests : HubStep(r)
  BY <1>0, <1>2, HubStepKeepsAccounts
<1>3. CASE HostStep
  BY <1>0, <1>3, BootstrapOwnerKept, CreateInviteKept, RevokeKept, DeleteMemberKept DEF HostStep
<1>4. CASE UNCHANGED vars
  <2>1. UNCHANGED <<disk, session, requests, joins, members, devices, invites>>
    BY <1>4 DEF vars, hub
  <2>2. TablesHold' /\ Steady
    BY <2>1 DEF AccountInv, TablesHold, MembersHold, DevicesHold, InvitesHold, InviteInv, Steady
  <2>q. QED BY <1>0, <2>1, <2>2, SteadyKept
<1>q. QED BY <1>1, <1>2, <1>3, <1>4 DEF Next

Bounds == joins \in 0..MaxJoins /\ commands \in 0..MaxCommands /\ faults \in 0..MaxFaults

LEMMA BoundsKept ==
  ASSUME Bounds, [Next]_vars
  PROVE  Bounds'
<1>0. MaxJoins \in Nat /\ MaxCommands \in Nat /\ MaxFaults \in Nat
  BY PairingAssumption
<1>1. ASSUME NEW c \in Clients, ClientStep(c) PROVE Bounds'
  <2>1. CASE \E i \in DOMAIN invites, n \in Names, p \in Policies : JoinSend(c, i, n, p)
    BY <1>0, <2>1 DEF JoinSend, Bounds
  <2>2. CASE JoinSaveSecret(c) \/ JoinSaveConfig(c) \/ JoinQueue(c) \/ Enqueue(c)
    BY <2>2 DEF JoinSaveSecret, JoinSaveConfig, JoinQueue, Enqueue, Bounds
  <2>3. CASE LeaveSend(c) \/ LeaveAnswered(c) \/ LeaveErase(c) \/ LeaveCommit(c)
    BY <2>3 DEF LeaveSend, LeaveAnswered, LeaveErase, LeaveCommit, Bounds
  <2>4. CASE ConsentSend(c) \/ ConsentSave(c) \/ Refused(c)
    BY <2>4 DEF ConsentSend, ConsentSave, Refused, Bounds
  <2>5. CASE Timeout(c) \/ GuardRaises(c) \/ Crash(c)
    BY <1>0, <2>5 DEF Timeout, GuardRaises, Crash, Fault, Bounds
  <2>q. QED BY <1>1, <2>1, <2>2, <2>3, <2>4, <2>5 DEF ClientStep
<1>2. ASSUME NEW r \in requests, HubStep(r) PROVE Bounds'
  <2>1. CASE HubRefuse(r)
    BY <1>0, <2>1 DEF HubRefuse, Fault, Bounds
  <2>2. CASE EnrollRead(r) \/ EnrollTarget(r) \/ EnrollCreate(r) \/ EnrollClaim(r)
    BY <2>2 DEF EnrollRead, EnrollTarget, EnrollCreate, EnrollClaim, Bounds
  <2>3. CASE Authenticate(r) \/ ConsentWrite(r) \/ RevokeWrite(r)
    BY <2>3 DEF Authenticate, ConsentWrite, RevokeWrite, Bounds
  <2>q. QED BY <1>2, <2>1, <2>2, <2>3 DEF HubStep
<1>3. CASE HostStep
  <2>1. UNCHANGED <<joins, faults>> /\ (commands' = commands \/ Command)
    BY <1>3 DEF HostStep, BootstrapOwner, CreateInvite, Revoke, DeleteMember
  <2>q. QED BY <1>0, <2>1 DEF Command, Bounds
<1>4. CASE UNCHANGED vars
  BY <1>4 DEF vars, Bounds
<1>q. QED BY <1>1, <1>2, <1>3, <1>4 DEF Next

\* The tables' constraints hold whatever the order of the transactions: names and tokens
\* stay unique, and no device or invitation is left of a member who is gone.
THEOREM TypesHold == Spec => []TypeOK
<1>1. Init => AccountInv /\ Bounds
  BY AccountsStart, PairingAssumption DEF Init, Bounds
<1>2. AccountInv /\ Bounds /\ [Next]_vars => (AccountInv /\ Bounds)'
  BY AccountsKept, BoundsKept
<1>3. AccountInv /\ Bounds => TypeOK
  <2>1. SUFFICES ASSUME AccountInv, Bounds PROVE TypeOK
    OBVIOUS
  <2>2. /\ secret \in [Clients -> Nat] /\ queue \in [Clients -> Nat] /\ joins \in Nat
        /\ MaxJoins \in Nat /\ joins <= MaxJoins
        /\ \A c \in Clients : secret[c] <= joins /\ queue[c] <= joins
    BY <2>1, PairingAssumption DEF AccountInv, QueueInv, PcTypes, PcHolds, TokensHold, Bounds
  <2>3. secret \in [Clients -> 0..MaxJoins] /\ queue \in [Clients -> 0..MaxJoins]
    BY <2>2
  <2>4. /\ config \in [Clients -> [enabled : BOOLEAN, consent : Policies]]
        /\ \A c \in Clients : session[c].pc \in Pcs /\ session[c].answer \in {"none", "ok", "no"}
    BY <2>1 DEF AccountInv, QueueInv, PcTypes, Session
  <2>5. /\ \A row, other \in DOMAIN members : members[row].name = members[other].name => row = other
        /\ \A d, other \in DOMAIN devices : devices[d].token = devices[other].token => d = other
        /\ \A d \in DOMAIN devices : devices[d].member \in DOMAIN members
        /\ \A i \in DOMAIN invites : invites[i].target \in DOMAIN members \cup {0}
    BY <2>1 DEF AccountInv, TablesHold, MembersHold, DevicesHold, InvitesHold
  <2>q. QED BY <2>1, <2>3, <2>4, <2>5 DEF Bounds, TypeOK
<1>q. QED BY <1>1, <1>2, <1>3, PTL DEF Spec

\* The account a PC speaks for is the one it was given at join, although a handler reads the
\* invitation's member in one transaction and writes the device in another.
THEOREM TokensNameTheirMembers == Spec => []TokenNamesItsMember
<1>1. Init => AccountInv
  BY AccountsStart
<1>2. AccountInv /\ [Next]_vars => AccountInv'
  BY AccountsKept
<1>3. AccountInv => TokenNamesItsMember
  BY DEF AccountInv, PcHolds, DeviceMeets, Named, DevicesOf, TokenNamesItsMember
<1>q. QED BY <1>1, <1>2, <1>3, PTL DEF Spec

\* A leave that was told "revoked" leaves no device that can log in with its token, whatever
\* other answers, timeouts and deletions came in between.
THEOREM RevocationsHold == Spec => []ConfirmedRevocationHolds
<1>1. Init => AccountInv
  BY AccountsStart
<1>2. AccountInv /\ [Next]_vars => AccountInv'
  BY AccountsKept
<1>3. AccountInv => ConfirmedRevocationHolds
  BY DEF AccountInv, PcHolds, DeviceMeets, Leaving, DevicesOf, ConfirmedRevocationHolds
<1>q. QED BY <1>1, <1>2, <1>3, PTL DEF Spec

\* Who accepted: the request of the member itself that is answered by this step.
Accepts(row) ==
  \E r \in requests \ requests' :
    /\ r.policy = "2"
    /\ \/ r.op = "enroll" /\ members'[row].name = r.name
       \/ r.op = "consent" /\ \E d \in DevicesOf(r.token) : devices[d].member = row
       \/ r.disturbed

LEMMA UpdateIsAccepted ==
  ASSUME AccountInv, NEW r \in requests, EnrollClaim(r) \/ ConsentWrite(r),
         NEW row \in DOMAIN members,
         members'[row].policy = "2", members[row].policy = "1"
  PROVE  Accepts(row)
<1>1. r \in Served /\ DataHolds(r)
  BY DEF AccountInv, RequestsHold, RequestHolds
<1>2. members' # members
  BY DEF AccountInv
<1>3. /\ r.member \in DOMAIN members /\ members' = Updated(r) /\ r \notin requests'
      /\ \/ r.op = "enroll" /\ r.phase = "claim"
         \/ r.op = "consent" /\ r.phase = "write"
  BY <1>2 DEF EnrollClaim, Enrolled, ConsentWrite, Reply, hub
<1>4. row = r.member
  <2>1. SUFFICES ASSUME row # r.member PROVE FALSE
    OBVIOUS
  <2>2. members'[row] = members[row]
    BY <1>3, <2>1 DEF Updated
  <2>q. QED BY <2>2
<1>5. r.policy = "2"
  <2>1. members[row] \in MemberRow
    BY DEF AccountInv, TablesHold, MembersHold
  <2> DEFINE p == IF r.policy = r.loaded THEN members[row].policy ELSE r.policy
  <2>2. members'[row] = [members[row] EXCEPT !.policy = p]
    BY <1>3, <1>4 DEF Updated
  <2>3. [members[row] EXCEPT !.policy = p].policy = p
    BY <2>1 DEF MemberRow
  <2>q. QED BY <2>2, <2>3
<1>6. members'[row].name = members[row].name
  BY <1>3, UpdateKept
<1>7. CASE r.op = "enroll" /\ r.phase = "claim"
  BY <1>1, <1>3, <1>4, <1>5, <1>6, <1>7 DEF DataHolds, EnrollHolds, Accepts
<1>8. CASE r.op = "consent" /\ r.phase = "write"
  BY <1>1, <1>3, <1>4, <1>5, <1>8 DEF DataHolds, ConsentHolds, DevicesOf, Accepts
<1>q. QED BY <1>3, <1>7, <1>8

\* The other steps leave the policies of those who stay.
LEMMA PoliciesChange ==
  ASSUME AccountInv, [Next]_vars, NEW row \in DOMAIN members, row \in DOMAIN members',
         members'[row].policy # members[row].policy
  PROVE  \E r \in requests : EnrollClaim(r) \/ ConsentWrite(r)
<1>0. MembersHold
  BY DEF AccountInv, TablesHold
<1>1. members' # members
  OBVIOUS
<1>2. ASSUME NEW c \in Clients, ClientStep(c) PROVE FALSE
  BY <1>1, <1>2 DEF ClientStep, JoinSend, JoinSaveSecret, JoinSaveConfig, JoinQueue, Enqueue,
                    LeaveSend, LeaveAnswered, LeaveErase, LeaveCommit, ConsentSend, ConsentSave,
                    Refused, Timeout, GuardRaises, Crash, hub
<1>3. ASSUME NEW r \in requests, HubStep(r), ~EnrollClaim(r), ~ConsentWrite(r) PROVE FALSE
  <2>1. members' = With(members, NewRow(members), Row(r.name, r.policy))
    BY <1>1, <1>3 DEF HubStep, EnrollRead, EnrollTarget, EnrollCreate, Authenticate, RevokeWrite,
                      HubRefuse, hub
  <2>2. row # NewRow(members)
    BY <1>0, NewRowIsNew DEF MembersHold
  <2>q. QED BY <2>1, <2>2 DEF With
<1>4. ASSUME HostStep PROVE FALSE
  <2>1. CASE BootstrapOwner
    <3>1. row # NewRow(members)
      BY <1>0, NewRowIsNew DEF MembersHold
    <3>q. QED BY <2>1, <3>1 DEF BootstrapOwner, With
  <2>2. ASSUME NEW t, CreateInvite(t) PROVE FALSE
    BY <1>1, <2>2 DEF CreateInvite
  <2>3. CASE Revoke
    <3>1. PICK m \in DOMAIN members : members' = [members EXCEPT ![m].disabled = TRUE]
      BY <1>1, <2>3 DEF Revoke
    <3>2. [members[m] EXCEPT !.disabled = TRUE].policy = members[m].policy
      BY <1>0 DEF MembersHold, MemberRow
    <3>3. members'[row] = members[row] \/ members'[row] = [members[row] EXCEPT !.disabled = TRUE]
      BY <3>1
    <3>4. [members[row] EXCEPT !.disabled = TRUE].policy = members[row].policy
      BY <1>0 DEF MembersHold, MemberRow
    <3>q. QED BY <3>3, <3>4
  <2>4. ASSUME NEW m \in DOMAIN members, DeleteMember(m) PROVE FALSE
    BY <2>4 DEF DeleteMember, Keep
  <2>q. QED BY <1>4, <2>1, <2>2, <2>3, <2>4 DEF HostStep
<1>5. CASE UNCHANGED vars
  BY <1>1, <1>5 DEF vars, hub
<1>q. QED BY <1>2, <1>3, <1>4, <1>5 DEF Next

\* OPPONENT_DATA_POLICY.md:23: no step of the hub makes a member accept a policy that the
\* member has not, although the row that is updated was read in an earlier transaction.
THEOREM PoliciesAreAccepted == Spec => PolicyIsAccepted
<1>1. Init => AccountInv
  BY AccountsStart
<1>2. AccountInv /\ [Next]_vars => AccountInv'
  BY AccountsKept
<1> DEFINE Step == \A row \in DOMAIN members' :
                     members'[row].policy = "2" /\ row \in DOMAIN members
                       /\ members[row].policy = "1" => Accepts(row)
<1>3. AccountInv /\ [Next]_vars => Step
  <2>1. SUFFICES ASSUME AccountInv, [Next]_vars, NEW row \in DOMAIN members',
                        members'[row].policy = "2", row \in DOMAIN members,
                        members[row].policy = "1"
                 PROVE  Accepts(row)
    OBVIOUS
  <2>q. QED BY <2>1, PoliciesChange, UpdateIsAccepted
<1>4. PolicyIsAccepted <=> [][Step]_vars
  BY DEF PolicyIsAccepted, Accepts
<1>q. QED BY <1>1, <1>2, <1>3, <1>4, PTL DEF Spec

-----------------------------------------------------------------------------
(* Devices without a PC.  A token is stray from the moment its PC can only   *)
(* lose it without the hub having been told; each costs a fault.             *)

Live(k) == \/ \E d \in DOMAIN devices : devices[d].token = k /\ Active(d)
           \/ \E r \in requests : r.op = "enroll" /\ r.token = k
Untold(c, k) ==
  \/ /\ session[c].token = k
     /\ \/ session[c].pc = "leave" /\ session[c].answer = "no"
        \/ session[c].pc \in {"erase", "commit"} /\ session[c].answer # "ok"
  \/ secret[c] = k /\ ~config[c].enabled /\ session[c].pc # "joinConfig"
Stray(k) == (\A c \in Clients : ~Holds(c, k)) \/ \E c \in Clients : Untold(c, k)
Strays == {k \in 1..joins : Live(k) /\ Stray(k)}
StrayInv == Cardinality(Strays) <= faults

\* The enrolments that are being served go on, and joins is the number of the last.
LEMMA EnrollsChange ==
  ASSUME AccountInv, [Next]_vars, NEW q \in requests', q.op = "enroll"
  PROVE  \/ \E r \in requests : r.op = "enroll" /\ r.token = q.token
         \/ q.token = joins + 1
<1>0. requests \subseteq Served
  BY DEF AccountInv, RequestsHold, RequestHolds
<1>1. CASE q \in requests
  BY <1>1
<1>2. ASSUME NEW c \in Clients, ClientStep(c), q \notin requests
      PROVE  \/ \E r \in requests : r.op = "enroll" /\ r.token = q.token
             \/ q.token = joins + 1
  <2>1. CASE \E i \in DOMAIN invites, n \in Names, p \in Policies : JoinSend(c, i, n, p)
    <3>1. PICK i \in DOMAIN invites, n \in Names, p \in Policies : JoinSend(c, i, n, p)
      BY <2>1
    <3>2. q = [Request(c, "enroll", joins + 1) EXCEPT !.invite = i, !.name = n, !.policy = p]
      BY <1>2, <3>1 DEF JoinSend
    <3>q. QED BY <3>2 DEF Request
  <2>2. CASE LeaveSend(c) \/ ConsentSend(c)
    BY <1>2, <2>2 DEF LeaveSend, ConsentSend, Request
  <2>3. CASE Timeout(c) \/ Crash(c)
    <3>1. PICK r \in requests : q = [r EXCEPT !.awaited = r.awaited /\ r.from # c]
      BY <2>3 DEF Timeout, Crash, Unawait
    <3>2. q.op = r.op /\ q.token = r.token
      BY <1>0, <3>1 DEF Served
    <3>q. QED BY <3>2
  <2>4. CASE \/ JoinSaveSecret(c) \/ JoinSaveConfig(c) \/ JoinQueue(c) \/ Enqueue(c)
             \/ LeaveAnswered(c) \/ LeaveErase(c) \/ LeaveCommit(c)
             \/ ConsentSave(c) \/ Refused(c) \/ GuardRaises(c)
    BY <1>2, <2>4 DEF JoinSaveSecret, JoinSaveConfig, JoinQueue, Enqueue, LeaveAnswered, LeaveErase,
                      LeaveCommit, ConsentSave, Refused, GuardRaises
  <2>q. QED BY <1>2, <2>1, <2>2, <2>3, <2>4 DEF ClientStep
<1>3. ASSUME NEW r \in requests, HubStep(r), q \notin requests
      PROVE  r.op = "enroll" /\ r.token = q.token
  <2>1. r \in Served
    BY <1>0
  <2>2. CASE EnrollRead(r)
    <3>1. PICK m, ph : q = [r EXCEPT !.member = m, !.phase = ph]
      BY <1>3, <2>2 DEF EnrollRead, Read, Reply
    <3>q. QED BY <2>1, <2>2, <3>1 DEF EnrollRead, Served
  <2>3. CASE EnrollTarget(r)
    <3>1. PICK l : q = [r EXCEPT !.phase = "claim", !.loaded = l]
      BY <1>3, <2>3 DEF EnrollTarget, Read, Reply
    <3>q. QED BY <2>1, <2>3, <3>1 DEF EnrollTarget, Served
  <2>4. CASE Authenticate(r)
    <3>1. r.op # "enroll" /\ ~Reply(r, "no")
      BY <1>3, <2>4 DEF Authenticate, Reply
    <3>2. PICK d, m, l : Read(r, [r EXCEPT !.phase = "write", !.device = d, !.member = m,
                                           !.loaded = l])
      BY <2>4, <3>1 DEF Authenticate
    <3>3. q = [r EXCEPT !.phase = "write", !.device = d, !.member = m, !.loaded = l]
      BY <1>3, <3>2 DEF Read
    <3>q. QED BY <2>1, <3>1, <3>3 DEF Served
  <2>5. CASE EnrollCreate(r) \/ EnrollClaim(r) \/ ConsentWrite(r) \/ RevokeWrite(r) \/ HubRefuse(r)
    BY <1>3, <2>5 DEF EnrollCreate, EnrollClaim, ConsentWrite, RevokeWrite, HubRefuse, Enrolled,
                      Reply
  <2>q. QED BY <1>3, <2>2, <2>3, <2>4, <2>5 DEF HubStep
<1>4. ASSUME HostStep, q \notin requests
      PROVE  \E r \in requests : r.op = "enroll" /\ r.token = q.token
  <2>1. PICK r \in requests : q = [r EXCEPT !.disturbed = r.phase # "read"]
    BY <1>4 DEF HostStep, BootstrapOwner, CreateInvite, Revoke, DeleteMember
  <2>2. q.op = r.op /\ q.token = r.token
    BY <1>0, <2>1 DEF Served
  <2>q. QED BY <2>2
<1>5. CASE UNCHANGED vars
  BY <1>5 DEF vars
<1>q. QED BY <1>1, <1>2, <1>3, <1>4, <1>5 DEF Next

\* Nothing brings a device back to life: it keeps its token and its member, a revocation
\* and the end of an account are for good.
MemberLasts(m) == m \in DOMAIN members' /\ (members[m].disabled => members'[m].disabled)
DeviceLasts(d) ==
  /\ d \in DOMAIN devices /\ devices'[d].token = devices[d].token
  /\ devices'[d].member = devices[d].member /\ (devices[d].revoked => devices'[d].revoked)

LEMMA MembersLast ==
  ASSUME AccountInv, [Next]_vars, NEW m \in DOMAIN members, m \in DOMAIN members'
  PROVE  MemberLasts(m)
<1>0. MembersHold /\ members[m] \in MemberRow
  BY DEF AccountInv, TablesHold, MembersHold
<1>1. m # NewRow(members)
  BY <1>0, NewRowIsNew DEF MembersHold
<1>2. CASE members' = members
  BY <1>2 DEF MemberLasts
<1>3. ASSUME NEW v, members' = With(members, NewRow(members), v) PROVE MemberLasts(m)
  BY <1>1, <1>3 DEF With, MemberLasts
<1>4. ASSUME NEW r \in requests, members' = Updated(r) PROVE MemberLasts(m)
  <2>1. PICK p : members' = [members EXCEPT ![r.member].policy = p]
    <3> DEFINE p == IF r.policy = r.loaded THEN members[r.member].policy ELSE r.policy
    <3>1. members' = [members EXCEPT ![r.member].policy = p]
      BY <1>4 DEF Updated
    <3> HIDE DEF p
    <3>q. QED BY <3>1
  <2>2. members'[m] = members[m] \/ members'[m] = [members[m] EXCEPT !.policy = p]
    BY <2>1
  <2>3. [members[m] EXCEPT !.policy = p].disabled = members[m].disabled
    BY <1>0 DEF MemberRow
  <2>q. QED BY <2>2, <2>3 DEF MemberLasts
<1>5. ASSUME NEW x, members' = [members EXCEPT ![x].disabled = TRUE] PROVE MemberLasts(m)
  <2>1. members'[m] = members[m] \/ members'[m] = [members[m] EXCEPT !.disabled = TRUE]
    BY <1>5
  <2>2. [members[m] EXCEPT !.disabled = TRUE].disabled
    BY <1>0 DEF MemberRow
  <2>q. QED BY <2>1, <2>2 DEF MemberLasts
<1>6. ASSUME NEW c \in Clients, ClientStep(c) PROVE members' = members
  BY <1>6 DEF ClientStep, JoinSend, JoinSaveSecret, JoinSaveConfig, JoinQueue, Enqueue,
              LeaveSend, LeaveAnswered, LeaveErase, LeaveCommit, ConsentSend, ConsentSave,
              Refused, Timeout, GuardRaises, Crash, hub
<1>7. ASSUME NEW r \in requests, HubStep(r)
      PROVE  \/ members' = members \/ members' = Updated(r)
             \/ members' = With(members, NewRow(members), Row(r.name, r.policy))
  <2>1. CASE EnrollCreate(r) \/ EnrollClaim(r) \/ ConsentWrite(r)
    BY <2>1 DEF EnrollCreate, EnrollClaim, ConsentWrite, hub
  <2>2. CASE EnrollRead(r) \/ EnrollTarget(r) \/ Authenticate(r) \/ RevokeWrite(r) \/ HubRefuse(r)
    BY <2>2 DEF EnrollRead, EnrollTarget, Authenticate, RevokeWrite, HubRefuse, hub
  <2>q. QED BY <1>7, <2>1, <2>2 DEF HubStep
<1>8. ASSUME HostStep PROVE MemberLasts(m)
  <2>1. CASE BootstrapOwner
    BY <1>3, <2>1 DEF BootstrapOwner
  <2>2. ASSUME NEW t, CreateInvite(t) PROVE MemberLasts(m)
    BY <1>2, <2>2 DEF CreateInvite
  <2>3. CASE Revoke
    BY <1>2, <1>5, <2>3 DEF Revoke
  <2>4. ASSUME NEW x \in DOMAIN members, DeleteMember(x) PROVE MemberLasts(m)
    BY <2>4 DEF DeleteMember, Keep, MemberLasts
  <2>q. QED BY <1>8, <2>1, <2>2, <2>3, <2>4 DEF HostStep
<1>9. CASE UNCHANGED vars
  BY <1>2, <1>9 DEF vars, hub
<1>q. QED BY <1>2, <1>3, <1>4, <1>6, <1>7, <1>8, <1>9 DEF Next

LEMMA DevicesLast ==
  ASSUME AccountInv, [Next]_vars, NEW d \in DOMAIN devices'
  PROVE  \/ DeviceLasts(d)
         \/ \E r \in requests : r.op = "enroll" /\ r.token = devices'[d].token
<1>0. \A x \in DOMAIN devices : devices[x] \in DeviceRow
  BY DEF AccountInv, TablesHold, DevicesHold
<1>1. ASSUME devices' = devices PROVE DeviceLasts(d)
  BY <1>1 DEF DeviceLasts
<1>2. ASSUME NEW x, devices' = [devices EXCEPT ![x].revoked = TRUE] PROVE DeviceLasts(d)
  <2>1. /\ d \in DOMAIN devices
        /\ devices'[d] = devices[d] \/ devices'[d] = [devices[d] EXCEPT !.revoked = TRUE]
    BY <1>2
  <2>2. /\ [devices[d] EXCEPT !.revoked = TRUE].revoked
        /\ [devices[d] EXCEPT !.revoked = TRUE].token = devices[d].token
        /\ [devices[d] EXCEPT !.revoked = TRUE].member = devices[d].member
    BY <1>0, <2>1 DEF DeviceRow
  <2>q. QED BY <2>1, <2>2 DEF DeviceLasts
<1>3. ASSUME NEW c \in Clients, ClientStep(c) PROVE devices' = devices
  BY <1>3 DEF ClientStep, JoinSend, JoinSaveSecret, JoinSaveConfig, JoinQueue, Enqueue,
              LeaveSend, LeaveAnswered, LeaveErase, LeaveCommit, ConsentSend, ConsentSave,
              Refused, Timeout, GuardRaises, Crash, hub
<1>4. ASSUME NEW r \in requests, HubStep(r)
      PROVE  \/ DeviceLasts(d)
             \/ r.op = "enroll" /\ r.token = devices'[d].token
  <2>1. CASE EnrollCreate(r) \/ EnrollClaim(r)
    <3>1. CASE devices' = devices
      BY <1>1, <3>1
    <3>2. ASSUME NEW row, Enrolled(r, row) PROVE DeviceLasts(d) \/ r.token = devices'[d].token
      <4>1. CASE d = NewRow(devices)
        BY <3>2, <4>1 DEF Enrolled, With
      <4>2. CASE d # NewRow(devices)
        BY <3>2, <4>2 DEF Enrolled, With, DeviceLasts
      <4>q. QED BY <4>1, <4>2
    <3>q. QED BY <2>1, <3>1, <3>2 DEF EnrollCreate, EnrollClaim, hub
  <2>2. CASE RevokeWrite(r)
    BY <1>1, <1>2, <2>2 DEF RevokeWrite
  <2>3. CASE EnrollRead(r) \/ EnrollTarget(r) \/ Authenticate(r) \/ ConsentWrite(r) \/ HubRefuse(r)
    BY <1>1, <2>3 DEF EnrollRead, EnrollTarget, Authenticate, ConsentWrite, HubRefuse, hub
  <2>q. QED BY <1>4, <2>1, <2>2, <2>3 DEF HubStep
<1>5. ASSUME HostStep PROVE DeviceLasts(d)
  <2>1. CASE BootstrapOwner
    BY <1>1, <2>1 DEF BootstrapOwner
  <2>2. ASSUME NEW t, CreateInvite(t) PROVE DeviceLasts(d)
    BY <1>1, <2>2 DEF CreateInvite
  <2>3. CASE Revoke
    BY <1>1, <1>2, <2>3 DEF Revoke
  <2>4. ASSUME NEW x \in DOMAIN members, DeleteMember(x) PROVE DeviceLasts(d)
    BY <2>4 DEF DeleteMember, Keep, DeviceLasts
  <2>q. QED BY <1>5, <2>1, <2>2, <2>3, <2>4 DEF HostStep
<1>6. CASE UNCHANGED vars
  BY <1>1, <1>6 DEF vars, hub
<1>q. QED BY <1>1, <1>3, <1>4, <1>5, <1>6 DEF Next

LEMMA NothingRevives ==
  ASSUME AccountInv, [Next]_vars, NEW k, k # joins + 1, Live(k)'
  PROVE  Live(k)
<1>1. CASE \E r \in requests' : r.op = "enroll" /\ r.token = k
  BY <1>1, EnrollsChange DEF Live
<1>2. ASSUME NEW d \in DOMAIN devices', devices'[d].token = k, Active(d)' PROVE Live(k)
  <2>1. CASE DeviceLasts(d)
    <3>1. devices[d].member \in DOMAIN members /\ devices'[d].member \in DOMAIN members'
      BY <2>1, <1>2, AccountsKept DEF DeviceLasts, AccountInv, TablesHold, DevicesHold
    <3>2. MemberLasts(devices[d].member)
      BY <2>1, <3>1, MembersLast DEF DeviceLasts
    <3>3. Active(d)
      BY <1>2, <2>1, <3>2 DEF Active, DeviceLasts, MemberLasts
    <3>q. QED BY <1>2, <2>1, <3>3 DEF Live, DeviceLasts
  <2>q. QED BY <1>2, <2>1, DevicesLast DEF Live
<1>q. QED BY <1>1, <1>2 DEF Live

\* A step of a PC that keeps the token, or knew that the hub has not been told.
LEMMA StrayByOne ==
  ASSUME NEW c \in Clients, OnlyPc(c), \A o \in Clients \ {c} : config'[o] = config[o],
         NEW k, Stray(k)',
         Holds(c, k) => Holds(c, k)' \/ Untold(c, k), Untold(c, k)' => Untold(c, k)
  PROVE  Stray(k)
<1>1. ASSUME NEW o \in Clients \ {c}
      PROVE  (Holds(o, k)' <=> Holds(o, k)) /\ (Untold(o, k)' <=> Untold(o, k))
  BY DEF OnlyPc, Holds, Untold, At
<1>q. QED BY <1>1 DEF Stray

\* What the hub knows of the token in an operation of the PC that has its answer.
LEMMA AnsweredTokens ==
  ASSUME AccountInv, NEW c \in Clients, NEW k \in Nat \ {0}, Live(k), session[c].token = k
  PROVE  /\ session[c].pc = "join" => session[c].answer # "no"
         /\ session[c].pc \in Leaving => session[c].answer # "ok"
<1>1. CASE \E r \in requests : r.op = "enroll" /\ r.token = k
  <2>1. PICK r \in requests : r.op = "enroll" /\ r.token = k
    BY <1>1
  <2>q. QED BY <2>1, PcFacts DEF Meets
<1>2. CASE \E d \in DOMAIN devices : devices[d].token = k /\ Active(d)
  <2>1. PICK d \in DOMAIN devices : devices[d].token = k /\ ~devices[d].revoked
    BY <1>2 DEF Active
  <2>q. QED BY <2>1, PcFacts DEF DeviceMeets
<1>q. QED BY <1>1, <1>2 DEF Live

Costs(c, k) == faults' = faults + 1 /\ k = session[c].token

LEMMA JoinsStrayNobody ==
  ASSUME AccountInv, NEW c \in Clients, NEW k \in 1..joins, Live(k), Stray(k)',
         \/ \E i \in DOMAIN invites, n \in Names, p \in Policies : JoinSend(c, i, n, p)
         \/ JoinSaveSecret(c) \/ JoinSaveConfig(c) \/ JoinQueue(c) \/ Enqueue(c)
  PROVE  Stray(k)
<1>0. /\ k \in Nat \ {0} /\ k # joins + 1 /\ PairInv(c) /\ TokensHold(c)
      /\ session \in [Clients -> Session] /\ session[c] \in Session
      /\ secret \in [Clients -> Nat] /\ queue \in [Clients -> Nat]
      /\ config \in [Clients -> [enabled : BOOLEAN, consent : Policies]]
  BY PcFacts DEF AccountInv, QueueInv, PcTypes, PcHolds
<1>1. ASSUME NEW i, NEW n, NEW p, JoinSend(c, i, n, p) PROVE Stray(k)
  <2>1. /\ session[c].pc = "idle" /\ secret[c] = 0
        /\ session'[c].pc = "join" /\ session'[c].token = joins + 1
        /\ secret' = secret /\ config' = config /\ OnlyPc(c)
    BY <1>0, <1>1 DEF JoinSend, At, Idle, OnlyPc, disk
  <2>q. QED BY <1>0, <2>1, StrayByOne DEF Holds, Untold, At
<1>2. CASE JoinSaveSecret(c)
  <2>1. /\ session[c].pc = "join" /\ secret[c] = 0
        /\ session'[c].pc = "joinConfig" /\ session'[c].token = session[c].token
        /\ secret'[c] = session[c].token /\ config' = config /\ OnlyPc(c)
    BY <1>0, <1>2 DEF JoinSaveSecret, At, Goto, Session, OnlyPc, PairInv
  <2>q. QED BY <1>0, <2>1, StrayByOne DEF Holds, Untold, At
<1>3. CASE JoinSaveConfig(c)
  <2>1. /\ session[c].pc = "joinConfig"
        /\ session'[c].pc = "joinQueue" /\ session'[c].token = session[c].token
        /\ secret' = secret /\ config'[c].enabled /\ OnlyPc(c)
        /\ \A o \in Clients \ {c} : config'[o] = config[o]
    BY <1>0, <1>3 DEF JoinSaveConfig, At, Goto, Session, OnlyPc
  <2>q. QED BY <1>0, <2>1, StrayByOne DEF Holds, Untold, At
<1>4. CASE JoinQueue(c)
  <2>1. /\ session[c].pc = "joinQueue" /\ config[c].enabled
        /\ session[c].token = secret[c] /\ session'[c].pc = "idle"
        /\ secret' = secret /\ config' = config /\ OnlyPc(c)
    BY <1>0, <1>4 DEF JoinQueue, At, Stop, End, Idle, OnlyPc, PairInv, TokensHold
  <2>q. QED BY <1>0, <2>1, StrayByOne DEF Holds, Untold, At
<1>5. CASE Enqueue(c)
  <2>1. secret' = secret /\ config' = config /\ session' = session /\ OnlyPc(c)
    BY <1>0, <1>5 DEF Enqueue, OnlyPc
  <2>q. QED BY <1>0, <2>1, StrayByOne DEF Holds, Untold, At
<1>q. QED BY <1>1, <1>2, <1>3, <1>4, <1>5

LEMMA LeavesStrayNobody ==
  ASSUME AccountInv, NEW c \in Clients, NEW k \in 1..joins, Live(k), Stray(k)',
         LeaveSend(c) \/ LeaveAnswered(c) \/ LeaveErase(c) \/ LeaveCommit(c)
  PROVE  Stray(k)
<1>0. /\ k \in Nat \ {0} /\ TokensHold(c)
      /\ session \in [Clients -> Session] /\ session[c] \in Session
      /\ secret \in [Clients -> Nat] /\ queue \in [Clients -> Nat]
      /\ config \in [Clients -> [enabled : BOOLEAN, consent : Policies]]
  BY PcFacts DEF AccountInv, QueueInv, PcTypes, PcHolds
<1>1. CASE LeaveSend(c)
  <2>1. /\ session[c].pc = "idle" /\ session'[c].pc = IF Paired(c) THEN "leave" ELSE "erase"
        /\ session'[c].token = secret[c] /\ session'[c].answer = "none"
        /\ secret' = secret /\ config' = config /\ OnlyPc(c)
    BY <1>0, <1>1 DEF LeaveSend, At, Session, OnlyPc, disk
  <2>q. QED BY <1>0, <2>1, StrayByOne DEF Holds, Untold, At, Paired
<1>2. CASE LeaveAnswered(c)
  <2>1. /\ session[c].pc = "leave" /\ session[c].answer # "none"
        /\ session'[c].pc = "erase" /\ session'[c].token = session[c].token
        /\ session'[c].answer = session[c].answer
        /\ secret' = secret /\ config' = config /\ OnlyPc(c)
    BY <1>0, <1>2 DEF LeaveAnswered, At, Goto, Session, OnlyPc, disk
  <2>2. session[c].answer \in {"ok", "no"}
    BY <1>0, <2>1 DEF Session
  <2>q. QED BY <1>0, <2>1, <2>2, StrayByOne DEF Holds, Untold, At
<1>3. CASE LeaveErase(c)
  <2>1. /\ session[c].pc = "erase" /\ session[c].token = secret[c]
        /\ session'[c].pc = "commit" /\ session'[c].token = session[c].token
        /\ session'[c].answer = session[c].answer
        /\ secret'[c] = 0 /\ config' = config /\ OnlyPc(c)
    BY <1>0, <1>3 DEF LeaveErase, At, Goto, Session, OnlyPc, TokensHold
  <2>q. QED BY <1>0, <2>1, StrayByOne DEF Holds, Untold, At
<1>4. CASE LeaveCommit(c)
  <2>1. /\ session[c].pc = "commit" /\ secret[c] = 0 /\ session'[c].pc = "idle"
        /\ secret' = secret /\ OnlyPc(c)
        /\ \A o \in Clients \ {c} : config'[o] = config[o]
    BY <1>0, <1>4 DEF LeaveCommit, At, End, Idle, OnlyPc, TokensHold
  <2>2. session[c].token = k => session[c].answer # "ok"
    BY <1>0, <2>1, AnsweredTokens DEF Leaving
  <2>q. QED BY <1>0, <2>1, <2>2, StrayByOne DEF Holds, Untold, At
<1>q. QED BY <1>1, <1>2, <1>3, <1>4

\* The ends of an operation: a fault there costs at most the token the operation has.
LEMMA EndsStrayOne ==
  ASSUME AccountInv, NEW c \in Clients, NEW k \in 1..joins, Live(k), Stray(k)',
         \/ ConsentSend(c) \/ ConsentSave(c) \/ Refused(c) \/ Timeout(c) \/ GuardRaises(c)
         \/ Crash(c),
         ~Costs(c, k)
  PROVE  Stray(k)
<1>0. /\ k \in Nat \ {0} /\ TokensHold(c)
      /\ session \in [Clients -> Session] /\ session[c] \in Session /\ queue \in [Clients -> Nat]
      /\ config \in [Clients -> [enabled : BOOLEAN, consent : Policies]]
  BY PcFacts DEF AccountInv, QueueInv, PcTypes, PcHolds
<1>1. secret' = secret /\ queue' \in {queue, [queue EXCEPT ![c] = secret[c]]}
  BY DEF ConsentSend, ConsentSave, Refused, Timeout, GuardRaises, Crash, disk
<1>2. /\ \A o \in Clients \ {c} : config'[o] = config[o]
      /\ config'[c].enabled = config[c].enabled
  <2>1. config' = config \/ config' = [config EXCEPT ![c].consent = "2"]
    BY DEF ConsentSend, ConsentSave, Refused, Timeout, GuardRaises, Crash, disk
  <2>2. [config[c] EXCEPT !.consent = "2"].enabled = config[c].enabled
    BY <1>0
  <2>3. config'[c] = config[c] \/ config'[c] = [config[c] EXCEPT !.consent = "2"]
    BY <1>0, <2>1
  <2>q. QED BY <1>0, <2>1, <2>2, <2>3
<1>3. OnlyPc(c)
  <2>1. \A o \in Clients \ {c} : session'[o] = session[o]
    BY <1>0 DEF ConsentSend, ConsentSave, Refused, Timeout, GuardRaises, Crash, Stop, End
  <2>2. \A o \in Clients \ {c} : queue'[o] = queue[o]
    BY <1>0, <1>1
  <2>q. QED BY <1>1, <2>1, <2>2 DEF OnlyPc
<1>4. CASE ConsentSend(c)
  <2>1. session[c].pc = "idle" /\ session'[c].pc = "consent" /\ session'[c].token = session[c].token
    BY <1>0, <1>4 DEF ConsentSend, At, Session
  <2>q. QED BY <1>0, <1>1, <1>2, <1>3, <2>1, StrayByOne DEF Holds, Untold, At
<1>5. CASE Timeout(c) /\ At(c, "leave")
  <2>1. /\ session[c].pc = "leave" /\ session'[c].pc = "leave"
        /\ session'[c].token = session[c].token /\ k # session[c].token
    BY <1>0, <1>5 DEF Timeout, Fault, Costs, At, Session
  <2>q. QED BY <1>0, <1>1, <1>2, <1>3, <2>1, StrayByOne DEF Holds, Untold, At
<1>6. CASE \/ ConsentSave(c) \/ Refused(c) \/ GuardRaises(c) \/ Crash(c)
           \/ Timeout(c) /\ ~At(c, "leave")
  <2>1. session'[c].pc = "idle"
    BY <1>0, <1>6 DEF ConsentSave, Refused, GuardRaises, Crash, Timeout, Stop, End, Idle
  <2>2. CASE session[c].token # k
    <3>1. session[c].pc = "joinConfig" => secret[c] # k
      BY <1>0, <2>2 DEF TokensHold
    <3>q. QED BY <1>0, <1>1, <1>2, <1>3, <2>1, <2>2, <3>1, StrayByOne DEF Holds, Untold, At
  <2>3. CASE session[c].token = k
    <3>1. ConsentSave(c) \/ Refused(c)
      BY <1>6, <2>3 DEF GuardRaises, Crash, Timeout, Fault, Costs
    <3>2. session[c].pc # "consent"
      BY <1>0, <2>3 DEF TokensHold
    <3>3. session[c].pc = "join" /\ session[c].answer = "no"
      BY <3>1, <3>2 DEF ConsentSave, Refused, At
    <3>q. QED BY <1>0, <2>3, <3>3, AnsweredTokens
  <2>q. QED BY <2>2, <2>3
<1>q. QED BY <1>4, <1>5, <1>6

LEMMA AnswerStrays ==
  ASSUME AccountInv, NEW r \in requests, NEW answer \in {"ok", "no"}, Reply(r, answer),
         UNCHANGED disk, NEW k, Stray(k)', answer = "no" /\ r.op = "revoke" => k # r.token
  PROVE  Stray(k)
<1>1. ASSUME NEW c \in Clients
      PROVE  (Holds(c, k)' <=> Holds(c, k)) /\ (Untold(c, k)' => Untold(c, k))
  <2>1. secret'[c] = secret[c] /\ config'[c] = config[c] /\ Meets(r, c) /\ r \in Served
    BY PcFacts DEF disk
  <2>2. r.awaited /\ r.from = c /\ session[c].pc = "leave" =>
          r.op = "revoke" /\ session[c].token = r.token
    BY <2>1 DEF Meets, Waits, Served
  <2>3. r.awaited /\ r.from = c => session[c].pc \notin {"erase", "commit"}
    BY <2>1 DEF Meets, Waits
  <2>q. QED BY <2>1, <2>2, <2>3, AnswerOnly DEF Holds, Untold, At
<1>q. QED BY <1>1 DEF Stray

\* The hub says no to a leave only where no device is left to revoke, unless it refuses.
LEMMA HubStraysOne ==
  ASSUME AccountInv, NEW r \in requests, HubStep(r), NEW k, Live(k), Stray(k)',
         ~(faults' = faults + 1 /\ k = r.token)
  PROVE  Stray(k)
<1>1. UNCHANGED disk
  BY DEF HubStep, EnrollRead, EnrollTarget, EnrollCreate, EnrollClaim, Authenticate, ConsentWrite,
         RevokeWrite, HubRefuse
<1>2. CASE session' = session
  BY <1>1, <1>2 DEF Stray, Holds, Untold, At, disk
<1>3. CASE EnrollRead(r) \/ EnrollTarget(r) \/ EnrollCreate(r) \/ EnrollClaim(r) \/ ConsentWrite(r)
  <2>1. r.op # "revoke"
    BY <1>3 DEF EnrollRead, EnrollTarget, EnrollCreate, EnrollClaim, ConsentWrite
  <2>2. session' = session \/ \E answer \in {"ok", "no"} : Reply(r, answer)
    BY <1>3 DEF EnrollRead, EnrollTarget, EnrollCreate, EnrollClaim, ConsentWrite, Enrolled, Read
  <2>q. QED BY <1>1, <1>2, <2>1, <2>2, AnswerStrays
<1>4. ASSUME r.op = "revoke", \A d \in DevicesOf(r.token) : ~Active(d) PROVE k # r.token
  <2>1. \A q \in requests : q.op = "enroll" => q.token # r.token
    BY <1>4 DEF AccountInv, RequestsHold, Apart
  <2>q. QED BY <1>4, <2>1 DEF Live, DevicesOf
<1>5. CASE Authenticate(r)
  <2>1. CASE Reply(r, "no") /\ \A d \in DevicesOf(r.token) : ~Active(d)
    BY <1>1, <1>4, <2>1, AnswerStrays
  <2>q. QED BY <1>2, <1>5, <2>1 DEF Authenticate, Read
<1>6. CASE RevokeWrite(r)
  <2>1. RevokeHolds(r) /\ r.op = "revoke" /\ r.phase = "write"
    BY <1>6 DEF AccountInv, RequestsHold, RequestHolds, DataHolds, RevokeWrite
  <2>2. CASE Reply(r, "ok")
    BY <1>1, <2>2, AnswerStrays
  <2>3. CASE Reply(r, "no") /\ r.device \notin DOMAIN devices
    <3>1. DevicesOf(r.token) = {}
      BY <2>1, <2>3 DEF RevokeHolds, DevicesOf
    <3>q. QED BY <1>1, <1>4, <2>1, <2>3, <3>1, AnswerStrays
  <2>q. QED BY <1>6, <2>2, <2>3 DEF RevokeWrite
<1>7. CASE HubRefuse(r)
  BY <1>1, <1>7, AnswerStrays DEF HubRefuse, Fault
<1>q. QED BY <1>3, <1>5, <1>6, <1>7 DEF HubStep

LEMMA HostStraysNobody ==
  ASSUME HostStep \/ UNCHANGED vars, NEW k, Stray(k)'
  PROVE  Stray(k)
<1>1. UNCHANGED <<secret, config, session>>
  BY DEF HostStep, BootstrapOwner, CreateInvite, Revoke, DeleteMember, vars, disk
<1>q. QED BY <1>1 DEF Stray, Holds, Untold, At

LEMMA FaultsRise ==
  ASSUME Bounds, [Next]_vars
  PROVE  faults' = faults \/ faults' = faults + 1
<1>1. ASSUME NEW c \in Clients, ClientStep(c) PROVE faults' = faults \/ faults' = faults + 1
  BY <1>1 DEF ClientStep, JoinSend, JoinSaveSecret, JoinSaveConfig, JoinQueue, Enqueue,
              LeaveSend, LeaveAnswered, LeaveErase, LeaveCommit, ConsentSend, ConsentSave,
              Refused, Timeout, GuardRaises, Crash, Fault
<1>2. ASSUME NEW r \in requests, HubStep(r) PROVE faults' = faults \/ faults' = faults + 1
  BY <1>2 DEF HubStep, EnrollRead, EnrollTarget, EnrollCreate, EnrollClaim, Authenticate,
              ConsentWrite, RevokeWrite, HubRefuse, Fault
<1>3. CASE HostStep
  BY <1>3 DEF HostStep, BootstrapOwner, CreateInvite, Revoke, DeleteMember
<1>q. QED BY <1>1, <1>2, <1>3 DEF Next, vars

\* Before joins grows, no PC can have lost the token that is given out.
LEMMA NewTokenIsHeld ==
  ASSUME AccountInv, [Next]_vars, joins' # joins, NEW k, k = joins + 1
  PROVE  joins' = k /\ ~Stray(k)'
<1>1. PICK c \in Clients, i \in DOMAIN invites, n \in Names, p \in Policies : JoinSend(c, i, n, p)
  <2>1. CASE HostStep \/ UNCHANGED vars
    BY <2>1 DEF HostStep, BootstrapOwner, CreateInvite, Revoke, DeleteMember, vars
  <2>2. ASSUME NEW r \in requests, HubStep(r) PROVE FALSE
    BY <2>2 DEF HubStep, EnrollRead, EnrollTarget, EnrollCreate, EnrollClaim, Authenticate,
                ConsentWrite, RevokeWrite, HubRefuse
  <2>3. ASSUME NEW c \in Clients, ClientStep(c)
        PROVE  \E i \in DOMAIN invites, n \in Names, p \in Policies : JoinSend(c, i, n, p)
    BY <2>3 DEF ClientStep, JoinSaveSecret, JoinSaveConfig, JoinQueue, Enqueue, LeaveSend,
                LeaveAnswered, LeaveErase, LeaveCommit, ConsentSend, ConsentSave, Refused,
                Timeout, GuardRaises, Crash
  <2>q. QED BY <2>1, <2>2, <2>3 DEF Next
<1>2. joins' = joins + 1 /\ UNCHANGED <<secret, config>>
  BY <1>1 DEF JoinSend, disk
<1>3. session'[c].pc = "join" /\ session'[c].token = k /\ secret[c] = 0
  BY <1>1, <1>2, PcFacts DEF JoinSend, Idle
<1>4. \A o \in Clients : secret[o] # k
  BY PcFacts DEF PcHolds, TokensHold
<1>5. ASSUME NEW o \in Clients \ {c} PROVE session'[o].token # k
  <2>1. session'[o] = session[o]
    BY <1>1, PcFacts DEF JoinSend
  <2>2. session[o].token \in Nat /\ session[o].token <= joins /\ joins \in Nat
    BY PcFacts DEF PcHolds, TokensHold, Session
  <2>q. QED BY <2>1, <2>2
<1>6. ~Stray(k)'
  BY <1>2, <1>3, <1>4, <1>5 DEF Stray, Holds, Untold, At
<1>q. QED BY <1>2, <1>6

LEMMA StraysKept ==
  ASSUME AccountInv, Bounds, StrayInv, [Next]_vars
  PROVE  StrayInv'
<1>1. joins \in Nat /\ faults \in Nat /\ AccountInv'
  BY AccountsKept DEF Bounds
<1>2. IsFiniteSet(Strays) /\ Cardinality(Strays) \in Nat
  <2>1. Strays \in SUBSET Nat /\ \A k \in Strays : k <= joins
    BY <1>1 DEF Strays
  <2>q. QED BY <1>1, <2>1, FS_BoundedSetOfNaturals, FS_CardinalityType
<1>3. ASSUME NEW k \in Strays' PROVE k \in 1..joins /\ Live(k) /\ Stray(k)'
  <2>1. k \in 1..joins' /\ Live(k)' /\ Stray(k)'
    BY DEF Strays
  <2>2. k \in 1..joins /\ k # joins + 1
    BY <1>1, <2>1, NewTokenIsHeld
  <2>q. QED BY <2>1, <2>2, NothingRevives
<1>4. PICK token : \A k \in Strays' : k \in Strays \/ (faults' = faults + 1 /\ k = token)
  <2>1. ASSUME NEW c \in Clients, ClientStep(c), NEW k \in Strays', k \notin Strays
        PROVE  Costs(c, k)
    BY <1>3, <2>1, JoinsStrayNobody, LeavesStrayNobody, EndsStrayOne DEF ClientStep, Strays
  <2>2. ASSUME NEW r \in requests, HubStep(r), NEW k \in Strays', k \notin Strays
        PROVE  faults' = faults + 1 /\ k = r.token
    BY <1>3, <2>2, HubStraysOne DEF Strays
  <2>3. ASSUME HostStep \/ UNCHANGED vars, NEW k \in Strays' PROVE k \in Strays
    BY <1>3, <2>3, HostStraysNobody DEF Strays
  <2>4. CASE \E c \in Clients : ClientStep(c)
    <3>1. PICK c \in Clients : ClientStep(c)
      BY <2>4
    <3>2. \A k \in Strays' : k \in Strays \/ (faults' = faults + 1 /\ k = session[c].token)
      BY <2>1, <3>1 DEF Costs
    <3>q. QED BY <3>2
  <2>5. CASE \E r \in requests : HubStep(r)
    <3>1. PICK r \in requests : HubStep(r)
      BY <2>5
    <3>2. \A k \in Strays' : k \in Strays \/ (faults' = faults + 1 /\ k = r.token)
      BY <2>2, <3>1
    <3>q. QED BY <3>2
  <2>6. CASE HostStep \/ UNCHANGED vars
    BY <2>3, <2>6
  <2>q. QED BY <2>4, <2>5, <2>6 DEF Next
<1>5. faults' = faults \/ faults' = faults + 1
  BY FaultsRise
<1>6. PICK T : T = Strays'
  OBVIOUS
<1>7. CASE T \subseteq Strays
  <2>1. Cardinality(T) <= Cardinality(Strays) /\ Cardinality(T) \in Nat
    BY <1>2, <1>7, FS_Subset, FS_CardinalityType
  <2>q. QED BY <1>1, <1>2, <1>5, <1>6, <2>1 DEF StrayInv
<1>8. CASE T \subseteq Strays \cup {token} /\ faults' = faults + 1
  <2>1. /\ IsFiniteSet(Strays \cup {token})
        /\ Cardinality(Strays \cup {token}) <= Cardinality(Strays) + 1
        /\ Cardinality(Strays \cup {token}) \in Nat
    BY <1>2, FS_AddElement, FS_CardinalityType
  <2>2. Cardinality(T) <= Cardinality(Strays \cup {token}) /\ Cardinality(T) \in Nat
    BY <1>8, <2>1, FS_Subset, FS_CardinalityType
  <2>q. QED BY <1>1, <1>2, <1>6, <1>8, <2>1, <2>2 DEF StrayInv
<1>q. QED BY <1>4, <1>6, <1>7, <1>8

\* The devices without a PC have different tokens, all of them stray.
LEMMA OrphansAreStray ==
  ASSUME AccountInv, Bounds, StrayInv
  PROVE  EachOrphanHasItsFault
<1>1. IsFiniteSet(Strays) /\ joins \in Nat
  <2>1. joins \in Nat /\ Strays \in SUBSET Nat /\ \A k \in Strays : k <= joins
    BY DEF Bounds, Strays
  <2>q. QED BY <2>1, FS_BoundedSetOfNaturals
<1> DEFINE token == [d \in Orphans |-> devices[d].token]
<1>2. \A d \in Orphans : devices[d].token \in Strays
  BY PcFacts DEF AccountInv, TablesHold, DevicesHold, DeviceRow, Bounds, Orphans, Strays,
                  Live, Stray
<1>3. \A d, other \in Orphans : devices[d].token = devices[other].token => d = other
  BY DEF AccountInv, TablesHold, DevicesHold, Orphans
<1>4. token \in Injection(Orphans, Strays)
  BY <1>2, <1>3 DEF Injection, IsInjective
<1>5. IsFiniteSet(Orphans) /\ Cardinality(Orphans) <= Cardinality(Strays)
  <2> HIDE DEF token
  <2>q. QED BY <1>1, <1>4, FS_Injection
<1>6. Cardinality(Orphans) \in Nat /\ Cardinality(Strays) \in Nat /\ faults \in Nat
  BY <1>1, <1>5, FS_CardinalityType DEF Bounds
<1>q. QED BY <1>5, <1>6 DEF StrayInv, EachOrphanHasItsFault

\* However the steps of PCs, hub and host interleave, a device that can log in without a PC
\* comes from a fault of its own.
THEOREM OrphansAreFaults == Spec => []EachOrphanHasItsFault
<1> DEFINE Inv == AccountInv /\ Bounds /\ StrayInv
<1>1. Init => Inv
  <2>1. SUFFICES ASSUME Init PROVE Inv
    OBVIOUS
  <2>2. AccountInv /\ Bounds
    BY <2>1, AccountsStart, PairingAssumption DEF Init, Bounds
  <2>3. Strays = {} /\ faults = 0
    BY <2>1 DEF Init, Strays
  <2>q. QED BY <2>2, <2>3, FS_EmptySet DEF StrayInv
<1>2. Inv /\ [Next]_vars => Inv'
  BY AccountsKept, BoundsKept, StraysKept
<1>3. Inv => EachOrphanHasItsFault
  BY OrphansAreStray
<1>q. QED BY <1>1, <1>2, <1>3, PTL DEF Spec
=============================================================================
