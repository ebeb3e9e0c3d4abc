--------------------------- MODULE CommunityPairing ---------------------------
(***************************************************************************)
(* How a PC joins the community and leaves it: join, leave and              *)
(* upgrade_consent of services/community_client.py, step by step with their *)
(* crash points, and the accounts of the hub: enroll (service.py),          *)
(* authenticate_device (security.py), the routes /v1/consent and            *)
(* DELETE /v1/device (api.py) and the host's commands (admin.py).           *)
(*                                                                          *)
(* As in OpponentRegistry, a handler reads outside any transaction, and its *)
(* first write, with all that follows to the commit, is one step.  A table  *)
(* is a function from row numbers, which SQLite gives anew once the largest *)
(* row is deleted.  The expiry of an invitation or of a device is taken for *)
(* a revocation.                                                            *)
(***************************************************************************)
EXTENDS Naturals, FiniteSets, FiniteSetsExt

CONSTANTS
  Clients,      \* PCs
  Names,        \* public names members may choose
  Host,         \* the public name of the owner
  MaxJoins,     \* bound: enrolments ever sent
  MaxInvites,   \* bound: rows of the invitations' table
  MaxCommands,  \* bound: the host's revocations and deletions
  MaxFaults     \* bound: timeouts, crashes, refusals, guards that raise

ASSUME PairingAssumption ==
  /\ Host \notin Names
  /\ {MaxJoins, MaxInvites, MaxCommands, MaxFaults} \subseteq Nat

VARIABLES
  secret,    \* the DPAPI file of each PC: its device token, 0 for none
  config,    \* its community config row: enabled or not, the policy accepted
  queue,     \* its sync records: the token they were queued under, 0 for none
  session,   \* the operation that holds CommunityClient._lock
  members,   \* hub: row -> name, policy_version, disabled_at, role
  invites,   \* hub: row -> target member's row or 0, uses (used_at is set
             \* by the first, later ones show only to the properties), revoked_at
  devices,   \* hub: row -> token, member's row, revoked_at
  requests,  \* requests the hub is working on
  joins,     \* enrolments sent so far; its number names an enrolment's token
  commands,  \* revocations and deletions so far
  faults     \* faults so far

disk == <<secret, config, queue>>
hub  == <<members, invites, devices>>
vars == <<disk, session, hub, requests, joins, commands, faults>>

Policies == {"1", "2"}
Unpaired == [enabled |-> FALSE, consent |-> "1"]
\* left (a history): a leave of this pairing has ended early; one that ends as it should
\* has gone through LeaveErase.
Idle     == [pc |-> "idle", token |-> 0, name |-> Host, policy |-> "1", answer |-> "none",
             left |-> FALSE]
Row(name, policy) == [name |-> name, policy |-> policy, disabled |-> FALSE,
                      owner |-> name = Host]

Init ==
  /\ secret = [c \in Clients |-> 0] /\ queue = [c \in Clients |-> 0]
  /\ config = [c \in Clients |-> Unpaired]
  /\ session = [c \in Clients |-> Idle]
  /\ members = [row \in {1} |-> Row(Host, "2")]
  /\ invites = [row \in {} |-> 0] /\ devices = [row \in {} |-> 0]
  /\ requests = {} /\ joins = 0 /\ commands = 0 /\ faults = 0

With(table, row, v) == [x \in DOMAIN table \cup {row} |-> IF x = row THEN v ELSE table[x]]
Keep(table, P(_)) == [x \in {y \in DOMAIN table : P(y)} |-> table[x]]
NewRow(table) == IF DOMAIN table = {} THEN 1 ELSE 1 + Max(DOMAIN table)
Fault == faults < MaxFaults /\ faults' = faults + 1

-----------------------------------------------------------------------------
(* The PC.                                                                   *)

Request(c, op, token) ==
  [op |-> op, from |-> c, awaited |-> TRUE, token |-> token, invite |-> 0, name |-> Host,
   policy |-> "2", loaded |-> "1", phase |-> "read", member |-> 0, device |-> 0,
   disturbed |-> FALSE]

At(c, pc) == session[c].pc = pc
Goto(c, pc) == session' = [session EXCEPT ![c].pc = pc]
End(c, name, left) == session' = [session EXCEPT ![c] = [Idle EXCEPT !.name = name, !.left = left]]
Stop(c) == End(c, session[c].name, session[c].left)
Paired(c) == config[c].enabled /\ secret[c] # 0

\* join refuses when anything is left of a pairing.
JoinSend(c, invite, name, policy) ==
  /\ At(c, "idle") /\ ~config[c].enabled /\ secret[c] = 0
  /\ joins < MaxJoins /\ joins' = joins + 1
  /\ requests' = requests \cup {[Request(c, "enroll", joins') EXCEPT
                                   !.invite = invite, !.name = name, !.policy = policy]}
  /\ session' = [session EXCEPT ![c] = [Idle EXCEPT !.pc = "join", !.token = joins',
                                                    !.name = name, !.policy = policy]]
  /\ UNCHANGED <<disk, hub, commands, faults>>

JoinSaveSecret(c) ==
  /\ At(c, "join") /\ session[c].answer = "ok"
  /\ secret' = [secret EXCEPT ![c] = session[c].token]
  /\ Goto(c, "joinConfig")
  /\ UNCHANGED <<config, queue, hub, requests, joins, commands, faults>>

JoinSaveConfig(c) ==
  /\ At(c, "joinConfig")
  /\ config' = [config EXCEPT ![c] = [enabled |-> TRUE, consent |-> session[c].policy]]
  /\ Goto(c, "joinQueue")
  /\ UNCHANGED <<secret, queue, hub, requests, joins, commands, faults>>

\* The records of an earlier pairing are deleted, then the tournaments queued again.
JoinQueue(c) ==
  /\ At(c, "joinQueue")
  /\ queue' = [queue EXCEPT ![c] = secret[c]]
  /\ Stop(c)
  /\ UNCHANGED <<secret, config, hub, requests, joins, commands, faults>>

\* status, sync and the shared views queue what is missing, under the secret they find.
Enqueue(c) ==
  /\ At(c, "idle") /\ Paired(c) /\ queue[c] = 0
  /\ queue' = [queue EXCEPT ![c] = secret[c]]
  /\ UNCHANGED <<secret, config, session, hub, requests, joins, commands, faults>>

\* Mutant: the hub is not told.
LeaveLocally(c) ==
  /\ At(c, "idle") /\ (config[c].enabled \/ secret[c] # 0)
  /\ session' = [session EXCEPT ![c].pc = "erase", ![c].token = secret[c],
                                ![c].answer = "none"]
  /\ UNCHANGED <<disk, hub, requests, joins, commands, faults>>

\* Where nothing is left of a pairing, leave changes nothing.
LeaveSend(c) ==
  /\ At(c, "idle") /\ (config[c].enabled \/ secret[c] # 0)
  /\ session' = [session EXCEPT ![c].pc = IF Paired(c) THEN "leave" ELSE "erase",
                                ![c].token = secret[c], ![c].answer = "none"]
  /\ requests' = IF Paired(c) THEN requests \cup {Request(c, "revoke", secret[c])} ELSE requests
  /\ UNCHANGED <<disk, hub, joins, commands, faults>>

LeaveAnswered(c) ==
  /\ At(c, "leave") /\ session[c].answer # "none"
  /\ Goto(c, "erase")
  /\ UNCHANGED <<disk, hub, requests, joins, commands, faults>>

LeaveErase(c) ==
  /\ At(c, "erase")
  /\ secret' = [secret EXCEPT ![c] = 0]
  /\ Goto(c, "commit")
  /\ UNCHANGED <<config, queue, hub, requests, joins, commands, faults>>

\* Mutant: the records stay.
LeaveKeepsQueue(c) ==
  /\ At(c, "commit")
  /\ config' = [config EXCEPT ![c] = Unpaired]
  /\ End(c, Host, FALSE)
  /\ UNCHANGED <<secret, queue, hub, requests, joins, commands, faults>>

\* Both record tables and the config row go in one transaction.
LeaveCommit(c) ==
  /\ At(c, "commit")
  /\ config' = [config EXCEPT ![c] = Unpaired]
  /\ queue' = [queue EXCEPT ![c] = 0]
  /\ End(c, Host, FALSE)
  /\ UNCHANGED <<secret, hub, requests, joins, commands, faults>>

ConsentSend(c) ==
  /\ At(c, "idle") /\ Paired(c)
  /\ requests' = requests \cup {Request(c, "consent", secret[c])}
  /\ session' = [session EXCEPT ![c].pc = "consent", ![c].answer = "none"]
  /\ UNCHANGED <<disk, hub, joins, commands, faults>>

ConsentSave(c) ==
  /\ At(c, "consent") /\ session[c].answer = "ok"
  /\ config' = [config EXCEPT ![c].consent = "2"]
  /\ Stop(c)
  /\ UNCHANGED <<secret, queue, hub, requests, joins, commands, faults>>

\* join and upgrade_consent end on any other answer.
Refused(c) ==
  /\ session[c].pc \in {"join", "consent"} /\ session[c].answer = "no"
  /\ Stop(c)
  /\ UNCHANGED <<disk, hub, requests, joins, commands, faults>>

Unawait(c) == {[r EXCEPT !.awaited = r.awaited /\ r.from # c] : r \in requests}

\* No answer comes: the same as a refusal, but the hub may act all the same.
Timeout(c) ==
  /\ session[c].pc \in {"join", "consent", "leave"} /\ session[c].answer = "none"
  /\ Fault
  /\ requests' = Unawait(c)
  /\ IF At(c, "leave") THEN session' = [session EXCEPT ![c].answer = "no"] ELSE Stop(c)
  /\ UNCHANGED <<disk, hub, joins, commands>>

\* ensure_community_post_session raises between the answer and what it is used for.
GuardRaises(c) ==
  /\ \/ session[c].pc \in {"join", "consent"} /\ session[c].answer = "ok"
     \/ At(c, "leave") /\ session[c].answer # "none"
  /\ Fault
  /\ End(c, session[c].name, At(c, "leave"))
  /\ UNCHANGED <<disk, hub, requests, joins, commands>>

Crash(c) ==
  /\ session[c].pc # "idle"
  /\ Fault
  /\ requests' = Unawait(c)
  /\ Stop(c)
  /\ UNCHANGED <<disk, hub, joins, commands>>

-----------------------------------------------------------------------------
(* The hub's handlers.                                                       *)

Reply(r, answer) ==
  /\ requests' = requests \ {r}
  /\ session' = IF r.awaited THEN [session EXCEPT ![r.from].answer = answer] ELSE session

Read(r, next) ==
  /\ requests' = (requests \ {r}) \cup {next}
  /\ UNCHANGED session

Open(row) == row \in DOMAIN invites /\ invites[row].uses = 0 /\ ~invites[row].revoked

EnrollRead(r) ==
  /\ r.op = "enroll" /\ r.phase = "read"
  /\ IF ~Open(r.invite) THEN Reply(r, "no")
     ELSE Read(r, [r EXCEPT !.member = invites[r.invite].target,
                            !.phase = IF invites[r.invite].target = 0 THEN "create"
                                      ELSE "target"])
  /\ UNCHANGED <<disk, hub, joins, commands, faults>>

\* Mutant: whoever holds the invitation is the member it is for.
TargetAnyName(r) ==
  /\ r.op = "enroll" /\ r.phase = "target"
  /\ IF r.member \in DOMAIN members /\ ~members[r.member].disabled
     THEN Read(r, [r EXCEPT !.phase = "claim", !.loaded = members[r.member].policy])
     ELSE Reply(r, "no")
  /\ UNCHANGED <<disk, hub, joins, commands, faults>>

\* The member the invitation is for: active, and of that very name.
EnrollTarget(r) ==
  /\ r.op = "enroll" /\ r.phase = "target"
  /\ IF /\ r.member \in DOMAIN members
        /\ ~members[r.member].disabled
        /\ members[r.member].name = r.name
     THEN Read(r, [r EXCEPT !.phase = "claim", !.loaded = members[r.member].policy])
     ELSE Reply(r, "no")
  /\ UNCHANGED <<disk, hub, joins, commands, faults>>

Enrolled(r, row) ==
  /\ invites' = [invites EXCEPT ![r.invite].uses = @ + 1]
  /\ devices' = With(devices, NewRow(devices),
                     [token |-> r.token, member |-> row, revoked |-> FALSE,
                      disturbed |-> r.disturbed])
  /\ Reply(r, "ok")

\* Mutant: the invitation is claimed whatever its state by now.
EnrollUnconditionally(r) ==
  /\ r.op = "enroll" /\ r.phase = "create"
  /\ IF r.invite \in DOMAIN invites /\ \A row \in DOMAIN members : members[row].name # r.name
     THEN LET row == NewRow(members)
          IN  members' = With(members, row, Row(r.name, r.policy)) /\ Enrolled(r, row)
     ELSE Reply(r, "no") /\ UNCHANGED hub
  /\ UNCHANGED <<disk, joins, commands, faults>>

\* Mutant: names are not unique.
EnrollAnyName(r) ==
  /\ r.op = "enroll" /\ r.phase = "create"
  /\ IF Open(r.invite)
     THEN LET row == NewRow(members)
          IN  members' = With(members, row, Row(r.name, r.policy)) /\ Enrolled(r, row)
     ELSE Reply(r, "no") /\ UNCHANGED hub
  /\ UNCHANGED <<disk, joins, commands, faults>>

\* A new member: its name is unique, and the claim of the invitation conditional.
EnrollCreate(r) ==
  /\ r.op = "enroll" /\ r.phase = "create"
  /\ IF Open(r.invite) /\ \A row \in DOMAIN members : members[row].name # r.name
     THEN LET row == NewRow(members)
          IN  members' = With(members, row, Row(r.name, r.policy)) /\ Enrolled(r, row)
     ELSE Reply(r, "no") /\ UNCHANGED hub
  /\ UNCHANGED <<disk, joins, commands, faults>>

\* An UPDATE writes the policy only if it is not the one the row was loaded with.
Updated(r) == [members EXCEPT ![r.member].policy = IF r.policy = r.loaded THEN @ ELSE r.policy]

\* Another device of the member read before, whose row may be another member's by now.
EnrollClaim(r) ==
  /\ r.op = "enroll" /\ r.phase = "claim"
  /\ IF Open(r.invite) /\ r.member \in DOMAIN members
     THEN members' = Updated(r) /\ Enrolled(r, r.member)
     ELSE Reply(r, "no") /\ UNCHANGED hub
  /\ UNCHANGED <<disk, joins, commands, faults>>

Active(d) == ~devices[d].revoked /\ ~members[devices[d].member].disabled
DevicesOf(token) == {d \in DOMAIN devices : devices[d].token = token}

\* authenticate_device, for the two routes that write about the account itself.
Authenticate(r) ==
  /\ r.op # "enroll" /\ r.phase = "read"
  /\ \/ \E d \in DevicesOf(r.token) :
          /\ Active(d)
          /\ Read(r, [r EXCEPT !.phase = "write", !.device = d, !.member = devices[d].member,
                               !.loaded = members[devices[d].member].policy])
     \/ (\A d \in DevicesOf(r.token) : ~Active(d)) /\ Reply(r, "no")
  /\ UNCHANGED <<disk, hub, joins, commands, faults>>

\* Mutant: the consent is recorded for whom the request names, not for who sent it.
ConsentForAny(r) ==
  /\ r.op = "consent" /\ r.phase = "write"
  /\ \E row \in DOMAIN members : members' = [members EXCEPT ![row].policy = "2"]
  /\ Reply(r, "ok")
  /\ UNCHANGED <<disk, invites, devices, joins, commands, faults>>

\* An UPDATE by row number: none left is an error (StaleDataError).
ConsentWrite(r) ==
  /\ r.op = "consent" /\ r.phase = "write"
  /\ IF r.member \in DOMAIN members
     THEN members' = Updated(r) /\ Reply(r, "ok")
     ELSE UNCHANGED members /\ Reply(r, "no")
  /\ UNCHANGED <<disk, invites, devices, joins, commands, faults>>

\* Mutant: the answer is given, the transaction is not committed.
RevokeUncommitted(r) ==
  /\ r.op = "revoke" /\ r.phase = "write"
  /\ Reply(r, "ok")
  /\ UNCHANGED <<disk, hub, joins, commands, faults>>

RevokeWrite(r) ==
  /\ r.op = "revoke" /\ r.phase = "write"
  /\ IF r.device \in DOMAIN devices
     THEN devices' = [devices EXCEPT ![r.device].revoked = TRUE] /\ Reply(r, "ok")
     ELSE UNCHANGED devices /\ Reply(r, "no")
  /\ UNCHANGED <<disk, members, invites, joins, commands, faults>>

\* 429, 503 or a lock held for too long: nothing is written.
HubRefuse(r) ==
  /\ Fault
  /\ Reply(r, "no")
  /\ UNCHANGED <<disk, hub, joins, commands>>

-----------------------------------------------------------------------------
(* The host's commands, in a process of their own.                           *)

BootstrapOwner ==
  /\ \A row \in DOMAIN members : ~members[row].owner
  /\ members' = With(members, NewRow(members), Row(Host, "2"))
  /\ UNCHANGED <<disk, session, invites, devices, requests, joins, commands, faults>>

CreateInvite(target) ==
  /\ \E row \in DOMAIN members : members[row].owner /\ ~members[row].disabled
  /\ target # 0 => ~members[target].disabled
  /\ NewRow(invites) <= MaxInvites
  /\ invites' = With(invites, NewRow(invites), [target |-> target, uses |-> 0,
                                                revoked |-> FALSE])
  /\ UNCHANGED <<disk, session, members, devices, requests, joins, commands, faults>>

Command == commands < MaxCommands /\ commands' = commands + 1

Revoke ==
  /\ Command
  /\ \/ /\ \E row \in DOMAIN invites :
             ~invites[row].revoked /\ invites' = [invites EXCEPT ![row].revoked = TRUE]
        /\ UNCHANGED <<members, devices>>
     \/ /\ \E row \in DOMAIN devices :
             ~devices[row].revoked /\ devices' = [devices EXCEPT ![row].revoked = TRUE]
        /\ UNCHANGED <<members, invites>>
     \/ /\ \E row \in DOMAIN members :
             ~members[row].disabled /\ members' = [members EXCEPT ![row].disabled = TRUE]
        /\ UNCHANGED <<invites, devices>>
  /\ UNCHANGED <<disk, session, requests, joins, faults>>

\* The devices, the invitations for the member and those the owner has made go with it.
DeleteMember(row) ==
  /\ Command
  /\ members' = Keep(members, LAMBDA m : m # row)
  /\ devices' = Keep(devices, LAMBDA d : devices[d].member # row)
  /\ invites' = Keep(invites, LAMBDA i : ~members[row].owner /\ invites[i].target # row)
  /\ requests' = {[r EXCEPT !.disturbed = r.phase # "read"] : r \in requests}
  /\ UNCHANGED <<disk, session, joins, faults>>

-----------------------------------------------------------------------------
ClientStep(c) ==
  \/ \E i \in DOMAIN invites, n \in Names, p \in Policies : JoinSend(c, i, n, p)
  \/ JoinSaveSecret(c) \/ JoinSaveConfig(c) \/ JoinQueue(c) \/ Enqueue(c)
  \/ LeaveSend(c) \/ LeaveAnswered(c) \/ LeaveErase(c) \/ LeaveCommit(c)
  \/ ConsentSend(c) \/ ConsentSave(c) \/ Refused(c)
  \/ Timeout(c) \/ GuardRaises(c) \/ Crash(c)

HubStep(r) ==
  \/ EnrollRead(r) \/ EnrollTarget(r) \/ EnrollCreate(r) \/ EnrollClaim(r)
  \/ Authenticate(r) \/ ConsentWrite(r) \/ RevokeWrite(r)
  \/ HubRefuse(r)

HostStep ==
  \/ BootstrapOwner
  \/ \E target \in DOMAIN members \cup {0} : CreateInvite(target)
  \/ Revoke
  \/ \E row \in DOMAIN members : DeleteMember(row)

Next ==
  \/ \E c \in Clients : ClientStep(c)
  \/ \E r \in requests : HubStep(r)
  \/ HostStep

Spec == Init /\ [][Next]_vars

-----------------------------------------------------------------------------
Pcs == {"idle", "join", "joinConfig", "joinQueue", "leave", "erase", "commit", "consent"}

\* Types, and the constraints of the hub's tables: names and tokens are unique, devices
\* and invitations refer to members that exist.
TypeOK ==
  /\ secret \in [Clients -> 0..MaxJoins] /\ queue \in [Clients -> 0..MaxJoins]
  /\ config \in [Clients -> [enabled : BOOLEAN, consent : Policies]]
  /\ \A c \in Clients : session[c].pc \in Pcs /\ session[c].answer \in {"none", "ok", "no"}
  /\ \A row, other \in DOMAIN members :
       members[row].name = members[other].name => row = other
  /\ \A d, other \in DOMAIN devices : devices[d].token = devices[other].token => d = other
  /\ \A d \in DOMAIN devices : devices[d].member \in DOMAIN members
  /\ \A i \in DOMAIN invites : invites[i].target \in DOMAIN members \cup {0}
  /\ joins \in 0..MaxJoins /\ commands \in 0..MaxCommands /\ faults \in 0..MaxFaults

\* README.md:187, "a usage unique": an invitation enrols one device, although handlers that
\* run together have all read it as unused.
InviteUsedOnce == \A i \in DOMAIN invites : invites[i].uses <= 1

\* A PC's token speaks for the member whose name was given at join, and for no other,
\* unless the host deleted a member while the enrolment was being served (enroll).
TokenNamesItsMember ==
  \A c \in Clients : \A d \in DevicesOf(secret[c]) :
    members[devices[d].member].name = session[c].name \/ devices[d].disturbed

\* What a PC has queued belongs to its present pairing: no crash in join or leave carries
\* the records of one account over to the next.
RecordsFollowPairing ==
  \A c \in Clients : queue[c] # 0 => config[c].enabled /\ secret[c] \in {0, queue[c]}

Holds(c, token) == secret[c] = token \/ (~At(c, "idle") /\ session[c].token = token)
Orphans == {d \in DOMAIN devices : Active(d) /\ \A c \in Clients : ~Holds(c, devices[d].token)}

\* A device that can still log in without any PC that holds its token is the price of one
\* lost answer, crash, refusal or guard each: nothing else strands one.
EachOrphanHasItsFault == Cardinality(Orphans) <= faults

\* When leave has been told that the device is revoked, it is (or gone with its member).
ConfirmedRevocationHolds ==
  \A c \in Clients :
    (session[c].pc \in {"erase", "commit"} /\ session[c].answer = "ok") =>
      \A d \in DevicesOf(session[c].token) : devices[d].revoked

\* OPPONENT_DATA_POLICY.md:23: a member's policy becomes 2 only by a request of that member,
\* with its own token or under its own name, which accepts it; deletions meanwhile apart.
PolicyIsAccepted ==
  [][\A row \in DOMAIN members' :
       (members'[row].policy = "2" /\ row \in DOMAIN members /\ members[row].policy = "1") =>
         \E r \in requests \ requests' :
           /\ r.policy = "2"
           /\ \/ r.op = "enroll" /\ members'[row].name = r.name
              \/ r.op = "consent" /\ \E d \in DevicesOf(r.token) : devices[d].member = row
              \/ r.disturbed]_vars

\* README.md:232: leave "efface toujours le jeton DPAPI"; test_community_client.py:464, "leave
\* always deletes local secret".
LeaveErasesToken == \A c \in Clients : session[c].left => secret[c] = 0
=============================================================================
