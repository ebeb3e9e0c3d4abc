-------------------------------- MODULE HubRun --------------------------------
(***************************************************************************)
(* One run of the community hub: community_hub/runner.py and the start of    *)
(* create_hub_app (api.py) on the main thread, the process guard on its own, *)
(* and the requests that pass the rate limiter and the process_interlock     *)
(* middleware.  What a handler does is in CommunitySync, CommunityPairing    *)
(* and OpponentRegistry.                                                    *)
(***************************************************************************)
EXTENDS Naturals, ProcessGuard, RateLimiter

CONSTANTS
  Opponents,  \* number of opponents whose names are decrypted at the start
  Handlers    \* bound: handlers at work at a time

ASSUME HubAssumption == {Opponents, Handlers} \subseteq Nat

VARIABLES
  boot,        \* the main thread: run, create_hub_app, uvicorn
  server,      \* run's variable: a uvicorn.Server was made
  shouldExit,  \* Server.should_exit
  checked,     \* names that create_hub_app has decrypted
  late,        \* history: of these, once the latch was tripped
  work         \* handlers at work

hub_vars == <<server, shouldExit, checked, late, work>>
vars == <<guard_vars, limiter_vars, boot, hub_vars>>

Running == boot # "exit"
At(pc) == boot = pc

Init ==
  /\ GuardInit /\ LimiterInit
  /\ boot = "preflight" /\ server = FALSE /\ shouldExit = FALSE
  /\ checked = 0 /\ late = 0 /\ work = 0

Unserved == UNCHANGED <<limiter_vars, work>>

-----------------------------------------------------------------------------
(* run, on the main thread.                                                  *)

Require(pc, next, refused) ==
  /\ At(pc)
  /\ \E detected \in BOOLEAN :
       /\ RequireAbsent(detected)
       /\ boot' = IF blocked' THEN refused ELSE next
  /\ UNCHANGED hub_vars /\ Unserved

Preflight == Require("preflight", "configure", "exit")

\* A configuration that is refused ends the run.
Configure ==
  /\ At("configure")
  /\ boot' \in {"require", "exit"}
  /\ UNCHANGED <<guard_vars, hub_vars>> /\ Unserved

RequireConfigured == Require("require", "monitor", "exit")

\* ProcessGuardMonitor.start: a check on this thread, whose callback finds no server.
StartMonitor ==
  /\ At("monitor")
  /\ \E detected \in BOOLEAN :
       /\ Probe(detected)
       /\ LET trips == detected \/ blocked
          IN  /\ blocked' = trips /\ notified' = trips
              /\ mon' = IF trips THEN "none" ELSE "poll"
              /\ boot' = IF trips THEN "unwind" ELSE "initialize"
  /\ UNCHANGED <<winamax, monStop, hub_vars>> /\ Unserved

InitializeDatabase == Require("initialize", "validate", "unwind")

\* Mutant: one look at the latch for the whole table.
LookAheadOnce ==
  /\ At("validate")
  /\ boot' = IF ~EnsureAllowed /\ checked = 0 THEN "unwind"
             ELSE IF checked < Opponents THEN "decrypt" ELSE "create"
  /\ UNCHANGED <<guard_vars, hub_vars>> /\ Unserved

\* create_hub_app looks at the latch before each name and once more after the last.
LookAhead ==
  /\ At("validate")
  /\ boot' = IF ~EnsureAllowed THEN "unwind"
             ELSE IF checked < Opponents THEN "decrypt" ELSE "create"
  /\ UNCHANGED <<guard_vars, hub_vars>> /\ Unserved

\* A name the keys do not fit ends the run.
Decrypt ==
  /\ At("decrypt")
  /\ checked' = checked + 1
  /\ late' = late + (IF blocked THEN 1 ELSE 0)
  /\ boot' \in {"validate", "unwind"}
  /\ UNCHANGED <<guard_vars, server, shouldExit>> /\ Unserved

RequireCreated == Require("create", "server", "unwind")

CreateServer ==
  /\ At("server")
  /\ server' = TRUE /\ boot' = "last"
  /\ UNCHANGED <<guard_vars, shouldExit, checked, late>> /\ Unserved

\* Mutant: the server runs, whatever the latch says.
RunAtOnce ==
  /\ At("last")
  /\ boot' = "bind"
  /\ UNCHANGED <<guard_vars, hub_vars>> /\ Unserved

\* The last look, for a callback that came before there was a server.
LastLook ==
  /\ At("last")
  /\ boot' = IF EnsureAllowed THEN "bind" ELSE "unwind"
  /\ UNCHANGED <<guard_vars, hub_vars>> /\ Unserved

\* uvicorn listens unless it is to exit already.
Bind ==
  /\ At("bind")
  /\ boot' = IF shouldExit THEN "unwind" ELSE "serving"
  /\ UNCHANGED <<guard_vars, hub_vars>> /\ Unserved

\* Ctrl+C.
Interrupt ==
  /\ boot \in {"bind", "serving"} /\ ~shouldExit
  /\ shouldExit' = TRUE
  /\ UNCHANGED <<guard_vars, boot, server, checked, late>> /\ Unserved

\* uvicorn leaves its loop when told, and waits for the requests under way.
Shutdown ==
  /\ \/ At("serving") /\ shouldExit /\ boot' = "draining"
     \/ At("draining") /\ work = 0 /\ boot' = "unwind"
  /\ UNCHANGED <<guard_vars, hub_vars>> /\ Unserved

Unwind ==
  /\ At("unwind")
  /\ monStop' = TRUE /\ boot' = "exit"
  /\ UNCHANGED <<winamax, blocked, mon, notified, hub_vars>> /\ Unserved

\* stop_server, the callback, on the monitor's thread; without a server it does nothing.
CallbackStopsServer ==
  /\ Running /\ mon = "callback"
  /\ shouldExit' = (shouldExit \/ server)
  /\ mon' = "dead"
  /\ UNCHANGED <<winamax, blocked, notified, monStop, boot, server, checked, late>> /\ Unserved

-----------------------------------------------------------------------------
(* The requests: the rate limiter outermost, then process_interlock.         *)

Request(k) ==
  /\ At("serving") /\ work < Handlers
  /\ Check(k)
  /\ work' = IF Allowed /\ EnsureAllowed THEN work + 1 ELSE work
  /\ UNCHANGED <<guard_vars, boot, server, shouldExit, checked, late>>

\* Whether its answer or the latch's 503 is sent, the handler has ended.
Answer ==
  /\ Running /\ work > 0
  /\ work' = work - 1
  /\ UNCHANGED <<guard_vars, limiter_vars, boot, server, shouldExit, checked, late>>

TimePasses ==
  /\ At("serving") /\ Tick
  /\ UNCHANGED <<guard_vars, boot, hub_vars>>

-----------------------------------------------------------------------------
MainThread ==
  \/ Preflight \/ Configure \/ RequireConfigured \/ StartMonitor \/ InitializeDatabase
  \/ LookAhead \/ Decrypt \/ RequireCreated \/ CreateServer \/ LastLook \/ Bind
  \/ Shutdown \/ Unwind

Guarded == UNCHANGED <<boot, hub_vars>> /\ Unserved

Monitor ==
  \/ Running /\ Guarded /\ (Poll \/ Notify \/ MonitorEnds)
  \/ CallbackStopsServer

Environment ==
  \/ Running /\ Guarded /\ (WinamaxToggles \/ ProbeFails)
  \/ Interrupt \/ TimePasses \/ \E k \in Keys : Request(k)

Next == MainThread \/ Monitor \/ Answer \/ Environment

Spec == Init /\ [][Next]_vars

\* Every thread goes on while it can; the game, the user and the callers do as they like.
Fairness == WF_vars(MainThread) /\ WF_vars(Monitor) /\ WF_vars(Answer)

FairSpec == Spec /\ Fairness

-----------------------------------------------------------------------------
Booting == {"preflight", "configure", "require", "monitor", "initialize", "validate",
            "decrypt", "create", "server", "last", "bind"}

\* Types; the table holds a key once, and counts up to its limit; there are handlers only
\* while there is a server.
TypeOK ==
  /\ LimiterTypes
  /\ boot \in Booting \cup {"serving", "draining", "unwind", "exit"}
  /\ {winamax, blocked, notified, monStop, server, shouldExit} \subseteq BOOLEAN
  /\ mon \in {"none", "poll", "notify", "callback", "dead"}
  /\ checked \in 0..Opponents /\ late \in 0..checked
  /\ work \in 0..Handlers /\ (work > 0 => server /\ boot \in {"serving", "draining"})

\* Once the game is noticed, the check of the encryption key stops instead of going through
\* the whole table (api.py:109): at most the name under way is still decrypted.
AtMostOneLateName == late <= 1

\* README.md:14: once tripped, the latch ends the hub, however far its start has come and
\* although the callback ignores a server that does not exist yet.
TripStopsHub == blocked ~> boot = "exit"
=============================================================================
