------------------------------ MODULE BackendRun ------------------------------
(***************************************************************************)
(* One run of the local backend: runner.py and the lifespan of main.py on    *)
(* the main thread, the process guard on its own, the history watcher        *)
(* (workers/history_watcher.py) with its observer and its import worker, and *)
(* a request of the user that rescans (POST /import/rescan).  What the       *)
(* importer (services/importer.py) stores is left out: a commit is counted.  *)
(***************************************************************************)
EXTENDS Naturals, ProcessGuard

CONSTANT MaxCommits  \* bound: commits by one importer

ASSUME BackendAssumption == MaxCommits \in Nat

VARIABLES
  boot,        \* the main thread: runner.run, lifespan, uvicorn
  shouldExit,  \* uvicorn Server.should_exit
  watcher,     \* lifespan's variable: a HistoryWatcher was made
  observer,    \* the watchdog observer: "off", "on", "stopped"
  started,     \* HistoryWatcher._observer_started
  stopAsked,   \* HistoryWatcher._observer_stop_requested
  stop,        \* HistoryWatcher._stop
  wake,        \* HistoryWatcher._wake
  imp,         \* the importing threads: the watcher's worker, a request's thread
  commits,     \* commits of each importer
  late         \* history: commits of each importer after the latch was tripped

watcher_vars == <<watcher, observer, started, stopAsked, stop, wake>>
importer_vars == <<imp, commits, late>>
vars == <<guard_vars, boot, shouldExit, watcher_vars, importer_vars>>

Importers == {"worker", "request"}
Running == boot # "exit"
At(pc) == boot = pc

Init ==
  /\ GuardInit
  /\ boot = "preflight" /\ shouldExit = FALSE
  /\ watcher = FALSE /\ observer = "off" /\ started = FALSE /\ stopAsked = FALSE
  /\ stop = FALSE /\ wake = FALSE
  /\ imp = [i \in Importers |-> IF i = "worker" THEN "none" ELSE "idle"]
  /\ commits = [i \in Importers |-> 0] /\ late = [i \in Importers |-> 0]

-----------------------------------------------------------------------------
(* HistoryWatcher.request_stop, under _stop_lock; the observer is told after  *)
(* the lock is released, and only by the caller that asked first.             *)

RequestStop ==
  /\ stop' = TRUE /\ wake' = TRUE
  /\ stopAsked' = (stopAsked \/ started)

MustStopObserver == started /\ ~stopAsked
StopObserver == observer' = IF observer = "on" THEN "stopped" ELSE observer

-----------------------------------------------------------------------------
(* The main thread.                                                          *)

\* A require_winamax_absent on the way up.
Require(pc, next, refused) ==
  /\ At(pc)
  /\ \E detected \in BOOLEAN :
       /\ RequireAbsent(detected)
       /\ boot' = IF blocked' THEN refused ELSE next
  /\ UNCHANGED <<shouldExit, watcher_vars, importer_vars>>

Preflight == Require("preflight", "lifespan", "exit")
Lifespan == Require("lifespan", "database", "unwind")
InitializeDatabase == Require("database", "monitor", "unwind")

\* Mutant: one check, and no thread.
CheckOnce ==
  /\ At("monitor")
  /\ \E detected \in BOOLEAN :
       /\ Probe(detected)
       /\ LET trips == detected \/ blocked
          IN  /\ blocked' = trips /\ notified' = trips
              /\ shouldExit' = (shouldExit \/ trips)
              /\ boot' = IF trips THEN "unwind" ELSE "newWatcher"
  /\ UNCHANGED <<winamax, mon, monStop, watcher_vars, importer_vars>>

\* ProcessGuardMonitor.start: a check on this thread, whose callback finds no watcher.
StartMonitor ==
  /\ At("monitor")
  /\ \E detected \in BOOLEAN :
       /\ Probe(detected)
       /\ LET trips == detected \/ blocked
          IN  /\ blocked' = trips /\ notified' = trips
              /\ shouldExit' = (shouldExit \/ trips)
              /\ mon' = IF trips THEN "none" ELSE "poll"
              /\ boot' = IF trips THEN "unwind" ELSE "newWatcher"
  /\ UNCHANGED <<winamax, monStop, watcher_vars, importer_vars>>

\* WXA_DISABLE_WATCHER leaves the watcher out.
NewWatcher ==
  /\ At("newWatcher")
  /\ \/ watcher' = TRUE /\ boot' = "requireWatcher"
     \/ watcher' = FALSE /\ boot' = "ready"
  /\ UNCHANGED <<guard_vars, shouldExit, observer, started, stopAsked, stop, wake,
                 importer_vars>>

RequireWatcher == Require("requireWatcher", "startWatcher", "unwind")

\* HistoryWatcher.start: refused when the latch is tripped or it was stopped already.
StartWatcher ==
  /\ At("startWatcher")
  /\ boot' = IF EnsureAllowed /\ ~stop THEN "schedule" ELSE "unwind"
  /\ UNCHANGED <<guard_vars, shouldExit, watcher_vars, importer_vars>>

\* With no history directory there is nothing to observe.
Schedule ==
  /\ At("schedule")
  /\ IF ~EnsureAllowed THEN boot' = "unwind" ELSE boot' \in {"observe", "observed"}
  /\ UNCHANGED <<guard_vars, shouldExit, watcher_vars, importer_vars>>

StartObserver ==
  /\ At("observe")
  /\ observer' = "on" /\ boot' = "observing"
  /\ UNCHANGED <<guard_vars, shouldExit, watcher, started, stopAsked, stop, wake, importer_vars>>

ObserverStarted ==
  /\ At("observing")
  /\ started' = TRUE /\ boot' = "observed"
  /\ UNCHANGED <<guard_vars, shouldExit, watcher, observer, stopAsked, stop, wake, importer_vars>>

\* The last look at the latch before the worker exists, and its own clean-up.
StartWorker ==
  /\ At("observed")
  /\ IF EnsureAllowed
     THEN /\ imp' = [imp EXCEPT !["worker"] = "wait"] /\ wake' = TRUE /\ boot' = "ready"
          /\ UNCHANGED <<observer, stopAsked, stop>>
     ELSE /\ RequestStop /\ boot' = "unwind"
          /\ IF MustStopObserver THEN StopObserver ELSE UNCHANGED observer
          /\ UNCHANGED imp
  /\ UNCHANGED <<guard_vars, shouldExit, watcher, started, commits, late>>

\* The end of lifespan's startup; uvicorn then listens unless it is to exit already.
Serve ==
  /\ At("ready")
  /\ boot' = IF EnsureAllowed THEN "bind" ELSE "unwind"
  /\ UNCHANGED <<guard_vars, shouldExit, watcher_vars, importer_vars>>

Bind ==
  /\ At("bind")
  /\ boot' = IF shouldExit THEN "unwind" ELSE "serving"
  /\ UNCHANGED <<guard_vars, shouldExit, watcher_vars, importer_vars>>

\* Ctrl+C.
Interrupt ==
  /\ boot \notin {"preflight", "exit"} /\ ~shouldExit
  /\ shouldExit' = TRUE
  /\ UNCHANGED <<guard_vars, boot, watcher_vars, importer_vars>>

\* uvicorn leaves its loop when told, and waits for the requests under way.
Shutdown ==
  /\ \/ At("serving") /\ shouldExit /\ boot' = "draining"
     \/ At("draining") /\ imp["request"] = "idle" /\ boot' = "unwind"
  /\ UNCHANGED <<guard_vars, shouldExit, watcher_vars, importer_vars>>

\* Mutant: lifespan's clean-up forgets the watcher.
UnwindMonitorOnly ==
  /\ At("unwind")
  /\ monStop' = TRUE
  /\ boot' = "exit"
  /\ UNCHANGED <<winamax, blocked, mon, notified, shouldExit, watcher_vars, importer_vars>>

\* lifespan's finally: monitor.stop and watcher.stop; joins are bounded by a timeout.
Unwind ==
  /\ At("unwind")
  /\ monStop' = TRUE
  /\ IF watcher
     THEN RequestStop /\ IF MustStopObserver THEN StopObserver ELSE UNCHANGED observer
     ELSE UNCHANGED <<stop, wake, stopAsked, observer>>
  /\ boot' = "exit"
  /\ UNCHANGED <<winamax, blocked, mon, notified, shouldExit, watcher, started, importer_vars>>

-----------------------------------------------------------------------------
(* stop_application, the callback, on the monitor's thread.                   *)

\* Mutant: without a watcher there is nothing to stop.
CallbackNeedsWatcher ==
  /\ Running /\ mon = "callback"
  /\ IF watcher
     THEN /\ RequestStop
          /\ mon' = IF MustStopObserver THEN "observer" ELSE "shutdown"
     ELSE mon' = "dead" /\ UNCHANGED <<stop, wake, stopAsked>>
  /\ UNCHANGED <<winamax, blocked, notified, monStop, boot, shouldExit, watcher, observer,
                 started, importer_vars>>

CallbackStopsWatcher ==
  /\ Running /\ mon = "callback"
  /\ IF watcher
     THEN /\ RequestStop
          /\ mon' = IF MustStopObserver THEN "observer" ELSE "shutdown"
     ELSE mon' = "shutdown" /\ UNCHANGED <<stop, wake, stopAsked>>
  /\ UNCHANGED <<winamax, blocked, notified, monStop, boot, shouldExit, watcher, observer,
                 started, importer_vars>>

CallbackStopsObserver ==
  /\ Running /\ mon = "observer"
  /\ StopObserver /\ mon' = "shutdown"
  /\ UNCHANGED <<winamax, blocked, notified, monStop, boot, shouldExit, watcher, started,
                 stopAsked, stop, wake, importer_vars>>

\* request_backend_shutdown; watcher.stop() once more finds nothing left to do but join.
CallbackShutsDown ==
  /\ Running /\ mon = "shutdown"
  /\ shouldExit' = TRUE /\ mon' = "dead"
  /\ UNCHANGED <<winamax, blocked, notified, monStop, boot, watcher_vars, importer_vars>>

-----------------------------------------------------------------------------
(* The importers: rescan_all, called by the watcher's worker and by a request. *)

Importer(i, from, to) == Running /\ imp[i] = from /\ imp' = [imp EXCEPT ![i] = to]

\* A change in a history directory, seen by the observer.
FileEvent ==
  /\ Running /\ observer = "on" /\ ~wake
  /\ wake' = TRUE
  /\ UNCHANGED <<guard_vars, boot, shouldExit, watcher, observer, started, stopAsked, stop,
                 importer_vars>>

\* The worker wakes, by an event or after its 30 seconds.
WorkerWakes ==
  /\ Importer("worker", "wait", IF stop THEN "dead" ELSE "begin")
  /\ wake' = FALSE
  /\ UNCHANGED <<guard_vars, boot, shouldExit, watcher, observer, started, stopAsked, stop,
                 commits, late>>

RequestArrives ==
  /\ At("serving") /\ Importer("request", "idle", "begin") /\ EnsureAllowed
  /\ UNCHANGED <<guard_vars, boot, shouldExit, watcher_vars, commits, late>>

\* AnalysisForbiddenError: the request answers 503, the worker stops the watcher.
Forbidden(i) ==
  IF i = "request"
  THEN /\ imp' = [imp EXCEPT ![i] = "idle"]
       /\ UNCHANGED <<observer, stopAsked, stop, wake>>
  ELSE /\ imp' = [imp EXCEPT ![i] = "dead"]
       /\ RequestStop
       /\ IF MustStopObserver THEN StopObserver ELSE UNCHANGED observer

\* _ensure_analysis_allowed before the scan, before a file and after it was parsed.
Proceed(i, from, to) ==
  /\ Running /\ imp[i] = from
  /\ IF EnsureAllowed
     THEN imp' = [imp EXCEPT ![i] = to] /\ UNCHANGED <<observer, stopAsked, stop, wake>>
     ELSE Forbidden(i)
  /\ UNCHANGED <<guard_vars, boot, shouldExit, watcher, started, commits, late>>

BeginScan(i) == Proceed(i, "begin", "file")
ReadFile(i) == commits[i] < MaxCommits /\ Proceed(i, "file", "parsed")
\* _commit_if_allowed looks at the latch, then commits.
CheckCommit(i) == Proceed(i, "parsed", "commit")

Commit(i) ==
  /\ Importer(i, "commit", "file")
  /\ commits' = [commits EXCEPT ![i] = @ + 1]
  /\ late' = [late EXCEPT ![i] = @ + IF blocked THEN 1 ELSE 0]
  /\ UNCHANGED <<guard_vars, boot, shouldExit, watcher_vars>>

\* No file is left: the community sync (CommunitySync), which ends the same way.
EndScan(i) == Proceed(i, "file", IF i = "worker" THEN "wait" ELSE "idle")

-----------------------------------------------------------------------------
Startup ==
  \/ Preflight \/ Lifespan \/ InitializeDatabase \/ StartMonitor
  \/ NewWatcher \/ RequireWatcher \/ StartWatcher \/ Schedule
  \/ StartObserver \/ ObserverStarted \/ StartWorker \/ Serve \/ Bind

Monitor ==
  \/ Running /\ UNCHANGED <<boot, shouldExit, watcher_vars, importer_vars>>
             /\ (Poll \/ Notify \/ MonitorEnds)
  \/ CallbackStopsWatcher \/ CallbackStopsObserver \/ CallbackShutsDown

Import(i) == BeginScan(i) \/ ReadFile(i) \/ CheckCommit(i) \/ Commit(i) \/ EndScan(i)

Environment ==
  \/ Running /\ (WinamaxToggles \/ ProbeFails)
             /\ UNCHANGED <<boot, shouldExit, watcher_vars, importer_vars>>
  \/ FileEvent \/ Interrupt \/ RequestArrives

Next ==
  \/ Startup \/ Shutdown \/ Unwind
  \/ Monitor \/ WorkerWakes \/ (\E i \in Importers : Import(i))
  \/ Environment

Spec == Init /\ [][Next]_vars

\* Every thread goes on while it can; Winamax, the user and the files do as they like.
Fairness ==
  /\ WF_vars(Startup) /\ WF_vars(Shutdown) /\ WF_vars(Unwind)
  /\ WF_vars(Monitor)
  /\ \A i \in Importers : WF_vars(Import(i))

FairSpec == Spec /\ Fairness

-----------------------------------------------------------------------------
Booting == {"preflight", "lifespan", "database", "monitor", "newWatcher", "requireWatcher",
            "startWatcher", "schedule", "observe", "observing", "observed", "ready", "bind"}

\* Types; an observer is asked to stop only once it is started, a worker exists only with
\* a watcher (HistoryWatcher's fields, written by three threads).
TypeOK ==
  /\ (stopAsked => started) /\ (started => observer # "off")
  /\ imp["worker"] # "none" => watcher
  /\ {winamax, blocked, notified, monStop, shouldExit, watcher, started, stopAsked, stop,
      wake} \subseteq BOOLEAN
  /\ mon \in {"none", "poll", "notify", "callback", "observer", "shutdown", "dead"}
  /\ boot \in Booting \cup {"serving", "draining", "unwind", "exit"}
  /\ observer \in {"off", "on", "stopped"}
  /\ imp \in [Importers -> {"none", "idle", "wait", "begin", "file", "parsed", "commit",
                            "dead"}]
  /\ commits \in [Importers -> 0..MaxCommits] /\ late \in [Importers -> 0..MaxCommits]

\* README.md:261: only work already in flight finishes once the latch is tripped, one
\* commit of each importing thread at most (the look at the latch before each file, after
\* its parsing and before its commit).
AtMostOneLateCommit == \A i \in Importers : late[i] <= 1

\* A backend that listens although the latch is tripped has been told to exit, or the
\* monitor's thread still will: no trip falls between the checks made while starting and
\* the callback, which ignores a watcher that does not exist yet.
StopIsUnderWay ==
  (boot = "serving" /\ blocked) =>
    \/ shouldExit
    \/ ~monStop /\ mon \in {"poll", "notify", "callback", "observer", "shutdown"}

\* When the backend has ended, nobody observes the history directories any more, whoever
\* stopped the watcher and however far its start had come.
ObserverIsStopped == (boot = "exit" /\ mon # "observer") => observer # "on"

\* README.md:14: once tripped, the latch ends the backend, with no restart ...
TripStopsBackend == blocked ~> boot = "exit"

\* ... and Winamax, once it stays, trips the latch.
WinamaxStopsBackend == <>[]winamax => <>(boot = "exit")
=============================================================================
