--------------------------- MODULE BackendRunProofs ---------------------------
(***************************************************************************)
(* Proofs about BackendRun, for any bound on the commits: the latch is     *)
(* never lifted, a backend that listens has a monitor that will end it, no *)
(* observer outlives the backend, and each importer commits once at most   *)
(* after the latch was tripped.                                            *)
(***************************************************************************)
EXTENDS BackendRun, TLAPS

MonitorStates == {"none", "poll", "notify", "callback", "observer", "shutdown", "dead"}
ImporterStates == {"none", "idle", "wait", "begin", "file", "parsed", "commit", "dead"}
BootStates == Booting \cup {"serving", "draining", "unwind", "exit"}

Flags ==
  /\ winamax \in BOOLEAN /\ blocked \in BOOLEAN /\ notified \in BOOLEAN /\ monStop \in BOOLEAN
  /\ shouldExit \in BOOLEAN /\ watcher \in BOOLEAN /\ started \in BOOLEAN
  /\ stopAsked \in BOOLEAN /\ stop \in BOOLEAN /\ wake \in BOOLEAN

Values ==
  /\ mon \in MonitorStates /\ boot \in BootStates /\ observer \in {"off", "on", "stopped"}
  /\ imp \in [Importers -> ImporterStates]
  /\ commits \in [Importers -> 0..MaxCommits]
  /\ late \in [Importers -> Nat]

-----------------------------------------------------------------------------
(* The inductive invariant, beside the types in four parts.                                 *)

BeforeMonitor == {"preflight", "lifespan", "database", "monitor"}
BeforeWatcher == BeforeMonitor \cup {"newWatcher"}
BeforeObserver == BeforeWatcher \cup {"requireWatcher", "startWatcher", "schedule", "observe"}
BeforeWorker == BeforeObserver \cup {"observing", "observed"}
Watched == {"poll", "notify", "callback", "observer", "shutdown"}

\* How far the start has come says what exists of the watcher, its observer and its worker.
StartInv ==
  /\ boot \in BeforeObserver => observer = "off"
  /\ boot = "observing" => observer = "on" /\ ~started
  /\ boot \in BeforeWorker => imp["worker"] = "none"
  /\ boot \in BeforeWorker \ BeforeWatcher => watcher
  /\ observer # "off" => watcher
  /\ imp["worker"] # "none" => watcher

\* An observer that runs is either being started or can be asked to stop; whoever asks
\* stops it, at once or as the next step of the monitor's thread; after the end it was asked.
ObserverInv ==
  /\ stopAsked => started
  /\ started => observer # "off"
  /\ observer = "on" => started \/ boot = "observing"
  /\ mon = "observer" => stopAsked
  /\ stopAsked => observer = "stopped" \/ mon = "observer"
  /\ boot = "exit" => (started => stopAsked)

\* From the start of the monitor until the exit, it polls, or is on its way to end the
\* backend, or has told it to exit; it has notified nobody before it trips.
MonitorInv ==
  /\ monStop => boot = "exit"
  /\ boot \in BeforeMonitor => mon = "none"
  /\ mon \in {"poll", "notify"} => ~notified
  /\ boot \in BootStates \ (BeforeMonitor \cup {"draining", "unwind", "exit"})
       => shouldExit \/ mon \in Watched

\* A late commit is the last: its importer is before a look at the latch.
LateInv ==
  \A i \in Importers :
    /\ imp[i] \in {"parsed", "commit"} => commits[i] < MaxCommits
    /\ late[i] <= 1 /\ late[i] <= commits[i]
    /\ late[i] = 1 => blocked /\ imp[i] # "commit"

RunInv == Flags /\ Values /\ StartInv /\ ObserverInv /\ MonitorInv /\ LateInv

-----------------------------------------------------------------------------
(* Lemmas: each part is kept by every step.                                *)

\* Flags are set to truth values.
LEMMA FlagsKept ==
  ASSUME Flags, [Next]_vars
  PROVE  Flags'
<1> USE DEF Flags, At, Running, guard_vars, watcher_vars, importer_vars
<1>1. CASE Startup
  <2>1. CASE Preflight
    BY <2>1 DEF Preflight, Require, RequireAbsent, Probe
  <2>2. CASE Lifespan
    BY <2>2 DEF Lifespan, Require, RequireAbsent, Probe
  <2>3. CASE InitializeDatabase
    BY <2>3 DEF InitializeDatabase, Require, RequireAbsent, Probe
  <2>4. CASE StartMonitor
    BY <2>4, Zenon DEF StartMonitor, Probe
  <2>5. CASE NewWatcher
    BY <2>5, Zenon DEF NewWatcher
  <2>6. CASE RequireWatcher
    BY <2>6 DEF RequireWatcher, Require, RequireAbsent, Probe
  <2>7. CASE StartWatcher
    BY <2>7 DEF StartWatcher, EnsureAllowed
  <2>8. CASE Schedule
    BY <2>8 DEF Schedule, EnsureAllowed
  <2>9. CASE StartObserver
    BY <2>9 DEF StartObserver
  <2>10. CASE ObserverStarted
    BY <2>10 DEF ObserverStarted
  <2>11. CASE StartWorker
    BY <2>11, Zenon DEF StartWorker, EnsureAllowed, RequestStop, MustStopObserver,
        StopObserver
  <2>12. CASE Serve
    BY <2>12 DEF Serve, EnsureAllowed
  <2>13. CASE Bind
    BY <2>13 DEF Bind
  <2>q. QED BY <1>1, <2>1, <2>2, <2>3, <2>4, <2>5, <2>6, <2>7, <2>8, <2>9, <2>10, <2>11,
      <2>12, <2>13 DEF Startup
<1>2. CASE Shutdown
  BY <1>2 DEF Shutdown
<1>3. CASE Unwind
  BY <1>3, Zenon DEF Unwind, RequestStop, MustStopObserver, StopObserver
<1>4. CASE Monitor
  <2>1. CASE Poll /\ UNCHANGED <<boot, shouldExit, watcher_vars, importer_vars>>
    BY <2>1 DEF Poll
  <2>2. CASE Notify /\ UNCHANGED <<boot, shouldExit, watcher_vars, importer_vars>>
    BY <2>2 DEF Notify
  <2>3. CASE MonitorEnds /\ UNCHANGED <<boot, shouldExit, watcher_vars, importer_vars>>
    BY <2>3 DEF MonitorEnds
  <2>4. CASE CallbackStopsWatcher
    BY <2>4, Zenon DEF CallbackStopsWatcher, RequestStop, MustStopObserver
  <2>5. CASE CallbackStopsObserver
    BY <2>5 DEF CallbackStopsObserver, StopObserver
  <2>6. CASE CallbackShutsDown
    BY <2>6 DEF CallbackShutsDown
  <2>q. QED BY <1>4, <2>1, <2>2, <2>3, <2>4, <2>5, <2>6 DEF Monitor
<1>5. CASE WorkerWakes
  BY <1>5 DEF WorkerWakes, Importer
<1>6. ASSUME NEW i \in Importers, Import(i) PROVE Flags'
  <2>1. CASE BeginScan(i)
    BY <2>1, <1>6, Zenon DEF BeginScan, Proceed, Forbidden, EnsureAllowed, RequestStop,
        MustStopObserver, StopObserver
  <2>2. CASE ReadFile(i)
    BY <2>2, <1>6, Zenon DEF ReadFile, Proceed, Forbidden, EnsureAllowed, RequestStop,
        MustStopObserver, StopObserver
  <2>3. CASE CheckCommit(i)
    BY <2>3, <1>6, Zenon DEF CheckCommit, Proceed, Forbidden, EnsureAllowed, RequestStop,
        MustStopObserver, StopObserver
  <2>4. CASE Commit(i)
    BY <2>4, <1>6 DEF Commit, Importer
  <2>5. CASE EndScan(i)
    BY <2>5, <1>6, Zenon DEF EndScan, Proceed, Forbidden, EnsureAllowed, RequestStop,
        MustStopObserver, StopObserver
  <2>q. QED BY <1>6, <2>1, <2>2, <2>3, <2>4, <2>5 DEF Import
<1>7. CASE Environment
  <2>1. CASE WinamaxToggles /\ UNCHANGED <<boot, shouldExit, watcher_vars, importer_vars>>
    BY <2>1 DEF WinamaxToggles
  <2>2. CASE ProbeFails /\ UNCHANGED <<boot, shouldExit, watcher_vars, importer_vars>>
    BY <2>2 DEF ProbeFails
  <2>3. CASE FileEvent
    BY <2>3 DEF FileEvent
  <2>4. CASE Interrupt
    BY <2>4 DEF Interrupt
  <2>5. CASE RequestArrives
    BY <2>5 DEF RequestArrives, Importer, EnsureAllowed
  <2>q. QED BY <1>7, <2>1, <2>2, <2>3, <2>4, <2>5 DEF Environment
<1>8. CASE UNCHANGED vars
  BY <1>8 DEF vars
<1>q. QED BY <1>1, <1>2, <1>3, <1>4, <1>5, <1>6, <1>7, <1>8 DEF Next

\* Every action writes states that exist, and commits below the bound.
LEMMA ValuesKept ==
  ASSUME Values, LateInv, [Next]_vars
  PROVE  Values'
<1> USE DEF LateInv, Values, MonitorStates, ImporterStates, BootStates, Booting, Importers,
    At, Running, guard_vars, watcher_vars, importer_vars
<1>1. CASE Startup
  <2>1. CASE Preflight
    BY <2>1 DEF Preflight, Require, RequireAbsent, Probe
  <2>2. CASE Lifespan
    BY <2>2 DEF Lifespan, Require, RequireAbsent, Probe
  <2>3. CASE InitializeDatabase
    BY <2>3 DEF InitializeDatabase, Require, RequireAbsent, Probe
  <2>4. CASE StartMonitor
    BY <2>4 DEF StartMonitor, Probe
  <2>5. CASE NewWatcher
    BY <2>5 DEF NewWatcher
  <2>6. CASE RequireWatcher
    BY <2>6 DEF RequireWatcher, Require, RequireAbsent, Probe
  <2>7. CASE StartWatcher
    BY <2>7 DEF StartWatcher, EnsureAllowed
  <2>8. CASE Schedule
    BY <2>8 DEF Schedule, EnsureAllowed
  <2>9. CASE StartObserver
    BY <2>9 DEF StartObserver
  <2>10. CASE ObserverStarted
    BY <2>10 DEF ObserverStarted
  <2>11. CASE StartWorker
    BY <2>11 DEF StartWorker, EnsureAllowed, RequestStop, MustStopObserver, StopObserver
  <2>12. CASE Serve
    BY <2>12 DEF Serve, EnsureAllowed
  <2>13. CASE Bind
    BY <2>13 DEF Bind
  <2>q. QED BY <1>1, <2>1, <2>2, <2>3, <2>4, <2>5, <2>6, <2>7, <2>8, <2>9, <2>10, <2>11,
      <2>12, <2>13 DEF Startup
<1>2. CASE Shutdown
  BY <1>2 DEF Shutdown
<1>3. CASE Unwind
  BY <1>3 DEF Unwind, RequestStop, MustStopObserver, StopObserver
<1>4. CASE Monitor
  <2>1. CASE Poll /\ UNCHANGED <<boot, shouldExit, watcher_vars, importer_vars>>
    BY <2>1 DEF Poll
  <2>2. CASE Notify /\ UNCHANGED <<boot, shouldExit, watcher_vars, importer_vars>>
    BY <2>2 DEF Notify
  <2>3. CASE MonitorEnds /\ UNCHANGED <<boot, shouldExit, watcher_vars, importer_vars>>
    BY <2>3 DEF MonitorEnds
  <2>4. CASE CallbackStopsWatcher
    BY <2>4 DEF CallbackStopsWatcher, RequestStop, MustStopObserver
  <2>5. CASE CallbackStopsObserver
    BY <2>5 DEF CallbackStopsObserver, StopObserver
  <2>6. CASE CallbackShutsDown
    BY <2>6 DEF CallbackShutsDown
  <2>q. QED BY <1>4, <2>1, <2>2, <2>3, <2>4, <2>5, <2>6 DEF Monitor
<1>5. CASE WorkerWakes
  BY <1>5 DEF WorkerWakes, Importer
<1>6. ASSUME NEW i \in Importers, Import(i) PROVE Values'
  <2>1. CASE BeginScan(i)
    BY <2>1, <1>6 DEF BeginScan, Proceed, Forbidden, EnsureAllowed, RequestStop,
        MustStopObserver, StopObserver
  <2>2. CASE ReadFile(i)
    BY <2>2, <1>6 DEF ReadFile, Proceed, Forbidden, EnsureAllowed, RequestStop,
        MustStopObserver, StopObserver
  <2>3. CASE CheckCommit(i)
    BY <2>3, <1>6 DEF CheckCommit, Proceed, Forbidden, EnsureAllowed, RequestStop,
        MustStopObserver, StopObserver
  <2>4. CASE Commit(i)
    BY <2>4, <1>6, BackendAssumption DEF Commit, Importer
  <2>5. CASE EndScan(i)
    BY <2>5, <1>6 DEF EndScan, Proceed, Forbidden, EnsureAllowed, RequestStop,
        MustStopObserver, StopObserver
  <2>q. QED BY <1>6, <2>1, <2>2, <2>3, <2>4, <2>5 DEF Import
<1>7. CASE Environment
  <2>1. CASE WinamaxToggles /\ UNCHANGED <<boot, shouldExit, watcher_vars, importer_vars>>
    BY <2>1 DEF WinamaxToggles
  <2>2. CASE ProbeFails /\ UNCHANGED <<boot, shouldExit, watcher_vars, importer_vars>>
    BY <2>2 DEF ProbeFails
  <2>3. CASE FileEvent
    BY <2>3 DEF FileEvent
  <2>4. CASE Interrupt
    BY <2>4 DEF Interrupt
  <2>5. CASE RequestArrives
    BY <2>5 DEF RequestArrives, Importer, EnsureAllowed
  <2>q. QED BY <1>7, <2>1, <2>2, <2>3, <2>4, <2>5 DEF Environment
<1>8. CASE UNCHANGED vars
  BY <1>8 DEF vars
<1>q. QED BY <1>1, <1>2, <1>3, <1>4, <1>5, <1>6, <1>7, <1>8 DEF Next

\* The start goes forward, and stops of the observer do not make one.
LEMMA StartKept ==
  ASSUME Flags, Values, StartInv, ObserverInv, [Next]_vars
  PROVE  StartInv'
<1> USE DEF StartInv, ObserverInv, BeforeMonitor, BeforeWatcher, BeforeObserver,
    BeforeWorker, Flags, Values, MonitorStates, ImporterStates, BootStates, Booting,
    Importers, At, Running, guard_vars, watcher_vars, importer_vars
<1>1. CASE Startup
  <2>1. CASE Preflight
    BY <2>1 DEF Preflight, Require, RequireAbsent, Probe
  <2>2. CASE Lifespan
    BY <2>2 DEF Lifespan, Require, RequireAbsent, Probe
  <2>3. CASE InitializeDatabase
    BY <2>3 DEF InitializeDatabase, Require, RequireAbsent, Probe
  <2>4. CASE StartMonitor
    BY <2>4 DEF StartMonitor, Probe
  <2>5. CASE NewWatcher
    BY <2>5 DEF NewWatcher
  <2>6. CASE RequireWatcher
    BY <2>6 DEF RequireWatcher, Require, RequireAbsent, Probe
  <2>7. CASE StartWatcher
    BY <2>7 DEF StartWatcher, EnsureAllowed
  <2>8. CASE Schedule
    BY <2>8 DEF Schedule, EnsureAllowed
  <2>9. CASE StartObserver
    BY <2>9 DEF StartObserver
  <2>10. CASE ObserverStarted
    BY <2>10 DEF ObserverStarted
  <2>11. CASE StartWorker
    BY <2>11 DEF StartWorker, EnsureAllowed, RequestStop, MustStopObserver, StopObserver
  <2>12. CASE Serve
    BY <2>12 DEF Serve, EnsureAllowed
  <2>13. CASE Bind
    BY <2>13 DEF Bind
  <2>q. QED BY <1>1, <2>1, <2>2, <2>3, <2>4, <2>5, <2>6, <2>7, <2>8, <2>9, <2>10, <2>11,
      <2>12, <2>13 DEF Startup
<1>2. CASE Shutdown
  BY <1>2 DEF Shutdown
<1>3. CASE Unwind
  BY <1>3 DEF Unwind, RequestStop, MustStopObserver, StopObserver
<1>4. CASE Monitor
  <2>1. CASE Poll /\ UNCHANGED <<boot, shouldExit, watcher_vars, importer_vars>>
    BY <2>1 DEF Poll
  <2>2. CASE Notify /\ UNCHANGED <<boot, shouldExit, watcher_vars, importer_vars>>
    BY <2>2 DEF Notify
  <2>3. CASE MonitorEnds /\ UNCHANGED <<boot, shouldExit, watcher_vars, importer_vars>>
    BY <2>3 DEF MonitorEnds
  <2>4. CASE CallbackStopsWatcher
    BY <2>4 DEF CallbackStopsWatcher, RequestStop, MustStopObserver
  <2>5. CASE CallbackStopsObserver
    BY <2>5 DEF CallbackStopsObserver, StopObserver
  <2>6. CASE CallbackShutsDown
    BY <2>6 DEF CallbackShutsDown
  <2>q. QED BY <1>4, <2>1, <2>2, <2>3, <2>4, <2>5, <2>6 DEF Monitor
<1>5. CASE WorkerWakes
  BY <1>5 DEF WorkerWakes, Importer
<1>6. ASSUME NEW i \in Importers, Import(i) PROVE StartInv'
  <2>1. CASE BeginScan(i)
    BY <2>1, <1>6 DEF BeginScan, Proceed, Forbidden, EnsureAllowed, RequestStop,
        MustStopObserver, StopObserver
  <2>2. CASE ReadFile(i)
    BY <2>2, <1>6 DEF ReadFile, Proceed, Forbidden, EnsureAllowed, RequestStop,
        MustStopObserver, StopObserver
  <2>3. CASE CheckCommit(i)
    BY <2>3, <1>6 DEF CheckCommit, Proceed, Forbidden, EnsureAllowed, RequestStop,
        MustStopObserver, StopObserver
  <2>4. CASE Commit(i)
    BY <2>4, <1>6 DEF Commit, Importer
  <2>5. CASE EndScan(i)
    BY <2>5, <1>6 DEF EndScan, Proceed, Forbidden, EnsureAllowed, RequestStop,
        MustStopObserver, StopObserver
  <2>q. QED BY <1>6, <2>1, <2>2, <2>3, <2>4, <2>5 DEF Import
<1>7. CASE Environment
  <2>1. CASE WinamaxToggles /\ UNCHANGED <<boot, shouldExit, watcher_vars, importer_vars>>
    BY <2>1 DEF WinamaxToggles
  <2>2. CASE ProbeFails /\ UNCHANGED <<boot, shouldExit, watcher_vars, importer_vars>>
    BY <2>2 DEF ProbeFails
  <2>3. CASE FileEvent
    BY <2>3 DEF FileEvent
  <2>4. CASE Interrupt
    BY <2>4 DEF Interrupt
  <2>5. CASE RequestArrives
    BY <2>5 DEF RequestArrives, Importer, EnsureAllowed
  <2>q. QED BY <1>7, <2>1, <2>2, <2>3, <2>4, <2>5 DEF Environment
<1>8. CASE UNCHANGED vars
  BY <1>8 DEF vars
<1>q. QED BY <1>1, <1>2, <1>3, <1>4, <1>5, <1>6, <1>7, <1>8 DEF Next

\* Whoever asks first stops the observer; the rest find it asked.
LEMMA ObserverKept ==
  ASSUME Flags, Values, StartInv, ObserverInv, [Next]_vars
  PROVE  ObserverInv'
<1> USE DEF StartInv, ObserverInv, BeforeMonitor, BeforeWatcher, BeforeObserver,
    BeforeWorker, Flags, Values, MonitorStates, ImporterStates, BootStates, Booting,
    Importers, At, Running, guard_vars, watcher_vars, importer_vars
<1>1. CASE Startup
  <2>1. CASE Preflight
    BY <2>1 DEF Preflight, Require, RequireAbsent, Probe
  <2>2. CASE Lifespan
    BY <2>2 DEF Lifespan, Require, RequireAbsent, Probe
  <2>3. CASE InitializeDatabase
    BY <2>3 DEF InitializeDatabase, Require, RequireAbsent, Probe
  <2>4. CASE StartMonitor
    BY <2>4 DEF StartMonitor, Probe
  <2>5. CASE NewWatcher
    BY <2>5 DEF NewWatcher
  <2>6. CASE RequireWatcher
    BY <2>6 DEF RequireWatcher, Require, RequireAbsent, Probe
  <2>7. CASE StartWatcher
    BY <2>7 DEF StartWatcher, EnsureAllowed
  <2>8. CASE Schedule
    BY <2>8 DEF Schedule, EnsureAllowed
  <2>9. CASE StartObserver
    BY <2>9 DEF StartObserver
  <2>10. CASE ObserverStarted
    BY <2>10 DEF ObserverStarted
  <2>11. CASE StartWorker
    BY <2>11 DEF StartWorker, EnsureAllowed, RequestStop, MustStopObserver, StopObserver
  <2>12. CASE Serve
    BY <2>12 DEF Serve, EnsureAllowed
  <2>13. CASE Bind
    BY <2>13 DEF Bind
  <2>q. QED BY <1>1, <2>1, <2>2, <2>3, <2>4, <2>5, <2>6, <2>7, <2>8, <2>9, <2>10, <2>11,
      <2>12, <2>13 DEF Startup
<1>2. CASE Shutdown
  BY <1>2 DEF Shutdown
<1>3. CASE Unwind
  BY <1>3 DEF Unwind, RequestStop, MustStopObserver, StopObserver
<1>4. CASE Monitor
  <2>1. CASE Poll /\ UNCHANGED <<boot, shouldExit, watcher_vars, importer_vars>>
    BY <2>1 DEF Poll
  <2>2. CASE Notify /\ UNCHANGED <<boot, shouldExit, watcher_vars, importer_vars>>
    BY <2>2 DEF Notify
  <2>3. CASE MonitorEnds /\ UNCHANGED <<boot, shouldExit, watcher_vars, importer_vars>>
    BY <2>3 DEF MonitorEnds
  <2>4. CASE CallbackStopsWatcher
    BY <2>4 DEF CallbackStopsWatcher, RequestStop, MustStopObserver
  <2>5. CASE CallbackStopsObserver
    BY <2>5 DEF CallbackStopsObserver, StopObserver
  <2>6. CASE CallbackShutsDown
    BY <2>6 DEF CallbackShutsDown
  <2>q. QED BY <1>4, <2>1, <2>2, <2>3, <2>4, <2>5, <2>6 DEF Monitor
<1>5. CASE WorkerWakes
  BY <1>5 DEF WorkerWakes, Importer
<1>6. ASSUME NEW i \in Importers, Import(i) PROVE ObserverInv'
  <2>1. CASE BeginScan(i)
    BY <2>1, <1>6 DEF BeginScan, Proceed, Forbidden, EnsureAllowed, RequestStop,
        MustStopObserver, StopObserver
  <2>2. CASE ReadFile(i)
    BY <2>2, <1>6 DEF ReadFile, Proceed, Forbidden, EnsureAllowed, RequestStop,
        MustStopObserver, StopObserver
  <2>3. CASE CheckCommit(i)
    BY <2>3, <1>6 DEF CheckCommit, Proceed, Forbidden, EnsureAllowed, RequestStop,
        MustStopObserver, StopObserver
  <2>4. CASE Commit(i)
    BY <2>4, <1>6 DEF Commit, Importer
  <2>5. CASE EndScan(i)
    BY <2>5, <1>6 DEF EndScan, Proceed, Forbidden, EnsureAllowed, RequestStop,
        MustStopObserver, StopObserver
  <2>q. QED BY <1>6, <2>1, <2>2, <2>3, <2>4, <2>5 DEF Import
<1>7. CASE Environment
  <2>1. CASE WinamaxToggles /\ UNCHANGED <<boot, shouldExit, watcher_vars, importer_vars>>
    BY <2>1 DEF WinamaxToggles
  <2>2. CASE ProbeFails /\ UNCHANGED <<boot, shouldExit, watcher_vars, importer_vars>>
    BY <2>2 DEF ProbeFails
  <2>3. CASE FileEvent
    BY <2>3 DEF FileEvent
  <2>4. CASE Interrupt
    BY <2>4 DEF Interrupt
  <2>5. CASE RequestArrives
    BY <2>5 DEF RequestArrives, Importer, EnsureAllowed
  <2>q. QED BY <1>7, <2>1, <2>2, <2>3, <2>4, <2>5 DEF Environment
<1>8. CASE UNCHANGED vars
  BY <1>8 DEF vars
<1>q. QED BY <1>1, <1>2, <1>3, <1>4, <1>5, <1>6, <1>7, <1>8 DEF Next

\* The monitor's thread leaves the watch only by telling the server.
LEMMA MonitorKept ==
  ASSUME Flags, Values, MonitorInv, [Next]_vars
  PROVE  MonitorInv'
<1> USE DEF MonitorInv, Watched, BeforeMonitor, BeforeWatcher, BeforeObserver, BeforeWorker,
    Flags, Values, MonitorStates, ImporterStates, BootStates, Booting, Importers, At,
    Running, guard_vars, watcher_vars, importer_vars
<1>1. CASE Startup
  <2>1. CASE Preflight
    BY <2>1 DEF Preflight, Require, RequireAbsent, Probe
  <2>2. CASE Lifespan
    BY <2>2 DEF Lifespan, Require, RequireAbsent, Probe
  <2>3. CASE InitializeDatabase
    BY <2>3 DEF InitializeDatabase, Require, RequireAbsent, Probe
  <2>4. CASE StartMonitor
    BY <2>4 DEF StartMonitor, Probe
  <2>5. CASE NewWatcher
    BY <2>5 DEF NewWatcher
  <2>6. CASE RequireWatcher
    BY <2>6 DEF RequireWatcher, Require, RequireAbsent, Probe
  <2>7. CASE StartWatcher
    BY <2>7 DEF StartWatcher, EnsureAllowed
  <2>8. CASE Schedule
    BY <2>8 DEF Schedule, EnsureAllowed
  <2>9. CASE StartObserver
    BY <2>9 DEF StartObserver
  <2>10. CASE ObserverStarted
    BY <2>10 DEF ObserverStarted
  <2>11. CASE StartWorker
    BY <2>11 DEF StartWorker, EnsureAllowed, RequestStop, MustStopObserver, StopObserver
  <2>12. CASE Serve
    BY <2>12 DEF Serve, EnsureAllowed
  <2>13. CASE Bind
    BY <2>13 DEF Bind
  <2>q. QED BY <1>1, <2>1, <2>2, <2>3, <2>4, <2>5, <2>6, <2>7, <2>8, <2>9, <2>10, <2>11,
      <2>12, <2>13 DEF Startup
<1>2. CASE Shutdown
  BY <1>2 DEF Shutdown
<1>3. CASE Unwind
  BY <1>3 DEF Unwind, RequestStop, MustStopObserver, StopObserver
<1>4. CASE Monitor
  <2>1. CASE Poll /\ UNCHANGED <<boot, shouldExit, watcher_vars, importer_vars>>
    BY <2>1 DEF Poll
  <2>2. CASE Notify /\ UNCHANGED <<boot, shouldExit, watcher_vars, importer_vars>>
    BY <2>2 DEF Notify
  <2>3. CASE MonitorEnds /\ UNCHANGED <<boot, shouldExit, watcher_vars, importer_vars>>
    BY <2>3 DEF MonitorEnds
  <2>4. CASE CallbackStopsWatcher
    BY <2>4 DEF CallbackStopsWatcher, RequestStop, MustStopObserver
  <2>5. CASE CallbackStopsObserver
    BY <2>5 DEF CallbackStopsObserver, StopObserver
  <2>6. CASE CallbackShutsDown
    BY <2>6 DEF CallbackShutsDown
  <2>q. QED BY <1>4, <2>1, <2>2, <2>3, <2>4, <2>5, <2>6 DEF Monitor
<1>5. CASE WorkerWakes
  BY <1>5 DEF WorkerWakes, Importer
<1>6. ASSUME NEW i \in Importers, Import(i) PROVE MonitorInv'
  <2>1. CASE BeginScan(i)
    BY <2>1, <1>6 DEF BeginScan, Proceed, Forbidden, EnsureAllowed, RequestStop,
        MustStopObserver, StopObserver
  <2>2. CASE ReadFile(i)
    BY <2>2, <1>6 DEF ReadFile, Proceed, Forbidden, EnsureAllowed, RequestStop,
        MustStopObserver, StopObserver
  <2>3. CASE CheckCommit(i)
    BY <2>3, <1>6 DEF CheckCommit, Proceed, Forbidden, EnsureAllowed, RequestStop,
        MustStopObserver, StopObserver
  <2>4. CASE Commit(i)
    BY <2>4, <1>6 DEF Commit, Importer
  <2>5. CASE EndScan(i)
    BY <2>5, <1>6 DEF EndScan, Proceed, Forbidden, EnsureAllowed, RequestStop,
        MustStopObserver, StopObserver
  <2>q. QED BY <1>6, <2>1, <2>2, <2>3, <2>4, <2>5 DEF Import
<1>7. CASE Environment
  <2>1. CASE WinamaxToggles /\ UNCHANGED <<boot, shouldExit, watcher_vars, importer_vars>>
    BY <2>1 DEF WinamaxToggles
  <2>2. CASE ProbeFails /\ UNCHANGED <<boot, shouldExit, watcher_vars, importer_vars>>
    BY <2>2 DEF ProbeFails
  <2>3. CASE FileEvent
    BY <2>3 DEF FileEvent
  <2>4. CASE Interrupt
    BY <2>4 DEF Interrupt
  <2>5. CASE RequestArrives
    BY <2>5 DEF RequestArrives, Importer, EnsureAllowed
  <2>q. QED BY <1>7, <2>1, <2>2, <2>3, <2>4, <2>5 DEF Environment
<1>8. CASE UNCHANGED vars
  BY <1>8 DEF vars
<1>q. QED BY <1>1, <1>2, <1>3, <1>4, <1>5, <1>6, <1>7, <1>8 DEF Next

\* Only a commit counts, and it is followed by a look at the latch, which is never lifted.
LEMMA LateKept ==
  ASSUME Flags, Values, StartInv, LateInv, [Next]_vars
  PROVE  LateInv'
<1> USE DEF StartInv, LateInv, BeforeWorker, BeforeObserver, BeforeWatcher, BeforeMonitor,
    Flags, Values, MonitorStates, ImporterStates, BootStates, Booting, Importers, At,
    Running, guard_vars, watcher_vars, importer_vars
<1>1. CASE Startup
  <2>1. CASE Preflight
    BY <2>1 DEF Preflight, Require, RequireAbsent, Probe
  <2>2. CASE Lifespan
    BY <2>2 DEF Lifespan, Require, RequireAbsent, Probe
  <2>3. CASE InitializeDatabase
    BY <2>3 DEF InitializeDatabase, Require, RequireAbsent, Probe
  <2>4. CASE StartMonitor
    BY <2>4 DEF StartMonitor, Probe
  <2>5. CASE NewWatcher
    BY <2>5 DEF NewWatcher
  <2>6. CASE RequireWatcher
    BY <2>6 DEF RequireWatcher, Require, RequireAbsent, Probe
  <2>7. CASE StartWatcher
    BY <2>7 DEF StartWatcher, EnsureAllowed
  <2>8. CASE Schedule
    BY <2>8 DEF Schedule, EnsureAllowed
  <2>9. CASE StartObserver
    BY <2>9 DEF StartObserver
  <2>10. CASE ObserverStarted
    BY <2>10 DEF ObserverStarted
  <2>11. CASE StartWorker
    BY <2>11 DEF StartWorker, EnsureAllowed, RequestStop, MustStopObserver, StopObserver
  <2>12. CASE Serve
    BY <2>12 DEF Serve, EnsureAllowed
  <2>13. CASE Bind
    BY <2>13 DEF Bind
  <2>q. QED BY <1>1, <2>1, <2>2, <2>3, <2>4, <2>5, <2>6, <2>7, <2>8, <2>9, <2>10, <2>11,
      <2>12, <2>13 DEF Startup
<1>2. CASE Shutdown
  BY <1>2 DEF Shutdown
<1>3. CASE Unwind
  BY <1>3 DEF Unwind, RequestStop, MustStopObserver, StopObserver
<1>4. CASE Monitor
  <2>1. CASE Poll /\ UNCHANGED <<boot, shouldExit, watcher_vars, importer_vars>>
    BY <2>1 DEF Poll
  <2>2. CASE Notify /\ UNCHANGED <<boot, shouldExit, watcher_vars, importer_vars>>
    BY <2>2 DEF Notify
  <2>3. CASE MonitorEnds /\ UNCHANGED <<boot, shouldExit, watcher_vars, importer_vars>>
    BY <2>3 DEF MonitorEnds
  <2>4. CASE CallbackStopsWatcher
    BY <2>4 DEF CallbackStopsWatcher, RequestStop, MustStopObserver
  <2>5. CASE CallbackStopsObserver
    BY <2>5 DEF CallbackStopsObserver, StopObserver
  <2>6. CASE CallbackShutsDown
    BY <2>6 DEF CallbackShutsDown
  <2>q. QED BY <1>4, <2>1, <2>2, <2>3, <2>4, <2>5, <2>6 DEF Monitor
<1>5. CASE WorkerWakes
  BY <1>5 DEF WorkerWakes, Importer
<1>6. ASSUME NEW i \in Importers, Import(i) PROVE LateInv'
  <2>1. CASE BeginScan(i)
    BY <2>1, <1>6 DEF BeginScan, Proceed, Forbidden, EnsureAllowed, RequestStop,
        MustStopObserver, StopObserver
  <2>2. CASE ReadFile(i)
    BY <2>2, <1>6 DEF ReadFile, Proceed, Forbidden, EnsureAllowed, RequestStop,
        MustStopObserver, StopObserver
  <2>3. CASE CheckCommit(i)
    BY <2>3, <1>6 DEF CheckCommit, Proceed, Forbidden, EnsureAllowed, RequestStop,
        MustStopObserver, StopObserver
  <2>4. CASE Commit(i)
    BY <2>4, <1>6, BackendAssumption DEF Commit, Importer
  <2>5. CASE EndScan(i)
    BY <2>5, <1>6 DEF EndScan, Proceed, Forbidden, EnsureAllowed, RequestStop,
        MustStopObserver, StopObserver
  <2>q. QED BY <1>6, <2>1, <2>2, <2>3, <2>4, <2>5 DEF Import
<1>7. CASE Environment
  <2>1. CASE WinamaxToggles /\ UNCHANGED <<boot, shouldExit, watcher_vars, importer_vars>>
    BY <2>1 DEF WinamaxToggles
  <2>2. CASE ProbeFails /\ UNCHANGED <<boot, shouldExit, watcher_vars, importer_vars>>
    BY <2>2 DEF ProbeFails
  <2>3. CASE FileEvent
    BY <2>3 DEF FileEvent
  <2>4. CASE Interrupt
    BY <2>4 DEF Interrupt
  <2>5. CASE RequestArrives
    BY <2>5 DEF RequestArrives, Importer, EnsureAllowed
  <2>q. QED BY <1>7, <2>1, <2>2, <2>3, <2>4, <2>5 DEF Environment
<1>8. CASE UNCHANGED vars
  BY <1>8 DEF vars
<1>q. QED BY <1>1, <1>2, <1>3, <1>4, <1>5, <1>6, <1>7, <1>8 DEF Next

\* The initial states.
LEMMA InitialRun == Init => RunInv
<1> SUFFICES ASSUME Init PROVE RunInv
  OBVIOUS
<1>1. Flags
  BY DEF Init, GuardInit, Flags
<1>2. Values
  BY BackendAssumption
     DEF Init, GuardInit, Values, MonitorStates, ImporterStates, BootStates, Booting, Importers
<1>3. StartInv /\ ObserverInv
  BY DEF Init, GuardInit, StartInv, ObserverInv, Importers,
         BeforeMonitor, BeforeWatcher, BeforeObserver, BeforeWorker
<1>4. MonitorInv
  BY DEF Init, GuardInit, MonitorInv, Booting, BootStates,
         BeforeMonitor, BeforeWatcher, BeforeObserver, BeforeWorker
<1>5. LateInv
  BY BackendAssumption DEF Init, LateInv, Importers
<1>q. QED BY <1>1, <1>2, <1>3, <1>4, <1>5 DEF RunInv

\* The invariant of a run of the backend.
THEOREM RunHolds == Spec => []RunInv
<1>1. Init => RunInv
  BY InitialRun
<1>2. RunInv /\ [Next]_vars => RunInv'
  BY FlagsKept, ValuesKept, StartKept, ObserverKept, MonitorKept, LateKept DEF RunInv
<1>q. QED BY <1>1, <1>2, PTL DEF Spec

-----------------------------------------------------------------------------
(* What it gives.                                                          *)

\* The types, and what the start leaves behind: an observer that has been asked to stop was
\* started, a worker belongs to a watcher.
THEOREM BackendTypesHold == Spec => []TypeOK
<1>1. RunInv => TypeOK
  <2> SUFFICES ASSUME RunInv PROVE TypeOK
    OBVIOUS
  <2>1. late \in [Importers -> 0..MaxCommits]
    BY BackendAssumption DEF RunInv, Flags, Values, LateInv
  <2>2. watcher \/ imp["worker"] = "none"
    BY DEF RunInv, StartInv
  <2>q. QED
    BY <2>1, <2>2
    DEF RunInv, Flags, Values, ObserverInv, TypeOK, MonitorStates, ImporterStates, BootStates
<1>q. QED BY <1>1, RunHolds, PTL

\* README.md:261: an importing thread commits at most the work it had under way when the
\* latch was tripped.
THEOREM LateCommitsAreFew == Spec => []AtMostOneLateCommit
<1>1. RunInv => AtMostOneLateCommit
  BY DEF RunInv, LateInv, AtMostOneLateCommit
<1>q. QED BY <1>1, RunHolds, PTL

\* No trip of the latch is lost between the checks of the start and the callback.
THEOREM StopIsAlwaysUnderWay == Spec => []StopIsUnderWay
<1>1. RunInv => StopIsUnderWay
  BY DEF RunInv, Flags, Values, MonitorInv, StopIsUnderWay, Watched, BootStates, Booting,
         BeforeMonitor, BeforeWatcher, BeforeObserver, BeforeWorker
<1>q. QED BY <1>1, RunHolds, PTL

\* However far its start had come and whoever stopped it, the observer ends with the backend.
THEOREM ObserverEnds == Spec => []ObserverIsStopped
<1>1. RunInv => ObserverIsStopped
  BY DEF RunInv, Flags, Values, ObserverInv, ObserverIsStopped
<1>q. QED BY <1>1, RunHolds, PTL
=============================================================================
