----------------------------- MODULE ProcessGuard -----------------------------
(***************************************************************************)
(* core/process_guard.py: the one-way latch (AnalysisInterlock), the check  *)
(* made before an operation (require_winamax_absent) and the thread that     *)
(* polls for the game (ProcessGuardMonitor).  BackendRun composes it with    *)
(* the local backend; its parts are actions over a program counter that the  *)
(* composing module gives them.                                             *)
(***************************************************************************)

VARIABLES
  winamax,   \* a process named Winamax.exe runs (the environment)
  blocked,   \* AnalysisInterlock._blocked
  mon,       \* the monitor's thread
  notified,  \* ProcessGuardMonitor._callback_sent
  monStop    \* ProcessGuardMonitor._stop

guard_vars == <<winamax, blocked, mon, notified, monStop>>

GuardInit ==
  /\ winamax \in BOOLEAN /\ blocked = FALSE
  /\ mon = "none" /\ notified = FALSE /\ monStop = FALSE

\* Winamax starts or ends.
WinamaxToggles == winamax' = ~winamax /\ UNCHANGED <<blocked, mon, notified, monStop>>

\* Mutant: nobody looks at the latch.
LatchIgnored == TRUE

EnsureAllowed == ~blocked

\* What a probe says; one that fails counts as a detection.
Probe(detected) == winamax => detected

\* require_winamax_absent as one step: the latch is tripped exactly when it raises.
RequireAbsent(detected) ==
  /\ Probe(detected)
  /\ blocked' = (blocked \/ detected)
  /\ UNCHANGED <<winamax, mon, notified, monStop>>

\* Mutant: a latch that is tripped already, or just now, is nobody's concern.
PollSilently ==
  /\ mon = "poll" /\ ~monStop
  /\ winamax \/ blocked
  /\ blocked' = TRUE
  /\ mon' = "dead"
  /\ UNCHANGED <<winamax, notified, monStop>>

\* check_now on the monitor's thread, every interval until it has something to say.
Poll ==
  /\ mon = "poll" /\ ~monStop
  /\ winamax \/ blocked
  /\ blocked' = TRUE
  /\ mon' = "notify"
  /\ UNCHANGED <<winamax, notified, monStop>>

\* The probe itself fails.
ProbeFails ==
  /\ mon = "poll" /\ ~monStop
  /\ blocked' = TRUE
  /\ mon' = "notify"
  /\ UNCHANGED <<winamax, notified, monStop>>

\* _notify_once: the callback is on_trip, whose steps are the composing module's.
Notify ==
  /\ mon = "notify"
  /\ mon' = IF notified THEN "dead" ELSE "callback"
  /\ notified' = TRUE
  /\ UNCHANGED <<winamax, blocked, monStop>>

\* stop() was called while the thread waited for its interval.
MonitorEnds ==
  /\ mon = "poll" /\ monStop
  /\ mon' = "dead"
  /\ UNCHANGED <<winamax, blocked, notified, monStop>>
=============================================================================
