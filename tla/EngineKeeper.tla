---------------------------- MODULE EngineKeeper ----------------------------
(***************************************************************************)
(* Who starts and stops the engine process of the native installation: the *)
(* hourly monitor (scripts/check_engine_process.py), the script            *)
(* ensure_engine_running.ps1 that the monitor and the dashboard call, the  *)
(* daily restart_engine.ps1, and the operator with manual_stop.flag.  They *)
(* share nothing but the list of processes and the flag.                   *)
(***************************************************************************)
EXTENDS Naturals

CONSTANT MaxFaults \* bound: enumerations and alerts that fail

ASSUME KeeperAssumption == MaxFaults \in Nat

Ensurers == {"dashboard", "monitor"}
Starters == Ensurers \cup {"restart"}
MaxEngines == 2 \* bound: engines that run at a time

VARIABLES
    engines,  \* processes whose command line holds trading_engine.py
    manual,   \* whether manual_stop.flag exists
    starter,  \* what each starter does
    watch,    \* what check_engine_process.py does
    cooling,  \* whether the last alert is less than two hours old
    faults,   \* failures so far
    reported  \* history: an alert that the engine is down was delivered since

keeperVars == <<engines, manual, starter, watch, cooling, faults, reported>>

KeeperTypeOK ==
    /\ engines \in 0..MaxEngines
    /\ manual \in BOOLEAN /\ cooling \in BOOLEAN /\ reported \in BOOLEAN
    /\ starter \in [Starters -> {"idle", "kill", "flag", "count", "start", "health"}]
    /\ watch \in {"idle", "count", "grace", "recount", "ensure", "alert", "failed"}
    /\ faults \in 0..MaxFaults

KeeperInit ==
    /\ engines = 1
    /\ manual = FALSE
    /\ starter = [s \in Starters |-> "idle"]
    /\ watch = "idle"
    /\ cooling = FALSE
    /\ faults = 0
    /\ reported = FALSE

Fail == faults < MaxFaults /\ faults' = faults + 1
Goes(s, pc) == starter' = [starter EXCEPT ![s] = pc]
Watches(pc) == watch' = pc

----------------------------------------------------------------------------
(* ensure_engine_running.ps1 and restart_engine.ps1.                       *)

Begin(s, pc) ==
    /\ starter[s] = "idle"
    /\ Goes(s, pc)

\* The dashboard starts the script in the background at a resume.
DashboardEnsures ==
    /\ Begin("dashboard", "flag")
    /\ UNCHANGED <<engines, manual, watch, cooling, faults, reported>>

\* The scheduled restart; its lock file keeps a second one away.
RestartBegins ==
    /\ Begin("restart", "kill")
    /\ UNCHANGED <<engines, manual, watch, cooling, faults, reported>>

\* Stop-AllEngineProcesses: either all engines end or nothing is started.
KillEngines ==
    /\ starter["restart"] = "kill"
    /\ \/ engines' = 0 /\ Goes("restart", "flag") /\ reported' = (reported /\ engines = 0)
       \/ engines > 0 /\ Goes("restart", "idle") /\ UNCHANGED <<engines, reported>>
    /\ UNCHANGED <<manual, watch, cooling, faults>>

\* The flag is tested after the stop of the restart, and first by ensure.
TestFlag(s) ==
    /\ starter[s] = "flag"
    /\ Goes(s, CASE manual -> "idle"
                 [] ~manual /\ s = "restart" -> "start"
                 [] OTHER -> "count")
    /\ UNCHANGED <<engines, manual, watch, cooling, faults, reported>>

CountEngines(s) ==
    /\ starter[s] = "count"
    /\ Goes(s, IF engines > 0 THEN "idle" ELSE "start")
    /\ UNCHANGED <<engines, manual, watch, cooling, faults, reported>>

\* Start-EngineProcess, whatever has started since the count.  The process
\* may end at once.
StartEngine(s) ==
    /\ starter[s] = "start"
    /\ Goes(s, "health")
    /\ engines' \in {engines, IF engines = MaxEngines THEN engines ELSE engines + 1}
    /\ reported' = (reported /\ engines' = 0)
    /\ UNCHANGED <<manual, watch, cooling, faults>>

\* Wait-EngineHealthy, at most 15 s.
HealthOver(s) ==
    /\ starter[s] = "health"
    /\ Goes(s, "idle")
    /\ UNCHANGED <<engines, manual, watch, cooling, faults, reported>>

----------------------------------------------------------------------------
(* check_engine_process.py, run hourly under the lock of its wrapper.      *)

\* An enumeration of the processes fails, before or after the recovery, or
\* for the log of a manual stop: main alerts and exits with 1.
EnumerationFails ==
    /\ watch \in {"count", "recount", "alert"} \/ (watch = "idle" /\ manual)
    /\ Fail
    /\ Watches("failed")
    /\ UNCHANGED <<engines, manual, starter, cooling, reported>>

\* The alert of main says that the check failed, not that the engine is down,
\* and neither waits for the two hours nor starts them.
FailureAlert ==
    /\ watch = "failed"
    /\ Watches("idle")
    /\ UNCHANGED <<engines, manual, starter, cooling, faults, reported>>

WatchBegins ==
    /\ watch = "idle"
    /\ Watches(IF manual THEN "idle" ELSE "count")
    /\ UNCHANGED <<engines, manual, starter, cooling, faults, reported>>

WatchCounts ==
    /\ watch = "count"
    /\ Watches(IF engines > 0 THEN "idle" ELSE "grace")
    /\ UNCHANGED <<engines, manual, starter, cooling, faults, reported>>

\* The grace of 90 s is over: the flag is tested again.
GraceOver ==
    /\ watch = "grace"
    /\ Watches(IF manual THEN "idle" ELSE "recount")
    /\ UNCHANGED <<engines, manual, starter, cooling, faults, reported>>

\* Still no process: the recovery runs ensure_engine_running.ps1.
WatchRecounts ==
    /\ watch = "recount"
    /\ IF engines > 0
         THEN Watches("idle") /\ UNCHANGED starter
         ELSE Watches("ensure") /\ Begin("monitor", "flag")
    /\ UNCHANGED <<engines, manual, cooling, faults, reported>>

\* Mutant: the exit code of the recovery is trusted and nothing reported.
EnsureReturns_Trusted ==
    /\ watch = "ensure"
    /\ Goes("monitor", "idle")
    /\ Watches("idle")
    /\ UNCHANGED <<engines, manual, cooling, faults, reported>>

\* The script has ended, or is killed after 120 s.
EnsureReturns ==
    /\ watch = "ensure"
    /\ Goes("monitor", "idle")
    /\ Watches("alert")
    /\ UNCHANGED <<engines, manual, cooling, faults, reported>>

\* The processes are counted for the alert, which is left out if one was sent
\* less than two hours ago; only a delivered one starts the two hours.
DownAlert ==
    /\ watch = "alert"
    /\ \/ cooling /\ UNCHANGED <<cooling, reported, faults>>
       \/ ~cooling /\ cooling' = TRUE /\ reported' = TRUE /\ UNCHANGED faults
       \/ ~cooling /\ Fail /\ UNCHANGED <<cooling, reported>>
    /\ Watches("idle")
    /\ UNCHANGED <<engines, manual, starter>>

\* Two hours pass.
CooldownEnds ==
    /\ cooling
    /\ cooling' = FALSE
    /\ UNCHANGED <<engines, manual, starter, watch, faults, reported>>

----------------------------------------------------------------------------
(* The engine and the operator.                                            *)

EngineEnds ==
    /\ engines > 0
    /\ engines' = engines - 1
    /\ reported' = FALSE
    /\ UNCHANGED <<manual, starter, watch, cooling, faults>>

ManualStop ==
    /\ manual' = ~manual
    /\ UNCHANGED <<engines, starter, watch, cooling, faults, reported>>

WatchStep == \/ WatchBegins \/ WatchCounts \/ GraceOver \/ WatchRecounts
             \/ EnsureReturns \/ DownAlert \/ FailureAlert

KeeperNext ==
    \/ DashboardEnsures \/ RestartBegins \/ KillEngines
    \/ \E s \in Starters : TestFlag(s) \/ CountEngines(s) \/ StartEngine(s) \/ HealthOver(s)
    \/ EnumerationFails \/ WatchStep \/ CooldownEnds \/ EngineEnds \/ ManualStop

KeeperSpec == KeeperInit /\ [][KeeperNext]_keeperVars

(* Fairness: the timer runs the monitor again and again, its calls return    *)
(* (the recovery has a timeout), and time passes.                            *)
KeeperFairness ==
    WF_keeperVars(WatchStep) /\ WF_keeperVars(CooldownEnds)

KeeperLiveSpec == KeeperSpec /\ KeeperFairness

----------------------------------------------------------------------------
(* Properties.                                                             *)

\* An engine that stays down without a manual stop is reported as down, although
\* the recovery and the counts around it may fail and alerts are spaced
\* (check_engine_process.py:204).
DownIsNoticed == engines = 0 /\ ~manual ~> engines > 0 \/ manual \/ reported
=============================================================================
