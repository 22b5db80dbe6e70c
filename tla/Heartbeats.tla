----------------------------- MODULE Heartbeats -----------------------------
(***************************************************************************)
(* The scheduled monitors and who watches them: each records a heartbeat   *)
(* in one shared file after a successful run (scripts/monitor_heartbeat.py)*)
(* and check_monitor_heartbeats.py reports the stale ones, marking each    *)
(* report by a flag file.                                                  *)
(***************************************************************************)
EXTENDS Naturals

CONSTANTS
    Monitors, \* the scripts with a heartbeat
    MaxBeats, \* bound: runs of each monitor that succeed
    MaxTroubles \* bound: monitors that fail or are killed, and lost notices

None == 0
NoOne == "no one"

ASSUME HeartbeatAssumption ==
    MaxBeats \in Nat /\ MaxTroubles \in Nat /\ NoOne \notin Monitors

VARIABLES
    run,      \* what each monitor does
    file,     \* monitor_heartbeats.json: the beat of each monitor, None at first
    lock,     \* the holder of the flock, or NoOne
    copy,     \* what each monitor has read of the file
    beat,     \* the last beat each monitor recorded
    expired,  \* beats up to this one are older than the limit of the monitor
    seen,     \* history: the beat the last check found fresh
    check,    \* the monitors check_monitor_heartbeats.py still has to judge
    loaded,   \* the file it has loaded
    marked,   \* heartbeat_stale_notified_<monitor>.flag
    notified, \* history: the beat a delivered notice was about
    troubles  \* failures so far

heartVars == <<run, file, lock, copy, beat, expired, seen, check, loaded, marked,
               notified, troubles>>
beatVars == <<file, lock, copy, beat>>
checkVars == <<seen, check, loaded, marked, notified>>

Beats == 0..MaxBeats

HeartTypeOK ==
    /\ run \in [Monitors -> {"idle", "record", "read", "write"}]
    /\ file \in [Monitors -> Beats] /\ beat \in [Monitors -> Beats]
    /\ lock \in Monitors \cup {NoOne}
    /\ copy \in [Monitors -> [Monitors -> Beats]]
    /\ expired \in [Monitors -> Beats] /\ seen \in [Monitors -> Beats]
    /\ check \subseteq Monitors
    /\ loaded \in [Monitors -> Beats]
    /\ marked \in [Monitors -> BOOLEAN]
    /\ notified \in [Monitors -> Beats]
    /\ troubles \in 0..MaxTroubles

HeartInit ==
    /\ run = [k \in Monitors |-> "idle"]
    /\ file = [k \in Monitors |-> None]
    /\ lock = NoOne
    /\ copy = [k \in Monitors |-> file]
    /\ beat = file /\ expired = file /\ seen = file /\ loaded = file /\ notified = file
    /\ check = {}
    /\ marked = [k \in Monitors |-> FALSE]
    /\ troubles = 0

Trouble == troubles < MaxTroubles /\ troubles' = troubles + 1
Runs(k, pc) == run' = [run EXCEPT ![k] = pc]

----------------------------------------------------------------------------
(* A monitor and its heartbeat.                                            *)

\* The timer starts the script; the lock of its wrapper allows one run.
Start(k) ==
    /\ run[k] = "idle"
    /\ beat[k] < MaxBeats
    /\ Runs(k, "record")
    /\ UNCHANGED <<beatVars, expired, checkVars, troubles>>

\* It fails, or the process is killed: the kernel drops its lock.
Dies(k) ==
    /\ run[k] # "idle"
    /\ Trouble
    /\ Runs(k, "idle")
    /\ lock' = IF lock = k THEN NoOne ELSE lock
    /\ UNCHANGED <<file, copy, beat, expired, checkVars>>

\* Mutant: no lock is taken.
Lock_Skipped(k) ==
    /\ run[k] = "record"
    /\ Runs(k, "read")
    /\ UNCHANGED <<file, lock, copy, beat, expired, checkVars, troubles>>

\* _exclusive_lock.
Lock(k) ==
    /\ run[k] = "record"
    /\ lock = NoOne
    /\ lock' = k
    /\ Runs(k, "read")
    /\ UNCHANGED <<file, copy, beat, expired, checkVars, troubles>>

Read(k) ==
    /\ run[k] = "read"
    /\ copy' = [copy EXCEPT ![k] = file]
    /\ Runs(k, "write")
    /\ UNCHANGED <<file, lock, beat, expired, checkVars, troubles>>

\* The own key is merged and the file replaced, then the lock is dropped.
Replace(k) ==
    /\ run[k] = "write"
    /\ beat' = [beat EXCEPT ![k] = @ + 1]
    /\ file' = [copy[k] EXCEPT ![k] = beat'[k]]
    /\ lock' = NoOne
    /\ copy' = [copy EXCEPT ![k] = [j \in Monitors |-> None]]
    /\ Runs(k, "idle")
    /\ UNCHANGED <<expired, checkVars, troubles>>

\* Time passes the limit of a monitor.  The limits are longer than the 15
\* minutes between two checks, so that a check has seen the beat before.
Expires(k) ==
    /\ expired[k] < file[k]
    /\ seen[k] = file[k]
    /\ expired' = [expired EXCEPT ![k] = file[k]]
    /\ UNCHANGED <<run, beatVars, checkVars, troubles>>

----------------------------------------------------------------------------
(* check_monitor_heartbeats.py.                                            *)

CheckBegins ==
    /\ check = {}
    /\ check' = Monitors
    /\ loaded' = file
    /\ UNCHANGED <<run, beatVars, expired, seen, marked, notified, troubles>>

\* Mutant: a fresh beat leaves the flag.
CheckOne_NeverUnmarks(k) ==
    /\ k \in check
    /\ check' = check \ {k}
    /\ \/ loaded[k] = None /\ UNCHANGED <<seen, marked, notified, troubles>>
       \/ /\ loaded[k] > expired[k]
          /\ seen' = [seen EXCEPT ![k] = loaded[k]]
          /\ UNCHANGED <<marked, notified, troubles>>
       \/ /\ loaded[k] # None /\ loaded[k] <= expired[k] /\ ~marked[k]
          /\ \/ /\ marked' = [marked EXCEPT ![k] = TRUE]
                /\ notified' = [notified EXCEPT ![k] = loaded[k]]
                /\ UNCHANGED troubles
             \/ Trouble /\ UNCHANGED <<marked, notified>>
          /\ UNCHANGED seen
       \/ /\ loaded[k] # None /\ loaded[k] <= expired[k] /\ marked[k]
          /\ UNCHANGED <<seen, marked, notified, troubles>>
    /\ UNCHANGED <<run, beatVars, expired, loaded>>

\* A fresh beat removes the flag, a stale one is reported unless flagged; a
\* monitor that never succeeded is passed over.
CheckOne(k) ==
    /\ k \in check
    /\ check' = check \ {k}
    /\ \/ loaded[k] = None /\ UNCHANGED <<seen, marked, notified, troubles>>
       \/ /\ loaded[k] > expired[k]
          /\ marked' = [marked EXCEPT ![k] = FALSE]
          /\ seen' = [seen EXCEPT ![k] = loaded[k]]
          /\ UNCHANGED <<notified, troubles>>
       \/ /\ loaded[k] # None /\ loaded[k] <= expired[k] /\ ~marked[k]
          /\ \/ /\ marked' = [marked EXCEPT ![k] = TRUE]
                /\ notified' = [notified EXCEPT ![k] = loaded[k]]
                /\ UNCHANGED troubles
             \/ Trouble /\ UNCHANGED <<marked, notified>>
          /\ UNCHANGED seen
       \/ /\ loaded[k] # None /\ loaded[k] <= expired[k] /\ marked[k]
          /\ UNCHANGED <<seen, marked, notified, troubles>>
    /\ UNCHANGED <<run, beatVars, expired, loaded>>

Recording(k) == Lock(k) \/ Read(k) \/ Replace(k)
Checking == CheckBegins \/ \E k \in Monitors : CheckOne(k)

HeartNext ==
    \/ \E k \in Monitors : Start(k) \/ Dies(k) \/ Recording(k) \/ Expires(k)
    \/ Checking

HeartSpec == HeartInit /\ [][HeartNext]_heartVars

(* Fairness: the timer runs the heartbeat check again and again, and it ends. *)
HeartFairness == WF_heartVars(Checking)

HeartLiveSpec == HeartSpec /\ HeartFairness

----------------------------------------------------------------------------
(* Properties.                                                             *)

\* The file holds the last beat of every monitor, although they replace the
\* whole file at about the same minute (monitor_heartbeat.py:3).
NoHeartbeatLost == file = beat

\* A monitor that stops succeeding is reported for the beat it stopped at,
\* although an earlier stop may have left its flag and notices may be lost
\* (check_monitor_heartbeats.py:84).
StaleIsNotified ==
    \A k \in Monitors :
        file[k] # None /\ expired[k] = file[k] ~> notified[k] = file[k] \/ expired[k] < file[k]
=============================================================================
