----------------------------- MODULE CrashLoop -----------------------------
(***************************************************************************)
(* The crash-loop check of the Docker installation                         *)
(* (scripts/check_engine_crash_loop.py): Docker restarts a failed service  *)
(* RESTART_LIMIT times and gives it up; the check, run every five minutes, *)
(* reports that and marks it by a flag file, which it removes once it sees *)
(* the service running.  A service that is given up again before a check   *)
(* has seen it running finds the flag of the time before.                  *)
(***************************************************************************)
EXTENDS Naturals

CONSTANTS
    TargetServices, \* TARGET_SERVICES
    MaxLosses       \* bound: commands and notices that fail

ASSUME CrashAssumption == MaxLosses \in Nat

States == {"running", "restarting", "exited", "exhausted"}

VARIABLES
    service, \* each container; "exhausted": exited after RESTART_LIMIT restarts
    asked,   \* the services the present check still has to judge
    shown,   \* their states in the answer of docker compose ps
    crashed, \* crash_loop_notified_<service>.flag
    noticed, \* history: a notice was delivered since the service was given up
    losses   \* failures so far

crashVars == <<service, asked, shown, crashed, noticed, losses>>

CrashTypeOK ==
    /\ service \in [TargetServices -> States] /\ shown \in [TargetServices -> States]
    /\ asked \subseteq TargetServices
    /\ crashed \in [TargetServices -> BOOLEAN] /\ noticed \in [TargetServices -> BOOLEAN]
    /\ losses \in 0..MaxLosses

CrashInit ==
    /\ service = [s \in TargetServices |-> "running"]
    /\ asked = {}
    /\ shown = service
    /\ crashed = [s \in TargetServices |-> FALSE]
    /\ noticed = crashed
    /\ losses = 0

Loss == losses < MaxLosses /\ losses' = losses + 1

\* docker compose ps; when the command fails the check is over.
Ask ==
    /\ asked = {}
    /\ \/ asked' = TargetServices /\ shown' = service /\ UNCHANGED losses
       \/ Loss /\ UNCHANGED <<asked, shown>>
    /\ UNCHANGED <<service, crashed, noticed>>

\* A service seen running loses its flag.
SeenRunning(s) ==
    /\ s \in asked
    /\ shown[s] = "running"
    /\ crashed' = [crashed EXCEPT ![s] = FALSE]
    /\ asked' = asked \ {s}
    /\ UNCHANGED <<service, shown, noticed, losses>>

\* Mutant: the flag is written although the notice was not delivered.
SeenExited_FlagFirst(s) ==
    /\ s \in asked
    /\ shown[s] \in {"exited", "exhausted"}
    /\ \/ /\ service[s] = "exhausted" /\ ~crashed[s]
          /\ crashed' = [crashed EXCEPT ![s] = TRUE]
          /\ \/ noticed' = [noticed EXCEPT ![s] = TRUE] /\ UNCHANGED losses
             \/ Loss /\ UNCHANGED noticed
          /\ asked' = asked \ {s}
       \/ /\ service[s] # "exhausted" \/ crashed[s]
          /\ asked' = asked \ {s}
          /\ UNCHANGED <<crashed, noticed, losses>>
       \/ Loss /\ asked' = {} /\ UNCHANGED <<crashed, noticed>>
    /\ UNCHANGED <<service, shown>>

\* An exited service is asked for its restarts, which is a later moment; a
\* failure of that command ends the whole check.  The notice follows at once,
\* and only a delivered one leaves the flag.
SeenExited(s) ==
    /\ s \in asked
    /\ shown[s] \in {"exited", "exhausted"}
    /\ \/ /\ service[s] = "exhausted" /\ ~crashed[s]
          /\ \/ /\ crashed' = [crashed EXCEPT ![s] = TRUE]
                /\ noticed' = [noticed EXCEPT ![s] = TRUE]
                /\ UNCHANGED losses
             \/ Loss /\ UNCHANGED <<crashed, noticed>>
          /\ asked' = asked \ {s}
       \/ /\ service[s] # "exhausted" \/ crashed[s]
          /\ asked' = asked \ {s}
          /\ UNCHANGED <<crashed, noticed, losses>>
       \/ Loss /\ asked' = {} /\ UNCHANGED <<crashed, noticed>>
    /\ UNCHANGED <<service, shown>>

\* Another state is no matter of this check.
SeenOther(s) ==
    /\ s \in asked
    /\ shown[s] = "restarting"
    /\ asked' = asked \ {s}
    /\ UNCHANGED <<service, shown, crashed, noticed, losses>>

\* Docker restarts a failed container a few times and then gives it up; the
\* operator starts it again.
Container(s) ==
    /\ \E to \in CASE service[s] = "running" -> {"restarting", "exited"}
                   [] service[s] = "restarting" -> {"running", "exhausted"}
                   [] OTHER -> {"running"} :
         service' = [service EXCEPT ![s] = to]
    /\ noticed' = [noticed EXCEPT ![s] = FALSE]
    /\ UNCHANGED <<asked, shown, crashed, losses>>

Checks == Ask \/ \E s \in TargetServices : SeenRunning(s) \/ SeenExited(s) \/ SeenOther(s)

CrashNext == Checks \/ \E s \in TargetServices : Container(s)

CrashSpec == CrashInit /\ [][CrashNext]_crashVars

(* Fairness: the timer runs the check again and again, and it ends.         *)
CrashLiveSpec == CrashSpec /\ WF_crashVars(Checks)

----------------------------------------------------------------------------
(* Properties.                                                             *)

\* A service that Docker gives up while no flag of an earlier time stands is
\* reported for this time, although commands and notices fail, its sibling may
\* fail with it, and checks judge what docker compose ps said before
\* (check_engine_crash_loop.py:129).
ExhaustionIsNotified ==
    \A s \in TargetServices :
        service[s] = "exhausted" /\ ~crashed[s] ~> noticed[s] \/ service[s] # "exhausted"
=============================================================================
