---------------------------- MODULE BoardStream ----------------------------
(***************************************************************************)
(* The public stream: WebSocketManager (websocket_manager.py), the safe    *)
(* mode it starts and ends in the trader (virtual_trader.py                *)
(* on_exchange_status), and the main loop that stops it for the PAUSED     *)
(* wait and builds a new one at the resume (trading_engine.py main).       *)
(*                                                                         *)
(* A manager is a number: 1 is built at the start of the process, the      *)
(* others at each resume.  A stopped manager is not joined, so that        *)
(* several of them may run at the same time.                               *)
(***************************************************************************)
EXTENDS Naturals

CONSTANTS
    MaxBuilds,  \* bound: managers built, by the start and by each resume
    MaxOutages  \* bound: times GMO closes, and errors of a connection

ASSUME BoardAssumption == MaxBuilds \in Nat \ {0} /\ MaxOutages \in Nat

Managers == 1..MaxBuilds

VARIABLES
    mode,     \* the main thread: "running", "paused" or "ended"
    flag,     \* whether manual_stop.flag exists
    current,  \* the manager the main thread holds
    loop,     \* what the reconnection thread of each manager does
    stopped,  \* _stop_event of each manager
    closing,  \* whether the session of each manager was told to close
    alert,    \* _maintenance_alert_active of each manager
    cooldown, \* _safe_mode_until: "none", "running" (not over yet) or "past"
    waiting,  \* _safe_mode_wait_for_recovery
    gmo,      \* whether the exchange is "open" or "closed"
    outages,  \* closures and connection errors so far
    heard,    \* history: NORMAL_RESPONSE came after the last MAINTENANCE_DETECTED
    rested,   \* history: the cooldown passed after the last one
    entry     \* history: whether the last step let the trader enter

managerVars == <<loop, stopped, closing, alert>>
safeVars == <<cooldown, waiting>>
boardVars == <<mode, flag, current, loop, stopped, closing, alert, cooldown,
               waiting, gmo, outages, heard, rested, entry>>

BoardTypeOK ==
    /\ mode \in {"running", "paused", "ended"}
    /\ flag \in BOOLEAN
    /\ current \in Managers
    /\ loop \in [Managers -> {"none", "test", "connect", "session", "retest", "wait", "over"}]
    /\ stopped \in [Managers -> BOOLEAN]
    /\ closing \in [Managers -> BOOLEAN]
    /\ alert \in [Managers -> BOOLEAN]
    /\ cooldown \in {"none", "running", "past"}
    /\ waiting \in BOOLEAN
    /\ gmo \in {"open", "closed"}
    /\ outages \in 0..MaxOutages
    /\ heard \in BOOLEAN /\ rested \in BOOLEAN /\ entry \in BOOLEAN

BoardInit ==
    /\ mode = "running"
    /\ flag = FALSE
    /\ current = 1
    /\ loop = [m \in Managers |-> IF m = 1 THEN "test" ELSE "none"]
    /\ stopped = [m \in Managers |-> FALSE]
    /\ closing = [m \in Managers |-> FALSE]
    /\ alert = [m \in Managers |-> FALSE]
    /\ cooldown = "none"
    /\ waiting = FALSE
    /\ gmo = "open"
    /\ outages = 0
    /\ heard = TRUE /\ rested = TRUE /\ entry = FALSE

----------------------------------------------------------------------------
(* The trader: on_exchange_status and the entry test of a board.           *)

\* Mutant: only the cooldown counts.
MaintenanceDetected_CooldownOnly ==
    /\ cooldown' = "running"
    /\ UNCHANGED waiting
    /\ heard' = FALSE
    /\ rested' = FALSE

\* on_exchange_status("MAINTENANCE_DETECTED"): the cooldown starts again and
\* a normal answer has to come first.
MaintenanceDetected ==
    /\ cooldown' = "running"
    /\ waiting' = TRUE
    /\ heard' = FALSE
    /\ rested' = FALSE

SafeModeActive(until, wait) == until # "none" /\ (until = "running" \/ wait)

\* on_orderbook_update: a cooldown that is over and awaits nothing is
\* forgotten, then a new entry is considered unless it is blocked.
Evaluate(wait) ==
    /\ cooldown' = IF cooldown = "past" /\ ~wait THEN "none" ELSE cooldown
    /\ entry' = ~(SafeModeActive(cooldown', wait) \/ flag)

\* The cooldown of the safe mode runs out.
CooldownOver ==
    /\ cooldown = "running"
    /\ cooldown' = "past"
    /\ rested' = TRUE
    /\ entry' = FALSE
    /\ UNCHANGED <<mode, flag, current, managerVars, waiting, gmo, outages, heard>>

----------------------------------------------------------------------------
(* WebSocketManager: the reconnection loop and the callbacks.              *)

ToLoop(m, to) == loop' = [loop EXCEPT ![m] = to]

\* The test of _run_loop before the first connection.
FirstTest(m) ==
    /\ loop[m] = "test"
    /\ ToLoop(m, IF stopped[m] THEN "over" ELSE "connect")
    /\ entry' = FALSE
    /\ UNCHANGED <<mode, flag, current, stopped, closing, alert, safeVars, gmo,
                   outages, heard, rested>>

\* The test after a session, before the back-off.
Retest(m) ==
    /\ loop[m] = "retest"
    /\ ToLoop(m, IF stopped[m] THEN "over" ELSE "wait")
    /\ entry' = FALSE
    /\ UNCHANGED <<mode, flag, current, stopped, closing, alert, safeVars, gmo,
                   outages, heard, rested>>

\* Mutant: the back-off sleeps instead of waiting for the stop event.
BackOff_Sleeps(m) ==
    /\ loop[m] = "wait"
    /\ ToLoop(m, "connect")
    /\ entry' = FALSE
    /\ UNCHANGED <<mode, flag, current, stopped, closing, alert, safeVars, gmo,
                   outages, heard, rested>>

\* The back-off ends at once when the manager is stopped; when it is not,
\* the loop connects without another test.
BackOff(m) ==
    /\ loop[m] = "wait"
    /\ ToLoop(m, IF stopped[m] THEN "over" ELSE "connect")
    /\ entry' = FALSE
    /\ UNCHANGED <<mode, flag, current, stopped, closing, alert, safeVars, gmo,
                   outages, heard, rested>>

\* run_forever opens the session of a new WebSocketApp.
Connect(m) ==
    /\ loop[m] = "connect"
    /\ gmo = "open"
    /\ ToLoop(m, "session")
    /\ entry' = FALSE
    /\ UNCHANGED <<mode, flag, current, stopped, closing, alert, safeVars, gmo,
                   outages, heard, rested>>

\* _on_message with a board: the recovery is reported first, then the trader
\* evaluates the board.  A session told to close may still deliver one.
Board(m) ==
    /\ loop[m] = "session"
    /\ gmo = "open"
    /\ alert' = [alert EXCEPT ![m] = FALSE]
    /\ waiting' = (waiting /\ ~alert[m])
    /\ heard' = (heard \/ alert[m])
    /\ Evaluate(waiting')
    /\ UNCHANGED <<mode, flag, current, loop, stopped, closing, gmo, outages, rested>>

\* _handle_possible_maintenance_error: only the first error of a manager is
\* reported until a board ends its alert.
ReportError(m, text) ==
    IF text = "maintenance" /\ ~alert[m]
      THEN alert' = [alert EXCEPT ![m] = TRUE] /\ MaintenanceDetected
      ELSE UNCHANGED <<alert, safeVars, heard, rested>>

\* _on_error and _on_close of a connection that was refused or lost.
Lost(m) ==
    /\ loop[m] \in {"connect", "session"}
    /\ \/ gmo = "closed" /\ ReportError(m, "maintenance") /\ UNCHANGED outages
       \/ /\ outages < MaxOutages
          /\ outages' = outages + 1
          /\ ReportError(m, "other")
    /\ ToLoop(m, "retest")
    /\ entry' = FALSE
    /\ UNCHANGED <<mode, flag, current, stopped, closing, gmo>>

\* _on_close of a session that stop() closed.
Closed(m) ==
    /\ loop[m] = "session"
    /\ closing[m]
    /\ ToLoop(m, "retest")
    /\ entry' = FALSE
    /\ UNCHANGED <<mode, flag, current, stopped, closing, alert, safeVars, gmo,
                   outages, heard, rested>>

\* stop(): sets the event and closes the session it finds.  A connection that
\* the thread makes at that moment is found if run_forever has begun.
StopManager(m) ==
    /\ stopped' = [stopped EXCEPT ![m] = TRUE]
    /\ \E found \in BOOLEAN :
         closing' = [closing EXCEPT ![m] = \/ @ \/ loop[m] = "session"
                                           \/ loop[m] = "connect" /\ found]

----------------------------------------------------------------------------
(* The main thread, the operator and the exchange.                         *)

\* The manual stop of a flat engine: the stream is stopped, not joined.
Pause ==
    /\ mode = "running"
    /\ flag
    /\ mode' = "paused"
    /\ StopManager(current)
    /\ entry' = FALSE
    /\ UNCHANGED <<flag, current, loop, alert, safeVars, gmo, outages, heard, rested>>

\* The flag is gone: _build_ws_managers and start().
Resume ==
    /\ mode = "paused"
    /\ ~flag
    /\ current < MaxBuilds
    /\ mode' = "running"
    /\ current' = current + 1
    /\ ToLoop(current + 1, "test")
    /\ entry' = FALSE
    /\ UNCHANGED <<flag, stopped, closing, alert, safeVars, gmo, outages, heard, rested>>

\* The finally block of main.
Shutdown ==
    /\ mode # "ended"
    /\ mode' = "ended"
    /\ StopManager(current)
    /\ entry' = FALSE
    /\ UNCHANGED <<flag, current, loop, alert, safeVars, gmo, outages, heard, rested>>

\* The operator creates or removes manual_stop.flag; he removes it as often
\* as the bound on managers allows a resume.
SetFlag ==
    /\ mode # "ended"
    /\ flag' = ~flag
    /\ ~flag => current < MaxBuilds
    /\ entry' = FALSE
    /\ UNCHANGED <<mode, current, managerVars, safeVars, gmo, outages, heard, rested>>

\* GMO closes for maintenance, and opens again.
Exchange ==
    /\ \/ /\ gmo = "open"
          /\ outages < MaxOutages
          /\ gmo' = "closed"
          /\ outages' = outages + 1
       \/ gmo = "closed" /\ gmo' = "open" /\ UNCHANGED outages
    /\ entry' = FALSE
    /\ UNCHANGED <<mode, flag, current, managerVars, safeVars, heard, rested>>

LoopStep(m) == FirstTest(m) \/ Retest(m) \/ BackOff(m) \/ Connect(m) \/ Closed(m)

BoardNext ==
    \/ \E m \in Managers : LoopStep(m) \/ Board(m) \/ Lost(m)
    \/ CooldownOver \/ Pause \/ Resume \/ Shutdown \/ SetFlag \/ Exchange

BoardSpec == BoardInit /\ [][BoardNext]_boardVars

(* Fairness: the threads of the process run, GMO opens again after a closure *)
(* and sends boards while it is open.                                        *)
BoardFairness ==
    /\ \A m \in Managers : WF_boardVars(LoopStep(m)) /\ WF_boardVars(Board(m))
    /\ WF_boardVars(gmo = "closed" /\ Exchange)

BoardLiveSpec == BoardSpec /\ BoardFairness

----------------------------------------------------------------------------
(* Properties.                                                             *)

\* A new entry is considered only when, since the last maintenance error the
\* trader was told of, its cooldown passed and a recovery was reported, also
\* when a manager that was stopped reported the error and the boards come
\* from another one (virtual_trader.py:1231, _is_safe_mode_active).
EntryAfterRecovery == entry => heard /\ rested

\* The thread of a stopped manager ends, whether it is in its back-off, in a
\* session, or before one, unless the stop missed the connection being made
\* (websocket_manager.py:125, stop()).
StopEndsLoop ==
    \A m \in Managers :
        stopped[m] /\ (loop[m] \in {"test", "retest", "wait"} \/ closing[m])
            ~> loop[m] = "over"

\* What virtual_trader.py:1353 prints: new trades stop until a normal answer
\* is seen.  So a running engine without manual stop gets out of the wait.
SafeModeEnds == waiting ~> ~waiting \/ flag \/ mode # "running"
=============================================================================
