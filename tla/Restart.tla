------------------------------ MODULE Restart ------------------------------
(***************************************************************************)
(* The engine of RealTrader as a process that is killed or restarted (at   *)
(* 06:00 every day, by the operator, by the monitors): what it saves in    *)
(* live_state.db, how it takes its position up again and compares it with  *)
(* GMO at start, and the two checks that look for what was lost: the       *)
(* reconciliation of the main loop and the orphan-order check, a process   *)
(* of its own.                                                             *)
(*                                                                         *)
(* Positions have one size and side, so that an account state is the       *)
(* number of open positions; the comparison of balances is left out.  The  *)
(* two checks do not interact, and each behaviour has one of them.         *)
(***************************************************************************)
EXTENDS RealTrader, FiniteSets

CONSTANT MaxCrashes   \* bound: times the engine ends

ASSUME CrashAssumption == MaxCrashes \in Nat /\ Stop # {}

VARIABLES
  phase,     \* of the engine process: "down", "asked" (openPositions is read),
             \* "placing" (the STOP again), "ready", "up"
  db,        \* the row of live_state.db: the position and the counters
  reorder,   \* startup_reconcile_state.json: the position whose STOP was
             \* placed again at the last start
  seen,      \* openPositions as the starting engine read them
  check,     \* run_reconciliation_check
  doubted,   \* reconciliation_pending_mismatch
  known,     \* order ids the running orphan check has read from live_state.db
  suspects,  \* suspect_order_ids of the previous orphan check
  saved,     \* live_state.db was written since the previous orphan check
  reported,  \* history: orders the orphan check sent an alert about
  crashes,   \* history: times the engine ended
  auditor    \* the check that runs in this behaviour

process == <<phase, db, reorder, seen>>
audit == <<check, doubted>>
orphan == <<known, suspects, saved, reported>>
ghost == <<crashes, auditor>>
allVars == <<vars, process, audit, orphan, ghost>>

NoCheck == [pc |-> "idle", own |-> 0]
NotRunning == {None}

\* The first start.
FirstLife ==
  /\ Init
  /\ phase = "up" /\ db = [pos |-> Flat, booked |-> booked]
  /\ reorder = None /\ crashes = 0

\* A later one: the last start found its position without a STOP and placed
\* one, and the engine ended before it was saved.
LaterLife ==
  /\ \E p \in Entry :
       LET s == CHOOSE t \in Stop : TRUE IN
       /\ EngineInit(Held(p, p))
       /\ ent = [[o \in Entry |-> "none"] EXCEPT ![p] = "filled"]
       /\ stop = [[t \in Stop |-> NoStop] EXCEPT ![s] = [st |-> "live", pid |-> p]]
       /\ open = {p} /\ reorder = p
       /\ db = [pos |-> Held(p, p), booked |-> booked]
  /\ mkt = {} /\ wire = <<>>
  /\ phase = "down" /\ crashes = MaxCrashes

RestartInit ==
  /\ FirstLife \/ LaterLife
  /\ seen = {}
  /\ check = NoCheck /\ doubted = FALSE
  /\ known = NotRunning /\ suspects = {} /\ saved = TRUE /\ reported = {}
  /\ auditor \in {"reconciliation", "orphan"}

-----------------------------------------------------------------------------
(* The main loop saves, the process ends.                                   *)

\* Mutant: the counters are saved as they change, the position by itself.
Save_InTwoParts ==
  /\ phase = "up" /\ check.pc = "idle" /\ h.pc = "idle" /\ loop # "requesting"
  /\ \/ db' = [db EXCEPT !.pos = pos]
     \/ db' = [db EXCEPT !.booked = booked]
  /\ saved' = TRUE
  /\ UNCHANGED <<vars, phase, reorder, seen, audit, known, suspects, reported,
                 ghost>>

\* _write_live_state, once a second: one row, copied under the lock.
Save ==
  /\ phase = "up" /\ check.pc = "idle" /\ h.pc = "idle" /\ loop # "requesting"
  /\ db' = [pos |-> pos, booked |-> booked]
  /\ saved' = TRUE
  /\ UNCHANGED <<vars, phase, reorder, seen, audit, known, suspects, reported,
                 ghost>>

\* What the process forgets when it ends, at any point of any handler: all
\* that is not in a file.  A working order or an open position that the row
\* does not name is unknown from then on.  While no process runs, pos is the
\* position of the row.
Crash ==
  /\ phase # "down" /\ crashes < MaxCrashes
  /\ crashes' = crashes + 1
  /\ phase' = "down" /\ seen' = {}
  /\ pos' = db.pos /\ grace' = {} /\ mark' = "between" /\ due' = None
  /\ timers' = {} /\ wd' = NoWatch /\ cool' = FALSE /\ request' = FALSE
  /\ loop' = "running" /\ h' = Idle
  /\ wire' = <<>> /\ booked' = db.booked
  /\ excused' = excused \cup
       {o \in Entry \ {db.pos.entry, db.pos.pid} : Pending(ent[o]) \/ o \in open}
  /\ check' = NoCheck /\ doubted' = FALSE
  /\ UNCHANGED <<ent, stop, mkt, open, manual, guard, db, reorder, orphan, auditor>>

-----------------------------------------------------------------------------
(* The start: restore_persisted_position, reconcile_real_state_on_startup.  *)

Starting == UNCHANGED <<exchange, grace, due, timers, cool, guard, request, loop,
                        db, audit, orphan, ghost, booked>>

\* Mutant: the engine starts with no position.
Start_Flat ==
  /\ phase = "down"
  /\ pos' = Flat
  /\ \/ phase' = "asked" /\ seen' = open
     \/ FetchFails /\ phase' = "ready" /\ seen' = {}
  /\ Starting
  /\ UNCHANGED <<mark, wd, h, manual, excused, reorder>>

\* The row is read; then openPositions, which may fail: the start goes on.
Start ==
  /\ phase = "down"
  /\ pos' = db.pos
  /\ \/ phase' = "asked" /\ seen' = open
     \/ FetchFails /\ phase' = "ready" /\ seen' = {}
  /\ Starting
  /\ UNCHANGED <<mark, wd, h, manual, excused, reorder>>

\* activeOrders, read after openPositions.
Active == {o \in Entry : ent[o] = "live"}
ActiveStops == {s \in Stop : stop[s].st = "live"}

ActiveFails ==
  /\ phase = "asked" /\ FetchFails
  /\ phase' = "ready" /\ seen' = {}
  /\ Starting
  /\ UNCHANGED <<pos, mark, wd, h, manual, excused, reorder>>

\* Nothing to do, and nothing to remember for the next start.
StartAgrees ==
  /\ phase = "asked"
  /\ \/ pos.st = "flat"
     \/ pos.st = "pending" /\ pos.entry \in Active
     \/ pos.st = "held" /\ seen # {} /\ pos.stop \in ActiveStops
  /\ phase' = "ready" /\ reorder' = None /\ seen' = {}
  /\ Starting
  /\ UNCHANGED <<pos, mark, wd, h, manual, excused>>

\* The pending order was executed while the engine was away: hold the
\* position and place its STOP.
StartAdopts ==
  /\ phase = "asked" /\ pos.st = "pending" /\ pos.entry \notin Active
  /\ mark' = "between"   \* no board has come yet
  /\ \E p \in seen : PlaceStopOrders(Held(pos.entry, p), wd, "idle")
  /\ phase' = "placing" /\ seen' = {}
  /\ Starting
  /\ UNCHANGED <<manual, excused, reorder>>

\* Neither an order nor a position is left: go flat, with an alert.  If the
\* order was executed between the two reads, its position is unknown now.
StartClears ==
  /\ phase = "asked" /\ seen = {}
  /\ pos.st = "held" \/ (pos.st = "pending" /\ pos.entry \notin Active)
  /\ GoFlat
  /\ excused' = excused \cup {pos.entry}
  /\ phase' = "ready" /\ reorder' = None
  /\ Starting
  /\ UNCHANGED <<seen, wd, h, manual>>

\* _reconcile_held_on_startup: any open position is taken for the one held.
StopMissing ==
  phase = "asked" /\ pos.st = "held" /\ seen # {} /\ pos.stop \notin ActiveStops

\* Its STOP is gone: place it again ...
StartReorders ==
  /\ StopMissing
  /\ mark' = "between"
  /\ \E p \in seen : /\ reorder # p
                     /\ PlaceStopOrders(Held(pos.entry, p), wd, "idle")
                     /\ seen' = {p}
  /\ phase' = "placing"
  /\ Starting
  /\ UNCHANGED <<manual, excused, reorder>>

\* ... but not at two starts in a row: that is a safety stop.
StartGivesUp ==
  /\ StopMissing
  /\ reorder \in seen
  /\ manual' = TRUE
  /\ phase' = "ready" /\ seen' = {}
  /\ Starting
  /\ UNCHANGED <<pos, mark, wd, h, excused, reorder>>

\* The id of a new STOP is that of none that GMO, the engine or the row knows;
\* which one makes no difference.
FreshIds == {s \in Stop : Fresh(s)} \ {pos.stop, db.pos.stop}
FreshId ==
  \A s \in Stop : stop'[s].st = "live" =>
    stop[s].st = "live" \/ (s \in FreshIds /\ s = CHOOSE t \in FreshIds : TRUE)

\* The STOP is placed, then the file is written (or removed).
StartPlaces ==
  /\ phase = "placing"
  /\ StopCall /\ FreshId
  /\ UNCHANGED <<process, audit, orphan, ghost>>

StartPlaced ==
  /\ phase = "placing" /\ h.pc = "idle"
  /\ phase' = "ready" /\ seen' = {}
  /\ reorder' = IF seen = {} THEN None ELSE CHOOSE p \in Entry : p \in seen
  /\ Starting
  /\ UNCHANGED <<pos, mark, wd, h, manual, excused>>

\* The streams start; what was executed before is not sent again.
StartStreams ==
  /\ phase = "ready"
  /\ phase' = "up"
  /\ wire' = <<>>
  /\ UNCHANGED <<ent, stop, mkt, open, trader, h, history, db, reorder, seen,
                 audit, orphan, ghost>>

Boot ==
  \/ Start \/ ActiveFails \/ StartAgrees \/ StartAdopts \/ StartClears
  \/ StartReorders \/ StartGivesUp \/ StartPlaces \/ StartPlaced \/ StartStreams

-----------------------------------------------------------------------------
(* run_reconciliation_check, on the main thread.                            *)

\* get_internal_account_state, once for both comparisons.
CheckBegins ==
  /\ auditor = "reconciliation"
  /\ phase = "up" /\ loop = "running" /\ check.pc = "idle" /\ h.pc = "idle"
  /\ check' = [pc |-> "first", own |-> IF pos.st = "held" THEN 1 ELSE 0]
  /\ UNCHANGED <<vars, process, doubted, orphan, ghost>>

Agrees == Cardinality(open) = check.own

CheckEnds(doubt) == check' = NoCheck /\ doubted' = doubt

\* A failed read ends the check and leaves the doubt as it is.
CheckFails ==
  /\ check.pc # "idle" /\ FetchFails
  /\ CheckEnds(doubted)
  /\ UNCHANGED <<trader, h, history, process, orphan, ghost>>

CheckAgrees ==
  /\ check.pc # "idle" /\ Agrees
  /\ CheckEnds(FALSE)
  /\ UNCHANGED <<vars, process, orphan, ghost>>

CheckLooksAgain ==
  /\ check.pc = "first" /\ ~Agrees
  /\ check' = [check EXCEPT !.pc = "second"]
  /\ UNCHANGED <<vars, process, doubted, orphan, ghost>>

\* Mutant: the doubt does not outlast the check.
CheckDiffers_Forgets ==
  /\ check.pc = "second" /\ ~Agrees
  /\ CheckEnds(FALSE)
  /\ manual' = (manual \/ doubted)
  /\ UNCHANGED <<exchange, pos, grace, mark, due, timers, wd, cool, guard, request,
                 loop, h, history, process, orphan, ghost>>

\* The second check in a row that differs is a safety stop.
CheckDiffers ==
  /\ check.pc = "second" /\ ~Agrees
  /\ CheckEnds(~doubted)
  /\ manual' = (manual \/ doubted)
  /\ UNCHANGED <<exchange, pos, grace, mark, due, timers, wd, cool, guard, request,
                 loop, h, history, process, orphan, ghost>>

Reconciliation ==
  CheckBegins \/ CheckFails \/ CheckAgrees \/ CheckLooksAgain \/ CheckDiffers

-----------------------------------------------------------------------------
(* check_orphan_orders                                                      *)

\* load_known_order_ids.  The check runs every ten minutes, the engine saves
\* every second: a running engine has saved since the previous check.
OrphanRead ==
  /\ auditor = "orphan"
  /\ known = NotRunning
  /\ saved \/ phase # "up"
  /\ known' = {db.pos.entry} \ {None}
  /\ UNCHANGED <<vars, process, audit, suspects, saved, reported, ghost>>

\* Mutant: an alert at first sight.
OrphanAsk_AtOnce ==
  /\ known # NotRunning
  /\ suspects' = Active \ known
  /\ reported' = reported \cup suspects'
  /\ known' = NotRunning /\ saved' = FALSE
  /\ UNCHANGED <<vars, process, audit, ghost>>

\* Mutant: the candidates are not saved for the next check.
OrphanAsk_Unsaved ==
  /\ known # NotRunning
  /\ reported' = reported \cup ((Active \ known) \cap suspects)
  /\ known' = NotRunning /\ saved' = FALSE
  /\ UNCHANGED <<vars, process, audit, suspects, ghost>>

\* fetch_active_orders; the candidates are saved for the next check before
\* the alert about those that were candidates already.
OrphanAsk ==
  /\ known # NotRunning
  /\ suspects' = Active \ known
  /\ reported' = reported \cup (suspects' \cap suspects)
  /\ known' = NotRunning /\ saved' = FALSE
  /\ UNCHANGED <<vars, process, audit, ghost>>

OrphanFails ==
  /\ known # NotRunning /\ FetchFails
  /\ known' = NotRunning
  /\ UNCHANGED <<trader, h, history, process, audit, suspects, saved, reported,
                 ghost>>

OrphanCheck == OrphanRead \/ OrphanAsk \/ OrphanFails

-----------------------------------------------------------------------------
(* The engine of RealTrader, while it runs.                                 *)

HandlerGoesOn ==
  /\ phase = "up"
  /\ Handler /\ FreshId
  /\ UNCHANGED <<process, audit, orphan, ghost>>

Trading ==
  /\ phase = "up"
  /\ \/ BoardUpdate \/ Executions \/ LoseEvents \/ CoolExpires
     \/ \E p \in Entry : Timer(p) \/ GraceExpires(p)
  /\ UNCHANGED <<process, audit, orphan, ghost>>

MainLoop ==
  /\ phase = "up" /\ check.pc = "idle"
  /\ Watchdog \/ EquityCheck \/ EquityRequest \/ PauseDecided \/ Paused \/ Resumed
  /\ UNCHANGED <<process, audit, orphan, ghost>>

World ==
  /\ Exchange \/ GuardClear \/ \E on \in BOOLEAN : ManualStop(on)
  /\ UNCHANGED <<process, audit, orphan, ghost>>

RestartNext ==
  \/ Save \/ Crash \/ Boot \/ Trading \/ HandlerGoesOn \/ MainLoop \/ World
  \/ Reconciliation \/ OrphanCheck

RestartSpec == RestartInit /\ [][RestartNext]_allVars

(* Fairness.  A start goes on, since every call has a timeout; the main    *)
(* loop turns, a handler that runs ends, and the orphan check is started by*)
(* its timer; GMO answers a read now and then.                             *)
RestartLiveSpec ==
  /\ RestartSpec
  /\ WF_allVars(Boot) /\ WF_allVars(HandlerGoesOn)
  /\ SF_allVars(Save) /\ SF_allVars(CheckBegins) /\ WF_allVars(CheckAgrees)
  /\ SF_allVars(CheckLooksAgain) /\ SF_allVars(CheckDiffers)
  /\ WF_allVars(OrphanRead) /\ SF_allVars(OrphanAsk)

-----------------------------------------------------------------------------
(***************************************************************************)
(* No exit is booked twice, although the engine may end at any moment and  *)
(* take up a position again whose exit it had booked: _write_live_state    *)
(* saves the position and the counters in one row.                         *)
(***************************************************************************)
BookedOnce == \A p \in Entry : booked[p] <= 1

(***************************************************************************)
(* Every open position is known to the engine after any number of starts,  *)
(* whatever was executed while it was down and whichever of the reads at   *)
(* the start failed; the exceptions are orders the last row did not name   *)
(* (placed less than a second before the end), and an order that was       *)
(* executed between the two reads of the start.                            *)
(***************************************************************************)
KeptAcrossRestart == phase = "up" /\ excused = {} => PositionsKnown

Tracked(o) == pos.st = "pending" /\ pos.entry = o

(***************************************************************************)
(* check_orphan_orders sends no alert about the order the engine waits     *)
(* for: a live_state.db that is a second old and an activeOrders that is   *)
(* read later make it a candidate once, but not twice in a row.            *)
(***************************************************************************)
AlarmIsStray ==
  [][\A o \in reported' \ reported : ~Tracked(o)]_allVars

(***************************************************************************)
(* An order that works at GMO and that the engine does not know, left by   *)
(* an end of the process before its save, is reported in the end, or       *)
(* executes: nobody cancels it.                                            *)
(***************************************************************************)
StrayReported ==
  \A o \in Entry :
    auditor = "orphan" /\ ent[o] = "live" /\ ~Tracked(o)
      ~> ent[o] # "live" \/ Tracked(o) \/ o \in reported

Own == IF pos.st = "held" THEN 1 ELSE 0

(***************************************************************************)
(* Books and account do not disagree for ever: a position that the engine  *)
(* does not know, or one it holds that GMO has closed, sets the manual     *)
(* stop in the end, although starts, handlers and failed reads come between*)
(* the two checks that must see it.                                        *)
(***************************************************************************)
MismatchStops ==
  auditor = "reconciliation" /\ Cardinality(open) # Own
    ~> manual \/ Cardinality(open) = Own
=============================================================================
