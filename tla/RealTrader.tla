----------------------------- MODULE RealTrader -----------------------------
(***************************************************************************)
(* VirtualTrader in trading_mode "real": the life of the one position the  *)
(* engine keeps, from the entry order to the booked exit, against the      *)
(* exchange of GmoExchange.                                                *)
(*                                                                         *)
(* Every handler runs under trader._lock, so two handlers never interleave,*)
(* but a handler makes several REST calls and the exchange moves between   *)
(* them.  A handler is therefore a sequence of steps, one per REST call;   *)
(* h.pc # "idle" means that the lock is held.  Time is abstracted: an      *)
(* interval or a time-to-live may have passed at any moment.               *)
(***************************************************************************)
EXTENDS GmoExchange, Naturals

CONSTANTS
  MaxStopAttempts,   \* SL_MISSING_MAX_ATTEMPTS
  MaxCloseAttempts,  \* _FORCE_CLOSE_REAL_MAX_ATTEMPTS
  Interrupt          \* subset of Interrupts: what may interrupt the trading

Interrupts ==
  { "manual",        \* manual_stop.flag, set by an operator or a safety stop
    "maintenance",   \* the window before the weekly maintenance
    "guard",         \* the equity guard
    "pause" }        \* the main loop pauses after a manual stop

ASSUME TraderAssumption ==
  /\ Interrupt \subseteq Interrupts
  /\ MaxStopAttempts \in Nat \ {0}
  /\ MaxCloseAttempts \in Nat \ {0}

VARIABLES
  pos,      \* self.position
  grace,    \* _cancel_fill_grace_by_order_id
  mark,     \* the latest board relative to the position's SL and TP
  due,      \* _sl_first_attempt_position_id while a deferral is pending
  timers,   \* started deferral timers that have not run
  wd,       \* the SL-missing watchdog
  cool,     \* _force_close_real_cooldown_until lies ahead
  manual,   \* manual_stop.flag exists
  guard,    \* the equity guard is stopped
  request,  \* _guard_stop_cancel_requested
  loop,     \* the main loop: running, about to set the request of the guard,
            \* about to pause, paused
  h,        \* the handler that holds the lock
  booked,   \* history: times the exit of a position was settled
  excused   \* history: orders whose answer or execution event was lost, came
            \* too late, or was refused by the engine with an alert, and orders
            \* for which the position of another order was adopted

trader == <<pos, grace, mark, due, timers, wd, cool, manual, guard, request,
            loop>>
history == <<booked, excused>>
vars == <<exchange, trader, h, history>>

Flat == [st |-> "flat", entry |-> None, pid |-> None, stop |-> None]
NoWatch == [force |-> FALSE, att |-> 0, watch |-> None]
Idle == [pc |-> "idle", ret |-> "idle", by |-> "none", try |-> 0,
         todo |-> {}, pre |-> FALSE, blk |-> FALSE]

Marks == {"through_sl", "between", "at_tp"}
Stages == {"idle", "manual", "pre", "guard", "trade", "late", "after_stop"}
Calls == {"cancel", "cancel_fetch", "stop", "fc_cancel", "fc_fetch",
          "fc_close", "fc_confirm", "tp_cancel", "tp_fetch", "tp_close",
          "tp_confirm"}

Positions == [st : {"flat", "pending", "held"}, entry : Entry \cup {None},
              pid : Entry \cup {None}, stop : Stop \cup {None}]
Watches == [force : BOOLEAN, att : 0..MaxStopAttempts,
            watch : Entry \cup {None}]
Handlers == [pc : Stages \cup Calls, ret : Stages,
             by : {"none", "stop", "watchdog"}, try : 0..MaxCloseAttempts,
             todo : SUBSET Entry, pre : BOOLEAN, blk : BOOLEAN]

EngineTypeOK ==
  /\ pos \in Positions
  /\ grace \subseteq Entry
  /\ mark \in Marks
  /\ due \in Entry \cup {None}
  /\ timers \subseteq Entry
  /\ wd \in Watches
  /\ cool \in BOOLEAN /\ manual \in BOOLEAN
  /\ guard \in BOOLEAN /\ request \in BOOLEAN
  /\ loop \in {"running", "requesting", "pausing", "paused"}
  /\ h \in Handlers
  /\ booked \in [Entry -> Nat]
  /\ excused \subseteq Entry

TypeOK == ExchangeTypeOK /\ EngineTypeOK

EngineInit(first) ==
  /\ pos = first /\ grace = {} /\ mark = "between" /\ due = None
  /\ timers = {} /\ wd = NoWatch /\ cool = FALSE
  /\ manual = FALSE /\ guard = FALSE /\ request = FALSE /\ loop = "running"
  /\ h = Idle
  /\ booked = [p \in Entry |-> 0] /\ excused = {}

Init == ExchangeInit /\ EngineInit(Flat)

-----------------------------------------------------------------------------
(* The control of a handler.                                               *)

\* Go on with stage s of the running handler.
Resume(s) == IF s = "idle" THEN Idle
             ELSE [Idle EXCEPT !.pc = s, !.pre = h.pre, !.blk = h.blk]

\* Run the routine that starts with call c, then go on with stage r.
Call(c, r) == [Idle EXCEPT !.pc = c, !.ret = r, !.pre = h.pre, !.blk = h.blk]

Return == h' = Resume(h.ret)

\* _force_close_real for position p, on behalf of b.
ForceClose(p, b, r) ==
  [Call(IF p.stop = None THEN "fc_fetch" ELSE "fc_cancel", r)
     EXCEPT !.by = b, !.try = 1]

GoFlat == pos' = Flat /\ mark' = "between"

\* The values of a switch that interrupt i may turn on by itself.
MayTrip(on, i) == {on, on \/ i \in Interrupt}

\* Mutant: the position stays in the books after its exit was booked.
Settle_NotFlat ==
  /\ booked' = [p \in Entry |-> booked[p] + IF p = pos.pid THEN 1 ELSE 0]
  /\ UNCHANGED <<pos, mark>>
  /\ manual' \in MayTrip(manual, "manual")
  /\ guard' \in MayTrip(guard, "guard")

\* _settle_real_exit_from_execution_unlocked: book the exit, go flat, trip
\* the daily-loss stop if the loss reaches it; then the equity sync, which
\* evaluates the equity guard.
Settle ==
  /\ booked' = [p \in Entry |-> booked[p] + IF p = pos.pid THEN 1 ELSE 0]
  /\ GoFlat
  /\ manual' \in MayTrip(manual, "manual")
  /\ guard' \in MayTrip(guard, "guard")

\* The watchdog starts (or repeats) its market close of position p.
StartForceClose(p, w, r) ==
  /\ wd' = [w EXCEPT !.force = TRUE]
  /\ \/ h' = ForceClose(p, "watchdog", r)
     \/ w.force /\ h' = Resume(r)   \* SL_MISSING_CLOSE_RETRY_INTERVAL_SEC

\* _place_real_tp_sl_orders for position p up to its REST call.
PlaceStopOrders(p, w, r) ==
  /\ pos' = p
  /\ \/ mark' = "through_sl" /\ StartForceClose(p, w, r)
     \/ /\ mark' # "through_sl"
        /\ wd' = w
        /\ h' = IF p.pid = None THEN Resume(r) ELSE Call("stop", r)

\* A fill becomes the held position p (_place_first_real_sl_after_fill).
\* The STOP is deferred by 150 ms, unless the price is already through it,
\* the position has no id, or the timer thread does not start.  The watchdog's
\* state is left as it is.
HoldAfterFill(p) ==
  /\ mark' \in Marks
  /\ \/ /\ p.pid # None /\ mark' # "through_sl"
        /\ pos' = p
        /\ due' = p.pid
        /\ timers' = timers \cup {p.pid}
        /\ UNCHANGED <<wd, h>>
     \/ /\ PlaceStopOrders(p, wd, "idle")
        /\ due' = None
        /\ UNCHANGED timers

\* Mutant: the entry order is taken for the STOP.
Held_EntryAsStop(o, pid) == [st |-> "held", entry |-> o, pid |-> pid, stop |-> o]

Held(o, pid) == [st |-> "held", entry |-> o, pid |-> pid, stop |-> None]

-----------------------------------------------------------------------------
(* on_execution_event                                                      *)

EventHead(k) ==
  h.pc = "idle" /\ loop # "paused" /\ wire # <<>> /\ Head(wire).kind = k

TakeEvent == wire' = Tail(wire) /\ UNCHANGED <<ent, stop, mkt, open>>

\* The STOP of the held position executed.
StopEvent ==
  /\ EventHead("stop") /\ TakeEvent
  /\ pos.st = "held" /\ pos.stop = Head(wire).id
  /\ Settle
  /\ UNCHANGED <<grace, due, timers, wd, cool, request, loop, h, excused>>

\* A STOP the engine does not know of (any more).
UnknownStopEvent ==
  /\ EventHead("stop") /\ TakeEvent
  /\ ~(pos.st = "held" /\ pos.stop = Head(wire).id)
  /\ UNCHANGED <<trader, h, history>>

\* The pending entry order executed.
EntryEvent ==
  /\ EventHead("entry") /\ TakeEvent
  /\ pos.st = "pending" /\ pos.entry = Head(wire).id
  /\ HoldAfterFill(Held(pos.entry, Head(wire).pid))
  /\ UNCHANGED <<grace, cool, manual, guard, request, loop, history>>

\* _apply_post_cancel_grace_fill: a cancelled order executed all the same.
GraceFillEvent ==
  /\ EventHead("entry") /\ TakeEvent
  /\ Head(wire).id \in grace
  /\ pos.st = "flat"
  /\ grace' = grace \ {Head(wire).id}
  /\ HoldAfterFill(Held(Head(wire).id, Head(wire).pid))
  /\ UNCHANGED <<cool, manual, guard, request, loop, history>>

\* The same while another order or position is tracked: alert, ignore.
GraceFillIgnored ==
  /\ EventHead("entry") /\ TakeEvent
  /\ Head(wire).id \in grace
  /\ pos.st # "flat"
  /\ ~(pos.st = "pending" /\ pos.entry = Head(wire).id)
  /\ grace' = grace \ {Head(wire).id}
  /\ excused' = excused \cup {Head(wire).id}
  /\ UNCHANGED <<pos, mark, due, timers, wd, cool, manual, guard, request, loop,
                 h, booked>>

UnknownEntryEvent ==
  /\ EventHead("entry") /\ TakeEvent
  /\ Head(wire).id \notin grace
  /\ ~(pos.st = "pending" /\ pos.entry = Head(wire).id)
  /\ UNCHANGED <<trader, h, history>>

-----------------------------------------------------------------------------
(* on_orderbook_update: a sequence of stages, each of which may enter one   *)
(* of the routines below and is followed by the next stage.                 *)

\* A stage sends the handler on and changes nothing else.
Goto(c) == h' = c /\ UNCHANGED <<exchange, trader, history>>

BoardUpdate ==
  /\ h.pc = "idle" /\ loop # "paused"
  /\ mark' \in IF pos.st = "held" THEN Marks ELSE {"between"}
  /\ \E pre \in MayTrip(FALSE, "maintenance") :
       h' = [Idle EXCEPT !.pc = "manual", !.pre = pre]
  /\ UNCHANGED <<exchange, pos, grace, due, timers, wd, cool, manual, guard,
                 request, loop, history>>

\* Mutant: a pending order is left to its timeout.
MakeSafe_HeldOnly(r) ==
  IF pos.st = "held" /\ ~cool THEN ForceClose(pos, "stop", r) ELSE Resume(r)

\* _update_maintenance_state makes the engine safe: cancel the pending order,
\* or close the position unless a failed close is cooling down.
MakeSafe(r) ==
  CASE pos.st = "pending" -> Call("cancel", r)
    [] pos.st = "held" /\ ~cool -> ForceClose(pos, "stop", r)
    [] OTHER -> Resume(r)

ManualStage ==
  /\ h.pc = "manual"
  /\ Goto(IF manual THEN MakeSafe("pre") ELSE Resume("pre"))

\* The window before the weekly maintenance (maintenance_pre_action = close).
PreStage ==
  /\ h.pc = "pre"
  /\ Goto(IF h.pre THEN MakeSafe("guard") ELSE Resume("guard"))

\* _is_entry_blocked (a maintenance window and the safe mode may hold at any
\* time), then the cancel the equity guard asked for.
GuardStage ==
  /\ h.pc = "guard"
  /\ request' = FALSE
  /\ \E blk \in IF manual \/ guard \/ h.pre THEN {TRUE} ELSE BOOLEAN :
       LET next == IF request /\ pos.st = "pending" THEN Call("cancel", "trade")
                   ELSE Resume("trade")
       IN  h' = [next EXCEPT !.blk = blk]
  /\ UNCHANGED <<exchange, pos, grace, mark, due, timers, wd, cool, manual,
                 guard, loop, history>>

\* _check_pending_fill: spread or imbalance cancels, then timeout or deviation.
PendingStage ==
  /\ h.pc \in {"trade", "late"} /\ pos.st = "pending"
  /\ LET next == IF h.pc = "trade" THEN "late" ELSE "idle"
     IN  Goto(Call("cancel", next)) \/ Goto(Resume(next))

\* _check_active_position: take profit from the board.
HeldStage ==
  /\ h.pc = "trade" /\ pos.st = "held"
  /\ Goto(IF mark = "at_tp" /\ ~wd.force /\ pos.pid # None
          THEN Call(IF pos.stop = None THEN "tp_close" ELSE "tp_cancel", "idle")
          ELSE Idle)

\* No signal, an entry cooldown, a blocked entry, or nothing left to do.
NoEntry ==
  /\ \/ h.pc = "trade" /\ pos.st = "flat"
     \/ h.pc = "late" /\ pos.st # "pending"
  /\ Goto(Idle)

\* Mutant: an entry although a position is held.
EntryStage_WhileHeld == h.pc = "trade" /\ pos.st # "pending" /\ ~h.blk

EntryStage == h.pc = "trade" /\ pos.st = "flat" /\ ~h.blk

\* _enter_real_limit; without an answer nothing is remembered of the order.
EnterRealLimit(o, r) ==
  /\ EntryStage
  /\ PlaceEntry(o, r)
  /\ pos' = IF r = "ok" THEN [Flat EXCEPT !.st = "pending", !.entry = o] ELSE pos
  /\ excused' = IF r = "ok" THEN excused ELSE excused \cup {o}
  /\ h' = Idle
  /\ UNCHANGED <<grace, mark, due, timers, wd, cool, manual, guard, request, loop,
                 booked>>

\* _before_entry_order: the order rate limit trips the safety stop.
RateLimited ==
  /\ EntryStage /\ "manual" \in Interrupt
  /\ manual' = TRUE
  /\ h' = Idle
  /\ UNCHANGED <<exchange, pos, grace, mark, due, timers, wd, cool, guard,
                 request, loop, history>>

-----------------------------------------------------------------------------
(* _cancel_order, _cancel_real_entry_order_or_adopt_fill                    *)

FetchFails == Fault \cap {"reject", "maintenance"} # {} /\ UNCHANGED exchange

\* A cancel that failed, for the engine: the order stays pending.
CancelFails ==
  /\ CancelEntry(pos.entry, "error")
  /\ excused' = IF ent' = ent THEN excused ELSE excused \cup {pos.entry}
  /\ Return
  /\ UNCHANGED <<pos, mark, grace>>

CancelRefused ==
  /\ CancelEntry(pos.entry, "benign")
  /\ h' = [h EXCEPT !.pc = "cancel_fetch"]
  /\ UNCHANGED <<pos, mark, grace, excused>>

\* Mutant: a cancel that failed forgets the order.
CancelCall_ErrorForgets ==
  /\ h.pc = "cancel"
  /\ \/ /\ CancelEntry(pos.entry, "ok") \/ CancelEntry(pos.entry, "error")
        /\ GoFlat
        /\ grace' = grace \cup {pos.entry}
        /\ Return /\ UNCHANGED excused
     \/ CancelRefused
  /\ UNCHANGED <<due, timers, wd, cool, manual, guard, request, loop, booked>>

\* Mutant: an accepted cancel is taken for the end of the order.
CancelCall_NoGrace ==
  /\ h.pc = "cancel"
  /\ \/ /\ CancelEntry(pos.entry, "ok")
        /\ GoFlat
        /\ Return /\ UNCHANGED <<grace, excused>>
     \/ CancelFails
     \/ CancelRefused
  /\ UNCHANGED <<due, timers, wd, cool, manual, guard, request, loop, booked>>

\* Accepted: go flat, but remember the order for the grace period.  Failed:
\* keep pending.  Already executed or cancelled: look at openPositions.
CancelCall ==
  /\ h.pc = "cancel"
  /\ \/ /\ CancelEntry(pos.entry, "ok")
        /\ GoFlat
        /\ grace' = grace \cup {pos.entry}
        /\ Return /\ UNCHANGED excused
     \/ CancelFails
     \/ CancelRefused
  /\ UNCHANGED <<due, timers, wd, cool, manual, guard, request, loop, booked>>

\* Mutant: "already executed or cancelled" is taken for cancelled.
CancelFetch_NoLook ==
  /\ h.pc = "cancel_fetch"
  /\ GoFlat /\ Return
  /\ UNCHANGED <<exchange, grace, due, timers, wd, cool, manual, guard, request,
                 loop, history>>

\* A position that is found is adopted, whichever order opened it.
CancelFetch ==
  /\ h.pc = "cancel_fetch"
  /\ \/ FetchFails /\ Return /\ UNCHANGED <<pos, mark, wd, excused>>
     \/ open = {} /\ GoFlat /\ Return /\ UNCHANGED <<exchange, wd, excused>>
     \/ /\ mark' \in Marks
        /\ \E p \in open :
             /\ PlaceStopOrders(Held(pos.entry, p), wd, h.ret)
             /\ excused' = excused \cup ({pos.entry} \ {p})
        /\ UNCHANGED exchange
  /\ UNCHANGED <<grace, due, timers, cool, manual, guard, request, loop, booked>>

-----------------------------------------------------------------------------
(* _place_real_tp_sl_orders, from its REST call on, and the SL watchdog     *)

\* _note_sl_placement_failure; the maintenance codes do not count.
Noted(maintenance) ==
  LET w == IF wd.watch \in {None, pos.pid} THEN wd ELSE NoWatch
  IN  [w EXCEPT !.watch = pos.pid,
                !.att = IF maintenance \/ @ = MaxStopAttempts THEN @ ELSE @ + 1]

StopFailed(maintenance) ==
  /\ pos' = [pos EXCEPT !.stop = None]
  /\ wd' = Noted(maintenance)

\* Mutant: the STOP is placed for whichever position openPositions lists.
StopCall_AnyPosition ==
  /\ h.pc = "stop"
  /\ \/ \E s \in Stop, p \in open : /\ s # pos.stop
                                   /\ PlaceStop(p, s, "ok")
                                   /\ pos' = [pos EXCEPT !.stop = s]
                                   /\ wd' = NoWatch
     \/ (Refused("error") \/ CloseImpossible(pos.pid)) /\ StopFailed(FALSE)
  /\ Return
  /\ UNCHANGED <<grace, mark, due, timers, cool, manual, guard, request, loop,
                 booked, excused>>

StopCall ==
  /\ h.pc = "stop"
  /\ \/ \E s \in Stop : /\ s # pos.stop
                      /\ PlaceStop(pos.pid, s, "ok")
                      /\ pos' = [pos EXCEPT !.stop = s]
                      /\ wd' = NoWatch
     \/ \E s \in Stop : /\ s # pos.stop
                      /\ PlaceStop(pos.pid, s, "error")
                      /\ StopFailed(FALSE)
     \/ (Refused("error") \/ CloseImpossible(pos.pid)) /\ StopFailed(FALSE)
     \/ "maintenance" \in Fault /\ UNCHANGED exchange /\ StopFailed(TRUE)
  /\ Return
  /\ UNCHANGED <<grace, mark, due, timers, cool, manual, guard, request, loop,
                 booked, excused>>

\* One tick a second, on the main thread.
WatchdogTick == h.pc = "idle" /\ loop # "requesting" /\ UNCHANGED
  <<exchange, grace, mark, timers, cool, manual, guard, request, loop, history>>

\* Flat, or the STOP stands.
WatchdogClears ==
  /\ WatchdogTick
  /\ pos.st = "flat" \/ (pos.st = "held" /\ pos.pid # None /\ pos.stop # None)
  /\ wd' = NoWatch
  /\ UNCHANGED <<pos, due, h>>

Naked == pos.st = "held" /\ pos.pid # None /\ pos.stop = None

\* Mutant: a forced close that failed is not repeated.
WatchdogCloses_Once ==
  /\ WatchdogTick
  /\ Naked /\ ~wd.force
  /\ \/ mark = "through_sl" /\ UNCHANGED due
     \/ wd.att > 0 /\ mark # "through_sl" /\ due' = None
  /\ StartForceClose(pos, wd, "idle")
  /\ UNCHANGED pos

\* The price is through the SL, the failures are exhausted, or 10 s have
\* passed since the first one: close at market.
WatchdogCloses ==
  /\ WatchdogTick
  /\ Naked
  /\ \/ (wd.force \/ mark = "through_sl") /\ UNCHANGED due
     \/ wd.att > 0 /\ mark # "through_sl" /\ due' = None
  /\ StartForceClose(pos, wd, "idle")
  /\ UNCHANGED pos

\* Place the STOP (again); a deferral is over by then.
WatchdogRetries ==
  /\ WatchdogTick
  /\ Naked /\ ~wd.force /\ mark # "through_sl" /\ wd.att < MaxStopAttempts
  /\ due' = None
  /\ PlaceStopOrders(pos, wd, "after_stop")

\* What the watchdog does after its own failed attempt.
AfterStopStage ==
  /\ h.pc = "after_stop"
  /\ \/ /\ pos.st = "held" /\ pos.stop = None /\ ~wd.force /\ wd.att > 0
        /\ StartForceClose(pos, wd, "idle")
     \/ /\ ~(Naked /\ ~wd.force /\ wd.att = MaxStopAttempts)
        /\ h' = Idle
        /\ UNCHANGED wd
  /\ UNCHANGED <<exchange, pos, grace, mark, due, timers, cool, manual, guard,
                 request, loop, history>>

\* _run_deferred_first_sl for position p.
Timer(p) ==
  /\ h.pc = "idle"
  /\ p \in timers
  /\ timers' = timers \ {p}
  /\ due' = IF due = p THEN None ELSE due
  /\ mark' = mark
  /\ IF due = p /\ Naked /\ pos.pid = p /\ ~wd.force
     THEN PlaceStopOrders(pos, wd, "idle")
     ELSE UNCHANGED <<pos, wd, h>>
  /\ UNCHANGED <<exchange, grace, cool, manual, guard, request, loop, history>>

-----------------------------------------------------------------------------
(* _force_close_real                                                        *)

\* The SL is cancelled, whatever the answer.
ForceCancel ==
  /\ h.pc = "fc_cancel"
  /\ \E r \in {"ok", "benign", "error"} : CancelStop(pos.stop, r)
  /\ h' = [h EXCEPT !.pc = "fc_fetch"]
  /\ UNCHANGED <<trader, history>>

\* An exception: the next attempt, or the cooldown.
AttemptFails ==
  IF h.try < MaxCloseAttempts
  THEN /\ h' = [h EXCEPT !.pc = "fc_fetch", !.try = @ + 1, !.todo = {}]
       /\ UNCHANGED cool
  ELSE cool' = TRUE /\ Return

\* True is returned; the watchdog then forgets the position.
ForceCloseDone ==
  /\ Return
  /\ wd' = IF h.by = "watchdog" THEN NoWatch ELSE wd
  /\ UNCHANGED cool

\* No open positions: go flat and sync the balance, but book nothing.
ForceFetch ==
  /\ h.pc = "fc_fetch"
  /\ UNCHANGED exchange
  /\ \/ FetchFails /\ AttemptFails /\ UNCHANGED <<pos, mark, wd, guard>>
     \/ open = {} /\ GoFlat /\ ForceCloseDone /\ guard' \in MayTrip(guard, "guard")
     \/ /\ open # {}
        /\ h' = [h EXCEPT !.pc = "fc_close", !.todo = open]
        /\ UNCHANGED <<pos, mark, wd, guard, cool>>
  /\ UNCHANGED <<grace, due, timers, manual, request, loop, history>>

\* A market close for each of the positions found.
ForceClosePlace ==
  /\ h.pc = "fc_close"
  /\ \E p \in h.todo :
       \/ /\ PlaceMarket(p, "ok")
          /\ h' = [h EXCEPT !.todo = @ \ {p},
                            !.pc = IF h.todo = {p} THEN "fc_confirm" ELSE @]
          /\ UNCHANGED cool
       \/ /\ PlaceMarket(p, "error") \/ Refused("error") \/ CloseImpossible(p)
          /\ AttemptFails
  /\ UNCHANGED <<pos, grace, mark, due, timers, wd, manual, guard, request, loop,
                 history>>

\* Up to three looks at openPositions, then the attempt has failed.
ForceConfirm ==
  /\ h.pc = "fc_confirm"
  /\ \/ open = {} /\ Settle /\ ForceCloseDone
     \/ /\ open # {} \/ FetchFails
        /\ AttemptFails
        /\ UNCHANGED <<pos, mark, wd, manual, guard, booked>>
  /\ UNCHANGED <<exchange, grace, due, timers, request, loop, excused>>

-----------------------------------------------------------------------------
(* _execute_real_board_take_profit_unlocked                                 *)

\* Cancel the STOP; unless that fails, close at market.
TakeProfitCancel ==
  /\ h.pc = "tp_cancel"
  /\ \/ CancelStop(pos.stop, "ok") /\ h' = [h EXCEPT !.pc = "tp_close"]
     \/ CancelStop(pos.stop, "benign") /\ h' = [h EXCEPT !.pc = "tp_fetch"]
     \/ CancelStop(pos.stop, "error") /\ h' = Idle
  /\ UNCHANGED <<trader, history>>

\* Mutant: the MARKET order is taken for its execution.
SettleIfGone_Unconfirmed ==
  /\ Settle
  /\ h' = Idle
  /\ UNCHANGED <<exchange, grace, due, timers, wd, cool, request, loop, excused>>

\* Book the exit if the position is gone.
SettleIfGone ==
  /\ pos.pid \notin open
  /\ Settle
  /\ h' = Idle
  /\ UNCHANGED <<exchange, grace, due, timers, wd, cool, request, loop, excused>>

\* The STOP was done already: is the position still there?
TakeProfitFetch ==
  /\ h.pc = "tp_fetch"
  /\ \/ FetchFails /\ h' = Idle /\ UNCHANGED <<trader, history>>
     \/ SettleIfGone
     \/ pos.pid \in open /\ Goto([h EXCEPT !.pc = "tp_close"])

TakeProfitClose ==
  /\ h.pc = "tp_close"
  /\ \/ PlaceMarket(pos.pid, "ok") /\ h' = [h EXCEPT !.pc = "tp_confirm"]
     \/ /\ \/ PlaceMarket(pos.pid, "error") \/ Refused("error")
           \/ CloseImpossible(pos.pid)
        /\ h' = Idle
  /\ UNCHANGED <<trader, history>>

\* Confirm, or give up: the position stays in the books with its old STOP id.
TakeProfitConfirm ==
  /\ h.pc = "tp_confirm"
  /\ \/ SettleIfGone
     \/ (pos.pid \in open \/ FetchFails) /\ Goto(Idle)

-----------------------------------------------------------------------------
(* The passing of time, the main loop, the operator and the streams.        *)

CoolExpires ==
  /\ cool
  /\ cool' = FALSE
  /\ UNCHANGED <<exchange, pos, grace, mark, due, timers, wd, manual, guard,
                 request, loop, h, history>>

\* ENTRY_CANCEL_FILL_GRACE_SEC have passed since the cancel of order o.
GraceExpires(o) ==
  /\ o \in grace
  /\ grace' = grace \ {o}
  /\ excused' = excused \cup {o}
  /\ UNCHANGED <<exchange, pos, mark, due, timers, wd, cool, manual, guard,
                 request, loop, h, booked>>

\* The operator, a reconciliation mismatch or the daily loss limit set the
\* flag; only the operator removes it.
ManualStop(on) ==
  /\ "manual" \in Interrupt
  /\ manual # on
  /\ manual' = on
  /\ UNCHANGED <<exchange, pos, grace, mark, due, timers, wd, cool, guard,
                 request, loop, h, history>>

\* Mutant: the cancel is requested only when the guard trips.
EquityCheck_OnTrip ==
  /\ "guard" \in Interrupt
  /\ loop = "running"
  /\ guard' \in MayTrip(guard, "guard")
  /\ loop' = IF ~guard /\ guard' /\ pos.st = "pending" /\ ~request
             THEN "requesting" ELSE loop
  /\ UNCHANGED <<exchange, pos, grace, mark, due, timers, wd, cool, manual, request,
                 h, history>>

\* run_equity_guard_check runs on the main thread, without the lock: it sees
\* the pending order ...  The guard is released by the operator's command only.
EquityCheck ==
  /\ "guard" \in Interrupt
  /\ loop = "running"
  /\ guard' \in MayTrip(guard, "guard")
  /\ loop' = IF guard' /\ pos.st = "pending" /\ ~request THEN "requesting" ELSE loop
  /\ UNCHANGED <<exchange, pos, grace, mark, due, timers, wd, cool, manual, request,
                 h, history>>

\* ... and sets the request, whatever the board thread did in between.
EquityRequest ==
  /\ loop = "requesting"
  /\ loop' = "running"
  /\ request' = TRUE
  /\ UNCHANGED <<exchange, pos, grace, mark, due, timers, wd, cool, manual, guard,
                 h, history>>

GuardClear ==
  /\ guard
  /\ guard' = FALSE
  /\ UNCHANGED <<exchange, pos, grace, mark, due, timers, wd, cool, manual,
                 request, loop, h, history>>

\* The executions that are on their way to a stream that ends are lost.
DropEvents ==
  /\ wire' = <<>>
  /\ excused' = excused \cup ({e.id : e \in InFlight} \cap Entry)
  /\ UNCHANGED <<ent, stop, mkt, open, booked>>

LoseEvents ==
  /\ "lost_event" \in Fault /\ wire # <<>>
  /\ DropEvents
  /\ UNCHANGED <<trader, h>>

Loop(from, to) ==
  /\ loop = from /\ loop' = to
  /\ UNCHANGED <<pos, grace, mark, due, timers, wd, cool, manual, guard, request, h>>

\* The flag is set and the engine looks flat, seen under the lock ...
PauseDecided ==
  /\ "pause" \in Interrupt
  /\ manual /\ h.pc = "idle" /\ pos.st = "flat"
  /\ Loop("running", "pausing")
  /\ UNCHANGED <<exchange, history>>

\* ... and only later the streams are stopped.
Paused == h.pc = "idle" /\ Loop("pausing", "paused") /\ DropEvents

Resumed == ~manual /\ Loop("paused", "running") /\ DropEvents

Exchange == ExchangeStep /\ UNCHANGED <<trader, h, history>>

Handler ==
  \/ ManualStage \/ PreStage \/ GuardStage \/ PendingStage \/ HeldStage
  \/ NoEntry \/ (\E o \in Entry, r \in {"ok", "error"} : EnterRealLimit(o, r))
  \/ RateLimited \/ CancelCall \/ CancelFetch \/ StopCall \/ AfterStopStage
  \/ ForceCancel \/ ForceFetch \/ ForceClosePlace \/ ForceConfirm
  \/ TakeProfitCancel \/ TakeProfitFetch \/ TakeProfitClose \/ TakeProfitConfirm

Executions ==
  \/ StopEvent \/ UnknownStopEvent \/ EntryEvent
  \/ GraceFillEvent \/ GraceFillIgnored \/ UnknownEntryEvent

Watchdog == WatchdogClears \/ WatchdogCloses \/ WatchdogRetries

Environment ==
  \/ CoolExpires \/ (\E o \in Entry : GraceExpires(o))
  \/ (\E on \in BOOLEAN : ManualStop(on))
  \/ EquityCheck \/ EquityRequest \/ GuardClear \/ LoseEvents
  \/ PauseDecided \/ Paused \/ Resumed \/ Exchange

Next ==
  \/ BoardUpdate \/ Handler \/ Executions \/ Watchdog
  \/ (\E p \in Entry : Timer(p)) \/ Environment

Spec == Init /\ [][Next]_vars

-----------------------------------------------------------------------------
(* Fairness.  A handler that runs goes on (every REST call has a timeout);  *)
(* boards keep coming and the main loop wakes up every second, and as the   *)
(* lock is contested but free between handlers, each of them obtains it now *)
(* and then; cooldowns end; an accepted MARKET order executes.              *)
Scheduled ==
  /\ WF_vars(Handler)
  /\ SF_vars(BoardUpdate)
  /\ SF_vars(Watchdog)
  /\ SF_vars(Executions)
  /\ WF_vars((guard /\ EquityCheck) \/ EquityRequest)
  /\ WF_vars(CoolExpires)
  /\ \A p \in Entry : WF_vars(FillMarket(p) /\ UNCHANGED <<trader, h, history>>)

\* GMO refuses a call that is made again and again only for so long.
Answered ==
  /\ SF_vars(CancelCall /\ (ent' # ent \/ h'.pc = "cancel_fetch"))
  /\ SF_vars(CancelFetch /\ pos' # pos)
  /\ SF_vars(ForceCancel /\ stop' # stop)
  /\ SF_vars(ForceFetch /\ (pos' # pos \/ h'.pc = "fc_close"))
  /\ SF_vars(ForceClosePlace /\ mkt' # mkt)
  /\ SF_vars(ForceConfirm /\ pos' # pos)

LiveSpec == Spec /\ Scheduled /\ Answered

-----------------------------------------------------------------------------
(* What holds whatever the exchange does.                                   *)

OnWire(p) == \E e \in InFlight : e.pid = p

(***************************************************************************)
(* An exit is booked (KPI, daily loss) only for a position that is really  *)
(* closed: every path to _settle_real_exit_from_execution_unlocked (the    *)
(* execution of the STOP, the board take-profit, the forced close) has seen*)
(* the close, even if answers, events or orders of other positions         *)
(* interleave with it.                                                     *)
(***************************************************************************)
BookedAfterClose == \A p \in Entry : booked[p] > 0 => p \notin open

(***************************************************************************)
(* No entry order is left working at GMO behind the engine's back: the     *)
(* cancel / adopt routine and _enter_real_limit forget an order only once  *)
(* it is executed or its cancel is accepted.  The order whose acceptance   *)
(* was lost on the way is the one exception.                               *)
(***************************************************************************)
OrdersTracked ==
  \A o \in Entry : ent[o] = "live" =>
    (pos.st = "pending" /\ pos.entry = o) \/ o \in excused

\* Order o may still open a position, or has opened one that is open and its
\* execution event is on its way.
Announced(o) == \E e \in InFlight : e.kind = "entry" /\ e.id = o
Loose(o) == Pending(ent[o]) \/ (o \in open /\ Announced(o))

(***************************************************************************)
(* An execution never meets an engine that has forgotten the order: until  *)
(* it cannot execute any more, or its event is handled, the order is       *)
(* pending or held, or remembered for a late execution, although accepted  *)
(* cancels may come too late, a refused cancel may mean an execution, and  *)
(* other orders and positions come and go in the meantime.  The exceptions *)
(* are those of excused: the answer to the order or to its cancel was lost,*)
(* the grace period is over, an alert was sent, or openPositions listed    *)
(* the position of another order first.                                    *)
(***************************************************************************)
LateFillsTracked ==
  \A o \in Entry : Loose(o) =>
    (pos.st # "flat" /\ pos.entry = o) \/ o \in grace \/ o \in excused

(***************************************************************************)
(* sl_order_id never names the STOP of another position: a board           *)
(* take-profit or forced close cancels its own STOP, and the execution of  *)
(* a STOP settles the position it belongs to, although positions are       *)
(* adopted, closed and replaced while executions are still on their way.   *)
(***************************************************************************)
StopBelongs ==
  pos.stop # None =>
    /\ stop[pos.stop].pid \in {None, pos.pid}
    /\ \A e \in InFlight : e.kind = "stop" /\ e.id = pos.stop => e.pid = pos.pid

-----------------------------------------------------------------------------
(* What holds as long as accepted cancels are effective at once.            *)

\* The state of TradeBook that a state of the engine and GMO stands for.
Life(p) ==
  IF p \in open THEN "open"
  ELSE [none |-> "new", live |-> "sent", cxl |-> "sent", gone |-> "void",
        filled |-> "closed"][ent[p]]

Book == INSTANCE TradeBook
  WITH Position <- Entry, life <- [p \in Entry |-> Life(p)], exits <- booked

(***************************************************************************)
(* The engine implements TradeBook: with boards, executions, timers, the   *)
(* watchdog, manual stop, maintenance and equity guard interleaved, there  *)
(* is one exposure at a time, and each exit is booked at most once, after  *)
(* the position is closed.                                                 *)
(***************************************************************************)
OneTradeAtATime == Book!Spec

(***************************************************************************)
(* Every open position is the one the engine holds (or its pending order), *)
(* or its execution event is still on the way; the exceptions are those    *)
(* that were lost with an answer or a stream.                              *)
(***************************************************************************)
PositionsKnown ==
  \A p \in open :
    \/ p = pos.pid \/ OnWire(p)
    \/ pos.entry = p /\ pos.pid = None
    \/ p \in excused

(***************************************************************************)
(* The position held is the one that the tracked entry order opened, as    *)
(* _match_open_position_for_pending_entry is meant to find "the position   *)
(* that corresponds to the pending entry".                                 *)
(***************************************************************************)
HoldsOwnPosition == pos.pid \in {None, pos.entry}

-----------------------------------------------------------------------------
(* What the documents promise.                                              *)

(***************************************************************************)
(* A position without its STOP gets it, or is closed, again and again:     *)
(* the watchdog's promise.                                                 *)
(***************************************************************************)
WatchdogProtects == Naked ~> ~Naked

(***************************************************************************)
(* While manual_stop.flag stays, the pending order is cancelled and the    *)
(* position closed, by retrying forever with a cooldown in between.        *)
(***************************************************************************)
ManualStopFlattens == manual /\ loop = "running" ~> ~manual \/ pos.st = "flat"

(***************************************************************************)
(* An order that is pending while the equity guard is stopped is cancelled,*)
(* or becomes a position: the request of the main thread is not lost to    *)
(* the board thread that clears the flag, and is made again if the cancel  *)
(* fails.                                                                  *)
(***************************************************************************)
GuardCancelsPending ==
  guard /\ pos.st = "pending" ~> pos.st # "pending" \/ ~guard

(***************************************************************************)
(* The exit of every position that was opened and closed is booked, unless *)
(* its executions were lost.                                               *)
(***************************************************************************)
ExitsBooked ==
  \A p \in Entry :
    ent[p] = "filled" /\ p \notin open \cup excused \cup {pos.pid} /\ ~OnWire(p)
      => booked[p] = 1

(***************************************************************************)
(* A position that the books say has a STOP has it at GMO, between two     *)
(* handlers.                                                               *)
(***************************************************************************)
StandingStop ==
  h.pc = "idle" /\ pos.stop # None /\ pos.pid \in open => stop[pos.stop].st # "none"

(***************************************************************************)
(* The engine is flat while it is paused.                                  *)
(***************************************************************************)
PausedIsFlat == loop = "paused" => pos.st = "flat"
=============================================================================
