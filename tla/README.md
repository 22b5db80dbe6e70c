# TLA+ models of the BTC trading engine

This directory holds a verification development for the trading engine of this repository: `src/trading_engine.py`,
the package `src/btc_trading_tool/`, and the scripts and the nightly review that start, watch and reconfigure it. It models
the parts whose correctness depends on the order in which things happen (REST calls, execution events, threads, timers, operator
commands, kills, restarts, nightly writes), checks them with TLC on small instances, and proves the central invariants with
TLAPS for every instance. The source lines of every definition are listed in `PROJECT.json` under `map`.

Abbreviations: VT = `src/btc_trading_tool/virtual_trader.py`, TE = `src/trading_engine.py`,
WSM = `src/btc_trading_tool/websocket_manager.py`, EG = `src/btc_trading_tool/equity_guard.py`,
RP = `src/ai_review/review_pipeline.py`, TR = `src/btc_trading_tool/tick_recorder.py`.

## 1. The system

One engine process trades BTC/JPY on GMO Coin with at most one position. It runs these activities:

| Activity | Runs | Takes `trader._lock` |
|---|---|---|
| board thread | `on_orderbook_update` for each board of the public WebSocket | yes |
| execution thread | `on_execution_event` for each event of the private WebSocket | yes |
| first-STOP timer | `_run_deferred_first_sl`, 150 ms after a fill | yes |
| main thread | once a second: SL watchdog, equity guard, live_state, reconciliation, day rollover, pause and resume | for each of the trader's methods, but not for the guard's cancel request |
| stream threads | reconnection, token renewal | no |
| tick recorder | a writer thread behind a queue | no |
| operator, dashboard, command line | `manual_stop.flag`, `equity_guard clear` / `rebaseline`, `config.json` | other processes: files |
| monitors, restart scripts | start, restart and watch the engine | other processes: process list, files |
| orphan-order check, nightly review | read `live_state.db`; write `config.json` | other processes: files |
| other engines of the host | start, trade, end | other processes: `gmo_trade_key.lock` |

A handler under the lock makes several REST calls, up to some seconds each. No other handler runs in the
meantime, but GMO executes orders, and its events queue up behind the lock.

### Inventory

For each component: its state, its operations, what is hard about it, what makes it correct.

* **Process lock** (TE 120-280). State: the lock file, its flock. Operations: acquire, release, death.
  Hard: release is three system calls that interleave with the start of another engine; kills.
  Correct: two engines never trade with one key; a kill never blocks the next start.
* **Life of a real position** (VT 475-860, 1079-1380, 2306-3936). State: `position`, the grace list of
  cancelled orders, the watchdog's counters, the deferral of the first STOP, the force-close cooldown.
  Operations: entry, cancel or adoption, STOP placement, watchdog, board take-profit, forced close, settlement.
  Hard: every routine is a chain of REST calls each of which may be refused, answered too late or not
  at all, while the STOP may execute and events wait. Correct: the engine knows every order and
  position it has at GMO, holds one at a time, books each exit once and only after the close, and never
  leaves a position unprotected for good.
* **GMO and its private stream** (external; VT 4433-4954 and WSM 368-658 are the client). Hard: orders that
  execute after an accepted cancel, lost answers, events dropped by a reconnect, executions without position id.
* **Main loop** (TE 863-1229). State: running / paused. Operations: ticks, pause on the manual stop, resume,
  start-up. Hard: decisions taken under the lock and carried out after it was released.
* **Ledger, daily loss limit, virtual mode** (VT 600-717, 861-896, 1079-1480, 2079-2445, 3616-4020; TE 282-353, 872-971). State:
  cash, profits, counters of the day, the pending or held position, the order timestamps, one row of `live_state.db`. Hard: two
  representations of one result (floored and not), day rollover against a trade in flight, restart, a limit that is checked
  before and counted after. Correct: cash and profits agree; the limit stops the day when the booked losses reach it.
* **Start-up and periodic reconciliation, orphan-order check** (VT 1600-2001, 4826-4954; `scripts/check_orphan_orders.py`). Hard: a crash
  between an accepted order and the next save; two reads of GMO one after the other; a REST answer compared with state read
  at another time; two processes. Correct: what GMO has is known to the engine or reported, and what is reported is real.
* **Equity guard** (EG). State: a JSON file shared with the command line, a cache, the stop flag. Hard:
  read-modify-write by two processes. Correct: a stop is released by the operator only.
* **WebSocket managers and safe mode** (WSM, VT 898-916, 1231-1259). State: socket, threads, stop events, token and generation,
  maintenance flag, safe mode. Hard: stop against reconnect; a renewer that outlives its session; a flag that a new manager does
  not inherit. Correct: no entry between an error and its recovery; a stopped manager ends; a lost stream comes back.
* **Tick recorder** (`tick_recorder.py`). A bounded queue, a writer thread, files that are compressed and pruned. Hard: full
  queue, day change, shutdown, a process that ends in the middle. Correct: what was written stays.
* **Profiles and configuration** (`profile_config.py`, `config_manager.py`, TE 423-515). State: `config.json`, its history and its
  remembered copy, the profile locked for an order. Hard: a trade that outlives its profile, its clock and its process.
  Correct: a trade is judged by the profile that placed it, and the review is told what a change did.
* **Monitors** (`check_engine_process.py`, `monitor_heartbeat.py`, `check_monitor_heartbeats.py`, `check_engine_crash_loop.py`). Small state
  machines across scheduled runs that share files. Correct: a failure that lasts is noticed, and a flag or a
  cooldown that spaces the notices does not suppress the next failure for good.
* **Nightly AI review** (`src/ai_review/`). State: the parameters of `config.json` and their pending rollouts. Hard: two writes of one night, nights
  that fail, a gate that is asked after an entry was made. The language models are external.
* **Strategy, metrics, dashboard.** The strategy is a function of a board; metrics and dashboard only read, but for two buttons.
* **Consistency tools, reports, social media, deployment.** No state that trading depends on.

`PROJECT.json` lists each of them under `components` with its status, and the hazards with their lines.

## 2. Modules

| Module | Models |
|---|---|
| `TradeKeyLock` | `gmo_trade_key.lock`: open, flock, diagnostic write, refusal, two-step release, kill |
| `GmoExchange` | the exchange as the engine uses it: what a REST call with a given answer does, what GMO does on its own, the execution events on the way |
| `RealTrader` | `VirtualTrader` in real mode with the main loop's share of it, on top of `GmoExchange` |
| `TradeBook` | the abstract specification: what the engine promises of the trades it makes |
| `Restart` | `RealTrader` as a process: `live_state.db`, the end, the start with its reconciliation, the periodic reconciliation, the orphan-order check |
| `EquityGuard` | `runtime/equity_guard.json`: the sections of engine and command line that rewrite it, and the cache that the engine asks |
| `Ledger` | virtual mode with the strategy's entry, the ledger, the daily loss limit, the order rate, rollover and restart |
| `Profiles` | `config.json` at a start, its history, the locked profile of an order, the settlements, `build_change_outcomes.py` |
| `Review` | the nightly review and one parameter with its rollout |
| `BoardStream` | `WebSocketManager`, the safe mode, pause and resume |
| `PrivateStream` | `PrivateWebSocketManager`: sessions, tokens, renewers, stop |
| `TickRecorder` | queue, writer, rollover, compression, retention |
| `EngineKeeper` | who starts, stops and reports the engine of the native installation |
| `Heartbeats`, `CrashLoop` | the heartbeat file and its check; the crash-loop check of the Docker installation |
| `Services` | composes the stream, recorder, monitor, lock and review modules |
| `MC...` | symmetry sets and values for TLC; `MCLedger` composes `Ledger` and `Profiles` |
| `..._proofs` | theorems and their proofs |

`Services` and `MCLedger` put models side by side that share no state: a variable `part`, chosen in the initial state, says which of them
moves. That is not an interleaving of the parts; it makes one run of several small models.

### TradeKeyLock

`path` is the directory entry (an inode or none), `fd[p]` the inode process p has open, `flock[i]` the holder of the
lock of inode i, `pc[p]` where p is in its life. An unlinked inode lives while somebody has it open, and is reused
later. `Acquire` merges the flock and the write of the diagnostic contents, which nobody else reads or
writes; a failed write is `WriteFailed`. `Refuse` is `BlockingIOError` and exit. `ReleaseFlock` is LOCK_UN and
`close`; `ReleaseUnlink` is the `unlink` that follows. `Kill` is SIGKILL or the end of the container.
Assumption: flock has the semantics of a local Linux file system.

### GmoExchange

Orders are identities, without prices and sizes. An entry order is "none", "live", "cxl" (cancel accepted, not
yet effective), "filled" or "gone"; it opens one position, which bears its name. A STOP belongs to a position, an
accepted MARKET close sits in `mkt` until it executes, `open` is what openPositions answers, `wire` holds the
execution events that are sent and not yet handled. A call takes its answer as a parameter: "ok", "benign" (GMO
says the order is already executed or cancelled: ERR-5122/5123) or "error", and `Fault` says which of these go
with which effect. The module is external: it is inferred from the error codes, retries and comments
of VT and WSM, and it is the one place to correct if GMO behaves in another way.

### RealTrader

`h` is the handler that holds `trader._lock`: `h.pc` names the stage or the REST call it is about to make ("idle"
when the lock is free), `h.ret` the stage that follows the routine it is in, `h.by`, `h.try` and `h.todo` are the locals of
`_force_close_real`, `h.pre` and `h.blk` the maintenance window and the entry block as this board saw them. One
step of the model is one REST call together with the computation up to the next one; between two steps the
exchange moves. Correspondence:

| Code | Model |
|---|---|
| `position` | `pos`: flat, pending or held, with entry order id, position id, STOP id (`tp_order_id` is never set in real mode) |
| `_cancel_fill_grace_by_order_id` | `grace` |
| board against SL and TP | `mark`, free at every board while a position is held |
| `_sl_first_attempt_position_id`, running timers | `due`, `timers` |
| `_sl_missing_*` | `wd` (forced-close mode, attempts, position watched) |
| `_force_close_real_cooldown_until` | `cool` |
| `manual_stop.flag`, guard state, `_guard_stop_cancel_requested`, main loop | `manual`, `guard`, `request`, `loop` |
| `on_orderbook_update` | `BoardUpdate`, then `ManualStage`, `PreStage`, `GuardStage`, `PendingStage` / `HeldStage` / `EntryStage` |
| `_enter_real_limit` | `EnterRealLimit` |
| `_cancel_real_entry_order_or_adopt_fill` | `CancelCall`, `CancelFetch` |
| `_place_real_tp_sl_orders` | `PlaceStopOrders`, `StopCall` |
| SL watchdog | `WatchdogClears`, `WatchdogCloses`, `WatchdogRetries`, `AfterStopStage` |
| `_run_deferred_first_sl` | `Timer` |
| `_force_close_real` | `ForceCancel`, `ForceFetch`, `ForceClosePlace`, `ForceConfirm` |
| `_execute_real_board_take_profit_unlocked` | `TakeProfitCancel`, `TakeProfitFetch`, `TakeProfitClose`, `TakeProfitConfirm` |
| `on_execution_event` | `StopEvent`, `EntryEvent`, `GraceFillEvent`, `GraceFillIgnored` and the two events that match nothing |
| main thread | `WatchdogTick`, `EquityCheck` and `EquityRequest` (without the lock), `PauseDecided`, `Paused`, `Resumed` |

`EquityCheck` sees the pending order and `EquityRequest` sets the request; between the two the board thread may test the request,
cancel the order or see it filled.

`booked` and `excused` are history variables: how often each exit was booked, and the orders for which less can be promised. An order is
excused when the answer to it or to its cancel was lost, its event was lost or refused with an alert, its grace period is over, or
openPositions listed the position of another order first and that one was adopted for it.

Abstractions: time (an interval or time-to-live may have passed at any moment, so every timeout is an action that
may happen or not); prices (`mark`); signals and spread or imbalance cancels (may happen at any board);
confirmation loops (one look, which may see the old state or the new one); sizes and partial fills (not modelled).

### TradeBook

Each position is new, sent, open, closed or void. Sending requires that no other is sent or open, booking that it
is closed and was not booked. `RealTrader!Life` is the refinement mapping, `OneTradeAtATime` the refinement.

### Restart

`phase` says where the process is: down, at one of the calls of its start, or up. `Save` is `_write_live_state`, `db` its row; `Crash` ends the process at
any step of any handler (the daily restart, the monitors and a kill look the same, since the end saves nothing that a save
of the last second did not). While no process runs, `pos` and `booked` are those of the row: what the next start will take up. `Start` restores the position and reads openPositions; `StartAgrees`, `StartAdopts`, `StartClears`, `StartReorders`, `StartPlaced`
and the branches for failed reads are `reconcile_real_state_on_startup` with what it calls. `CheckBegins` ...
`CheckDiffers` are `run_reconciliation_check` with its two looks and the mismatch that must be seen twice; `OrphanRead` and
`OrphanAsk` are the two reads of `check_orphan_orders.py`, whose candidates wait for the next run. Sizes and sides are one, so that an
account state is the number of open positions; the comparison of balances is left out. A new STOP gets an id that neither GMO, the engine nor the row
names (`FreshId`); which of these makes no difference. The two checks do not interact, so each behaviour has one of them (`auditor`).

### EquityGuard

`file` and `tmp` are the state file and the temporary file, whose name is the same for every writer; a document is armed or stopped
and has its baseline (`stop_equity` is that minus `Drawdown`), "absent" and "invalid" stand for no file and for one that does not
pass `_is_schema_valid`. The engine has one `EquityGuard`: `mutex` is its `_lock`, `cache` its `_cached_state`. Only one thing about
`_cache_key` matters, whether it equals the modification time of the file, so `key` is "match" or "differs"; `seen` is the same for the
time a look began with. Each command is a process with a cache of its own, which dies with it.

| Code | Model |
|---|---|
| `_locked_section`, `_file_lock` | `Begin`, `Lock`, `Leave` |
| `_read_file` | `Read` |
| `_save_state`: temporary file, rename and cache, time | `Save`, `Rename` / `RenameFails`, `Stat` |
| `evaluate`, `clear`, `rebaseline` between the two | `Evaluate`, `Clear`, `Rebaseline` |
| `is_stopped`, `state_snapshot` that do not find the cache valid | `Look`, `LookRead` |
| death of the engine or of a command, changes of the file from outside | `KillEngine`, `KillOperator`, `Damage` |

`bare` is a history variable: some section in progress has gone on without the flock. `Fault` says whether flock may fail and whether two writes
may fall in one tick of the file system's clock. `ensure_baseline` is called by tests only; it is an evaluation
that finds no file. How a stop acts on orders is in `RealTrader` (`guard`, `request`).

### Ledger

One step is one board (`Board`), one second of the main loop (`SaveRow`, `Rollover`), a start or an end of the engine, the operator, or time. A board makes
the trader safe (`MakeSafe`: manual stop, maintenance), or fills, watches and cancels a pending order, or closes the position at its
take-profit or stop-loss, or enters at the price that `evaluate` finds. `ledger` holds `jpy_balance`, `cumulative_pnl` and the counters of the
day; `Booked` adds the unfloored profit to the first and the floored one to the others, as the code does. Money is counted in half yen so that the
floor is visible. `row` is `live_state.db`, `Restored` and `OfToday` what a start takes from it. `recent` is the list of order
timestamps, `placed` counts the same orders without the engine. Abstractions: size one, fees zero (as
configured), boards of two prices and the side they lean to; what only waits (debounce, age, cooldowns) has waited long enough or not;
the maintenance windows hold for a board or not.

### Profiles

`file` is `config.json` (missing, unreadable, flat as before the profiles, or with a list), `cache` and `history` are what a start writes in two steps (`Load`, `Remember`, `Die` in between).
`trade.lock` is the profile locked at the entry, `trade.owner` the one that placed the order; `grace` keeps the names for late fills, `saved` the name in
`live_state.db`. `ValidList` says of a list what `validate_profiles` finds by sorting it: every minute is covered, no two
profiles overlap. `Changes`, `Window`, `Evaluation`, `Due`, `BuildOutcomes` are `build_change_outcomes.py`. A profile has one value, the day two minutes, the clock of the records
counts starts and settlements, and the windows of 7 and 30 days are two instants. `reused` and `untold` are history: a version that an
editor kept over a change, a change that no start told.

### Review

One parameter, its entry in `pending_rollouts`, and a night in its stages: `ApplyRollout` and `SavePending` are the two writes of
`apply_daily_rollouts`, `Propose` the end of `main` with outlier, backtest gate, cap of 15 % and absolute bounds. `RolloutsFail`, `NightKilled` and
`NoProposal` are the ways a night goes wrong or ends early. The answers of the models, the log and the backtest are choices.

### The services

* `BoardStream`: managers are numbered in the order they are built; a stopped one is not joined and runs on beside the next.
  `loop`, `stopped`, `closing`, `alert` are its thread, its stop event, its socket and its maintenance flag; `cooldown` and `waiting` the trader's safe mode. `FirstTest`, `Retest`, `BackOff`
  and `Connect` are the points of `_run_loop` between which `StopManager` may come.
* `PrivateStream`: `session` is the reconnection thread, `renew[r]` the r-th renewer with the generation and token it was given, `main` the calls
  of `stop()`. A join may give up (`JoinOver`), a PUT may hang and be answered late.
* `TickRecorder`: `asOf` is the day that the clean-up of the start reads once and keeps; rows are pairs of a day and a number; `csv` and `gz` hold the rows of the files of each day, so that a
  compression that is interrupted, or repeated over an older `.gz`, shows. One kind of rows stands for boards and trades.
* `EngineKeeper`: `starter` has the monitor's and the dashboard's runs of `ensure_engine_running.ps1` and the daily `restart_engine.ps1`, `watch` the
  monitor itself. They share the process list and the flag, nothing else. Each look at the process list may fail (`EnumerationFails`), also the one under the manual
  stop and the one after a recovery; `main` then sends an alert without a cooldown, which says that the check failed, not that the engine is down, and is not counted as the report.
* `Heartbeats`: `Lock`, `Read`, `Replace` are `record_monitor_heartbeat`; `CheckOne` one monitor in the check that reports stale beats.
* `CrashLoop`: containers as Docker restarts and gives them up, the check that asks, flags and reports. The flag `crashed` stays until a check sees the service running;
  `noticed` is history: a notice was delivered since the service was given up this time. `ExhaustionIsNotified` speaks of `noticed`, and of services that are given up without a flag of an earlier time.

## 3. What the runs check

| Run | Instance | Checks |
|---|---|---|
| `guard` | 2 threads, 1 command, 2 values, kills, damage, failing flock, coarse clock, fairness | `StopVisible`, `NoLostUpdate`, `ReleasedByOperator`, `ReleaseSeen` |
| `real_faults` | 2 entry orders, 2 STOPs, all six faults, no interrupts | `BookedAfterClose`, `OrdersTracked`, `LateFillsTracked`, `StopBelongs` |
| `real_interrupts` | 2 entry orders, 2 STOPs, all four interrupts, no faults | `PositionsKnown`, `HoldsOwnPosition`, and the refinement of `TradeBook` (`OneTradeAtATime`) |
| `real_live` | 1 entry order, refused calls, manual stop, equity guard, fairness | `WatchdogProtects`, `ManualStopFlattens`, `GuardCancelsPending` |
| `restart` | 1 entry order, 2 STOPs, refused calls, pause, 1 end of the engine anywhere or a second start in a row, fairness | `BookedOnce`, `KeptAcrossRestart`, `AlarmIsStray`, `StrayReported`, `MismatchStops` |
| `ledger` | two prices, 2 exits, 1 change of day, 1 restart, rate limit 1; 3 profile lists, 2 edits, 4 instants | `IntegrityQuiet`, `OrderRateBounded`, `LossLimitHolds`; `LockedWhileHeld`, `EvaluationsExact` |
| `services` | see below, fairness | `EntryAfterRecovery`, `StopEndsLoop`; `OldRenewerSilent`, `PrivateComesBack`; `FlushedKept`; `DownIsNoticed`; `NoHeartbeatLost`, `StaleIsNotified`; `ExhaustionIsNotified`; `SameFileExclusive`, `RefusedOnlyWhileHeld`; `RolloutEnds` |
| `lock_exclusion` | 3 engines, 4 inodes, kills and releases | **violated**: `MutualExclusion` (finding 1) |
| `unbooked_exit` | 2 entry orders, no faults | **violated**: `ExitsBooked` (finding 2) |
| `stale_stop` | 2 entry orders, refused calls | **violated**: `StandingStop` (finding 3) |
| `stuck_safe_mode` | 2 managers, 1 closure of GMO, fairness | **violated**: `SafeModeEnds` (finding 4) |
| `gate_bypassed` | 2 proposals of 10 or 20 % | **violated**: `GateHolds` (finding 5) |

A type invariant (`TypeOK`, `PartsTypeOK`, `ServicesTypeOK`) is checked with `guard`, `real_faults`, `ledger` and `services`. Deadlock is checked except in `services` and
`stuck_safe_mode`, whose parts really stop (a stopped manager, a recorder that was shut down).

**Bounds.** *Real trading:* two entry orders are two trades one after the other, which is what the dangerous cases need: an event, a
STOP id or a grace entry of the first trade met by the second. Every entry order is sent at most once. Two STOP
ids suffice as an id is used again as soon as neither GMO nor the wire mentions it; `StopCall` picks one other than the
one the books hold. Two attempts of the watchdog and of the forced close (3 and 3 in the code) give a first, a
repeated and a last one; `real_live` and `restart` have one attempt of the forced close, after which the 60 s of cooldown and the next round bring the repetition. `real_live` has
one trade: its promises are about one order or position, and symmetry is unsound for them. Faults and interrupts are split over two runs for the state space; the theorems of section 4
have both at once. *Restart:* one trade and one end of the process, at any step of any handler, of the start, or of a check; what a
second trade adds is in `RealTrader`, and the theorems of section 4 hold for any number of trades and ends. Two STOP ids suffice, one
that the row names and one that a start places. One attempt each keeps the run within minutes. Besides the first start, behaviours begin where a start
placed a missing STOP again and the engine ended before its save (`LaterLife`), so that the next start meets it a second time and gives up.

*Equity guard:* two threads and a command are every kind of conflict there is: mutex against mutex, flock against flock, and the cache
against a command. With two values and a drawdown of one, one baseline can be reached and the other cannot. `StopVisible`
holds unless two writes fall in one tick of the clock while a section runs without the flock: then a command renames
the engine's stop out of the shared temporary file, in the tick in which the engine saw the file armed, and the answer stays wrong until the next evaluation. The code
accepts this when it goes on without the flock (EG 59-61), so it is not listed as a finding; `guard` has each of the two failures in the same behaviour but not both at a time.

*Ledger:* the distances of the prices are such that a fill, a take-profit, a stop-loss and a loss over the limit all happen with odd half yens; two
exits are a loss that reaches the limit and what follows it, one change of day and one restart come in either order and before or after
each exit. *Profiles:* three lists (one value changed, one list that overlaps and is refused), at most two edits, starts and settlements at four instants: a change, a
second one within its window, and settlements before, between and after them. *Services:* two managers (the one that is stopped and the next); two errors of the private stream, which start up to eight renewers;
three days, three rows, a queue of two and two restarts for the recorder; two monitors that record at once; two containers; three engines for the lock; three proposals
for the review, one of them an outlier over the cap. Each is the least number with a present, a previous and a following one.

**Fairness** (`Scheduled`, `Answered` in `RealTrader`).
Weak: a handler that holds the lock goes on, since every REST call has a timeout; a cooldown of 60 s ends; the main loop
evaluates the guard again and again (the part of it that matters, while the guard is stopped) and carries the evaluation to its end; an accepted MARKET
order executes. Strong: boards, the watchdog tick and executions each get the lock now and then although
others take it in between; boards keep coming. `Answered`: a call that is repeated for ever is not refused for ever. That is an
assumption about GMO, not about the code; it is needed because the code's answer to a refusal is to try again.

`RestartLiveSpec`: a start goes on; handlers end; the main loop saves and checks again and again (strong, since handlers hold the lock and restarts
come in between); the timer starts the orphan check; GMO answers a read now and then. `EquityGuard`: a call that has begun goes on (strong, as mutex and flock are taken by others in between), and some thread evaluates
the account again and again, as the main loop does every five minutes. No command need ever come. The services: threads run, calls with a timeout return,
timers start the checks again and again, a closure of GMO ends, and nights come (`ReviewStep`); no restart, alert, connection or flag need ever succeed for a given time, as their failures are bounded in
number (`MaxFaults`, `MaxErrors`, ...) and nothing else.

## 4. What is proved

All proofs are checked by TLAPS for arbitrary sets of orders, STOPs, processes and files, arbitrary prices, limits, days and bounds, from
the named assumptions on the constants only. Where a theorem has a further assumption on the faults it is its ASSUME.

**`RealTrader_proofs`**, every fault and every interrupt at once: `RealTypeCorrect` (`TypeOK`), `BookingIsTrue` (`BookedAfterClose`),
`NoStrayOrder` (`OrdersTracked`), `StopIsOwn` (`StopBelongs`), `NoFillUnexpected` (`LateFillsTracked`).

None of the properties is inductive. `IInv` adds three parts. `ControlOK`: which status of the position goes with which
program counter of the handler (a cancel has a pending order, its second half an order that is no longer live, every other routine a held
position). `ExchangeOK`: a live STOP belongs to an open position, an execution on the wire tells the
truth (the position of a STOP's execution is closed). `BooksOK`: a position the engine
names was really opened, and a booked one is closed. Without `ControlOK` a forced close could settle nothing;
without the clause on the wire, the arrival of a STOP's execution could book a position that is open.
The argument separates the two sides. `ExchangeKept` says what a move of the exchange leaves true, and is proved once for
every call and every move of GMO. `BooksKept` says what a handler may do to the books. `StepKeeps` combines
them, and each handler step then needs its frame, the type of the new handler (`Fits`) and one of the two. Two steps stand
apart because they make something new refer to the engine's position: `EnterKeeps` for a new order, `StopCallKeeps` for a new
STOP, whose id is fresh.

`NoFillUnexpected` adds `FillsOK` to `IInv`: a pending order is not one whose cancel was accepted, the order of the position held cannot execute any more, and the position id is
its own or not known yet, each unless the order is excused. This is what lets the engine go flat after a close: the execution that would still be on its way belongs to a position that is
closed. A step then stays with the tracked order (`FillsStay`), ends it (`FillsEnd`) or begins a new one (`FillsBegin`); GMO's own steps make no order one that may execute (`LooseKept`).

Under `Calm` (accepted cancels are effective at once, answers arrive, executions name their position; calls may still be refused,
maintenance come, executions be lost, and every interrupt happen): `NothingForgotten` (`PositionsKnown`), `HoldsTheRightOne`
(`HoldsOwnPosition`) and `BookImplemented`: the engine implements `TradeBook`. Their invariant is `Alone`:
whatever works or is open at GMO is the one thing the engine tracks, a STOP or a MARKET close is there only for a position held,
cancelled orders are gone, and the exit of the tracked position is not booked yet. A step then is one of a few kinds: the engine stays with what it
has (`Stays`), takes what its order opened (`Takes`), goes flat after the close (`GoesFlat`), enters or cancels, or GMO executes something; each
kind is proved once to keep `Alone` and to be a step of `TradeBook` or none. `Calm` is needed: with a late fill the engine can be flat beside an open position.

**`TradeKeyLock_proofs`**: `LockTypeCorrect`, `FileExclusion` (`SameFileExclusive`), `NoStaleLock`
(`RefusedOnlyWhileHeld`), and `ExclusionWhenKilled`: without the release code `MutualExclusion` holds. The last one
locates finding 1: it is the unlink, and nothing else, that breaks the exclusion. The invariant says that
the flock and its holder point at each other, and, for the last theorem, that every open file is the one the path names.

**`EquityGuard_proofs`**, for any number of threads and commands, any values and all faults at once: `GuardTypeCorrect` (`TypeOK`), `NothingLost` (`NoLostUpdate`),
`RestartIsManual` (`ReleasedByOperator`), and `StopNeverHidden` (`StopVisible`), the last under `OneFailure`: no two writes in one
tick while a section runs without the flock. The invariant says who holds mutex and flock (`MutexHeld`, `FlockHeld`), that commands write no stop (`WritersKnown`), that a thread
about to rename keeps a stop that stands (`StopKept`), that a stop in the temporary file is that of the thread in a call
(`StopWritten`), and that the cache has a stop before its time is taken (`StopCached`). `StopWritten` is what the shared name needs:
a command may rename what a thread wrote, and a killed engine leaves a stop behind.

**`Ledger_proofs`**: `CashAccounted` (`IntegrityQuiet`), `RateBounded` (`OrderRateBounded`), `LimitHolds` (`LossLimitHolds`). The invariant states each
of them for the ledger and for the row that a start would go back to: the surplus of cash is between nothing and half a yen an exit (`CashInv`), losses over the limit have set the
flag, those of a row of today included (`LimitInv`), and the engine's list of timestamps misses no order (`RateInv`). The clause on the row is what a restart
needs: between an exit and the next save the row is older than the ledger.

**`TickRecorder_proofs`**: `WrittenStays` (`FlushedKept`), assuming `~Overlap`: no day ends between the start of the stream and the writer's look at the clock while rows are queued. The invariant says that the queue is in the order of days and none of it
belongs before the open file (`QueueInv`), that what is about to be unlinked is whole in its copy (`CopyInv`), and that a day which has only its `.gz` left is
sealed: no row of it is queued, buffered or open, so that its `.gz` is never replaced (`FileInv`).

**`Restart_proofs`**, for any number of orders, of STOPs and of ends and starts at any step: `SafeAcrossStarts` (`BookedAfterClose`, `OrdersTracked` and `StopBelongs` of `RealTrader`
hold across starts, with every fault and interrupt), `NoExitTwice` (`BookedOnce`), `NothingForgottenAcrossStarts` (`KeptAcrossRestart`) and `OwnOrderIsNoOrphan` (`AlarmIsStray`).
`Step` says what any step of the running engine or of GMO does to the position (`Keeps`, `Fills`, `FillsLate`, `Leaves`, `Drops`, `Sends`) and
that no order is sent twice and no position opens again (`Lasting`); `BootMoves` says the same of a start. Every invariant is then proved over these few
kinds of steps instead of over sixty actions. `RestartInv` adds to `IInv` what is true of a row that may be old (`RowOK`): what it names was once so, and
of what GMO cannot undo (executed, closed, booked) it is so still. `OnceInv` states for the engine and for its row that the position either names has not been booked in
the same record; that is why position and counters must be saved in one row. `SoleInv` says that, while no order is excused, the one exposure is that of the order which both engine and row
name. `OrphanInv` says that a candidate of the orphan check which is the engine's own by now is in the row that the check will read next.

Two of them have an assumption. `NoExitTwice` assumes that `"late_fill"` is not a fault, and is false without it, even if the process never ends: TLC finds that an order which executes after its
accepted cancel can be adopted under a later order (VT 4349-4365), closed and booked, and then be taken up again by its own fill event, still in grace, and booked once more. `NothingForgottenAcrossStarts` assumes `Calm`, like its counterpart
without starts. `restart` checks both under these assumptions.

**`Profiles_proofs`**, for any day, lists, windows and bounds: `JudgedByItsProfile` (`LockedWhileHeld`) and `OutcomesCompareLikeWithLike` (`EvaluationsExact`). The first rests on `LockInv`: a lock is made from the
list the engine runs by, at an entry, at a late fill and at a restored position. The second needs two accounts of the past, one per way an outcome finds its settlements.
`VersionInv`: unless a version was reused, there is one content for each version, and history, cache, engine and settlements agree with it, so that the rows of one version were judged by one content.
`ToldInv`: unless a change went untold, between a settlement and any later start or settlement either the history names a change of that profile or its values are the same, so that
a window between two changes holds rows of one content. `Stamped` gives every record a time of its own. `PartsTyped` (`PartsTypeOK`) is about `Ledger` and `Profiles` as the run `ledger` composes them;
with `FundedInv` a LONG is bought only with cash that is there, in the ledger and in the row a start goes back to.

**`Services_proofs`**: `RecoveryFirst` (`EntryAfterRecovery`), from what the safe mode remembers of the last error, whichever manager reported it. `LatestRenews` (`OldRenewerSilent`): generations grow with the renewers, so that the one that has the present
generation is the latest. `HeartbeatsKept` (`NoHeartbeatLost`): the lock belongs to the monitor between its read and its write, and what it read is still in the file. `ServicesTyped` (`ServicesTypeOK`) is about all parts as the run composes them
(`ServicesAre`: such a behaviour is one of every part). Three parts need more than their types: a rollover of the recorder has the row that caused it at the head of the queue, a monitor that
runs has a beat left, and a night applies rollouts only if there is an entry. It includes that every value the review writes is within the absolute bounds (`WithinBounds`).

**Only model-checked.** Every safety property of the passing runs is proved. What stays with TLC is liveness, as fairness and ENABLED are beyond TLAPS: `ReleaseSeen`, `WatchdogProtects`, `ManualStopFlattens`,
`GuardCancelsPending`, `StrayReported`, `MismatchStops`, `StopEndsLoop`, `PrivateComesBack`, `DownIsNoticed`, `StaleIsNotified`, `ExhaustionIsNotified`, `RolloutEnds`. So do the violated properties of section 5.

## 5. Findings

1. **Release of the key lock** (TE 159). The flock is dropped before the path is unlinked. A second engine can lock the file in
   between; its path is then unlinked, a third engine creates a new file, and two engines run. The docstring of
   `acquire_gmo_trade_key_lock` and the manual (line 932) exclude this.
2. **An exit without booking** (VT 3826). If the confirmations of a forced close time out and the close executes afterwards, the next
   attempt finds no open position and goes flat without `_settle_real_exit_from_execution_unlocked`, although the manual (line 705)
   says the exit is booked: KPI and daily loss limit miss it.
3. **A STOP in the books only** (VT 3249). When the MARKET order of the board take-profit is refused after the STOP was cancelled, `sl_order_id`
   keeps the old id, and the watchdog, which looks at that id only, stays quiet. The position is unprotected
   until the next board take-profit or forced close.
4. **A safe mode that does not end** (WSM 362). The engine is paused by a manual stop during a maintenance; the manager that the resume builds has not seen the error
   and never reports the recovery that the trader waits for. No entry is made until GMO fails again or the process restarts.
5. **A refused change that is applied** (RP 1168). The rollout entry of an outlier is made before the backtest refuses it and is saved all the same; the
   next nights apply 60 and 100 % of it unchecked. The manual says that a refused proposal is not applied (line 1892), and also that the rollout works on
   independently (line 1905).

### Observations

Met while modelling, without a run of their own:

* Real trading. `Paused` follows `PauseDecided` without the lock: with a late fill the engine can adopt a position in between and hold it while the streams
  are stopped. The watchdog's counters are cleared by its own tick only, so that a position that is replaced within that
  second inherits them. `_match_open_position_for_pending_entry` takes the first open position, whichever order opened it (VT 4349-4365):
  after a late fill of an earlier order it is adopted under the later one,
  and once it is closed and booked, the late fill event of the earlier order can take it up again and book it a second time. `LateFillsTracked` says that a late execution finds an
  engine that knows its order; it does not say that the position is still open.
* Streams. A stop that comes between the test of the stop event and the connection (WSM 128, 172) leaves the new session open; it is excluded by the precondition of `StopEndsLoop`, and the same for the private manager.
* Start. An order that executes between the reads of openPositions and of activeOrders (VT 1751) is in neither, and the engine starts flat beside its position; `StartClears` excuses it from `KeptAcrossRestart`.
* Recorder. The stream is started before the writer (TE 1087-1088). If rows are queued and the trading day ends before the writer has looked at the clock (TR 291), the file of that day,
  written by an earlier run, is compressed as a stale one; the queued rows open it afresh, and the next rollover compresses it over the `.gz` (`Overlap`). `stop()` drops the rows that are still queued after its timeout.
* Starters. Monitor, dashboard and daily restart count the engines and start one independently; in virtual mode, without the key lock, two can run.
  A container that recovers and is given up again between two checks keeps its flag and gets no second notice.
* Ledger. Losses booked between 06:00 and the rollover of the main loop are dropped with the old day; the start balance of a day leaves out the cash locked by an open LONG; cooldowns and the
  rate window are forgotten at a restart; a ledger that cannot be read starts afresh and the integrity check stays quiet; the refund in `_fallback_release_locked_capital` cannot be reached;
  after the operator resumed on the day of a loss stop another trade is allowed, and a safety stop that finds the flag set says nothing.
* Profiles. The migration of a flat config drops `trading_mode` and `initial_jpy`; a start that dies between history and cache tells the change twice; an
  unreadable cache makes the change one without a previous version, which the review skips; a provisional evaluation is not cut at the next change; a position restored under a name
  that is gone is judged by the active profile.
* Review. The notice of a failed validation (RP 1075) says that `config.json` is unchanged although the rollouts of the night were written; a proposal that is no outlier
  leaves the older entry; a rollout step and a proposal of one night may together exceed the cap; a step that the cap reverts at its first day is tried again; an edit by the operator
  while the models discuss is overwritten.

## 6. Not modelled

* Sizes and partial fills in real mode: each position has one size. A size per execution would multiply the states of `RealTrader` beyond what a run can hold; the
  hazard (VT 826) stays without a property. Prices are in `Ledger` only, with the tick rounding left out.
* The clock of the SL watchdog (10 s, ten minutes) and of the cooldowns: what depends on a duration may happen at any time.
* The balance side of the periodic reconciliation, and fees.
* Parsing and statistics of the streams (`TradeStatsBuffer`, depth statistics), the snapshot logger, the anomaly check: data, no order of events.
* Strategy thresholds: any board may lean to either side.
* The answers of the language models, the statistics of the log and the backtest: choices in `Review`.
* Batch tools for consistency, reports, pictures and videos, social media, unit files: one reader or writer, nothing beside it, no state that trading depends on.

## 7. Plan

1. Proofs: safety lemmas behind the liveness properties (what a watchdog tick or a start leaves to be done), and `NothingForgottenAcrossStarts` from weaker assumptions than `Calm`.
2. Sizes in `GmoExchange`, for executions in several parts, in an instance of their own.
3. The balance in the reconciliation, on top of `Ledger`, and a composition of `Ledger` with `RealTrader` for the daily loss limit in real mode.
4. A clock for the watchdog, coarse enough to tell 10 s from ten minutes.
