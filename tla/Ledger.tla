------------------------------- MODULE Ledger -------------------------------
(***************************************************************************)
(* The virtual mode of VirtualTrader: the board handler with its entry,    *)
(* fill, cancel and exit rules, the ledger that the engine keeps of them   *)
(* (cash, profits, the counters of the trading day), the loss limit and    *)
(* the order rate limit that raise the safety stop, and what live_state.db *)
(* keeps of it across a restart.                                           *)
(*                                                                         *)
(* Money is counted in half yen, so that the floor of a booked profit to   *)
(* whole yen is visible; every order has size one and the fees are zero,   *)
(* as configured.  A board is a pair of prices and the side it leans to.   *)
(* Time is left open: orders leave the rate window one by one, and what    *)
(* only waits (the debounce of a reversed board, the age of an order, the  *)
(* cooldowns after a cancel) has waited long enough or has not.            *)
(***************************************************************************)
EXTENDS Integers

CONSTANTS
  Bids,          \* prices of the best bid
  Spread, Wide,  \* distances of the ask: normal, and over max_allowed_spread
  Offset,        \* maker_price_offset_jpy
  Profit, Loss,  \* distance of the take-profit and of the stop-loss
  InitialCash,   \* initial_jpy
  LimitDiv,      \* daily_loss_limit_pct is 1 / LimitDiv
  RateLimit,     \* order_rate_limit_per_minute
  MaxExits,      \* bound: exits of one behavior
  MaxDays,       \* bound: changes of the trading day
  MaxStarts      \* bound: starts of the engine

ASSUME LedgerAssumption ==
  /\ Bids \subseteq Nat /\ {Spread, Wide, Offset, Profit, Loss, InitialCash} \subseteq Nat
  /\ LimitDiv \in Nat \ {0} /\ {RateLimit, MaxExits, MaxDays, MaxStarts} \subseteq Nat

Flat == [side |-> "none"]

VARIABLES
  ledger,    \* jpy_balance, cumulative_pnl, the day and its counters
  position,  \* PositionState
  recent,    \* _order_event_timestamps of the last minute
  up,        \* whether the engine runs
  row,       \* live_state.db
  flag,      \* manual_stop.flag
  today,     \* the trading day of the clock
  starts,    \* bound
  placed,    \* history: orders of this run of the engine in the last minute
  exits,     \* history: exits in the ledger
  excused    \* history: the operator resumed, or the ledger was lost, today

ledgerVars == <<ledger, position, recent, up, row, flag, today,
                starts, placed, exits, excused>>
traderVars == <<ledger, position, recent>>

Fresh(day) == [cash |-> InitialCash, cumulative |-> 0,
               day |-> day, dayStart |-> InitialCash, dayProfit |-> 0]
NoRow == [position |-> Flat, ledger |-> Fresh(0), exits |-> 0]

LedgerInit ==
  /\ ledger = Fresh(0) /\ position = Flat
  /\ recent = 0 /\ up = TRUE /\ row = NoRow /\ flag = FALSE
  /\ today = 0 /\ starts = 0 /\ placed = 0 /\ exits = 0 /\ excused = FALSE

Held == position.side # "none" /\ ~position.pending
IsPending == position.side # "none" /\ position.pending

Boards == [bid : Bids, spread : {Spread, Wide}, leans : {"buy", "sell"}]
Ask(b) == b.bid + b.spread

-----------------------------------------------------------------------------
(* Exits.  The cash takes the profit as it is, the counters take it        *)
(* floored to whole yen, and the loss limit looks at the counters.         *)

Floored(profit) == 2 * (profit \div 2)

OverLimit(l) == l.dayProfit * LimitDiv <= -l.dayStart

Booked(profit) ==
  [ledger EXCEPT !.cash = @ + profit + (IF position.side = "LONG" THEN position.price ELSE 0),
                 !.cumulative = @ + Floored(profit),
                 !.dayProfit = @ + Floored(profit)]

\* Mutant: the limit is checked before the loss is added.
Exit_LimitFirst(price) ==
  LET profit == IF position.side = "LONG" THEN price - position.price
                                          ELSE position.price - price IN
  /\ exits < MaxExits
  /\ ledger' = Booked(profit)
  /\ flag' = (flag \/ OverLimit(ledger))
  /\ position' = Flat
  /\ exits' = exits + 1
  /\ UNCHANGED <<recent, placed>>

\* _exit_take_profit, _exit_stop_loss and _force_close_maintenance.
Exit(price) ==
  LET profit == IF position.side = "LONG" THEN price - position.price
                                          ELSE position.price - price IN
  /\ exits < MaxExits
  /\ ledger' = Booked(profit)
  /\ flag' = (flag \/ OverLimit(ledger'))
  /\ position' = Flat
  /\ exits' = exits + 1
  /\ UNCHANGED <<recent, placed>>

MarketPrice(b) == IF position.side = "LONG" THEN b.bid ELSE Ask(b)

(* Cancels give the locked cash of a LONG back.                            *)

\* Mutant: the cash locked by the order is not given back.
Release_Nothing == ledger

Release == [ledger EXCEPT !.cash = @ + (IF position.side = "LONG" THEN position.price ELSE 0)]

Cancel ==
  /\ ledger' = Release
  /\ position' = Flat
  /\ UNCHANGED <<recent, flag, placed, exits>>

-----------------------------------------------------------------------------
(* on_orderbook_update.                                                    *)

(* The window is that of the clock: trading, the minutes before the weekly *)
(* maintenance (maintenance_pre_action is close), or another reason not to *)
(* enter (maintenance, safe mode).                                         *)
Windows == {"open", "pre", "blocked"}
Blocked(window) == window # "open" \/ flag
Unsafe(window) == window = "pre" \/ flag

\* _update_maintenance_state: the stop, or the window before the weekly
\* maintenance, cancels or closes; then nothing is left to do on this board.
MakeSafe(b) ==
  \/ IsPending /\ Cancel
  \/ Held /\ Exit(MarketPrice(b))

Touched(b) == IF position.side = "LONG" THEN b.bid >= position.price ELSE Ask(b) <= position.price

Target(side, price) == IF side = "LONG" THEN price + Profit ELSE price - Profit

Fill(b) ==
  /\ IsPending /\ Touched(b)
  /\ position' = [side |-> position.side, price |-> position.price, pending |-> FALSE]
  /\ UNCHANGED <<ledger, recent, flag, placed, exits>>

\* The rest of _check_pending_fill: a wide spread or a distant price cancels at
\* once, a reversed board after the debounce, and age on any board.
Watch == IsPending /\ Cancel

Hold(b) ==
  LET target == Target(position.side, position.price)
      won == IF position.side = "LONG" THEN b.bid >= target ELSE Ask(b) <= target
      lost == IF position.side = "LONG" THEN b.bid <= position.price - Loss
                                        ELSE Ask(b) >= position.price + Loss IN
  /\ Held
  /\ \/ won /\ Exit(target)
     \/ ~won /\ lost /\ Exit(MarketPrice(b))

EntryPrice(side, b) == IF side = "LONG" THEN b.bid + Offset ELSE Ask(b) - Offset

\* _before_entry_order: over the rate, the safety stop instead of the order.
TooMany ==
  /\ recent > RateLimit
  /\ flag' = TRUE
  /\ UNCHANGED <<traderVars, placed, exits>>

\* Mutant: an order is counted for the rate only when it is filled.
Place_Uncounted(side, price) ==
  /\ position' = [side |-> side, price |-> price, pending |-> TRUE]
  /\ ledger' = [ledger EXCEPT !.cash = @ - (IF side = "LONG" THEN price ELSE 0)]
  /\ placed' = placed + 1
  /\ UNCHANGED <<recent, flag, exits>>

Place(side, price) ==
  /\ position' = [side |-> side, price |-> price, pending |-> TRUE]
  /\ ledger' = [ledger EXCEPT !.cash = @ - (IF side = "LONG" THEN price ELSE 0)]
  /\ recent' = recent + 1
  /\ placed' = placed + 1
  /\ UNCHANGED <<flag, exits>>

\* Mutant: the price of a LONG is not compared with the cash.
Enter_Unfunded(b) ==
  /\ position = Flat
  /\ b.spread # Wide
  /\ \E side \in {"LONG", "SHORT"} :
       LET price == EntryPrice(side, b) IN
       /\ b.leans = (IF side = "LONG" THEN "buy" ELSE "sell")
       /\ \/ TooMany
          \/ recent <= RateLimit /\ Place(side, price)

\* evaluate, _enter_long and _enter_short.
Enter(b) ==
  /\ position = Flat
  /\ b.spread # Wide
  /\ \E side \in {"LONG", "SHORT"} :
       LET price == EntryPrice(side, b) IN
       /\ b.leans = (IF side = "LONG" THEN "buy" ELSE "sell")
       /\ \/ TooMany
          \/ /\ recent <= RateLimit
             /\ side = "LONG" => ledger.cash >= price
             /\ Place(side, price)

Board ==
  /\ up
  /\ \E b \in Boards, window \in Windows :
       \/ Unsafe(window) /\ MakeSafe(b)
       \/ /\ ~Unsafe(window)
          /\ \/ ~Blocked(window) /\ Fill(b)
             \/ (IsPending => Blocked(window) \/ ~Touched(b)) /\ Watch
             \/ Hold(b)
             \/ ~Blocked(window) /\ Enter(b)
  /\ UNCHANGED <<up, row, today, starts, excused>>

-----------------------------------------------------------------------------
(* The main loop, restarts and time.                                       *)

\* _write_live_state, about once a second.
SaveRow ==
  /\ up
  /\ row' = [position |-> position, ledger |-> ledger, exits |-> exits]
  /\ UNCHANGED <<traderVars, up, flag, today, starts, placed, exits, excused>>

\* _maybe_rollover_trading_day.
Rollover ==
  /\ up /\ ledger.day # today
  /\ ledger' = [ledger EXCEPT !.day = today, !.dayStart = ledger.cash, !.dayProfit = 0]
  /\ excused' = FALSE
  /\ UNCHANGED <<position, recent, up, row, flag, today, starts, placed, exits>>

Down ==
  /\ up /\ starts < MaxStarts
  /\ up' = FALSE
  /\ UNCHANGED <<traderVars, row, flag, today, starts, placed, exits, excused>>

\* initialize_daily_loss_state: the counters of today, or a new day.
OfToday(l) ==
  IF l.day = today THEN l ELSE [l EXCEPT !.day = today, !.dayStart = l.cash, !.dayProfit = 0]

Restored == OfToday(row.ledger)

\* Start: what the row says, or an empty ledger if it cannot be read; the
\* rate window and the cooldowns of the last run are gone.
Start ==
  /\ ~up /\ up' = TRUE /\ starts' = starts + 1
  /\ \/ /\ ledger' = Restored /\ position' = row.position /\ exits' = row.exits
        /\ excused' = (excused /\ row.ledger.day = today)
     \/ /\ ledger' = Fresh(today) /\ position' = Flat /\ exits' = 0
        /\ excused' = TRUE
  /\ recent' = 0 /\ placed' = 0
  /\ UNCHANGED <<row, flag, today>>

\* The operator stops the engine, or lets it go on.
Operator ==
  /\ flag' = ~flag
  /\ excused' = (excused \/ flag)
  /\ UNCHANGED <<traderVars, up, row, today, starts, placed, exits>>

NewDay ==
  /\ today < MaxDays /\ today' = today + 1
  /\ UNCHANGED <<traderVars, up, row, flag, starts, placed, exits, excused>>

\* The oldest order of the last minute is a minute old.
Age ==
  /\ placed > 0 /\ placed' = placed - 1
  /\ recent' = IF recent > 0 THEN recent - 1 ELSE 0
  /\ UNCHANGED <<ledger, position, up, row, flag, today, starts, exits, excused>>

LedgerNext == Board \/ SaveRow \/ Rollover \/ Down \/ Start \/ Operator \/ NewDay \/ Age

LedgerSpec == LedgerInit /\ [][LedgerNext]_ledgerVars

-----------------------------------------------------------------------------

Ledgers == [cash : Int, cumulative : Int, day : 0..MaxDays, dayStart : Int, dayProfit : Int]
Positions == {Flat}
  \cup [side : {"LONG", "SHORT"}, price : Int, pending : BOOLEAN]

LedgerTypeOK ==
  /\ ledger \in Ledgers /\ position \in Positions
  /\ position.side = "LONG" => ledger.cash >= 0
  /\ up \in BOOLEAN /\ flag \in BOOLEAN
  /\ recent \in 0..RateLimit + 1
  /\ row.ledger \in Ledgers /\ row.position \in Positions
  /\ today \in 0..MaxDays /\ starts \in 0..MaxStarts

\* expected_jpy_balance.
Expected == InitialCash + ledger.cumulative - (IF position.side = "LONG" THEN position.price ELSE 0)

(***************************************************************************)
(* check_account_integrity compares the cash with what the profits and the *)
(* open position make of the initial cash.  The two differ by what the     *)
(* floor of each booked profit cut off, at most half a yen an exit here,   *)
(* and by nothing else: no order that was cancelled, filled, restored or   *)
(* forced out, and no restart at any moment, leaves cash behind or makes   *)
(* some.                                                                   *)
(***************************************************************************)
IntegrityQuiet == 0 <= ledger.cash - Expected /\ ledger.cash - Expected <= exits

(***************************************************************************)
(* The safety stop of the order rate: one run of the engine never has more *)
(* than the limit and one order (the comparison is strict) in a minute,    *)
(* although the check comes before an order and its record after it, and   *)
(* orders that are cancelled at once leave the trader flat again.          *)
(***************************************************************************)
OrderRateBounded == placed <= RateLimit + 1

(***************************************************************************)
(* Once the losses of the trading day reach daily_loss_limit_pct, no new   *)
(* order is placed until the next trading day, over restarts and whatever  *)
(* closed the position, unless the operator removed the stop or the ledger *)
(* could not be read at a start.                                           *)
(***************************************************************************)
LossLimitHolds ==
  [][ /\ position = Flat /\ position'.side # "none" /\ up
      /\ ledger.dayProfit < 0 /\ OverLimit(ledger)
      => excused ]_ledgerVars
=============================================================================
