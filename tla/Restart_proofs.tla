--------------------------- MODULE Restart_proofs ---------------------------
(***************************************************************************)
(* Proofs about Restart, for any number of orders, positions, starts and   *)
(* ends of the process at any moment.                                      *)
(***************************************************************************)
EXTENDS Restart, RealTrader_proofs

-----------------------------------------------------------------------------
(* What a step of the engine or of the exchange does to the position.      *)

\* STOP s stays that of its position, or is forgotten.
StopLasts(s) ==
  /\ stop'[s].pid \in {None, stop[s].pid}
  /\ \A e \in InFlight' : e.kind = "stop" /\ e.id = s => e \in InFlight \/ e.pid = stop[s].pid

\* No order is sent twice or comes back, no position opens again.
Lasting ==
  /\ StopCall \/ \A s \in Stop : StopLasts(s)
  /\ excused \subseteq excused'
  /\ \A o \in Entry : ent[o] = "filled" => ent'[o] = "filled"
  /\ \A o \in Entry : ent[o] = "gone" => ent'[o] = "gone"
  /\ \A o \in Entry : ent'[o] = "none" => ent[o] = "none"
  /\ \A o \in Entry : ent'[o] = "live" => ent[o] \in {"none", "live"}
  /\ \A p \in open' : p \in open \/ Pending(ent[p])

\* The engine stays with the position it has ...
Keeps ==
  /\ pos'.st = pos.st /\ pos'.entry = pos.entry /\ pos'.pid = pos.pid
  /\ pos' = pos \/ pos.st = "held"
  /\ booked' = booked /\ grace' \subseteq grace
  /\ \A o \in Entry : ent'[o] = "live" => ent[o] = "live"

\* ... takes what was executed for its pending order ...
Fills ==
  /\ pos.st = "pending" /\ pos'.st = "held" /\ pos'.entry = pos.entry
  /\ ent[pos.entry] # "live"
  /\ \/ pos'.pid \in open
     \/ pos'.pid = pos.entry /\ ent[pos.entry] = "filled"
     \/ pos'.pid = None /\ "no_pid" \in Fault
  /\ UNCHANGED <<ent, open, booked, grace>>

\* ... or the late execution of a cancelled one ...
FillsLate ==
  /\ pos.st = "flat" /\ pos'.st = "held"
  /\ pos'.entry \in grace /\ ent[pos'.entry] = "filled"
  /\ UNCHANGED <<ent, open, booked>> /\ grace' \subseteq grace

\* ... goes flat after a close, which it books or not ...
Leaves ==
  /\ pos.st = "held" /\ pos.pid \notin open /\ pos' = Flat
  /\ UNCHANGED <<ent, open, grace>>
  /\ \/ UNCHANGED booked
     \/ booked' = [p \in Entry |-> booked[p] + IF p = pos.pid THEN 1 ELSE 0]

\* ... or after the end of its order ...
Drops ==
  /\ pos.st = "pending" /\ pos' = Flat /\ UNCHANGED <<open, booked>>
  /\ \/ /\ ent[pos.entry] = "live"
        /\ ent'[pos.entry] \in {"gone", "cxl"}
        /\ ent'[pos.entry] = "cxl" => "late_fill" \in Fault
        /\ \A o \in Entry \ {pos.entry} : ent'[o] = ent[o]
        /\ grace' = grace \cup {pos.entry}
     \/ open = {} /\ UNCHANGED <<ent, grace>>

\* ... or sends a new order.
Sends ==
  /\ pos.st = "flat" /\ UNCHANGED <<open, booked, grace>>
  /\ \E o \in Entry :
       /\ ent[o] = "none" /\ ent' = [ent EXCEPT ![o] = "live"]
       /\ \/ pos' = [Flat EXCEPT !.st = "pending", !.entry = o]
          \/ pos' = pos /\ o \in excused'

Step == Lasting /\ (Keeps \/ Fills \/ FillsLate \/ Leaves \/ Drops \/ Sends)

LEMMA KeptLasts ==
  ASSUME ExchangeKept, excused \subseteq excused'
  PROVE  /\ Lasting
         /\ \A o \in Entry : ent'[o] = "live" => ent[o] = "live"
  BY DEF ExchangeKept, Undisturbed, Lasting, StopLasts

\* A step that leaves the position and the books alone.
LEMMA Rests ==
  ASSUME ExchangeKept, UNCHANGED <<pos, booked>>, excused \subseteq excused',
         grace' \subseteq grace
  PROVE  Step
  BY KeptLasts DEF Step, Keeps

LEMMA StagesStep ==
  ASSUME IInv,
         \/ BoardUpdate \/ ManualStage \/ PreStage \/ GuardStage \/ PendingStage
         \/ HeldStage \/ NoEntry \/ RateLimited \/ AfterStopStage
         \/ CoolExpires \/ (\E o \in Entry : GraceExpires(o))
         \/ (\E on \in BOOLEAN : ManualStop(on))
         \/ EquityCheck \/ EquityRequest \/ GuardClear \/ PauseDecided
  PROVE  Step
<1>1. UNCHANGED <<exchange, pos, booked>> /\ grace' \subseteq grace /\ excused \subseteq excused'
  BY DEF BoardUpdate, ManualStage, PreStage, GuardStage, PendingStage, HeldStage, NoEntry,
         RateLimited, AfterStopStage, CoolExpires, GraceExpires, ManualStop, EquityCheck,
         EquityRequest, GuardClear, PauseDecided, Loop, Goto, trader, history
<1> QED
  BY <1>1, Unmoved, Rests

LEMMA WatchesStep ==
  ASSUME IInv, Watchdog \/ (\E p \in Entry : Timer(p))
  PROVE  Step
<1>1. UNCHANGED <<exchange, pos, booked, grace, excused>>
  BY DEF Watchdog, WatchdogTick, WatchdogClears, WatchdogCloses, WatchdogRetries, Timer,
         PlaceStopOrders, history
<1> QED
  BY <1>1, Unmoved, Rests

LEMMA WorldStep ==
  ASSUME IInv, LoseEvents \/ Paused \/ Resumed \/ Exchange
  PROVE  Step
<1>1. CASE LoseEvents \/ Paused \/ Resumed
  <2>1. DropEvents /\ UNCHANGED <<pos, grace>>
    BY <1>1 DEF LoseEvents, Paused, Resumed, Loop, trader
  <2>2. ExchangeKept /\ UNCHANGED booked /\ excused \subseteq excused'
    BY <2>1, KeptDropEvents DEF DropEvents, IInv, TypeOK
  <2> QED
    BY <2>1, <2>2, Rests
<1>2. CASE Exchange
  BY <1>2, KeptExchangeStep, Rests DEF Exchange, trader, history, IInv, TypeOK
<1> QED
  BY <1>1, <1>2

LEMMA ExecutionsStep == ASSUME IInv, Executions PROVE Step
<1> DEFINE e == Head(wire)
<1>1. wire # <<>> /\ TakeEvent
  BY DEF Executions, EventHead, StopEvent, UnknownStopEvent, EntryEvent, GraceFillEvent,
         GraceFillIgnored, UnknownEntryEvent
<1>2. /\ ExchangeKept /\ e \in Event /\ e \in InFlight
      /\ e.kind = "entry" => e.id \in Entry /\ ent[e.id] = "filled"
      /\ e.kind = "stop" => e.pid \notin open
  BY <1>1, HeadEvent
<1>3. UNCHANGED <<ent, stop, mkt, open>> /\ excused \subseteq excused'
  BY <1>1 DEF TakeEvent, Executions, StopEvent, UnknownStopEvent, EntryEvent, GraceFillEvent,
              GraceFillIgnored, UnknownEntryEvent, history
<1>4. Lasting
  BY <1>2, <1>3, KeptLasts
<1>5. CASE StopEvent
  <2>1. pos.st = "held" /\ e.kind = "stop" /\ pos.stop = e.id /\ pos.stop # None
    BY <1>2, <1>5, ExchangeAssumption DEF StopEvent, EventHead, Event
  <2>2. pos.pid = e.pid
    BY <1>2, <2>1 DEF IInv, StopBelongs
  <2>3. Leaves
    BY <1>2, <1>3, <1>5, <2>1, <2>2 DEF StopEvent, Settle, GoFlat, Leaves
  <2> QED
    BY <1>4, <2>3 DEF Step
<1>6. CASE EntryEvent
  <2>1. pos.st = "pending" /\ e.kind = "entry" /\ pos.entry = e.id
    BY <1>6 DEF EntryEvent, EventHead
  <2>2. pos' = Held(pos.entry, e.pid)
    BY <1>6 DEF EntryEvent, HoldAfterFill, PlaceStopOrders
  <2>3. e.pid = e.id \/ (e.pid = None /\ "no_pid" \in Fault)
    BY <1>2, <2>1 DEF IInv, ExchangeOK
  <2>4. UNCHANGED <<booked, grace>>
    BY <1>6 DEF EntryEvent, history
  <2>5. Fills
    BY <1>2, <1>3, <2>1, <2>2, <2>3, <2>4 DEF Fills, Held
  <2> QED
    BY <1>4, <2>5 DEF Step
<1>7. CASE GraceFillEvent
  <2>1. pos.st = "flat" /\ e.kind = "entry" /\ e.id \in grace /\ grace' \subseteq grace
    BY <1>7 DEF GraceFillEvent, EventHead
  <2>2. pos' = Held(e.id, e.pid) /\ UNCHANGED booked
    BY <1>7 DEF GraceFillEvent, HoldAfterFill, PlaceStopOrders, history
  <2>3. FillsLate
    BY <1>2, <1>3, <2>1, <2>2 DEF FillsLate, Held
  <2> QED
    BY <1>4, <2>3 DEF Step
<1>8. CASE UnknownStopEvent \/ GraceFillIgnored \/ UnknownEntryEvent
  <2>1. UNCHANGED <<pos, booked>> /\ grace' \subseteq grace
    BY <1>8 DEF UnknownStopEvent, GraceFillIgnored, UnknownEntryEvent, trader, history
  <2> QED
    BY <1>2, <1>3, <2>1, Rests
<1> QED
  BY <1>5, <1>6, <1>7, <1>8 DEF Executions

LEMMA SendsStep ==
  ASSUME IInv, NEW o \in Entry, NEW r \in {"ok", "error"}, EnterRealLimit(o, r)
  PROVE  Step
<1>1. /\ ent[o] = "none" /\ ent' = [ent EXCEPT ![o] = "live"]
      /\ UNCHANGED <<stop, wire, open, booked, grace>> /\ pos.st = "flat"
  BY DEF EnterRealLimit, PlaceEntry, EntryStage
<1>2. /\ excused \subseteq excused'
      /\ \/ pos' = [Flat EXCEPT !.st = "pending", !.entry = o]
         \/ pos' = pos /\ o \in excused'
  BY DEF EnterRealLimit
<1>3. Lasting
  BY <1>1, <1>2 DEF Lasting, StopLasts, InFlight, IInv, TypeOK, ExchangeTypeOK
<1> QED
  BY <1>1, <1>2, <1>3 DEF Step, Sends

LEMMA CancelStep == ASSUME IInv, CancelCall \/ CancelFetch PROVE Step
<1>1. pos.st = "pending" /\ pos.entry \in Entry
  BY DEF CancelCall, CancelFetch, IInv, ControlOK
<1>2. UNCHANGED booked /\ excused \subseteq excused'
  BY DEF CancelCall, CancelFails, CancelRefused, CancelFetch
<1>3. ExchangeKept
  BY <1>1, KeptCancelEntry, Unmoved
  DEF CancelCall, CancelFails, CancelRefused, CancelFetch, FetchFails, IInv, TypeOK
<1>4. Lasting
  BY <1>2, <1>3, KeptLasts
<1>5. CASE UNCHANGED <<pos, grace>>
  BY <1>2, <1>3, <1>5, Rests
<1>6. CASE CancelCall /\ CancelEntry(pos.entry, "ok") /\ GoFlat /\ grace' = grace \cup {pos.entry}
  <2>1. /\ ent[pos.entry] = "live" /\ UNCHANGED open
        /\ \/ ent' = [ent EXCEPT ![pos.entry] = "gone"]
           \/ "late_fill" \in Fault /\ ent' = [ent EXCEPT ![pos.entry] = "cxl"]
    BY <1>6 DEF CancelEntry, Refused
  <2>2. Drops
    BY <1>1, <1>2, <1>6, <2>1 DEF Drops, GoFlat, IInv, TypeOK, ExchangeTypeOK
  <2> QED
    BY <1>4, <2>2 DEF Step
<1>7. CASE CancelFetch
  <2>1. UNCHANGED <<ent, open, grace>> /\ ent[pos.entry] # "live"
    BY <1>7 DEF CancelFetch, FetchFails, exchange, IInv, ControlOK
  <2>2. CASE open = {} /\ GoFlat
    BY <1>1, <1>2, <1>4, <2>1, <2>2 DEF Step, Drops, GoFlat
  <2>3. ASSUME NEW p \in open, PlaceStopOrders(Held(pos.entry, p), wd, h.ret)
        PROVE  Step
    <3>1. pos' = Held(pos.entry, p)
      BY <2>3 DEF PlaceStopOrders
    <3>2. Fills
      BY <1>1, <1>2, <2>1, <3>1 DEF Fills, Held
    <3> QED
      BY <1>4, <3>2 DEF Step
  <2> QED
    BY <1>5, <1>7, <2>1, <2>2, <2>3 DEF CancelFetch
<1> QED
  BY <1>5, <1>6, <1>7 DEF CancelCall, CancelFails, CancelRefused

\* A STOP is placed, or not.
LEMMA ProtectsStep == ASSUME IInv, StopCall PROVE Step
<1>1. pos.st = "held" /\ pos \in Positions
  BY DEF StopCall, IInv, ControlOK, Calls, TypeOK, EngineTypeOK
<1>2. UNCHANGED <<ent, open, grace, booked, excused>>
  BY DEF StopCall, PlaceStop, Refused, CloseImpossible, exchange
<1>3. \E s : pos' = [pos EXCEPT !.stop = s]
  BY DEF StopCall, StopFailed
<1>4. pos'.st = pos.st /\ pos'.entry = pos.entry /\ pos'.pid = pos.pid
  BY <1>1, <1>3 DEF Positions
<1> QED
  BY <1>1, <1>2, <1>4 DEF Step, Keeps, Lasting

LEMMA ClosesStep ==
  ASSUME IInv,
         \/ ForceCancel \/ ForceFetch \/ ForceClosePlace \/ ForceConfirm
         \/ TakeProfitCancel \/ TakeProfitFetch \/ TakeProfitClose \/ TakeProfitConfirm
  PROVE  Step
<1>1. pos.st = "held" /\ pos.stop \in Stop \cup {None}
  BY DEF ForceCancel, ForceFetch, ForceClosePlace, ForceConfirm, TakeProfitCancel,
         TakeProfitFetch, TakeProfitClose, TakeProfitConfirm, IInv, ControlOK, Calls,
         TypeOK, EngineTypeOK, Positions
<1>2. pos.pid \in Entry \/ open # {} \/ pos.pid \notin open
  OBVIOUS
<1>3. UNCHANGED <<excused, grace>>
  BY DEF ForceCancel, ForceFetch, ForceClosePlace, ForceConfirm, TakeProfitCancel,
         TakeProfitFetch, TakeProfitClose, TakeProfitConfirm, SettleIfGone, Goto, FetchFails,
         trader, history
<1>4. ASSUME ExchangeKept, UNCHANGED <<pos, booked>> PROVE Step
  BY <1>3, <1>4, Rests
<1>5. ASSUME UNCHANGED exchange, pos' = Flat, pos.pid \notin open,
             \/ UNCHANGED booked
             \/ booked' = [p \in Entry |-> booked[p] + IF p = pos.pid THEN 1 ELSE 0]
      PROVE  Step
  <2>1. Lasting
    BY <1>3, <1>5, Unmoved, KeptLasts
  <2>2. Leaves
    BY <1>1, <1>3, <1>5 DEF Leaves, exchange
  <2> QED
    BY <2>1, <2>2 DEF Step
<1>6. CASE ForceCancel \/ TakeProfitCancel
  BY <1>1, <1>4, <1>6, KeptCancelStop DEF ForceCancel, TakeProfitCancel, trader, history, IInv, TypeOK
<1>7. CASE ForceClosePlace \/ TakeProfitClose
  BY <1>4, <1>7, KeptPlaceMarket, Unmoved
  DEF ForceClosePlace, TakeProfitClose, Refused, CloseImpossible, trader, history, IInv, TypeOK
<1>8. CASE ForceFetch
  BY <1>4, <1>5, <1>8, Unmoved DEF ForceFetch, GoFlat, history
<1>9. CASE ForceConfirm
  BY <1>4, <1>5, <1>9, Unmoved DEF ForceConfirm, Settle, GoFlat
<1>10. CASE TakeProfitFetch \/ TakeProfitConfirm
  <2>1. CASE SettleIfGone
    BY <1>5, <2>1 DEF SettleIfGone, Settle, GoFlat
  <2>2. CASE UNCHANGED <<exchange, trader, history>>
    BY <1>4, <2>2, Unmoved DEF trader, history
  <2> QED
    BY <1>10, <2>1, <2>2 DEF TakeProfitFetch, TakeProfitConfirm, FetchFails, Goto
<1> QED
  BY <1>6, <1>7, <1>8, <1>9, <1>10

LEMMA NextStep == ASSUME IInv, [Next]_vars PROVE Step
<1>1. CASE Handler
  BY <1>1, StagesStep, SendsStep, CancelStep, ProtectsStep, ClosesStep DEF Handler
<1>2. CASE Environment
  BY <1>2, StagesStep, WorldStep DEF Environment
<1>3. CASE UNCHANGED vars
  BY <1>3, Unmoved, Rests DEF vars, trader, history
<1> QED
  BY <1>1, <1>2, <1>3, StagesStep, ExecutionsStep, WatchesStep DEF Next
-----------------------------------------------------------------------------
(* The position, its row in live_state.db, and the start.                  *)

\* What the engine says of its order.
Tracks(q) ==
  /\ q.st = "flat" => q = Flat
  /\ q.st # "flat" => q.entry \in Entry /\ ent[q.entry] # "none"
  /\ q.st = "pending" => q.pid = None /\ q.stop = None
  /\ q.st = "held" => ent[q.entry] # "live"

\* The row is a state that was true once; what of it GMO has not changed since
\* is true still.
RowOK ==
  /\ db.pos \in Positions /\ db.booked \in [Entry -> Nat]
  /\ Tracks(db.pos)
  /\ db.pos.pid # None => ent[db.pos.pid] = "filled"
  /\ \A p \in Entry : db.booked[p] > 0 => ent[p] = "filled" /\ p \notin open
  /\ db.pos.stop # None =>
       /\ stop[db.pos.stop].pid \in {None, db.pos.pid}
       /\ \A e \in InFlight : e.kind = "stop" /\ e.id = db.pos.stop => e.pid = db.pos.pid

\* No handler runs before the streams do, but for the STOP the start places.
PhaseOK ==
  /\ phase \in {"down", "asked", "placing", "ready", "up"}
  /\ phase = "down" => pos = db.pos /\ booked = db.booked
  /\ phase \in {"down", "asked", "ready"} => h.pc = "idle"
  /\ phase = "placing" => pos.st = "held"
  /\ \A p \in seen : p \in Entry /\ ent[p] = "filled"

RestartInv == IInv /\ Tracks(pos) /\ RowOK /\ PhaseOK

LEMMA TracksStep == ASSUME IInv, Tracks(pos), Step, IInv' PROVE Tracks(pos)'
<1>1. CASE Keeps
  BY <1>1 DEF Keeps, Tracks, Step, Lasting, IInv, ControlOK, TypeOK, EngineTypeOK,
              Positions, Flat
<1>2. CASE Fills
  BY <1>2 DEF Fills, Tracks
<1>3. CASE FillsLate
  BY <1>3 DEF FillsLate, Tracks, IInv, TypeOK, EngineTypeOK
<1>4. CASE Leaves \/ Drops
  BY <1>4 DEF Leaves, Drops, Tracks, Flat
<1>5. CASE Sends
  BY <1>5 DEF Sends, Tracks, Flat, IInv, TypeOK, ExchangeTypeOK
<1> QED
  BY <1>1, <1>2, <1>3, <1>4, <1>5 DEF Step

\* The row outlasts what the exchange and the engine do.
LEMMA RowLasts ==
  ASSUME IInv, IInv', RowOK, Lasting, UNCHANGED db,
         db.pos.stop # None => StopLasts(db.pos.stop)
  PROVE  RowOK'
<1>1. Tracks(db.pos)'
  BY DEF RowOK, Tracks, Lasting
<1>2. db.pos.pid # None => ent'[db.pos.pid] = "filled"
  BY DEF RowOK, Lasting, Positions
<1>3. \A p \in Entry : db.booked[p] > 0 => ent'[p] = "filled" /\ p \notin open'
  BY DEF RowOK, Lasting, Pending
<1>4. ASSUME db.pos.stop # None
      PROVE  /\ stop'[db.pos.stop].pid \in {None, db.pos.pid}
             /\ \A e \in InFlight' :
                  e.kind = "stop" /\ e.id = db.pos.stop => e.pid = db.pos.pid
  <2>1. \A e \in InFlight' : e \in Event
    BY DEF IInv, TypeOK, ExchangeTypeOK, InFlight
  <2>2. \A e \in Event : e.kind = "stop" => e.pid # None
    BY ExchangeAssumption DEF Event
  <2> QED
    BY <1>4, <2>1, <2>2 DEF RowOK, StopLasts
<1> QED
  BY <1>1, <1>2, <1>3, <1>4 DEF RowOK
-----------------------------------------------------------------------------
(* The engine while it runs.                                               *)

Running == Trading \/ HandlerGoesOn \/ MainLoop \/ World

LEMMA RunningIsNext ==
  ASSUME Running
  PROVE  Next /\ UNCHANGED <<process, audit, orphan, ghost>>
  BY DEF Running, Trading, HandlerGoesOn, MainLoop, World, Next, Environment

\* A STOP that is placed is not the one of the row.
LEMMA FreshStop ==
  ASSUME IInv, StopCall, FreshId, NEW s \in Stop, s = db.pos.stop
  PROVE  StopLasts(s)
<1>1. UNCHANGED wire
  BY DEF StopCall, PlaceStop, Refused, CloseImpossible, exchange
<1>2. CASE UNCHANGED stop
  BY <1>1, <1>2 DEF StopLasts, InFlight
<1>3. ASSUME NEW t \in Stop, NEW r, PlaceStop(pos.pid, t, r)
      PROVE  StopLasts(s)
  <2>1. stop' = [stop EXCEPT ![t] = [st |-> "live", pid |-> pos.pid]] /\ stop[t] = NoStop
    BY <1>3 DEF PlaceStop, Fresh
  <2>2. stop'[t].st = "live" /\ stop[t].st # "live"
    BY <2>1 DEF NoStop, IInv, TypeOK, ExchangeTypeOK
  <2>3. t # s
    BY <2>2 DEF FreshId, FreshIds
  <2> QED
    BY <1>1, <2>1, <2>3 DEF StopLasts, InFlight, IInv, TypeOK, ExchangeTypeOK
<1> QED
  BY <1>2, <1>3 DEF StopCall, Refused, CloseImpossible, exchange

LEMMA OnlyHandlersPlace ==
  ASSUME IInv, Trading \/ MainLoop \/ World
  PROVE  ~StopCall
<1>1. h.pc = "idle" \/ UNCHANGED h
  BY DEF Trading, MainLoop, World, BoardUpdate, Executions, EventHead, StopEvent,
         UnknownStopEvent, EntryEvent, GraceFillEvent, GraceFillIgnored, UnknownEntryEvent,
         LoseEvents, CoolExpires, Timer, GraceExpires, Watchdog, WatchdogTick, WatchdogClears,
         WatchdogCloses, WatchdogRetries, EquityCheck, EquityRequest, PauseDecided, Paused,
         Resumed, Loop, Exchange, GuardClear, ManualStop
<1>2. StopCall => h.pc = "stop" /\ h'.pc # "stop"
  <2> SUFFICES ASSUME StopCall PROVE h.pc = "stop" /\ h'.pc # "stop"
    OBVIOUS
  <2>1. h.pc = "stop" /\ h' = Resume(h.ret) /\ h.ret \in Stages
    BY DEF StopCall, Return, IInv, TypeOK, EngineTypeOK, Handlers
  <2>2. h'.pc = h.ret
    BY <2>1, ControlTypes, TraderAssumption DEF IInv, TypeOK
  <2> QED
    BY <2>1, <2>2 DEF Stages
<1> QED
  BY <1>1, <1>2

LEMMA RunningStep ==
  ASSUME IInv, RowOK, Running
  PROVE  IInv' /\ Step /\ RowOK'
<1>1. Next /\ UNCHANGED <<process, audit, orphan, ghost>>
  BY RunningIsNext
<1>2. IInv' /\ Step
  BY <1>1, NextKeeps, NextStep
<1>3. ASSUME db.pos.stop # None PROVE StopLasts(db.pos.stop)
  <2>1. db.pos.stop \in Stop
    BY <1>3 DEF RowOK, Positions
  <2>2. CASE StopCall
    BY <2>1, <2>2, OnlyHandlersPlace, FreshStop DEF Running, HandlerGoesOn
  <2>3. CASE ~StopCall
    BY <1>2, <2>1, <2>3 DEF Step, Lasting
  <2> QED
    BY <2>2, <2>3
<1>4. RowOK'
  BY <1>1, <1>2, <1>3, RowLasts DEF Step, process
<1> QED
  BY <1>2, <1>4

LEMMA RunningKeeps == ASSUME RestartInv, Running PROVE RestartInv'
<1>1. IInv' /\ Step /\ RowOK' /\ UNCHANGED <<process, audit, orphan, ghost>>
  BY RunningStep, RunningIsNext DEF RestartInv
<1>2. Tracks(pos)'
  BY <1>1, TracksStep DEF RestartInv
<1>3. phase # "up" => UNCHANGED <<pos, booked, h>>
  BY DEF Running, Trading, HandlerGoesOn, MainLoop, World, Exchange, GuardClear, ManualStop,
         trader, history, RestartInv, PhaseOK
<1>4. \A p \in seen' : p \in Entry /\ ent'[p] = "filled"
  BY <1>1 DEF RestartInv, PhaseOK, Step, Lasting, process
<1>5. PhaseOK'
  BY <1>1, <1>3, <1>4 DEF RestartInv, PhaseOK, process
<1> QED
  BY <1>1, <1>2, <1>5 DEF RestartInv
-----------------------------------------------------------------------------
(* The save, the end of the process, the start and the two checks.         *)

LEMMA RowUnmoved == ASSUME RowOK, UNCHANGED <<exchange, db>> PROVE RowOK'
  BY DEF RowOK, Tracks, exchange, InFlight

LEMMA SaveKeeps == ASSUME RestartInv, Save PROVE RestartInv'
<1>1. UNCHANGED vars /\ phase' = "up" /\ db' = [pos |-> pos, booked |-> booked] /\ UNCHANGED seen
  BY DEF Save
<1>2. IInv'
  BY <1>1, NextKeeps DEF RestartInv
<1>3. Tracks(pos)'
  BY <1>1 DEF RestartInv, Tracks, vars, exchange, trader
<1>4. RowOK'
  BY <1>1, <1>2, <1>3
  DEF RowOK, Tracks, IInv, TypeOK, EngineTypeOK, BooksOK, StopBelongs, vars, trader, history
<1>5. PhaseOK'
  BY <1>1 DEF RestartInv, PhaseOK, vars, exchange
<1> QED
  BY <1>2, <1>3, <1>4, <1>5 DEF RestartInv

\* What the process forgets is in the row, or is excused.
LEMMA CrashKeeps == ASSUME RestartInv, Crash PROVE RestartInv'
<1>1. /\ wire' = <<>> /\ UNCHANGED <<ent, stop, mkt, open, db, manual, guard>>
      /\ pos' = db.pos /\ booked' = db.booked /\ h' = Idle
      /\ phase' = "down" /\ seen' = {}
  BY DEF Crash
<1>2. ExchangeKept /\ InFlight' = {}
  BY <1>1, KeptDropEvents DEF RestartInv, IInv, TypeOK, InFlight
<1>3. excused \subseteq excused' /\ excused' \subseteq Entry
  BY DEF Crash, RestartInv, IInv, TypeOK, EngineTypeOK
<1>4. RowOK'
  BY <1>1, <1>2 DEF RestartInv, RowOK, Tracks
<1>5. EngineTypeOK'
  BY <1>1, <1>3, ControlTypes, TraderAssumption
  DEF Crash, RestartInv, RowOK, IInv, TypeOK, EngineTypeOK, Marks
<1>6. ControlOK'
  BY <1>1 DEF ControlOK, RestartInv, RowOK, Tracks, Idle, Calls
<1>7. BooksOK' /\ StopBelongs'
  BY <1>1, <1>2 DEF BooksOK, StopBelongs, RestartInv, RowOK
<1>8. OrdersTracked'
  <2> SUFFICES ASSUME NEW o \in Entry, ent[o] = "live", o \notin excused'
               PROVE  db.pos.st = "pending" /\ db.pos.entry = o
    BY <1>1 DEF OrdersTracked
  <2>1. o \in {db.pos.entry, db.pos.pid}
    BY DEF Crash, Pending
  <2>2. db.pos.pid # o
    BY ExchangeAssumption DEF RestartInv, RowOK
  <2>3. db.pos.st # "flat" /\ db.pos.st # "held"
    BY <2>1, <2>2, ExchangeAssumption DEF RestartInv, RowOK, Tracks, Flat
  <2> QED
    BY <2>1, <2>2, <2>3 DEF RestartInv, RowOK, Positions
<1>9. IInv'
  BY <1>2, <1>5, <1>6, <1>7, <1>8 DEF IInv, TypeOK, ExchangeKept
<1>10. Tracks(pos)' /\ PhaseOK'
  BY <1>1, <1>4 DEF RowOK, Tracks, PhaseOK, Idle
<1> QED
  BY <1>4, <1>9, <1>10 DEF RestartInv

\* The reads of the start, and what it decides without a call.
LEMMA ReadsKeep ==
  ASSUME RestartInv,
         \/ Start \/ ActiveFails \/ StartAgrees \/ StartGivesUp \/ StartPlaced
  PROVE  RestartInv'
<1>1. UNCHANGED <<exchange, pos, grace, mark, due, timers, cool, guard, request, loop, wd, h,
                  history, db>> /\ manual' \in {manual, TRUE}
  BY DEF Start, ActiveFails, StartAgrees, StartGivesUp, StartPlaced, Starting, RestartInv,
         PhaseOK, history
<1>2. ExchangeKept
  BY <1>1, Unmoved DEF RestartInv
<1>3. EngineTypeOK' /\ ControlOK'
  BY <1>1, <1>2, SameControl DEF RestartInv, IInv, TypeOK, EngineTypeOK, history
<1>4. IInv'
  BY <1>1, <1>2, <1>3, QuietStep DEF RestartInv, history
<1>5. Tracks(pos)' /\ RowOK'
  BY <1>1, RowUnmoved DEF RestartInv, Tracks, exchange
<1>6. h.pc = "idle" /\ phase' \in {"asked", "ready"} /\ (seen' = {} \/ seen' = open)
  BY DEF Start, ActiveFails, StartAgrees, StartGivesUp, StopMissing, StartPlaced, RestartInv,
         PhaseOK
<1>7. PhaseOK'
  BY <1>1, <1>6
  DEF RestartInv, PhaseOK, exchange, IInv, ExchangeOK, TypeOK, ExchangeTypeOK
<1> QED
  BY <1>4, <1>5, <1>7 DEF RestartInv

LEMMA StartClearsKeeps == ASSUME RestartInv, StartClears PROVE RestartInv'
<1>1. /\ UNCHANGED <<exchange, booked, db, h, wd, manual>> /\ pos' = Flat /\ seen' = {}
      /\ phase = "asked" /\ phase' = "ready" /\ excused' = excused \cup {pos.entry}
      /\ pos.st = "pending" => pos.entry \notin Active
      /\ pos.st # "flat"
  BY DEF StartClears, Starting, GoFlat
<1>2. pos.entry \in Entry /\ ExchangeKept
  BY <1>1, Unmoved DEF RestartInv, Tracks
<1>3. EngineTypeOK'
  BY <1>1, <1>2, ControlTypes, TraderAssumption
  DEF StartClears, Starting, GoFlat, RestartInv, IInv, TypeOK, EngineTypeOK, Marks
<1>4. ControlOK'
  BY <1>1 DEF ControlOK, RestartInv, PhaseOK, Flat, Calls
<1>5. BooksKept
  BY <1>1, <1>2 DEF BooksKept, Flat, Active, exchange
<1>6. IInv'
  BY <1>2, <1>3, <1>4, <1>5, StepKeeps DEF RestartInv
<1>7. RowOK'
  BY <1>1, RowUnmoved DEF RestartInv
<1> QED
  BY <1>1, <1>6, <1>7 DEF RestartInv, PhaseOK, Tracks, Flat

\* A position that openPositions listed is taken for the engine's own.
LEMMA TakenUp ==
  ASSUME RestartInv, Starting, UNCHANGED <<manual, excused>>, mark' = "between",
         pos.st # "flat", pos.st = "pending" => pos.entry \notin Active,
         NEW p \in seen, PlaceStopOrders(Held(pos.entry, p), wd, "idle"),
         phase' = "placing", seen' \subseteq seen
  PROVE  RestartInv'
<1>1. UNCHANGED <<exchange, booked, db>>
  BY DEF Starting
<1>2. pos.entry \in Entry /\ ent[pos.entry] \notin {"none", "live"}
  BY DEF RestartInv, Tracks, Active, IInv, TypeOK, EngineTypeOK, Positions
<1>3. p \in Entry /\ ent[p] = "filled"
  BY DEF RestartInv, PhaseOK
<1>4. /\ Held(pos.entry, p) \in Positions /\ Held(pos.entry, p).st = "held"
      /\ Held(pos.entry, p).pid = p /\ Held(pos.entry, p).stop = None
      /\ Held(pos.entry, p).entry = pos.entry
  BY <1>2, <1>3, HeldPosition DEF Held
<1>5. Fits(h', pos'.st) /\ wd' \in Watches /\ pos' = Held(pos.entry, p)
  BY <1>4, PlaceStopOrdersFits DEF RestartInv, IInv, TypeOK, Stages
<1>6. EngineTypeOK'
  BY <1>1, <1>4, <1>5 DEF Starting, Fits, RestartInv, IInv, TypeOK, EngineTypeOK, Marks
<1>7. ControlOK'
  BY <1>4, <1>5, FitsControl DEF RestartInv, IInv
<1>8. BooksKept
  BY <1>1, <1>2, <1>3, <1>4, <1>5 DEF BooksKept, exchange
<1>9. IInv'
  BY <1>1, <1>6, <1>7, <1>8, Unmoved, StepKeeps DEF RestartInv
<1>10. Tracks(pos)' /\ RowOK'
  BY <1>1, <1>2, <1>4, <1>5, RowUnmoved DEF RestartInv, Tracks, exchange
<1>11. PhaseOK'
  BY <1>1, <1>4, <1>5 DEF RestartInv, PhaseOK, exchange
<1> QED
  BY <1>9, <1>10, <1>11 DEF RestartInv

LEMMA StartTakesUp ==
  ASSUME RestartInv, StartAdopts \/ StartReorders
  PROVE  RestartInv'
<1>1. CASE StartAdopts
  BY <1>1, TakenUp DEF StartAdopts
<1>2. CASE StartReorders
  BY <1>2, TakenUp DEF StartReorders, StopMissing
<1> QED
  BY <1>1, <1>2

LEMMA StartPlacesKeeps == ASSUME RestartInv, StartPlaces PROVE RestartInv'
<1>1. StopCall /\ FreshId /\ UNCHANGED <<process, audit, orphan, ghost>> /\ phase = "placing"
  BY DEF StartPlaces
<1>2. IInv' /\ Step
  BY <1>1, StopCallKeeps, ProtectsStep DEF RestartInv
<1>3. db.pos.stop # None => StopLasts(db.pos.stop)
  BY <1>1, FreshStop DEF RestartInv, RowOK, Positions
<1>4. RowOK' /\ Tracks(pos)'
  BY <1>1, <1>2, <1>3, RowLasts, TracksStep DEF RestartInv, Step, process
<1>5. pos'.st = "held"
  BY <1>1 DEF StopCall, StopFailed, RestartInv, PhaseOK, IInv, TypeOK, EngineTypeOK, Positions
<1>6. PhaseOK'
  BY <1>1, <1>2, <1>5 DEF RestartInv, PhaseOK, process, Step, Lasting
<1> QED
  BY <1>2, <1>4, <1>6 DEF RestartInv

LEMMA StartStreamsKeeps == ASSUME RestartInv, StartStreams PROVE RestartInv'
<1>1. /\ wire' = <<>> /\ UNCHANGED <<ent, stop, mkt, open, trader, h, history, db, seen>>
      /\ phase' = "up"
  BY DEF StartStreams
<1>2. ExchangeKept
  BY <1>1, KeptDropEvents DEF RestartInv, IInv, TypeOK
<1>3. EngineTypeOK' /\ ControlOK'
  BY <1>1, <1>2, SameControl DEF RestartInv, IInv, TypeOK, EngineTypeOK, trader, history
<1>4. IInv'
  BY <1>1, <1>2, <1>3, QuietStep DEF RestartInv, trader, history
<1>5. Tracks(pos)' /\ PhaseOK'
  BY <1>1 DEF RestartInv, Tracks, PhaseOK, trader
<1>6. Lasting
  BY <1>1, <1>2, KeptLasts DEF history
<1>7. StopCall => h'.pc # "stop" /\ h.pc = "stop"
  <2> SUFFICES ASSUME StopCall PROVE h.pc = "stop" /\ h'.pc # "stop"
    OBVIOUS
  <2>1. h.pc = "stop" /\ h' = Resume(h.ret) /\ h.ret \in Stages
    BY DEF StopCall, Return, RestartInv, IInv, TypeOK, EngineTypeOK, Handlers
  <2>2. h'.pc = h.ret
    BY <2>1, ControlTypes, TraderAssumption DEF RestartInv, IInv, TypeOK
  <2> QED
    BY <2>1, <2>2 DEF Stages
<1>8. db.pos.stop # None => StopLasts(db.pos.stop)
  BY <1>1, <1>6, <1>7 DEF Lasting, RestartInv, RowOK, Positions
<1>9. RowOK'
  BY <1>1, <1>4, <1>6, <1>8, RowLasts DEF RestartInv
<1> QED
  BY <1>4, <1>5, <1>9 DEF RestartInv

\* The two checks read, and may set the manual stop.
LEMMA ChecksKeep ==
  ASSUME RestartInv, Reconciliation \/ OrphanCheck \/ UNCHANGED allVars
  PROVE  RestartInv'
<1>1. /\ UNCHANGED <<exchange, pos, grace, mark, due, timers, wd, cool, guard, request, loop, h,
                     history, process>>
      /\ manual' \in BOOLEAN
  <2>1. manual \in BOOLEAN
    BY DEF RestartInv, IInv, TypeOK, EngineTypeOK
  <2> QED
    BY <2>1 DEF Reconciliation, CheckBegins, CheckFails, CheckAgrees, CheckLooksAgain,
             CheckDiffers, OrphanCheck, OrphanRead, OrphanAsk, OrphanFails, FetchFails, allVars,
             vars, trader
<1>2. ExchangeKept
  BY <1>1, Unmoved DEF RestartInv
<1>3. EngineTypeOK' /\ ControlOK'
  BY <1>1, <1>2, SameControl DEF RestartInv, IInv, TypeOK, EngineTypeOK, history
<1>4. IInv'
  BY <1>1, <1>2, <1>3, QuietStep DEF RestartInv, history
<1>5. RowOK' /\ Tracks(pos)' /\ PhaseOK'
  BY <1>1, RowUnmoved DEF RestartInv, Tracks, PhaseOK, process, exchange, history
<1> QED
  BY <1>4, <1>5 DEF RestartInv

LEMMA RestartKeeps == ASSUME RestartInv, [RestartNext]_allVars PROVE RestartInv'
  BY SaveKeeps, CrashKeeps, ReadsKeep, StartClearsKeeps, StartTakesUp, StartPlacesKeeps,
     StartStreamsKeeps, RunningKeeps, ChecksKeep DEF RestartNext, Boot, Running

LEMMA FirstLifeOK == ASSUME FirstLife, seen = {} PROVE RestartInv
<1>1. IInv
  BY InitEstablishes DEF FirstLife
<1>2. pos = Flat /\ h = Idle /\ phase = "up" /\ db = [pos |-> Flat, booked |-> booked]
      /\ booked = [p \in Entry |-> 0]
  BY DEF FirstLife, Init, EngineInit
<1>3. Tracks(Flat)
  BY DEF Tracks, Flat
<1>4. RowOK
  BY <1>1, <1>2, <1>3 DEF RowOK, Flat, IInv, TypeOK, EngineTypeOK
<1> QED
  BY <1>1, <1>2, <1>3, <1>4 DEF RestartInv, PhaseOK

LEMMA LaterLifeOK == ASSUME LaterLife, seen = {} PROVE RestartInv
<1>1. PICK p \in Entry, s \in Stop :
        /\ EngineInit(Held(p, p))
        /\ ent = [[o \in Entry |-> "none"] EXCEPT ![p] = "filled"]
        /\ stop = [[t \in Stop |-> NoStop] EXCEPT ![s] = [st |-> "live", pid |-> p]]
        /\ open = {p}
        /\ db = [pos |-> Held(p, p), booked |-> booked]
  BY CrashAssumption DEF LaterLife, CrashAssumption
<1>2. mkt = {} /\ wire = <<>> /\ InFlight = {} /\ phase = "down"
  BY DEF LaterLife, InFlight
<1>3. /\ Held(p, p) \in Positions /\ Held(p, p).st = "held" /\ Held(p, p).pid = p
      /\ Held(p, p).stop = None /\ Held(p, p).entry = p
  BY HeldPosition DEF Held
<1>4. pos = Held(p, p) /\ h = Idle /\ booked = [q \in Entry |-> 0] /\ excused = {}
  BY <1>1 DEF EngineInit
<1>5. TypeOK
  <2>1. ExchangeTypeOK
    BY <1>1, <1>2 DEF ExchangeTypeOK, Status, NoStop
  <2>2. 0 \in 0..MaxStopAttempts /\ 0 \in 0..MaxCloseAttempts
    BY TraderAssumption DEF TraderAssumption
  <2>3. NoWatch \in Watches /\ Idle \in Handlers
    BY <2>2 DEF Watches, NoWatch, Handlers, Idle, Stages
  <2>4. pos \in Positions /\ wd \in Watches /\ h \in Handlers /\ booked \in [Entry -> Nat]
    BY <1>1, <1>3, <1>4, <2>3 DEF EngineInit
  <2> QED
    BY <1>1, <2>1, <2>4 DEF EngineInit, TypeOK, EngineTypeOK, Marks
<1>6. ControlOK /\ BooksOK
  BY <1>1, <1>3, <1>4 DEF ControlOK, BooksOK, Idle, Calls
<1>7. ExchangeOK /\ StopBelongs /\ OrdersTracked
  BY <1>1, <1>2, <1>3, <1>4 DEF ExchangeOK, StopBelongs, OrdersTracked, Pending, NoStop
<1>8. Tracks(pos)
  BY <1>1, <1>3, <1>4 DEF Tracks
<1>9. RowOK
  BY <1>1, <1>2, <1>3, <1>4, <1>5, <1>8 DEF RowOK, TypeOK, EngineTypeOK
<1> QED
  BY <1>1, <1>2, <1>4, <1>5, <1>6, <1>7, <1>8, <1>9 DEF RestartInv, IInv, PhaseOK, Idle

LEMMA RestartEstablishes == ASSUME RestartInit PROVE RestartInv
  BY FirstLifeOK, LaterLifeOK DEF RestartInit

LEMMA RestartInvariance == RestartSpec => []RestartInv
<1> QED
  BY RestartEstablishes, RestartKeeps, PTL DEF RestartSpec

\* Ends and starts of the process at any moment break none of the promises of
\* the running engine: no order is left working behind its back, no exit is
\* booked before its close, and sl_order_id never names a foreign STOP, although
\* what a start knows of all three is a row that may be a second old.
THEOREM SafeAcrossStarts ==
  RestartSpec => [](BookedAfterClose /\ OrdersTracked /\ StopBelongs)
<1>1. RestartInv => BookedAfterClose /\ OrdersTracked /\ StopBelongs
  BY DEF RestartInv, IInv, BooksOK, BookedAfterClose
<1> QED
  BY <1>1, RestartInvariance, PTL

-----------------------------------------------------------------------------
(* What a start makes of the position.                                     *)

StaysAsRead == pos'.st = pos.st /\ pos'.entry = pos.entry /\ pos'.pid = pos.pid
Adopted == pos.st # "flat" /\ \E p \in seen : pos' = Held(pos.entry, p)
Cleared == pos' = Flat /\ excused' = excused \cup {pos.entry} /\ pos.entry \in Entry

LEMMA BootMoves ==
  ASSUME RestartInv, Boot
  PROVE  /\ UNCHANGED <<ent, open, db, booked, grace, orphan>> /\ phase # "up"
         /\ seen' \subseteq seen \/ seen' = open
         /\ \/ StaysAsRead /\ UNCHANGED excused
            \/ Adopted /\ UNCHANGED excused /\ phase = "asked"
            \/ Cleared
<1>1. CASE StartPlaces
  <2>1. UNCHANGED <<ent, open, booked, grace, excused, db, seen, orphan>> /\ phase = "placing"
    BY <1>1 DEF StartPlaces, StopCall, PlaceStop, Refused, CloseImpossible, exchange, process
  <2>2. pos \in Positions /\ \E s : pos' = [pos EXCEPT !.stop = s]
    BY <1>1 DEF StartPlaces, StopCall, StopFailed, RestartInv, IInv, TypeOK, EngineTypeOK
  <2> QED
    BY <2>1, <2>2 DEF StaysAsRead, Positions
<1>2. CASE StartStreams
  BY <1>2 DEF StartStreams, StaysAsRead, trader, history
<1>3. CASE \/ Start \/ ActiveFails \/ StartAgrees \/ StartGivesUp \/ StartPlaced
  <2>1. UNCHANGED <<pos, excused>>
    BY <1>3 DEF Start, ActiveFails, StartAgrees, StartGivesUp, StopMissing, StartPlaced,
                RestartInv, PhaseOK
  <2>2. Starting /\ phase # "up" /\ (seen' \subseteq seen \/ seen' = open)
    BY <1>3 DEF Start, ActiveFails, StartAgrees, StartGivesUp, StopMissing, StartPlaced
  <2> QED
    BY <2>1, <2>2 DEF Starting, StaysAsRead, exchange
<1>4. CASE StartAdopts \/ StartReorders
  <2>1. Starting /\ phase = "asked" /\ pos.st # "flat" /\ UNCHANGED excused /\ seen' \subseteq seen
    BY <1>4 DEF StartAdopts, StartReorders, StopMissing
  <2>2. \E p \in seen : pos' = Held(pos.entry, p)
    BY <1>4 DEF StartAdopts, StartReorders, PlaceStopOrders
  <2> QED
    BY <2>1, <2>2 DEF Starting, Adopted, exchange
<1>5. CASE StartClears
  <2>1. pos.entry \in Entry
    BY <1>5 DEF StartClears, RestartInv, Tracks
  <2> QED
    BY <1>5, <2>1 DEF StartClears, GoFlat, Starting, Cleared, exchange
<1> QED
  BY <1>1, <1>2, <1>3, <1>4, <1>5 DEF Boot

LEMMA ChecksMove ==
  ASSUME Reconciliation \/ OrphanCheck \/ UNCHANGED allVars
  PROVE  UNCHANGED <<exchange, pos, booked, grace, excused, phase, db, seen>>
  BY DEF Reconciliation, CheckBegins, CheckFails, CheckAgrees, CheckLooksAgain, CheckDiffers,
         OrphanCheck, OrphanRead, OrphanAsk, OrphanFails, FetchFails, allVars, vars, trader,
         history, process

LEMMA RunningMoves ==
  ASSUME RestartInv, Running
  PROVE  /\ Step /\ RestartInv' /\ UNCHANGED <<process, audit, orphan, ghost>>
         /\ phase # "up" => UNCHANGED <<pos, booked, grace>>
<1>1. phase # "up" => UNCHANGED <<pos, booked, grace>>
  BY DEF Running, Trading, HandlerGoesOn, MainLoop, World, Exchange, GuardClear, ManualStop,
         trader, history
<1> QED
  BY <1>1, RunningStep, RunningKeeps, RunningIsNext DEF RestartInv

-----------------------------------------------------------------------------
(* No exit is booked twice.                                                *)

\* What the books, in memory or in the row, say of their position.
Once(q, b) ==
  /\ \A p \in Entry : b[p] <= 1
  /\ q.st = "pending" => b[q.entry] = 0
  /\ q.pid # None => b[q.pid] = 0

\* An order whose cancel was accepted does not execute any more.
GraceGone == \A o \in grace : ent[o] = "gone"

OnceInv ==
  /\ Once(pos, booked) /\ Once(db.pos, db.booked)
  /\ phase # "up" => \A p \in seen : booked[p] = 0
  /\ GraceGone

LEMMA GraceStep ==
  ASSUME "late_fill" \notin Fault, RestartInv, GraceGone, Step
  PROVE  GraceGone'
<1> USE DEF GraceGone, Step, Lasting, RestartInv, IInv, TypeOK, EngineTypeOK
<1>1. CASE Keeps
  BY <1>1 DEF Keeps
<1>2. CASE Fills \/ FillsLate
  BY <1>2 DEF Fills, FillsLate
<1>3. CASE Leaves \/ Drops
  BY <1>3 DEF Leaves, Drops
<1>4. CASE Sends
  BY <1>4 DEF Sends
<1> QED
  BY <1>1, <1>2, <1>3, <1>4

LEMMA OnceStep ==
  ASSUME GraceGone, RestartInv, Once(pos, booked), Step
  PROVE  Once(pos, booked)'
<1>1. pos \in Positions /\ booked \in [Entry -> Nat]
  BY DEF RestartInv, IInv, TypeOK, EngineTypeOK
<1>2. \A p \in Entry : ent[p] # "filled" \/ p \in open => booked[p] = 0
  BY <1>1 DEF RestartInv, IInv, BooksOK
<1>3. CASE Keeps
  BY <1>3 DEF Keeps, Once
<1>4. CASE Fills
  BY <1>1, <1>2, <1>4 DEF Fills, Once, RestartInv, IInv, TypeOK, ExchangeTypeOK
<1>5. CASE FillsLate
  BY <1>5 DEF FillsLate, GraceGone
<1>6. CASE Leaves
  <2>1. \A p \in Entry : booked'[p] <= 1
    <3> SUFFICES ASSUME NEW p \in Entry PROVE booked'[p] <= 1
      OBVIOUS
    <3>1. booked[p] \in Nat /\ booked[p] <= 1 /\ (p = pos.pid => booked[p] = 0)
      BY <1>1, ExchangeAssumption DEF Once
    <3>2. booked'[p] = booked[p] \/ (p = pos.pid /\ booked'[p] = booked[p] + 1)
          \/ booked'[p] = booked[p] + 0
      BY <1>6 DEF Leaves
    <3> QED
      BY <3>1, <3>2
  <2> QED
    BY <1>6, <2>1 DEF Leaves, Once, Flat
<1>7. CASE Drops
  BY <1>7 DEF Drops, Once, Flat
<1>8. CASE Sends
  BY <1>1, <1>2, <1>8 DEF Sends, Once, Flat
<1> QED
  BY <1>3, <1>4, <1>5, <1>6, <1>7, <1>8 DEF Step

LEMMA OnceKept ==
  ASSUME "late_fill" \notin Fault, RestartInv, OnceInv, [RestartNext]_allVars
  PROVE  OnceInv'
<1>1. CASE Save
  BY <1>1 DEF Save, OnceInv, Once, GraceGone, vars, exchange, trader, history
<1>2. CASE Crash
  BY <1>2 DEF Crash, OnceInv, Once, GraceGone
<1>3. CASE Boot
  <2>1. \A p \in open : booked[p] = 0
    BY DEF RestartInv, IInv, BooksOK, TypeOK, EngineTypeOK, ExchangeTypeOK
  <2>2. \A p \in seen' : booked'[p] = 0
    BY <1>3, <2>1, BootMoves DEF OnceInv
  <2>3. Once(pos, booked)'
    BY <1>3, BootMoves
    DEF StaysAsRead, Adopted, Cleared, OnceInv, Once, Held, Flat
  <2> QED
    BY <1>3, <2>2, <2>3, BootMoves DEF OnceInv, Once, GraceGone
<1>4. CASE Running
  <2>1. Once(pos, booked)' /\ GraceGone' /\ UNCHANGED process
    BY <1>4, RunningMoves, OnceStep, GraceStep DEF OnceInv
  <2> QED
    BY <1>4, <2>1, RunningMoves DEF OnceInv, Once, process
<1>5. CASE Reconciliation \/ OrphanCheck \/ UNCHANGED allVars
  BY <1>5, ChecksMove DEF OnceInv, Once, GraceGone, exchange
<1> QED
  BY <1>1, <1>2, <1>3, <1>4, <1>5 DEF RestartNext, Running

LEMMA OnceEstablished == ASSUME RestartInit PROVE OnceInv
<1>1. booked = [p \in Entry |-> 0] /\ db.booked = booked /\ db.pos = pos /\ grace = {} /\ seen = {}
  <2>1. CASE FirstLife
    BY <2>1 DEF RestartInit, FirstLife, Init, EngineInit
  <2>2. CASE LaterLife
    BY <2>2 DEF RestartInit, LaterLife, EngineInit
  <2> QED
    BY <2>1, <2>2 DEF RestartInit
<1>2. pos \in Positions
  BY RestartEstablishes DEF RestartInv, IInv, TypeOK, EngineTypeOK
<1>3. pos.st = "pending" => pos.entry \in Entry
  BY RestartEstablishes DEF RestartInv, Tracks
<1> QED
  BY <1>1, <1>2, <1>3 DEF OnceInv, Once, GraceGone, Positions

\* No exit is booked twice: the position and the counters are saved in one row,
\* so that a start takes up either both or neither, whenever the process ends
\* and whatever GMO executed meanwhile.
THEOREM NoExitTwice ==
  ASSUME "late_fill" \notin Fault
  PROVE  RestartSpec => []BookedOnce
<1>1. RestartInit => RestartInv /\ OnceInv
  BY RestartEstablishes, OnceEstablished
<1>2. RestartInv /\ OnceInv /\ [RestartNext]_allVars => (RestartInv /\ OnceInv)'
  BY RestartKeeps, OnceKept
<1>3. OnceInv => BookedOnce
  BY DEF OnceInv, Once, BookedOnce
<1> QED
  BY <1>1, <1>2, <1>3, PTL DEF RestartSpec

-----------------------------------------------------------------------------
(* Every open position is known.                                           *)

\* As long as no order is excused, there is one exposure, that of the order the
\* engine and its row name.
Sole ==
  /\ \A p \in open : pos.entry = p
  /\ pos.st = "held" => pos.pid = pos.entry
  /\ db.pos.st = "held" => db.pos.pid = db.pos.entry
  /\ phase = "asked" => \A p \in seen : pos.entry = p

SoleInv == GraceGone /\ (excused = {} => Sole)

\* The order that executes is the pending one.
LEMMA SoleExecutes ==
  ASSUME Calm, RestartInv, excused = {}, Sole, NEW p \in Entry, p \in open \/ Pending(ent[p])
  PROVE  pos.entry = p
<1>1. CASE p \in open
  BY <1>1 DEF Sole
<1>2. CASE ent[p] = "live"
  BY <1>2 DEF RestartInv, IInv, OrdersTracked
<1>3. CASE ent[p] = "cxl"
  BY <1>3 DEF RestartInv, IInv, ExchangeOK, Calm
<1> QED
  BY <1>1, <1>2, <1>3 DEF Pending

LEMMA SoleStep ==
  ASSUME Calm, GraceGone, RestartInv, excused = {}, Sole, Step, open' \subseteq Entry
  PROVE  /\ \A p \in open' : pos'.entry = p
         /\ pos'.st = "held" => pos'.pid = pos'.entry
<1>1. \A p \in open' : pos.entry = p
  BY SoleExecutes DEF Step, Lasting
<1>2. CASE Keeps
  BY <1>1, <1>2 DEF Keeps, Sole
<1>3. CASE Fills
  BY <1>1, <1>3 DEF Fills, Sole, Calm
<1>4. CASE FillsLate
  BY <1>4 DEF FillsLate, GraceGone
<1>5. CASE Leaves
  BY <1>1, <1>5 DEF Leaves, Sole, Flat
<1>6. CASE Drops
  BY <1>1, <1>6 DEF Drops, Flat, RestartInv, IInv, ExchangeOK
<1>7. CASE Sends
  <2>1. open' = {}
    BY <1>1, <1>7, ExchangeAssumption DEF Sends, RestartInv, Tracks, Flat
  <2>2. pos'.st # "held"
    BY <1>7 DEF Sends, Flat
  <2> QED
    BY <2>1, <2>2
<1> QED
  BY <1>2, <1>3, <1>4, <1>5, <1>6, <1>7 DEF Step

LEMMA SoleKept ==
  ASSUME Calm, RestartInv, SoleInv, [RestartNext]_allVars
  PROVE  SoleInv'
<1>1. CASE Save
  BY <1>1 DEF Save, SoleInv, Sole, GraceGone, vars, exchange, trader, history
<1>2. CASE Crash
  <2>1. GraceGone'
    BY <1>2 DEF Crash, GraceGone
  <2> SUFFICES ASSUME excused' = {} PROVE Sole'
    BY <2>1 DEF SoleInv
  <2>2. Sole /\ pos' = db.pos /\ UNCHANGED <<open, db>> /\ seen' = {}
    BY <1>2 DEF Crash, SoleInv
  <2>3. ASSUME NEW p \in open PROVE db.pos.entry = p
    <3>1. p \in Entry /\ p \in {db.pos.entry, db.pos.pid}
      BY <1>2 DEF Crash, RestartInv, IInv, TypeOK, ExchangeTypeOK
    <3>2. db.pos.pid = p => db.pos.st = "held"
      BY <3>1, ExchangeAssumption DEF RestartInv, RowOK, Tracks, Flat, Positions
    <3> QED
      BY <2>2, <3>1, <3>2 DEF Sole
  <2> QED
    BY <2>2, <2>3 DEF Sole
<1>3. CASE Boot
  <2>1. GraceGone'
    BY <1>3, BootMoves DEF SoleInv, GraceGone
  <2> SUFFICES ASSUME excused' = {} PROVE Sole'
    BY <2>1 DEF SoleInv
  <2>2. excused = {} /\ Sole /\ ~Cleared
    BY <1>3, BootMoves DEF SoleInv, Cleared
  <2>3. pos'.entry = pos.entry /\ (pos'.st = "held" => pos'.pid = pos'.entry)
    BY <1>3, <2>2, BootMoves DEF StaysAsRead, Adopted, Held, Sole
  <2>4. phase' = "asked" => \A p \in seen' : pos.entry = p
    <3>1. phase' = "asked" => seen' = open
      BY <1>3 DEF Boot, Start, ActiveFails, StartAgrees, StartAdopts, StartClears,
                  StartReorders, StartGivesUp, StartPlaces, StartPlaced, StartStreams, process
    <3> QED
      BY <2>2, <3>1 DEF Sole
  <2> QED
    BY <1>3, <2>2, <2>3, <2>4, BootMoves DEF Sole
<1>4. CASE Running
  <2>1. GraceGone' /\ UNCHANGED process /\ Step /\ excused \subseteq excused'
    BY <1>4, RunningMoves, GraceStep DEF SoleInv, Calm, Step, Lasting
  <2> SUFFICES ASSUME excused' = {} PROVE Sole'
    BY <2>1 DEF SoleInv
  <2>2. excused = {} /\ Sole /\ GraceGone
    BY <2>1 DEF SoleInv
  <2>3. open' \subseteq Entry
    BY <1>4, RunningMoves DEF RestartInv, IInv, TypeOK, ExchangeTypeOK
  <2> QED
    BY <1>4, <2>1, <2>2, <2>3, RunningMoves, SoleStep DEF Sole, process
<1>5. CASE Reconciliation \/ OrphanCheck \/ UNCHANGED allVars
  BY <1>5, ChecksMove DEF SoleInv, Sole, GraceGone, exchange
<1> QED
  BY <1>1, <1>2, <1>3, <1>4, <1>5 DEF RestartNext, Running

LEMMA SoleEstablished == ASSUME RestartInit PROVE SoleInv
<1>1. CASE FirstLife
  BY <1>1 DEF RestartInit, FirstLife, Init, EngineInit, ExchangeInit, SoleInv, Sole,
              GraceGone, Flat
<1>2. CASE LaterLife
  BY <1>2 DEF RestartInit, LaterLife, EngineInit, SoleInv, Sole, GraceGone, Held
<1> QED
  BY <1>1, <1>2 DEF RestartInit

\* Every open position is known to the engine after any number of starts, or
\* some order is excused: no start forgets the position of the row, takes up a
\* foreign one, or clears one that is open, whichever of its reads failed.
THEOREM NothingForgottenAcrossStarts ==
  ASSUME Calm
  PROVE  RestartSpec => []KeptAcrossRestart
<1>1. RestartInit => RestartInv /\ SoleInv
  BY RestartEstablishes, SoleEstablished
<1>2. RestartInv /\ SoleInv /\ [RestartNext]_allVars => (RestartInv /\ SoleInv)'
  BY RestartKeeps, SoleKept
<1>3. RestartInv /\ SoleInv => KeptAcrossRestart
  <2> SUFFICES ASSUME RestartInv, SoleInv, excused = {}, NEW p \in open
               PROVE  p = pos.pid \/ (pos.entry = p /\ pos.pid = None)
    BY DEF KeptAcrossRestart, PositionsKnown
  <2>1. pos.entry = p /\ p \in Entry /\ (pos.st = "held" => pos.pid = p)
    BY DEF SoleInv, Sole, RestartInv, IInv, TypeOK, ExchangeTypeOK
  <2>2. pos.st # "flat"
    BY <2>1, ExchangeAssumption DEF RestartInv, Tracks, Flat
  <2> QED
    BY <2>1, <2>2 DEF RestartInv, Tracks, IInv, TypeOK, EngineTypeOK, Positions
<1> QED
  BY <1>1, <1>2, <1>3, PTL DEF RestartSpec

-----------------------------------------------------------------------------
(* The orphan-order check.                                                 *)

\* A candidate is an order that was sent.  If it is the engine's own by now, the
\* row the check reads next will name it.
OrphanInv ==
  /\ suspects \subseteq Entry /\ \A o \in suspects : ent[o] # "none"
  /\ \A o \in suspects : Tracked(o) /\ saved => db.pos.entry = o
  /\ \A o \in suspects :
       known # NotRunning /\ (Tracked(o) \/ (db.pos.st = "pending" /\ db.pos.entry = o))
         => o \in known
  /\ phase # "up" /\ pos.st = "pending" => db.pos.entry = pos.entry

\* A step that makes no candidate the engine's own.
LEMMA NoneNamed ==
  ASSUME OrphanInv, UNCHANGED <<db, known, suspects, saved>>,
         \A o \in suspects : ent'[o] # "none" /\ (Tracked(o)' => Tracked(o)),
         phase' # "up" /\ pos'.st = "pending" => db.pos.entry = pos'.entry
  PROVE  OrphanInv'
  BY DEF OrphanInv

LEMMA OrphanKept ==
  ASSUME RestartInv, OrphanInv, [RestartNext]_allVars
  PROVE  OrphanInv'
<1>1. CASE Save
  BY <1>1 DEF Save, OrphanInv, Tracked, vars, exchange, trader
<1>2. CASE Crash
  BY <1>2 DEF Crash, OrphanInv, Tracked, orphan
<1>3. CASE Boot
  <2>1. UNCHANGED <<ent, db, known, suspects, saved>> /\ phase # "up"
    BY <1>3, BootMoves DEF orphan
  <2>2. pos'.st = "pending" => pos.st = "pending" /\ pos'.entry = pos.entry
    BY <1>3, BootMoves DEF StaysAsRead, Adopted, Cleared, Held, Flat
  <2> QED
    BY <2>1, <2>2, NoneNamed DEF OrphanInv, Tracked
<1>4. CASE Running
  <2>1. UNCHANGED <<db, known, suspects, saved, phase>> /\ Step
        /\ (phase # "up" => UNCHANGED pos)
    BY <1>4, RunningMoves DEF process, orphan
  <2>2. \A o \in suspects : o \in Entry /\ ent[o] # "none" /\ ent'[o] # "none"
    BY <2>1 DEF OrphanInv, Step, Lasting
  <2>3. ASSUME NEW o \in suspects, Tracked(o)' PROVE Tracked(o)
    <3>1. CASE Keeps
      BY <2>3, <3>1 DEF Keeps, Tracked
    <3>2. CASE Fills \/ FillsLate \/ Leaves \/ Drops
      BY <2>3, <3>2 DEF Fills, FillsLate, Leaves, Drops, Tracked, Flat
    <3>3. CASE Sends
      BY <2>2, <2>3, <3>3 DEF Sends, Tracked, Flat
    <3> QED
      BY <2>1, <3>1, <3>2, <3>3 DEF Step
  <2> QED
    BY <2>1, <2>2, <2>3, NoneNamed DEF OrphanInv
<1>5. CASE Reconciliation \/ UNCHANGED allVars
  <2>1. UNCHANGED <<known, suspects, saved>>
    BY <1>5 DEF Reconciliation, CheckBegins, CheckFails, CheckAgrees, CheckLooksAgain,
                CheckDiffers, orphan, allVars
  <2>2. UNCHANGED <<ent, pos, phase, db>>
    BY <1>5, ChecksMove DEF exchange
  <2> QED
    BY <2>1, <2>2, NoneNamed DEF OrphanInv, Tracked
<1>6. CASE OrphanRead
  <2>1. UNCHANGED <<ent, pos, phase, db, suspects, saved>> /\ known = NotRunning
        /\ (saved \/ phase # "up") /\ known' = {db.pos.entry} \ {None}
    BY <1>6 DEF OrphanRead, vars, exchange, trader, process
  <2> QED
    BY <2>1, ExchangeAssumption DEF OrphanInv, Tracked
<1>7. CASE OrphanAsk
  <2>1. UNCHANGED <<ent, pos, phase, db>> /\ suspects' = Active \ known
        /\ known' = NotRunning /\ saved' = FALSE
    BY <1>7 DEF OrphanAsk, vars, exchange, trader, process
  <2> QED
    BY <2>1 DEF OrphanInv, Active
<1>8. CASE OrphanFails
  BY <1>8 DEF OrphanFails, FetchFails, OrphanInv, Tracked, exchange, trader, process
<1> QED
  BY <1>1, <1>2, <1>3, <1>4, <1>5, <1>6, <1>7, <1>8 DEF RestartNext, Running, OrphanCheck

LEMMA OrphanEstablished == ASSUME RestartInit PROVE OrphanInv
<1>1. phase = "up" \/ pos.st = "held"
  <2>1. CASE LaterLife
    BY <2>1 DEF LaterLife, EngineInit, Held
  <2> QED
    BY <2>1 DEF RestartInit, FirstLife
<1> QED
  BY <1>1 DEF RestartInit, OrphanInv

\* The orphan check sends no alert about the engine's own order, whatever the
\* order in which the engine saves, the check reads the row and GMO, orders are
\* sent and the process ends and starts.
THEOREM OwnOrderIsNoOrphan == RestartSpec => AlarmIsStray
<1>1. RestartInit => RestartInv /\ OrphanInv
  BY RestartEstablishes, OrphanEstablished
<1>2. RestartInv /\ OrphanInv /\ [RestartNext]_allVars => (RestartInv /\ OrphanInv)'
  BY RestartKeeps, OrphanKept
<1>3. RestartInv /\ OrphanInv /\ [RestartNext]_allVars
        => [\A o \in reported' \ reported : ~Tracked(o)]_allVars
  <2> SUFFICES ASSUME OrphanInv, RestartNext, NEW o \in reported' \ reported, Tracked(o),
                      RestartInv
               PROVE  FALSE
    OBVIOUS
  <2>1. OrphanAsk
    <3>1. CASE Running
      BY <3>1, RunningMoves DEF orphan
    <3>2. CASE Boot
      BY <3>2, BootMoves DEF orphan
    <3> QED
      BY <3>1, <3>2
      DEF RestartNext, Running, Save, Crash, Reconciliation, CheckBegins, CheckFails,
          CheckAgrees, CheckLooksAgain, CheckDiffers, OrphanCheck, OrphanRead, OrphanFails, orphan
  <2> QED
    BY <2>1 DEF OrphanAsk, OrphanInv
<1> QED
  BY <1>1, <1>2, <1>3, PTL DEF RestartSpec, AlarmIsStray
=============================================================================
