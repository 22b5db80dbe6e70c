-------------------------- MODULE RealTrader_proofs --------------------------
(***************************************************************************)
(* Proofs about RealTrader: what holds for any number of orders and        *)
(* positions, any bounds on the attempts, every fault and every            *)
(* interruption.                                                           *)
(***************************************************************************)
EXTENDS RealTrader, TLAPS

-----------------------------------------------------------------------------
(* The inductive invariant.                                                *)

\* Which position a running handler works on.
ControlOK ==
  /\ pos.st = "pending" => pos.entry \in Entry /\ pos.pid = None /\ pos.stop = None
  /\ h.pc \in {"cancel", "cancel_fetch"} => pos.st = "pending"
  /\ h.pc = "cancel_fetch" => ent[pos.entry] # "live"
  /\ h.pc \in Calls \ {"cancel", "cancel_fetch"} => pos.st = "held"

\* What the exchange and its stream say of a position.
ExchangeOK ==
  /\ \A p \in open : ent[p] = "filled"
  /\ \A s \in Stop : Pending(stop[s].st) => stop[s].pid \in open
  /\ \A e \in InFlight :
       /\ e.kind = "entry" =>
            /\ ent[e.id] = "filled"
            /\ e.pid = e.id \/ (e.pid = None /\ "no_pid" \in Fault)
       /\ e.kind = "stop" => ent[e.pid] = "filled" /\ e.pid \notin open
  /\ \A o \in Entry : ent[o] = "cxl" => "late_fill" \in Fault

\* What the engine says of a position was true once, and stays so.
BooksOK ==
  /\ pos.pid # None => ent[pos.pid] = "filled"
  /\ \A p \in Entry : booked[p] > 0 => ent[p] = "filled" /\ p \notin open

IInv ==
  /\ TypeOK /\ ControlOK /\ ExchangeOK /\ BooksOK
  /\ StopBelongs /\ OrdersTracked

-----------------------------------------------------------------------------
(* The stream.                                                             *)

LEMMA InFlightEvents ==
  ASSUME ExchangeTypeOK
  PROVE  InFlight \subseteq Event
  BY DEF ExchangeTypeOK, InFlight

LEMMA AppendEvent ==
  ASSUME ExchangeTypeOK, NEW e \in Event, wire' = Append(wire, e)
  PROVE  wire' \in Seq(Event) /\ InFlight' = InFlight \cup {e}
<1>1. wire \in Seq(Event)
  BY DEF ExchangeTypeOK
<1>2. wire' \in Seq(Event) /\ Len(wire') = Len(wire) + 1
  BY <1>1
<1>3. \A i \in 1..Len(wire') :
        wire'[i] = IF i = Len(wire) + 1 THEN e ELSE wire[i]
  BY <1>1
<1>4. InFlight' \subseteq InFlight \cup {e}
  BY <1>1, <1>2, <1>3 DEF InFlight
<1>5. InFlight \subseteq InFlight'
  <2> SUFFICES ASSUME NEW i \in 1..Len(wire) PROVE wire[i] \in InFlight'
    BY DEF InFlight
  <2>1. i \in 1..Len(wire') /\ wire'[i] = wire[i]
    BY <1>1, <1>2, <1>3
  <2> QED
    BY <2>1 DEF InFlight
<1>6. e \in InFlight'
  <2>1. Len(wire) + 1 \in 1..Len(wire') /\ wire'[Len(wire) + 1] = e
    BY <1>1, <1>2, <1>3
  <2> QED
    BY <2>1 DEF InFlight
<1> QED
  BY <1>2, <1>4, <1>5, <1>6

LEMMA TakeHead ==
  ASSUME ExchangeTypeOK, wire # <<>>, wire' = Tail(wire)
  PROVE  /\ wire' \in Seq(Event)
         /\ InFlight' \subseteq InFlight
         /\ Head(wire) \in InFlight
<1>1. wire \in Seq(Event)
  BY DEF ExchangeTypeOK
<1>2. /\ wire' \in Seq(Event)
      /\ \A i \in 1..Len(wire') : i + 1 \in 1..Len(wire) /\ wire'[i] = wire[i + 1]
  BY <1>1
<1>3. 1 \in 1..Len(wire) /\ Head(wire) = wire[1]
  BY <1>1
<1> QED
  BY <1>2, <1>3 DEF InFlight

-----------------------------------------------------------------------------
(* What the exchange, and every call but a new order, leaves as it was.    *)

Undisturbed ==
  /\ \A o \in Entry : ent[o] = "filled" => ent'[o] = "filled"
  /\ \A o \in Entry : ent[o] = "gone" => ent'[o] = "gone"
  /\ \A o \in Entry : ent'[o] \in {"none", "live"} => ent[o] = ent'[o]
  /\ \A p \in open' : p \in open \/ Pending(ent[p])
  /\ \A s \in Stop : stop'[s].pid \in {None, stop[s].pid}
  /\ \A e \in InFlight' :
       e \in InFlight \/ (e.kind = "stop" => e.pid = stop[e.id].pid)

ExchangeKept == ExchangeTypeOK' /\ ExchangeOK' /\ Undisturbed

LEMMA KeptUnchanged ==
  ASSUME ExchangeTypeOK, ExchangeOK, UNCHANGED exchange
  PROVE  ExchangeKept
  BY DEF exchange, ExchangeKept, ExchangeTypeOK, ExchangeOK, Undisturbed, InFlight,
         Pending

LEMMA KeptCancelEntry ==
  ASSUME ExchangeTypeOK, ExchangeOK, NEW o \in Entry, NEW r, CancelEntry(o, r)
  PROVE  ExchangeKept
<1>1. CASE UNCHANGED exchange
  BY <1>1, KeptUnchanged
<1>2. CASE /\ ent[o] = "live"
           /\ \E st \in {"gone", "cxl"} :
                /\ ent' = [ent EXCEPT ![o] = st]
                /\ st = "cxl" => "late_fill" \in Fault
           /\ UNCHANGED <<stop, mkt, open, wire>>
  <2>1. PICK st \in {"gone", "cxl"} :
          /\ ent' = [ent EXCEPT ![o] = st]
          /\ st = "cxl" => "late_fill" \in Fault
    BY <1>2
  <2>2. /\ ent' \in [Entry -> Status] /\ \A p \in Entry \ {o} : ent'[p] = ent[p]
        /\ ent'[o] \in {"gone", "cxl"} /\ (ent'[o] = "cxl" => "late_fill" \in Fault)
    BY <2>1 DEF ExchangeTypeOK, Status
  <2>3. ExchangeTypeOK' /\ InFlight' = InFlight
    BY <1>2, <2>2 DEF ExchangeTypeOK, InFlight
  <2>4. ExchangeOK'
    <3>1. \A e \in InFlight : e \in Event
      BY InFlightEvents
    <3> QED
      BY <1>2, <2>2, <2>3, <3>1 DEF ExchangeOK, ExchangeTypeOK, Pending, Event
  <2>5. Undisturbed
    BY <1>2, <2>2, <2>3 DEF Undisturbed
  <2> QED
    BY <2>3, <2>4, <2>5 DEF ExchangeKept
<1> QED
  BY <1>1, <1>2 DEF CancelEntry, Refused

LEMMA KeptCancelStop ==
  ASSUME ExchangeTypeOK, ExchangeOK, NEW s \in Stop \cup {None}, NEW r, CancelStop(s, r)
  PROVE  ExchangeKept
<1>1. CASE UNCHANGED exchange
  BY <1>1, KeptUnchanged
<1>2. CASE /\ stop[s].st = "live"
           /\ \/ stop' = [stop EXCEPT ![s] = NoStop]
              \/ stop' = [stop EXCEPT ![s].st = "cxl"]
           /\ UNCHANGED <<ent, mkt, open, wire>>
  BY <1>2 DEF ExchangeKept, ExchangeTypeOK, ExchangeOK, Undisturbed, InFlight,
              Pending, NoStop
<1> QED
  BY <1>1, <1>2 DEF CancelStop, Refused

LEMMA KeptPlaceMarket ==
  ASSUME ExchangeTypeOK, ExchangeOK, NEW p, NEW r, PlaceMarket(p, r)
  PROVE  ExchangeKept
  BY DEF PlaceMarket, Closable, ExchangeKept, ExchangeTypeOK, ExchangeOK,
         Undisturbed, InFlight, Pending

LEMMA KeptTakeEvent ==
  ASSUME ExchangeTypeOK, ExchangeOK, wire # <<>>, TakeEvent
  PROVE  ExchangeKept
  BY TakeHead DEF TakeEvent, ExchangeKept, ExchangeTypeOK, ExchangeOK, Undisturbed,
                  Pending

LEMMA KeptDropEvents ==
  ASSUME ExchangeTypeOK, ExchangeOK, wire' = <<>>, UNCHANGED <<ent, stop, mkt, open>>
  PROVE  ExchangeKept
  BY DEF ExchangeKept, ExchangeTypeOK, ExchangeOK, Undisturbed, InFlight, Pending

LEMMA KeptFillEntry ==
  ASSUME ExchangeTypeOK, ExchangeOK, NEW o \in Entry, FillEntry(o)
  PROVE  ExchangeKept
<1>1. PICK pid \in {o, None} :
        /\ pid = None => "no_pid" \in Fault \/ o = None
        /\ wire' = Append(wire, [kind |-> "entry", id |-> o, pid |-> pid])
  BY DEF FillEntry
<1> DEFINE e == [kind |-> "entry", id |-> o, pid |-> pid]
<1>2. e \in Event
  BY DEF Event
<1>3. wire' \in Seq(Event) /\ InFlight' = InFlight \cup {e}
  BY <1>1, <1>2, AppendEvent
<1>4. ent[o] # "filled" /\ o \notin open
  BY DEF FillEntry, Pending, ExchangeOK
<1>5. /\ ent' = [ent EXCEPT ![o] = "filled"] /\ open' = open \cup {o}
      /\ UNCHANGED <<stop, mkt>>
  BY DEF FillEntry
<1>6. ExchangeTypeOK'
  BY <1>3, <1>5 DEF ExchangeTypeOK, Status
<1>7. ExchangeOK'
  <2>1. \A x \in InFlight : x \in Event
    BY InFlightEvents
  <2> QED
    BY <1>1, <1>3, <1>4, <1>5, <2>1, ExchangeAssumption
    DEF ExchangeOK, ExchangeTypeOK, Pending, Event
<1>8. Undisturbed
  BY <1>3, <1>4, <1>5 DEF Undisturbed, ExchangeTypeOK, FillEntry, Pending
<1> QED
  BY <1>6, <1>7, <1>8 DEF ExchangeKept

LEMMA KeptCancelDone ==
  ASSUME ExchangeTypeOK, ExchangeOK,
         \/ \E o \in Entry : CancelEntryDone(o)
         \/ \E s \in Stop : CancelStopDone(s)
  PROVE  ExchangeKept
<1>1. CASE \E o \in Entry : CancelEntryDone(o)
  BY <1>1, InFlightEvents DEF CancelEntryDone, ExchangeKept, ExchangeTypeOK, ExchangeOK,
                              Undisturbed, InFlight, Pending, Status, Event
<1>2. CASE \E s \in Stop : CancelStopDone(s)
  BY <1>2 DEF CancelStopDone, ExchangeKept, ExchangeTypeOK, ExchangeOK, Undisturbed,
              InFlight, Pending, NoStop
<1> QED
  BY <1>1, <1>2

LEMMA KeptFillStop ==
  ASSUME ExchangeTypeOK, ExchangeOK, NEW s \in Stop, FillStop(s)
  PROVE  ExchangeKept
<1> DEFINE p == stop[s].pid
           e == [kind |-> "stop", id |-> s, pid |-> p]
<1>1. p \in open /\ p \in Entry /\ ent[p] = "filled"
  BY DEF FillStop, ExchangeOK, ExchangeTypeOK
<1>2. e \in Event
  BY <1>1 DEF Event
<1>3. wire' \in Seq(Event) /\ InFlight' = InFlight \cup {e}
  BY <1>2, AppendEvent DEF FillStop
<1>4. /\ open' = open \ {p} /\ mkt' = mkt \ {p} /\ UNCHANGED ent
      /\ stop' = [t \in Stop |-> IF stop[t].pid = p THEN NoStop ELSE stop[t]]
  BY DEF FillStop, Closed
<1>5. ExchangeTypeOK'
  BY <1>3, <1>4 DEF ExchangeTypeOK, NoStop
<1>6. ExchangeOK'
  BY <1>1, <1>3, <1>4 DEF ExchangeOK, ExchangeTypeOK, Pending, NoStop
<1>7. Undisturbed
  BY <1>3, <1>4 DEF Undisturbed, ExchangeTypeOK, NoStop
<1> QED
  BY <1>5, <1>6, <1>7 DEF ExchangeKept

LEMMA KeptFillMarket ==
  ASSUME ExchangeTypeOK, ExchangeOK, NEW p \in Entry, FillMarket(p)
  PROVE  ExchangeKept
  BY DEF FillMarket, Closed, ExchangeKept, ExchangeTypeOK, ExchangeOK, Undisturbed,
         InFlight, Pending, NoStop

LEMMA KeptExchangeStep ==
  ASSUME ExchangeTypeOK, ExchangeOK, ExchangeStep
  PROVE  ExchangeKept
  BY KeptFillEntry, KeptCancelDone, KeptFillStop, KeptFillMarket DEF ExchangeStep

-----------------------------------------------------------------------------
(* The engine.                                                             *)

\* The types of what the helpers of a handler return.
LEMMA ControlTypes ==
  ASSUME EngineTypeOK, TraderAssumption
  PROVE  /\ Idle \in Handlers /\ Flat \in Positions /\ NoWatch \in Watches
         /\ \A r \in Stages : Resume(r) \in Handlers /\ Resume(r).pc = r
         /\ \A c \in Calls, r \in Stages :
              /\ Call(c, r) \in Handlers
              /\ Call(c, r).pc = c
         /\ \A p \in Positions, b \in {"stop", "watchdog"}, r \in Stages :
              /\ ForceClose(p, b, r) \in Handlers
              /\ ForceClose(p, b, r).pc \in {"fc_fetch", "fc_cancel"}
<1> USE DEF Idle, Handlers
<1>1. 0 \in 0..MaxCloseAttempts /\ 1 \in 0..MaxCloseAttempts /\ 0 \in 0..MaxStopAttempts
  BY DEF TraderAssumption
<1>2. Idle \in Handlers /\ Flat \in Positions /\ NoWatch \in Watches
  BY <1>1 DEF Flat, NoWatch, Positions, Watches, Stages
<1>3. h.pre \in BOOLEAN /\ h.blk \in BOOLEAN
  BY DEF EngineTypeOK
<1>4. \A r \in Stages : Resume(r) \in Handlers /\ Resume(r).pc = r
  BY <1>2, <1>3 DEF Resume
<1>5. ASSUME NEW c \in Calls, NEW r \in Stages
      PROVE  Call(c, r) \in Handlers /\ Call(c, r).pc = c
  BY <1>1, <1>3 DEF Call
<1>6. ASSUME NEW p \in Positions, NEW b \in {"stop", "watchdog"}, NEW r \in Stages
      PROVE  /\ ForceClose(p, b, r) \in Handlers
             /\ ForceClose(p, b, r).pc \in {"fc_fetch", "fc_cancel"}
  <2> DEFINE c == IF p.stop = None THEN "fc_fetch" ELSE "fc_cancel"
  <2>1. c \in Calls /\ c \in {"fc_fetch", "fc_cancel"}
    BY DEF Calls
  <2> HIDE DEF c
  <2>2. ForceClose(p, b, r) = [Call(c, r) EXCEPT !.by = b, !.try = 1]
    BY DEF ForceClose, c
  <2>3. ASSUME NEW x \in Handlers
        PROVE  /\ [x EXCEPT !.by = b, !.try = 1] \in Handlers
               /\ [x EXCEPT !.by = b, !.try = 1].pc = x.pc
    BY <1>1
  <2>4. Call(c, r) \in Handlers /\ Call(c, r).pc = c
    BY <1>5, <2>1
  <2> HIDE DEF Handlers
  <2> QED
    BY <2>1, <2>2, <2>3, <2>4
<1> QED
  BY <1>2, <1>4, <1>5, <1>6

\* What a step, other than a new order, may do to the books.
BooksKept ==
  /\ pos'.pid # None => pos'.pid = pos.pid \/ ent[pos'.pid] = "filled"
  /\ pos'.stop # None => pos'.stop = pos.stop /\ pos'.pid = pos.pid
  /\ pos.st = "pending" =>
       \/ pos'.st = "pending" /\ pos'.entry = pos.entry
       \/ ent'[pos.entry] # "live"
  /\ \A p \in Entry : booked'[p] > 0 =>
       booked[p] > 0 \/ (ent[p] = "filled" /\ p \notin open)
  /\ excused \subseteq excused'

\* A step that leaves the exchange and the books in order keeps the invariant.
LEMMA StepKeeps ==
  ASSUME IInv, ExchangeKept, BooksKept, EngineTypeOK', ControlOK'
  PROVE  IInv'
<1>1. TypeOK' /\ ExchangeOK'
  BY DEF TypeOK, ExchangeKept
<1>2. BooksOK'
  <2>1. pos'.pid # None => pos'.pid \in Entry
    BY DEF EngineTypeOK, Positions
  <2>2. pos'.pid # None => ent'[pos'.pid] = "filled"
    BY <2>1 DEF IInv, BooksOK, BooksKept, ExchangeKept, Undisturbed
  <2>3. ASSUME NEW p \in Entry, booked'[p] > 0
        PROVE  ent'[p] = "filled" /\ p \notin open'
    BY <2>3 DEF IInv, BooksOK, BooksKept, ExchangeKept, Undisturbed, Pending
  <2> QED
    BY <2>2, <2>3 DEF BooksOK
<1>3. StopBelongs'
  <2> SUFFICES ASSUME pos'.stop # None
               PROVE  /\ stop'[pos'.stop].pid \in {None, pos'.pid}
                      /\ \A e \in InFlight' :
                           e.kind = "stop" /\ e.id = pos'.stop => e.pid = pos'.pid
    BY DEF StopBelongs
  <2>1. pos'.stop \in Stop /\ pos'.stop = pos.stop /\ pos'.pid = pos.pid
    BY DEF EngineTypeOK, Positions, BooksKept
  <2>2. /\ stop[pos.stop].pid \in {None, pos.pid}
        /\ \A e \in InFlight : e.kind = "stop" /\ e.id = pos.stop => e.pid = pos.pid
    BY <2>1 DEF IInv, StopBelongs
  <2>3. stop'[pos.stop].pid \in {None, stop[pos.stop].pid}
    BY <2>1 DEF ExchangeKept, Undisturbed
  <2>4. ASSUME NEW e \in InFlight', e.kind = "stop", e.id = pos.stop
        PROVE  e.pid = pos.pid
    <3>1. e \in InFlight \/ e.pid = stop[pos.stop].pid
      BY <2>4 DEF ExchangeKept, Undisturbed
    <3>2. e.pid # None
      <4>1. e \in Event
        BY InFlightEvents, <2>4, <1>1 DEF ExchangeKept, ExchangeTypeOK, InFlight
      <4> QED
        BY <4>1, <2>4, ExchangeAssumption DEF Event
    <3> QED
      BY <2>2, <2>4, <3>1, <3>2
  <2> QED
    BY <2>1, <2>2, <2>3, <2>4
<1>4. OrdersTracked'
  BY DEF IInv, OrdersTracked, BooksKept, ExchangeKept, Undisturbed
<1> QED
  BY <1>1, <1>2, <1>3, <1>4 DEF IInv

\* The same for a step that touches neither the position nor the books.
LEMMA QuietStep ==
  ASSUME IInv, ExchangeKept, UNCHANGED <<pos, booked>>, excused \subseteq excused',
         EngineTypeOK', ControlOK'
  PROVE  IInv'
  BY StepKeeps DEF BooksKept

\* The next step g of a handler fits a position in status st.
Fits(g, st) ==
  /\ g \in Handlers
  /\ \/ g.pc \in Stages
     \/ g.pc = "cancel" /\ st = "pending"
     \/ g.pc \in Calls \ {"cancel", "cancel_fetch"} /\ st = "held"

LEMMA FitsControl ==
  ASSUME ControlOK, Fits(h', pos'.st), pos'.st = "pending" => pos' = pos
  PROVE  ControlOK'
  BY DEF ControlOK, Fits, Stages, Calls

LEMMA SameControl ==
  ASSUME IInv, ExchangeKept, UNCHANGED <<pos, h>>
  PROVE  ControlOK'
  BY DEF IInv, ControlOK, ExchangeKept, Undisturbed, EngineTypeOK, TypeOK, Positions

LEMMA HelpersFit ==
  ASSUME EngineTypeOK
  PROVE  /\ \A st : Fits(Idle, st)
         /\ \A r \in Stages : \A st : Fits(Resume(r), st)
         /\ \A r \in Stages : Fits(Call("cancel", r), "pending")
         /\ \A c \in Calls \ {"cancel", "cancel_fetch"}, r \in Stages :
              Fits(Call(c, r), "held")
         /\ \A p \in Positions, b \in {"stop", "watchdog"}, r \in Stages :
              Fits(ForceClose(p, b, r), "held")
<1>1. \A st : Fits(Idle, st)
  BY ControlTypes, TraderAssumption DEF Fits, Idle, Stages
<1>2. \A r \in Stages : \A st : Fits(Resume(r), st)
  BY ControlTypes, TraderAssumption DEF Fits
<1>3. \A r \in Stages : Fits(Call("cancel", r), "pending")
  BY ControlTypes, TraderAssumption DEF Fits, Calls
<1>4. \A c \in Calls \ {"cancel", "cancel_fetch"}, r \in Stages : Fits(Call(c, r), "held")
  BY ControlTypes, TraderAssumption DEF Fits
<1>5. \A p \in Positions, b \in {"stop", "watchdog"}, r \in Stages :
        Fits(ForceClose(p, b, r), "held")
  BY ControlTypes, TraderAssumption DEF Fits, Calls
<1> QED
  BY <1>1, <1>2, <1>3, <1>4, <1>5

\* A step of a handler that moves the exchange or nothing, and itself.
LEMMA HandlerMoves ==
  ASSUME IInv, ExchangeKept, UNCHANGED <<trader, history>>, Fits(h', pos.st)
  PROVE  IInv'
<1>1. EngineTypeOK'
  BY DEF IInv, TypeOK, EngineTypeOK, trader, history, Fits
<1>2. ControlOK'
  BY FitsControl DEF IInv, trader
<1> QED
  BY <1>1, <1>2, QuietStep DEF trader, history

LEMMA Unmoved ==
  ASSUME IInv, UNCHANGED exchange
  PROVE  ExchangeKept
  BY KeptUnchanged DEF IInv, TypeOK

-----------------------------------------------------------------------------
(* The stages of a board update.                                           *)

LEMMA BoardUpdateKeeps == ASSUME IInv, BoardUpdate PROVE IInv'
<1>1. ExchangeKept
  BY Unmoved DEF BoardUpdate
<1>2. Fits(h', pos'.st)
  <2>1. PICK pre \in BOOLEAN : h' = [Idle EXCEPT !.pc = "manual", !.pre = pre]
    BY DEF BoardUpdate, MayTrip
  <2>2. Idle \in Handlers
    BY ControlTypes, TraderAssumption DEF IInv, TypeOK
  <2> QED
    BY <2>1, <2>2 DEF Fits, Handlers, Stages
<1>3. EngineTypeOK'
  BY <1>2 DEF BoardUpdate, IInv, TypeOK, EngineTypeOK, history, Fits, Marks
<1> QED
  BY <1>1, <1>2, <1>3, QuietStep, FitsControl DEF BoardUpdate, IInv, history

LEMMA MakeSafeFits ==
  ASSUME EngineTypeOK, NEW r \in Stages
  PROVE  Fits(MakeSafe(r), pos.st)
<1>1. pos \in Positions
  BY DEF EngineTypeOK
<1> QED
  BY <1>1, HelpersFit DEF MakeSafe

LEMMA SafetyStagesKeep == ASSUME IInv, ManualStage \/ PreStage PROVE IInv'
<1>1. Fits(h', pos.st)
  BY MakeSafeFits, HelpersFit DEF ManualStage, PreStage, Goto, IInv, TypeOK, Stages
<1> QED
  BY <1>1, Unmoved, HandlerMoves DEF ManualStage, PreStage, Goto

LEMMA GuardStageKeeps == ASSUME IInv, GuardStage PROVE IInv'
<1>1. PICK next \in Handlers, blk \in BOOLEAN :
        h' = [next EXCEPT !.blk = blk] /\ Fits(next, pos.st)
  BY HelpersFit DEF GuardStage, IInv, TypeOK, Stages, Fits
<1>2. Fits(h', pos.st)
  BY <1>1 DEF Fits, Handlers
<1>3. EngineTypeOK'
  BY <1>2 DEF GuardStage, IInv, TypeOK, EngineTypeOK, history, Fits
<1> QED
  BY <1>2, <1>3, Unmoved, QuietStep, FitsControl DEF GuardStage, IInv, history

LEMMA TradeStagesKeep == ASSUME IInv, PendingStage \/ HeldStage \/ NoEntry PROVE IInv'
<1>1. ASSUME PendingStage PROVE Fits(h', pos.st)
  BY <1>1, HelpersFit DEF PendingStage, Goto, IInv, TypeOK, Stages
<1>2. ASSUME HeldStage PROVE Fits(h', pos.st)
  BY <1>2, HelpersFit DEF HeldStage, Goto, IInv, TypeOK, Stages, Calls
<1>3. ASSUME NoEntry PROVE Fits(h', pos.st)
  BY <1>3, HelpersFit DEF NoEntry, Goto, IInv, TypeOK
<1> QED
  BY <1>1, <1>2, <1>3, Unmoved, HandlerMoves DEF PendingStage, HeldStage, NoEntry, Goto

LEMMA RateLimitedKeeps == ASSUME IInv, RateLimited PROVE IInv'
<1>1. Fits(h', pos.st)
  BY HelpersFit DEF RateLimited, IInv, TypeOK
<1>2. EngineTypeOK'
  BY <1>1 DEF RateLimited, IInv, TypeOK, EngineTypeOK, history, Fits
<1> QED
  BY <1>1, <1>2, Unmoved, QuietStep, FitsControl DEF RateLimited, IInv, history

-----------------------------------------------------------------------------
(* The entry order and its cancel.                                         *)

\* The one call that makes an order live: the engine was flat and tracks it,
\* or its answer was lost.
LEMMA EnterKeeps ==
  ASSUME IInv, NEW o \in Entry, NEW r \in {"ok", "error"}, EnterRealLimit(o, r)
  PROVE  IInv'
<1>1. /\ ent[o] = "none" /\ ent' = [ent EXCEPT ![o] = "live"]
      /\ UNCHANGED <<stop, mkt, open, wire, booked>>
      /\ h' = Idle /\ pos.st = "flat"
  BY DEF EnterRealLimit, PlaceEntry, EntryStage
<1>2. \/ /\ pos' = [Flat EXCEPT !.st = "pending", !.entry = o]
         /\ excused' = excused
      \/ pos' = pos /\ excused' = excused \cup {o}
  BY DEF EnterRealLimit
<1>3. ent \in [Entry -> Status] /\ ent' \in [Entry -> Status]
  BY <1>1 DEF IInv, TypeOK, ExchangeTypeOK, Status
<1>4. ExchangeTypeOK' /\ ExchangeOK'
  <2>1. \A e \in InFlight : e \in Event
    BY InFlightEvents DEF IInv, TypeOK
  <2> QED
    BY <1>1, <1>3, <2>1 DEF IInv, TypeOK, ExchangeTypeOK, ExchangeOK, InFlight, Event
<1>5. EngineTypeOK' /\ Fits(h', pos'.st)
  BY <1>1, <1>2, HelpersFit DEF EnterRealLimit, IInv, TypeOK, EngineTypeOK, Fits, Flat,
                                Positions
<1>6. ControlOK'
  BY <1>1, <1>2 DEF ControlOK, Idle, Flat, Calls
<1>7. BooksOK'
  BY <1>1, <1>2, <1>3 DEF IInv, BooksOK, TypeOK, EngineTypeOK, Positions, Flat
<1>8. StopBelongs'
  BY <1>1, <1>2 DEF IInv, StopBelongs, Flat, InFlight
<1>9. OrdersTracked'
  BY <1>1, <1>2, <1>3 DEF IInv, OrdersTracked, Flat
<1> QED
  BY <1>4, <1>5, <1>6, <1>7, <1>8, <1>9 DEF IInv, TypeOK

LEMMA CancelCallKeeps == ASSUME IInv, CancelCall PROVE IInv'
<1>1. pos.st = "pending" /\ pos.entry \in Entry /\ pos.pid = None /\ pos.stop = None
  BY DEF CancelCall, IInv, ControlOK
<1>2. h.ret \in Stages /\ Fits(Resume(h.ret), "flat") /\ Fits(Resume(h.ret), "pending")
  BY HelpersFit DEF IInv, TypeOK, EngineTypeOK, Handlers
<1>3. ExchangeKept
  BY <1>1, KeptCancelEntry DEF CancelCall, CancelFails, CancelRefused, IInv, TypeOK
<1>4. EngineTypeOK'
  <2>1. h' \in Handlers
    BY <1>2 DEF CancelCall, CancelFails, CancelRefused, Return, Fits, IInv, TypeOK,
                EngineTypeOK, Handlers, Calls
  <2>2. pos' \in Positions /\ mark' \in Marks /\ grace' \subseteq Entry
    BY <1>1, ControlTypes, TraderAssumption
    DEF CancelCall, CancelFails, CancelRefused, GoFlat, IInv, TypeOK, EngineTypeOK, Marks
  <2> QED
    BY <1>1, <2>1, <2>2
    DEF CancelCall, CancelFails, CancelRefused, IInv, TypeOK, EngineTypeOK
<1>5. CASE CancelEntry(pos.entry, "ok") /\ GoFlat /\ Return /\ UNCHANGED excused
  <2>1. ent'[pos.entry] # "live"
    BY <1>1, <1>5 DEF CancelEntry, Refused, IInv, TypeOK, ExchangeTypeOK
  <2>2. BooksKept
    BY <1>5, <2>1 DEF CancelCall, GoFlat, Flat, BooksKept
  <2>3. ControlOK'
    BY <1>2, <1>5, FitsControl DEF IInv, GoFlat, Flat, Return
  <2> QED
    BY <1>3, <1>4, <2>2, <2>3, StepKeeps
<1>6. CASE CancelFails
  <2>1. ControlOK'
    BY <1>1, <1>2, <1>6, FitsControl DEF CancelFails, IInv, Return
  <2> QED
    BY <1>3, <1>4, <1>6, <2>1, QuietStep DEF CancelCall, CancelFails
<1>7. CASE CancelRefused
  <2>1. UNCHANGED exchange /\ ent[pos.entry] # "live"
    BY <1>7 DEF CancelRefused, CancelEntry, Refused
  <2>2. ControlOK'
    BY <1>1, <1>7, <2>1
    DEF CancelRefused, IInv, ControlOK, exchange, Calls, TypeOK, EngineTypeOK, Handlers
  <2> QED
    BY <1>3, <1>4, <1>7, <2>2, QuietStep DEF CancelCall, CancelRefused
<1> QED
  BY <1>5, <1>6, <1>7 DEF CancelCall

\* The position an execution or a look at openPositions makes the engine hold.
LEMMA HeldPosition ==
  ASSUME NEW o \in Entry, NEW pid \in Entry \cup {None}
  PROVE  /\ Held(o, pid) \in Positions
         /\ Held(o, pid).st = "held" /\ Held(o, pid).pid = pid
         /\ Held(o, pid).stop = None
  BY DEF Held, Positions

\* _place_real_tp_sl_orders fits the position it leaves held.
LEMMA PlaceStopOrdersFits ==
  ASSUME EngineTypeOK, NEW p \in Positions, p.st = "held", NEW r \in Stages,
         PlaceStopOrders(p, wd, r)
  PROVE  Fits(h', pos'.st) /\ wd' \in Watches /\ pos' = p
<1>1. wd \in Watches /\ pos' = p
  BY DEF EngineTypeOK, PlaceStopOrders
<1>2. wd' \in Watches
  BY <1>1 DEF PlaceStopOrders, StartForceClose, Watches
<1>3. Fits(h', "held")
  BY HelpersFit DEF PlaceStopOrders, StartForceClose, Calls
<1> QED
  BY <1>1, <1>2, <1>3

LEMMA CancelFetchKeeps == ASSUME IInv, CancelFetch PROVE IInv'
<1>1. /\ pos.st = "pending" /\ pos.entry \in Entry
      /\ pos.pid = None /\ pos.stop = None
      /\ ent[pos.entry] # "live"
  BY DEF CancelFetch, IInv, ControlOK
<1>2. h.ret \in Stages /\ \A st : Fits(Resume(h.ret), st)
  BY HelpersFit DEF IInv, TypeOK, EngineTypeOK, Handlers
<1>3. UNCHANGED exchange /\ ExchangeKept
  BY Unmoved DEF CancelFetch, FetchFails
<1>4. CASE FetchFails /\ Return /\ UNCHANGED <<pos, mark, wd, excused>>
  <2>1. EngineTypeOK'
    BY <1>2, <1>4 DEF CancelFetch, Return, Fits, IInv, TypeOK, EngineTypeOK
  <2>2. ControlOK'
    BY <1>1, <1>2, <1>4, FitsControl DEF IInv, Return
  <2> QED
    BY <1>3, <1>4, <2>1, <2>2, QuietStep DEF CancelFetch
<1>5. CASE open = {} /\ GoFlat /\ Return /\ UNCHANGED <<wd, excused>>
  <2>1. EngineTypeOK'
    BY <1>2, <1>5, ControlTypes, TraderAssumption
    DEF CancelFetch, GoFlat, Return, Fits, IInv, TypeOK, EngineTypeOK, Marks
  <2>2. ControlOK'
    BY <1>2, <1>5, FitsControl DEF IInv, Return, GoFlat, Flat
  <2>3. BooksKept
    BY <1>1, <1>3, <1>5 DEF BooksKept, GoFlat, Flat, CancelFetch, exchange
  <2> QED
    BY <1>3, <2>1, <2>2, <2>3, StepKeeps
<1>6. ASSUME NEW p \in open, PlaceStopOrders(Held(pos.entry, p), wd, h.ret), mark' \in Marks,
             excused' = excused \cup ({pos.entry} \ {p})
      PROVE  IInv'
  <2>1. p \in Entry /\ ent[p] = "filled"
    BY DEF IInv, TypeOK, ExchangeTypeOK, ExchangeOK
  <2>2. /\ Held(pos.entry, p) \in Positions /\ Held(pos.entry, p).st = "held"
        /\ Held(pos.entry, p).pid = p /\ Held(pos.entry, p).stop = None
    BY <1>1, <2>1, HeldPosition
  <2>3. /\ Fits(h', pos'.st) /\ wd' \in Watches
        /\ pos' \in Positions /\ pos'.st = "held" /\ pos'.pid = p /\ pos'.stop = None
    BY <1>2, <1>6, <2>2, PlaceStopOrdersFits DEF IInv, TypeOK
  <2>4. EngineTypeOK'
    BY <1>1, <1>6, <2>3 DEF CancelFetch, Fits, IInv, TypeOK, EngineTypeOK
  <2>5. BooksKept
    BY <1>1, <1>3, <1>6, <2>1, <2>3 DEF BooksKept, CancelFetch, exchange
  <2> QED
    BY <1>3, <2>3, <2>4, <2>5, StepKeeps, FitsControl DEF IInv
<1> QED
  BY <1>4, <1>5, <1>6 DEF CancelFetch

-----------------------------------------------------------------------------
(* The STOP and its watchdog.                                              *)

LEMMA NotedType ==
  ASSUME EngineTypeOK, NEW m \in BOOLEAN
  PROVE  Noted(m) \in Watches
<1>1. wd \in Watches /\ NoWatch \in Watches
  BY ControlTypes, TraderAssumption DEF EngineTypeOK
<1>2. ASSUME NEW w \in Watches, NEW n \in 0..MaxStopAttempts
      PROVE  [w EXCEPT !.watch = pos.pid, !.att = n] \in Watches
  BY DEF Watches, EngineTypeOK, Positions
<1>3. ASSUME NEW w \in Watches
      PROVE  (IF m \/ w.att = MaxStopAttempts THEN w.att ELSE w.att + 1)
               \in 0..MaxStopAttempts
  BY TraderAssumption DEF TraderAssumption, Watches
<1>4. PICK w \in Watches :
        Noted(m) = [w EXCEPT !.watch = pos.pid,
                             !.att = IF m \/ w.att = MaxStopAttempts
                                     THEN w.att ELSE w.att + 1]
  BY <1>1 DEF Noted, Watches
<1> QED
  BY <1>2, <1>3, <1>4

\* A new STOP carries an id that nothing on the way refers to.
LEMMA StopPlaced ==
  ASSUME IInv, NEW s \in Stop, NEW r, PlaceStop(pos.pid, s, r)
  PROVE  /\ pos.pid \in Entry /\ stop'[s].pid = pos.pid
         /\ ExchangeTypeOK' /\ ExchangeOK'
         /\ UNCHANGED <<ent, open, wire>>
         /\ \A e \in InFlight' : e.kind = "stop" => e.id # s
<1>1. /\ stop' = [stop EXCEPT ![s] = [st |-> "live", pid |-> pos.pid]]
      /\ UNCHANGED <<ent, mkt, open, wire>>
      /\ pos.pid \in open
  BY DEF PlaceStop, Closable
<1>2. pos.pid \in Entry /\ stop'[s].pid = pos.pid
  BY <1>1 DEF IInv, TypeOK, ExchangeTypeOK
<1>3. ExchangeTypeOK'
  BY <1>1, <1>2 DEF IInv, TypeOK, ExchangeTypeOK
<1>4. ExchangeOK'
  BY <1>1 DEF IInv, TypeOK, ExchangeTypeOK, ExchangeOK, InFlight, Pending
<1>5. \A e \in InFlight' : e.kind = "stop" => e.id # s
  BY <1>1 DEF PlaceStop, Fresh, InFlight
<1> QED
  BY <1>1, <1>2, <1>3, <1>4, <1>5

LEMMA StopCallKeeps == ASSUME IInv, StopCall PROVE IInv'
<1>1. pos.st = "held" /\ h.ret \in Stages /\ \A st : Fits(Resume(h.ret), st)
  BY HelpersFit DEF StopCall, IInv, ControlOK, Calls, TypeOK, EngineTypeOK, Handlers
<1>2. Fits(h', pos'.st)
  BY <1>1 DEF StopCall, Return
<1>3. ASSUME pos' \in Positions, wd' \in Watches PROVE EngineTypeOK'
  BY <1>2, <1>3 DEF StopCall, Fits, IInv, TypeOK, EngineTypeOK
<1>4. ASSUME pos'.st = "held" PROVE ControlOK'
  BY <1>2, <1>4, FitsControl DEF IInv
<1>5. ASSUME NEW s \in Stop, PlaceStop(pos.pid, s, "ok"),
             pos' = [pos EXCEPT !.stop = s], wd' = NoWatch
      PROVE  IInv'
  <2>1. /\ stop'[s].pid = pos.pid /\ ExchangeTypeOK' /\ ExchangeOK'
        /\ UNCHANGED <<ent, open, wire>>
        /\ \A e \in InFlight' : e.kind = "stop" => e.id # s
    BY <1>5, StopPlaced
  <2>2. pos' \in Positions /\ pos'.st = "held" /\ pos'.pid = pos.pid /\ pos'.stop = s
    BY <1>1, <1>5 DEF IInv, TypeOK, EngineTypeOK, Positions
  <2>3. EngineTypeOK' /\ ControlOK'
    BY <1>3, <1>4, <1>5, <2>2, ControlTypes, TraderAssumption DEF IInv, TypeOK
  <2>4. BooksOK' /\ StopBelongs' /\ OrdersTracked'
    BY <1>1, <2>1, <2>2
    DEF StopCall, IInv, BooksOK, StopBelongs, OrdersTracked
  <2> QED
    BY <2>1, <2>3, <2>4 DEF IInv, TypeOK
<1>6. ASSUME NEW m \in BOOLEAN, StopFailed(m),
             ExchangeTypeOK', ExchangeOK', UNCHANGED <<ent, open>>
      PROVE  IInv'
  <2>1. /\ pos' \in Positions /\ pos'.st = "held"
        /\ pos'.pid = pos.pid /\ pos'.stop = None /\ wd' \in Watches
    BY <1>1, <1>6, NotedType DEF StopFailed, IInv, TypeOK, EngineTypeOK, Positions
  <2>2. EngineTypeOK' /\ ControlOK'
    BY <1>3, <1>4, <2>1
  <2>3. BooksOK' /\ StopBelongs' /\ OrdersTracked'
    BY <1>1, <1>6, <2>1 DEF StopCall, IInv, BooksOK, StopBelongs, OrdersTracked
  <2> QED
    BY <1>6, <2>2, <2>3 DEF IInv, TypeOK
<1>7. ASSUME UNCHANGED exchange, NEW m \in BOOLEAN, StopFailed(m) PROVE IInv'
  <2>1. ExchangeTypeOK' /\ ExchangeOK' /\ UNCHANGED <<ent, open>>
    BY <1>7, Unmoved DEF ExchangeKept, exchange
  <2> QED
    BY <1>6, <1>7, <2>1
<1> QED
  BY <1>5, <1>6, <1>7, StopPlaced DEF StopCall, Refused, CloseImpossible

LEMMA StartForceCloseFits ==
  ASSUME EngineTypeOK, NEW p \in Positions, NEW r \in Stages, StartForceClose(p, wd, r)
  PROVE  Fits(h', "held") /\ wd' \in Watches
<1>1. wd' \in Watches
  BY DEF StartForceClose, Watches, EngineTypeOK
<1>2. Fits(h', "held")
  BY HelpersFit DEF StartForceClose
<1> QED
  BY <1>1, <1>2

LEMMA WatchdogKeeps == ASSUME IInv, Watchdog PROVE IInv'
<1>1. ExchangeKept /\ UNCHANGED <<pos, booked, excused>>
  BY Unmoved DEF Watchdog, WatchdogClears, WatchdogCloses, WatchdogRetries, WatchdogTick,
                 PlaceStopOrders, history
<1>2. wd' \in Watches /\ (UNCHANGED h \/ Fits(h', pos.st))
  <2>1. CASE WatchdogClears
    BY <2>1, ControlTypes, TraderAssumption DEF WatchdogClears, IInv, TypeOK
  <2>2. CASE WatchdogCloses
    BY <2>2, StartForceCloseFits DEF WatchdogCloses, Naked, IInv, TypeOK, EngineTypeOK,
                                     Stages
  <2>3. CASE WatchdogRetries
    BY <2>3, PlaceStopOrdersFits DEF WatchdogRetries, Naked, IInv, TypeOK, EngineTypeOK,
                                     Stages
  <2> QED
    BY <2>1, <2>2, <2>3 DEF Watchdog
<1>3. h' \in Handlers /\ ControlOK'
  BY <1>1, <1>2, SameControl, FitsControl DEF Fits, IInv, TypeOK, EngineTypeOK
<1>4. mark' \in Marks /\ due' \in Entry \cup {None}
  BY DEF Watchdog, WatchdogClears, WatchdogCloses, WatchdogRetries, WatchdogTick,
         IInv, TypeOK, EngineTypeOK
<1>5. EngineTypeOK'
  BY <1>1, <1>2, <1>3, <1>4
  DEF Watchdog, WatchdogClears, WatchdogCloses, WatchdogRetries, WatchdogTick,
      IInv, TypeOK, EngineTypeOK, history
<1> QED
  BY <1>1, <1>3, <1>5, QuietStep

LEMMA AfterStopKeeps == ASSUME IInv, AfterStopStage PROVE IInv'
<1>1. Fits(h', pos.st) /\ wd' \in Watches
  BY StartForceCloseFits, HelpersFit DEF AfterStopStage, IInv, TypeOK, EngineTypeOK, Stages
<1>2. EngineTypeOK'
  BY <1>1 DEF AfterStopStage, Fits, IInv, TypeOK, EngineTypeOK, history
<1> QED
  BY <1>1, <1>2, Unmoved, QuietStep, FitsControl DEF AfterStopStage, IInv, history

LEMMA TimerKeeps == ASSUME IInv, NEW p \in Entry, Timer(p) PROVE IInv'
<1>1. ExchangeKept /\ UNCHANGED <<pos, booked, excused>>
  BY Unmoved DEF Timer, PlaceStopOrders, history
<1>2. wd' \in Watches /\ (UNCHANGED h \/ Fits(h', pos.st))
  BY PlaceStopOrdersFits DEF Timer, Naked, IInv, TypeOK, EngineTypeOK, Stages
<1>3. h' \in Handlers /\ ControlOK'
  BY <1>1, <1>2, SameControl, FitsControl DEF Fits, IInv, TypeOK, EngineTypeOK
<1>4. EngineTypeOK'
  BY <1>1, <1>2, <1>3 DEF Timer, IInv, TypeOK, EngineTypeOK, history
<1> QED
  BY <1>1, <1>3, <1>4, QuietStep

-----------------------------------------------------------------------------
(* The forced close.                                                       *)

\* The handler goes on with the next call for the position it holds.
LEMMA GoesOn ==
  ASSUME EngineTypeOK, NEW c \in Calls \ {"cancel", "cancel_fetch"}
  PROVE  Fits([h EXCEPT !.pc = c], "held")
  BY DEF Fits, EngineTypeOK, Handlers

LEMMA AttemptFailsFits ==
  ASSUME EngineTypeOK, AttemptFails
  PROVE  Fits(h', "held") /\ cool' \in BOOLEAN
<1>1. CASE h.try < MaxCloseAttempts
  <2>1. h.try + 1 \in 0..MaxCloseAttempts
    BY <1>1, TraderAssumption DEF TraderAssumption, EngineTypeOK, Handlers
  <2>2. h' = [h EXCEPT !.pc = "fc_fetch", !.try = h.try + 1, !.todo = {}]
    BY <1>1 DEF AttemptFails, EngineTypeOK, Handlers
  <2> QED
    BY <1>1, <2>1, <2>2 DEF AttemptFails, EngineTypeOK, Fits, Handlers, Calls
<1>2. CASE ~(h.try < MaxCloseAttempts)
  BY <1>2, HelpersFit DEF AttemptFails, Return, EngineTypeOK, Handlers
<1> QED
  BY <1>1, <1>2

LEMMA ForceCancelKeeps == ASSUME IInv, ForceCancel PROVE IInv'
<1>1. pos.st = "held" /\ pos.stop \in Stop \cup {None}
  BY DEF ForceCancel, IInv, ControlOK, Calls, TypeOK, EngineTypeOK, Positions
<1>2. ExchangeKept
  BY <1>1, KeptCancelStop DEF ForceCancel, IInv, TypeOK
<1>3. Fits(h', pos.st)
  BY <1>1, GoesOn DEF ForceCancel, IInv, TypeOK, Calls
<1> QED
  BY <1>2, <1>3, HandlerMoves DEF ForceCancel

LEMMA ForceFetchKeeps == ASSUME IInv, ForceFetch PROVE IInv'
<1>1. pos.st = "held" /\ h.ret \in Stages /\ \A st : Fits(Resume(h.ret), st)
  BY HelpersFit DEF ForceFetch, IInv, ControlOK, Calls, TypeOK, EngineTypeOK, Handlers
<1>2. ExchangeKept
  BY Unmoved DEF ForceFetch
<1>3. ASSUME Fits(h', pos'.st), pos' \in Positions, mark' \in Marks, wd' \in Watches,
             cool' \in BOOLEAN, guard' \in BOOLEAN
      PROVE  EngineTypeOK'
  BY <1>3 DEF ForceFetch, Fits, IInv, TypeOK, EngineTypeOK, history
<1>4. CASE FetchFails /\ AttemptFails /\ UNCHANGED <<pos, mark, wd, guard>>
  <2>1. Fits(h', pos'.st) /\ cool' \in BOOLEAN
    BY <1>1, <1>4, AttemptFailsFits DEF IInv, TypeOK
  <2>2. EngineTypeOK' /\ ControlOK'
    BY <1>3, <1>4, <2>1, FitsControl DEF IInv, TypeOK, EngineTypeOK
  <2> QED
    BY <1>2, <1>4, <2>2, QuietStep DEF ForceFetch, history
<1>5. CASE GoFlat /\ ForceCloseDone /\ guard' \in MayTrip(guard, "guard")
  <2>1. Fits(h', pos'.st) /\ pos' = Flat
    BY <1>1, <1>5 DEF GoFlat, ForceCloseDone, Return
  <2>2. /\ pos' \in Positions /\ mark' \in Marks /\ wd' \in Watches
        /\ cool' \in BOOLEAN /\ guard' \in BOOLEAN
    BY <1>5, ControlTypes, TraderAssumption
    DEF GoFlat, ForceCloseDone, MayTrip, Marks, IInv, TypeOK, EngineTypeOK
  <2>3. EngineTypeOK' /\ ControlOK'
    BY <1>3, <2>1, <2>2, FitsControl DEF IInv, Flat
  <2>4. BooksKept
    BY <1>1, <2>1 DEF BooksKept, Flat, ForceFetch, history
  <2> QED
    BY <1>2, <2>3, <2>4, StepKeeps
<1>6. CASE /\ h' = [h EXCEPT !.pc = "fc_close", !.todo = open]
           /\ UNCHANGED <<pos, mark, wd, guard, cool>>
  <2>1. Fits(h', pos'.st)
    BY <1>1, <1>6 DEF Fits, IInv, TypeOK, EngineTypeOK, ExchangeTypeOK, Handlers, Calls
  <2>2. EngineTypeOK' /\ ControlOK'
    BY <1>3, <1>6, <2>1, FitsControl DEF IInv, TypeOK, EngineTypeOK
  <2> QED
    BY <1>2, <1>6, <2>2, QuietStep DEF ForceFetch, history
<1> QED
  BY <1>4, <1>5, <1>6 DEF ForceFetch

LEMMA ForceClosePlaceKeeps == ASSUME IInv, ForceClosePlace PROVE IInv'
<1>1. pos.st = "held"
  BY DEF ForceClosePlace, IInv, ControlOK, Calls
<1>2. PICK p \in h.todo :
        \/ /\ PlaceMarket(p, "ok")
           /\ h' = [h EXCEPT !.todo = h.todo \ {p},
                             !.pc = IF h.todo = {p} THEN "fc_confirm" ELSE h.pc]
           /\ UNCHANGED cool
        \/ /\ PlaceMarket(p, "error") \/ UNCHANGED exchange
           /\ AttemptFails
  BY DEF ForceClosePlace, Refused, CloseImpossible, IInv, TypeOK, EngineTypeOK, Handlers
<1>3. ExchangeKept
  BY <1>2, KeptPlaceMarket, Unmoved DEF IInv, TypeOK
<1>4. Fits(h', "held") /\ cool' \in BOOLEAN
  <2>1. CASE /\ h' = [h EXCEPT !.todo = h.todo \ {p},
                               !.pc = IF h.todo = {p} THEN "fc_confirm" ELSE h.pc]
             /\ UNCHANGED cool
    BY <2>1 DEF ForceClosePlace, Fits, IInv, TypeOK, EngineTypeOK, Handlers, Calls
  <2>2. CASE AttemptFails
    BY <2>2, AttemptFailsFits DEF IInv, TypeOK
  <2> QED
    BY <1>2, <2>1, <2>2
<1>5. EngineTypeOK' /\ ControlOK'
  BY <1>1, <1>4, FitsControl
  DEF ForceClosePlace, Fits, IInv, TypeOK, EngineTypeOK, history
<1> QED
  BY <1>3, <1>5, QuietStep DEF ForceClosePlace, history

\* An exit that is booked once the position is gone leaves the books right.
LEMMA SettleKeepsBooks ==
  ASSUME IInv, pos.st = "held", Settle, UNCHANGED excused,
         pos.pid \in Entry => ent[pos.pid] = "filled" /\ pos.pid \notin open
  PROVE  /\ BooksKept
         /\ pos' = Flat /\ mark' \in Marks /\ pos' \in Positions
         /\ booked' \in [Entry -> Nat]
         /\ manual' \in BOOLEAN /\ guard' \in BOOLEAN
<1>1. pos' = Flat /\ mark' \in Marks /\ pos' \in Positions
  BY ControlTypes, TraderAssumption DEF Settle, GoFlat, Marks, IInv, TypeOK
<1>2. manual' \in BOOLEAN /\ guard' \in BOOLEAN
  BY DEF Settle, MayTrip, IInv, TypeOK, EngineTypeOK
<1>3. booked \in [Entry -> Nat]
  BY DEF IInv, TypeOK, EngineTypeOK
<1>4. /\ booked' \in [Entry -> Nat]
      /\ \A p \in Entry : p # pos.pid => booked'[p] = booked[p]
  BY <1>3 DEF Settle
<1>5. BooksKept
  BY <1>1, <1>4 DEF BooksKept, Flat
<1> QED
  BY <1>1, <1>2, <1>4, <1>5

LEMMA ForceConfirmKeeps == ASSUME IInv, ForceConfirm PROVE IInv'
<1>1. pos.st = "held" /\ h.ret \in Stages /\ \A st : Fits(Resume(h.ret), st)
  BY HelpersFit DEF ForceConfirm, IInv, ControlOK, Calls, TypeOK, EngineTypeOK, Handlers
<1>2. ExchangeKept
  BY Unmoved DEF ForceConfirm
<1>3. CASE open = {} /\ Settle /\ ForceCloseDone
  <2>1. pos.pid \in Entry => ent[pos.pid] = "filled" /\ pos.pid \notin open
    BY <1>3, ExchangeAssumption DEF IInv, BooksOK
  <2>2. /\ BooksKept /\ pos' = Flat /\ mark' \in Marks /\ pos' \in Positions
        /\ booked' \in [Entry -> Nat] /\ manual' \in BOOLEAN /\ guard' \in BOOLEAN
    BY <1>1, <1>3, <2>1, SettleKeepsBooks DEF ForceConfirm
  <2>3. Fits(h', pos'.st) /\ wd' \in Watches /\ cool' \in BOOLEAN
    BY <1>1, <1>3, ControlTypes, TraderAssumption
    DEF ForceCloseDone, Return, IInv, TypeOK, EngineTypeOK
  <2>4. EngineTypeOK' /\ ControlOK'
    BY <2>2, <2>3, FitsControl DEF ForceConfirm, Flat, Fits, IInv, TypeOK, EngineTypeOK
  <2> QED
    BY <1>2, <2>2, <2>4, StepKeeps
<1>4. CASE AttemptFails /\ UNCHANGED <<pos, mark, wd, manual, guard, booked>>
  <2>1. Fits(h', pos'.st) /\ cool' \in BOOLEAN
    BY <1>1, <1>4, AttemptFailsFits DEF IInv, TypeOK
  <2>2. EngineTypeOK' /\ ControlOK'
    BY <1>4, <2>1, FitsControl DEF ForceConfirm, Fits, IInv, TypeOK, EngineTypeOK
  <2> QED
    BY <1>2, <1>4, <2>2, QuietStep DEF ForceConfirm
<1> QED
  BY <1>3, <1>4 DEF ForceConfirm

-----------------------------------------------------------------------------
(* The board take-profit.                                                  *)

LEMMA TakeProfitCancelKeeps == ASSUME IInv, TakeProfitCancel PROVE IInv'
<1>1. pos.st = "held" /\ pos.stop \in Stop \cup {None}
  BY DEF TakeProfitCancel, IInv, ControlOK, Calls, TypeOK, EngineTypeOK, Positions
<1>2. ExchangeKept
  BY <1>1, KeptCancelStop DEF TakeProfitCancel, IInv, TypeOK
<1>3. Fits(h', pos.st)
  BY <1>1, GoesOn, HelpersFit DEF TakeProfitCancel, IInv, TypeOK, Calls
<1> QED
  BY <1>2, <1>3, HandlerMoves DEF TakeProfitCancel

LEMMA SettleIfGoneKeeps == ASSUME IInv, pos.st = "held", SettleIfGone PROVE IInv'
<1>1. pos.pid \in Entry => ent[pos.pid] = "filled" /\ pos.pid \notin open
  BY ExchangeAssumption DEF SettleIfGone, IInv, BooksOK
<1>2. /\ BooksKept /\ pos' = Flat /\ mark' \in Marks /\ pos' \in Positions
      /\ booked' \in [Entry -> Nat] /\ manual' \in BOOLEAN /\ guard' \in BOOLEAN
  BY <1>1, SettleKeepsBooks DEF SettleIfGone
<1>3. Fits(h', pos'.st)
  BY HelpersFit DEF SettleIfGone, IInv, TypeOK
<1>4. EngineTypeOK' /\ ControlOK'
  BY <1>2, <1>3, FitsControl DEF SettleIfGone, Flat, Fits, IInv, TypeOK, EngineTypeOK
<1> QED
  BY <1>2, <1>4, Unmoved, StepKeeps DEF SettleIfGone

LEMMA TakeProfitFetchKeeps == ASSUME IInv, TakeProfitFetch PROVE IInv'
<1>1. pos.st = "held"
  BY DEF TakeProfitFetch, IInv, ControlOK, Calls
<1>2. CASE SettleIfGone
  BY <1>1, <1>2, SettleIfGoneKeeps
<1>3. CASE /\ h' = Idle \/ h' = [h EXCEPT !.pc = "tp_close"]
           /\ UNCHANGED <<exchange, trader, history>>
  <2>1. Fits(h', pos.st)
    BY <1>1, <1>3, GoesOn, HelpersFit DEF IInv, TypeOK, Calls
  <2> QED
    BY <1>3, <2>1, Unmoved, HandlerMoves
<1> QED
  BY <1>2, <1>3 DEF TakeProfitFetch, FetchFails, Goto

LEMMA TakeProfitCloseKeeps == ASSUME IInv, TakeProfitClose PROVE IInv'
<1>1. pos.st = "held"
  BY DEF TakeProfitClose, IInv, ControlOK, Calls
<1>2. ExchangeKept
  BY KeptPlaceMarket, Unmoved DEF TakeProfitClose, Refused, CloseImpossible, IInv, TypeOK
<1>3. Fits(h', pos.st)
  BY <1>1, GoesOn, HelpersFit DEF TakeProfitClose, IInv, TypeOK, Calls
<1> QED
  BY <1>2, <1>3, HandlerMoves DEF TakeProfitClose

LEMMA TakeProfitConfirmKeeps == ASSUME IInv, TakeProfitConfirm PROVE IInv'
<1>1. pos.st = "held"
  BY DEF TakeProfitConfirm, IInv, ControlOK, Calls
<1>2. CASE SettleIfGone
  BY <1>1, <1>2, SettleIfGoneKeeps
<1>3. CASE Goto(Idle)
  BY <1>3, HelpersFit, Unmoved, HandlerMoves DEF Goto, IInv, TypeOK
<1> QED
  BY <1>2, <1>3 DEF TakeProfitConfirm

-----------------------------------------------------------------------------
(* The executions of the private stream.                                   *)

LEMMA HoldAfterFillFits ==
  ASSUME EngineTypeOK, NEW p \in Positions, p.st = "held", h.pc = "idle", HoldAfterFill(p)
  PROVE  /\ Fits(h', pos'.st) /\ pos' = p
         /\ wd' \in Watches /\ mark' \in Marks
         /\ due' \in Entry \cup {None} /\ timers' \subseteq Entry
<1>1. mark' \in Marks /\ p.pid \in Entry \cup {None}
  BY DEF HoldAfterFill, Positions
<1>2. CASE p.pid # None /\ pos' = p /\ due' = p.pid /\ timers' = timers \cup {p.pid}
           /\ UNCHANGED <<wd, h>>
  BY <1>1, <1>2 DEF Fits, EngineTypeOK, Stages
<1>3. CASE PlaceStopOrders(p, wd, "idle") /\ due' = None /\ UNCHANGED timers
  BY <1>1, <1>3, PlaceStopOrdersFits DEF EngineTypeOK, Stages
<1> QED
  BY <1>2, <1>3 DEF HoldAfterFill

\* The oldest event says what is true.
LEMMA HeadEvent ==
  ASSUME IInv, wire # <<>>, TakeEvent
  PROVE  /\ ExchangeKept
         /\ Head(wire) \in Event /\ Head(wire) \in InFlight
         /\ Head(wire).kind = "entry" =>
              /\ Head(wire).id \in Entry
              /\ Head(wire).pid \in {None, Head(wire).id}
              /\ ent[Head(wire).id] = "filled" /\ ent'[Head(wire).id] = "filled"
         /\ Head(wire).kind = "stop" =>
              /\ ent[Head(wire).pid] = "filled"
              /\ Head(wire).pid \notin open
<1>1. ExchangeKept
  BY KeptTakeEvent DEF IInv, TypeOK
<1>2. Head(wire) \in InFlight
  BY TakeHead DEF TakeEvent, IInv, TypeOK
<1>3. Head(wire) \in Event
  BY <1>2, InFlightEvents DEF IInv, TypeOK
<1>4. UNCHANGED ent
  BY DEF TakeEvent
<1> QED
  BY <1>1, <1>2, <1>3, <1>4 DEF IInv, ExchangeOK, Event

LEMMA StopEventKeeps == ASSUME IInv, StopEvent PROVE IInv'
<1> DEFINE e == Head(wire)
<1>1. /\ pos.st = "held" /\ h.pc = "idle" /\ wire # <<>> /\ TakeEvent
      /\ e.kind = "stop" /\ pos.stop = e.id
  BY DEF StopEvent, EventHead
<1>2. ExchangeKept /\ e \in InFlight /\ e \in Event /\ ent[e.pid] = "filled" /\ e.pid \notin open
  BY <1>1, HeadEvent
<1>3. e.pid = pos.pid
  <2>1. pos.stop # None
    BY <1>1, <1>2, ExchangeAssumption DEF ExchangeAssumption, Event
  <2> QED
    BY <1>1, <1>2, <2>1 DEF IInv, StopBelongs
<1>4. /\ BooksKept /\ pos' = Flat /\ mark' \in Marks /\ pos' \in Positions
      /\ booked' \in [Entry -> Nat] /\ manual' \in BOOLEAN /\ guard' \in BOOLEAN
  BY <1>1, <1>2, <1>3, SettleKeepsBooks DEF StopEvent
<1>5. Fits(h', pos'.st)
  BY <1>1 DEF StopEvent, Fits, Stages, IInv, TypeOK, EngineTypeOK
<1>6. EngineTypeOK' /\ ControlOK'
  BY <1>4, <1>5, FitsControl DEF StopEvent, Flat, Fits, IInv, TypeOK, EngineTypeOK
<1> QED
  BY <1>2, <1>4, <1>6, StepKeeps

\* The event of an order makes the engine hold the position it opened.
LEMMA EntryEventsKeep == ASSUME IInv, EntryEvent \/ GraceFillEvent PROVE IInv'
<1> DEFINE e == Head(wire)
           p == Held(e.id, e.pid)
<1>1. /\ pos.st = "pending" => pos.entry = e.id
      /\ h.pc = "idle" /\ wire # <<>> /\ TakeEvent /\ e.kind = "entry"
      /\ HoldAfterFill(p)
      /\ grace' \subseteq grace
      /\ UNCHANGED <<cool, manual, guard, request, loop, history>>
  BY DEF EntryEvent, GraceFillEvent, EventHead
<1>2. /\ ExchangeKept /\ e.id \in Entry /\ e.pid \in {None, e.id}
      /\ ent[e.id] = "filled" /\ ent'[e.id] = "filled"
  BY <1>1, HeadEvent
<1>3. p \in Positions /\ p.st = "held" /\ p.pid = e.pid /\ p.stop = None
  BY <1>2, HeldPosition
<1> HIDE DEF p, e
<1>4. /\ Fits(h', pos'.st) /\ pos' = p
      /\ wd' \in Watches /\ mark' \in Marks
      /\ due' \in Entry \cup {None} /\ timers' \subseteq Entry
  BY <1>1, <1>3, HoldAfterFillFits DEF IInv, TypeOK
<1>5. EngineTypeOK' /\ ControlOK'
  BY <1>1, <1>3, <1>4, FitsControl DEF Fits, IInv, TypeOK, EngineTypeOK, history
<1>6. BooksKept
  BY <1>1, <1>2, <1>3, <1>4 DEF BooksKept, history
<1> QED
  BY <1>2, <1>5, <1>6, StepKeeps

LEMMA IgnoredEventsKeep ==
  ASSUME IInv, GraceFillIgnored \/ UnknownEntryEvent \/ UnknownStopEvent
  PROVE  IInv'
<1>1. wire # <<>> /\ TakeEvent /\ UNCHANGED <<pos, h, booked>>
  BY DEF GraceFillIgnored, UnknownEntryEvent, UnknownStopEvent, EventHead, trader, history
<1>2. ExchangeKept
  BY <1>1, HeadEvent
<1>3. EngineTypeOK' /\ excused \subseteq excused'
  <2>1. CASE GraceFillIgnored
    BY <1>1, <2>1, HeadEvent
    DEF GraceFillIgnored, EventHead, IInv, TypeOK, EngineTypeOK
  <2>2. CASE UnknownEntryEvent \/ UnknownStopEvent
    BY <2>2 DEF UnknownEntryEvent, UnknownStopEvent, trader, history, IInv, TypeOK,
                EngineTypeOK
  <2> QED
    BY <2>1, <2>2
<1> QED
  BY <1>1, <1>2, <1>3, SameControl, QuietStep

LEMMA ExecutionsKeep == ASSUME IInv, Executions PROVE IInv'
  BY StopEventKeeps, EntryEventsKeep, IgnoredEventsKeep DEF Executions

-----------------------------------------------------------------------------
(* Time, the main loop, the operator, the streams and the exchange.        *)

LEMMA SwitchesKeep ==
  ASSUME IInv,
         \/ CoolExpires \/ (\E o \in Entry : GraceExpires(o))
         \/ (\E on \in BOOLEAN : ManualStop(on))
         \/ EquityCheck \/ EquityRequest \/ GuardClear \/ PauseDecided
  PROVE  IInv'
<1> USE DEF CoolExpires, GraceExpires, ManualStop, EquityCheck, EquityRequest, GuardClear,
            PauseDecided, Loop, history
<1>1. ExchangeKept /\ UNCHANGED <<pos, h, booked>> /\ excused \subseteq excused'
  BY Unmoved
<1>2. EngineTypeOK'
  BY DEF MayTrip, IInv, TypeOK, EngineTypeOK
<1> QED
  BY <1>1, <1>2, SameControl, QuietStep

LEMMA StreamEndsKeep == ASSUME IInv, LoseEvents \/ Paused \/ Resumed PROVE IInv'
<1>1. DropEvents /\ UNCHANGED <<pos, h>>
  BY DEF LoseEvents, Paused, Resumed, Loop, trader
<1>2. ExchangeKept /\ UNCHANGED booked
  BY <1>1, KeptDropEvents DEF DropEvents, IInv, TypeOK
<1>3. excused \subseteq excused' /\ excused' \subseteq Entry
  BY <1>1 DEF DropEvents, IInv, TypeOK, EngineTypeOK
<1>4. EngineTypeOK'
  BY <1>1, <1>2, <1>3
  DEF LoseEvents, Paused, Resumed, Loop, trader, IInv, TypeOK, EngineTypeOK
<1> QED
  BY <1>1, <1>2, <1>3, <1>4, SameControl, QuietStep

LEMMA ExchangeKeeps == ASSUME IInv, Exchange PROVE IInv'
<1>1. ExchangeKept /\ UNCHANGED <<trader, h, history>>
  BY KeptExchangeStep DEF Exchange, IInv, TypeOK
<1>2. EngineTypeOK'
  BY <1>1 DEF trader, history, IInv, TypeOK, EngineTypeOK
<1> QED
  BY <1>1, <1>2, SameControl, QuietStep DEF trader, history

-----------------------------------------------------------------------------
(* The invariant of the specification.                                     *)

LEMMA InitEstablishes == ASSUME Init PROVE IInv
<1> USE DEF Init, EngineInit, ExchangeInit
<1>1. TypeOK
  <2>1. 0 \in 0..MaxStopAttempts /\ 0 \in 0..MaxCloseAttempts
    BY TraderAssumption DEF TraderAssumption
  <2>2. ExchangeTypeOK
    BY DEF ExchangeTypeOK, Status, NoStop
  <2>3. pos \in Positions /\ wd \in Watches /\ h \in Handlers
    BY <2>1 DEF Positions, Flat, Watches, NoWatch, Handlers, Idle, Stages
  <2> QED
    BY <2>2, <2>3 DEF TypeOK, EngineTypeOK, Marks
<1>2. InFlight = {}
  BY DEF InFlight
<1>3. ControlOK /\ BooksOK
  BY DEF ControlOK, BooksOK, Flat, Idle, Calls
<1>4. ExchangeOK /\ StopBelongs /\ OrdersTracked
  BY <1>2 DEF ExchangeOK, StopBelongs, OrdersTracked, Pending, NoStop, Flat
<1> QED
  BY <1>1, <1>3, <1>4 DEF IInv

LEMMA HandlerKeeps == ASSUME IInv, Handler PROVE IInv'
  BY SafetyStagesKeep, GuardStageKeeps, TradeStagesKeep, EnterKeeps, RateLimitedKeeps,
     CancelCallKeeps, CancelFetchKeeps, StopCallKeeps, AfterStopKeeps, ForceCancelKeeps,
     ForceFetchKeeps, ForceClosePlaceKeeps, ForceConfirmKeeps, TakeProfitCancelKeeps,
     TakeProfitFetchKeeps, TakeProfitCloseKeeps, TakeProfitConfirmKeeps
  DEF Handler

LEMMA NextKeeps == ASSUME IInv, [Next]_vars PROVE IInv'
<1>1. CASE Environment
  BY <1>1, SwitchesKeep, StreamEndsKeep, ExchangeKeeps DEF Environment
<1>2. CASE UNCHANGED vars
  <2>1. ExchangeKept /\ UNCHANGED <<trader, h, history>>
    BY <1>2, Unmoved DEF vars
  <2>2. EngineTypeOK'
    BY <2>1 DEF trader, history, IInv, TypeOK, EngineTypeOK
  <2> QED
    BY <2>1, <2>2, SameControl, QuietStep DEF trader, history
<1> QED
  BY <1>1, <1>2, BoardUpdateKeeps, HandlerKeeps, ExecutionsKeep, WatchdogKeeps, TimerKeeps
  DEF Next

LEMMA Invariance == Spec => []IInv
<1>1. Init => IInv
  BY InitEstablishes
<1>2. IInv /\ [Next]_vars => IInv'
  BY NextKeeps
<1> QED
  BY <1>1, <1>2, PTL DEF Spec

\* The state has its type: every handler step keeps the registers, the stream
\* and the history well formed.
THEOREM RealTypeCorrect == Spec => []TypeOK
<1>1. IInv => TypeOK
  BY DEF IInv
<1> QED
  BY <1>1, Invariance, PTL

\* An exit is booked only after the position was closed at GMO, by whichever of
\* the three routines that settle an exit, however their REST calls interleave
\* with the exchange, and whatever fails, is lost, late or repeated.
THEOREM BookingIsTrue == Spec => []BookedAfterClose
<1>1. IInv => BookedAfterClose
  BY DEF IInv, BooksOK, BookedAfterClose
<1> QED
  BY <1>1, Invariance, PTL

\* Every order that works at GMO is the pending order of the engine, unless the
\* answer to it was lost: no cancel, adoption or entry forgets one.
THEOREM NoStrayOrder == Spec => []OrdersTracked
<1>1. IInv => OrdersTracked
  BY DEF IInv
<1> QED
  BY <1>1, Invariance, PTL

\* The STOP that the engine remembers is one of the position it holds, at GMO
\* and in every execution on its way.
THEOREM StopIsOwn == Spec => []StopBelongs
<1>1. IInv => StopBelongs
  BY DEF IInv
<1> QED
  BY <1>1, Invariance, PTL
-----------------------------------------------------------------------------
(* One exposure at a time.                                                 *)

\* What the rest assumes of the exchange: an accepted cancel is effective at
\* once, answers to orders arrive, and executions name their position.  Calls
\* may be refused and executions lost.
Calm == Fault \cap {"late_fill", "lost_reply", "no_pid"} = {}

\* Whatever works or is open at GMO is the pending order or the position held,
\* and its exit is not booked yet.
Alone ==
  /\ \A o \in Entry : ent[o] # "cxl"
  /\ \A o \in Entry : ent[o] = "live" => pos.st = "pending" /\ pos.entry = o
  /\ \A p \in open : pos.st # "flat" /\ pos.entry = p
  /\ pos.st = "held" => pos.entry \in Entry /\ pos.pid = pos.entry
  /\ pos.st = "flat" => pos.entry = None /\ pos.pid = None
  /\ pos.st = "pending" => ent[pos.entry] = "live" \/ pos.entry \in open
  /\ \A p \in mkt : pos.st = "held" /\ p \in open
  /\ \A s \in Stop : Pending(stop[s].st) => pos.st = "held"
  /\ \A o \in grace : ent[o] = "gone"
  /\ \A e \in InFlight : e.kind = "entry" => e.pid = e.id
  /\ \A p \in Entry : booked[p] \in {0, 1}
  /\ \A p \in Entry : booked[p] = 1 => pos.entry # p

BookStep == [Book!Next]_<<[p \in Entry |-> Life(p)], booked>>

Orderly == Alone' /\ BookStep

(* Steps of the book.                                                      *)

LEMMA BookRests ==
  ASSUME UNCHANGED <<ent, open, booked>>
  PROVE  BookStep
<1>1. \A p \in Entry : Life(p)' = Life(p)
  BY DEF Life, Pending
<1> QED
  BY <1>1 DEF BookStep

\* Position p goes on from a to b.
LEMMA BookMoves ==
  ASSUME NEW p \in Entry, NEW a, NEW b,
         \A q \in Entry \ {p} : ent'[q] = ent[q] /\ (q \in open' <=> q \in open),
         UNCHANGED booked, Life(p) = a, Life(p)' = b,
         \/ a = "new" /\ b = "sent" /\ \A q \in Entry : Life(q) \notin {"sent", "open"}
         \/ a = "sent" /\ b \in {"open", "void"}
         \/ a = "open" /\ b = "closed"
  PROVE  BookStep
<1>1. \A q \in Entry \ {p} : Life(q)' = Life(q)
  BY DEF Life, Pending
<1>2. /\ [q \in Entry |-> Life(q)]' = [[q \in Entry |-> Life(q)] EXCEPT ![p] = b]
      /\ [q \in Entry |-> Life(q)][p] = a
  BY <1>1
<1>3. Book!Moves(p, a, b)
  BY <1>2 DEF Book!Moves
<1>4. ASSUME a = "new", \A q \in Entry : Life(q) \notin {"sent", "open"}
      PROVE  \A q \in Entry : ~Book!Alive(q)
  BY <1>4 DEF Book!Alive
<1>5. Book!Next
  BY <1>3, <1>4 DEF Book!Next, Book!Send, Book!Fill, Book!Void, Book!Close
<1> QED
  BY <1>5 DEF BookStep

\* The exit of position p is booked.
LEMMA BookBooks ==
  ASSUME NEW p \in Entry, booked \in [Entry -> Nat], booked[p] = 0,
         UNCHANGED <<ent, open>>, Life(p) = "closed",
         booked' = [q \in Entry |-> booked[q] + IF q = p THEN 1 ELSE 0]
  PROVE  BookStep
<1>1. \A q \in Entry : Life(q)' = Life(q)
  BY DEF Life, Pending
<1>2. booked' = [booked EXCEPT ![p] = 1]
  <2>1. \A q \in Entry : booked'[q] = [booked EXCEPT ![p] = 1][q]
    OBVIOUS
  <2> QED
    BY <2>1
<1>3. Book!Book(p)
  BY <1>1, <1>2 DEF Book!Book
<1> QED
  BY <1>3 DEF BookStep, Book!Next
-----------------------------------------------------------------------------
\* What the status of its order says of a position, before and after a step.
LEMMA LifeIs ==
  ASSUME NEW p \in Entry
  PROVE  /\ p \in open => Life(p) = "open"
         /\ p \notin open /\ ent[p] = "filled" => Life(p) = "closed"
         /\ p \notin open /\ ent[p] \in {"live", "cxl"} => Life(p) = "sent"
         /\ p \notin open /\ ent[p] = "gone" => Life(p) = "void"
         /\ p \notin open /\ ent[p] = "none" => Life(p) = "new"
         /\ p \in open' => Life(p)' = "open"
         /\ p \notin open' /\ ent'[p] = "filled" => Life(p)' = "closed"
         /\ p \notin open' /\ ent'[p] \in {"live", "cxl"} => Life(p)' = "sent"
         /\ p \notin open' /\ ent'[p] = "gone" => Life(p)' = "void"
  BY DEF Life
-----------------------------------------------------------------------------
(* The three kinds of steps that keep the engine alone.                    *)

\* The engine stays with what it has; it may do so with the STOP and the close
\* of a position that it holds.
LEMMA Stays ==
  ASSUME IInv, Alone, UNCHANGED <<ent, open, booked>>,
         pos'.st = pos.st /\ pos'.entry = pos.entry /\ pos'.pid = pos.pid,
         \A p \in mkt' : p \in mkt \/ (pos.st = "held" /\ p \in open),
         \A s \in Stop : Pending(stop'[s].st) => Pending(stop[s].st) \/ pos.st = "held",
         grace' \subseteq grace, InFlight' \subseteq InFlight
  PROVE  Orderly
<1>1. Alone'
  BY DEF Alone, IInv, TypeOK, EngineTypeOK
<1> QED
  BY <1>1, BookRests DEF Orderly

\* The engine takes what its order has opened.
LEMMA Takes ==
  ASSUME IInv, Alone, pos.st = "pending", pos.entry \in open,
         pos'.st = "held" /\ pos'.entry = pos.entry /\ pos'.pid = pos.entry,
         UNCHANGED <<ent, stop, mkt, open, booked>>,
         grace' \subseteq grace, InFlight' \subseteq InFlight
  PROVE  Orderly
<1>1. Alone'
  BY ExchangeAssumption DEF Alone, IInv, ControlOK, ExchangeOK, TypeOK, EngineTypeOK
<1> QED
  BY <1>1, BookRests DEF Orderly

\* The position held is closed, and the engine goes flat, with or without
\* booking the exit.
LEMMA GoesFlat ==
  ASSUME IInv, Alone, pos.st = "held", pos.pid \notin open, pos' = Flat,
         UNCHANGED <<ent, stop, mkt, open, grace>>, InFlight' \subseteq InFlight,
         \/ UNCHANGED booked
         \/ booked' = [p \in Entry |-> booked[p] + IF p = pos.pid THEN 1 ELSE 0]
  PROVE  Orderly
<1>1. pos.pid \in Entry /\ pos.pid = pos.entry /\ booked[pos.pid] = 0
  BY DEF Alone
<1>2. open = {} /\ mkt = {} /\ \A s \in Stop : ~Pending(stop[s].st)
  BY <1>1 DEF Alone, IInv, ExchangeOK
<1>3. \A o \in Entry : ent[o] # "live"
  BY DEF Alone
<1>4. booked' \in [Entry -> Nat] /\ \A p \in Entry : booked'[p] \in {0, 1}
  BY <1>1 DEF Alone, IInv, TypeOK, EngineTypeOK
<1>5. Alone'
  BY <1>2, <1>3, <1>4, ExchangeAssumption
  DEF Alone, Flat, IInv, TypeOK, ExchangeTypeOK, EngineTypeOK
<1>6. BookStep
  <2>1. Life(pos.pid) = "closed"
    BY <1>1, LifeIs, ExchangeAssumption DEF IInv, BooksOK
  <2>2. booked \in [Entry -> Nat]
    BY DEF IInv, TypeOK, EngineTypeOK
  <2> QED
    BY <1>1, <2>1, <2>2, BookRests, BookBooks
<1> QED
  BY <1>5, <1>6 DEF Orderly
-----------------------------------------------------------------------------
(* The steps of the exchange.                                              *)

LEMMA AloneFills ==
  ASSUME IInv, Alone, Calm, NEW o \in Entry, FillEntry(o), UNCHANGED <<trader, h, history>>
  PROVE  Orderly
<1> DEFINE e == [kind |-> "entry", id |-> o, pid |-> o]
<1>1. ent[o] = "live" /\ pos.st = "pending" /\ pos.entry = o /\ ent[o] \in Status
  BY DEF Alone, FillEntry, Pending, IInv, TypeOK, ExchangeTypeOK
<1>2. open = {} /\ mkt = {} /\ \A s \in Stop : ~Pending(stop[s].st)
  BY <1>1 DEF Alone, IInv, ExchangeOK
<1>3. e \in Event /\ wire' = Append(wire, e)
  BY DEF FillEntry, Calm, Event
<1>4. InFlight' = InFlight \cup {e}
  BY <1>3, AppendEvent DEF IInv, TypeOK
<1>5. /\ ent' = [ent EXCEPT ![o] = "filled"] /\ open' = {o}
      /\ UNCHANGED <<stop, mkt, pos, grace, booked>>
  BY <1>2 DEF FillEntry, trader, history
<1>6. Alone'
  BY <1>1, <1>2, <1>4, <1>5 DEF Alone, IInv, TypeOK, ExchangeTypeOK, EngineTypeOK
<1>7. BookStep
  <2>1. Life(o) = "sent" /\ Life(o)' = "open"
    BY <1>1, <1>2, <1>5, LifeIs
  <2> QED
    BY <1>2, <1>5, <2>1, BookMoves DEF IInv, TypeOK, ExchangeTypeOK
<1> QED
  BY <1>6, <1>7 DEF Orderly

\* The position held is closed at GMO.
LEMMA AloneCloses ==
  ASSUME IInv, Alone, NEW p \in Entry, p \in open, pos.st = "held", Closed(p),
         UNCHANGED <<ent, pos, grace, booked>>,
         \A e \in InFlight' : e.kind = "entry" => e \in InFlight
  PROVE  Orderly
<1>1. Alone'
  BY DEF Alone, Closed, NoStop, Pending, IInv, TypeOK, ExchangeTypeOK, EngineTypeOK
<1>2. BookStep
  <2>1. ent[p] = "filled" /\ p \notin open'
    BY DEF Closed, IInv, ExchangeOK
  <2>2. Life(p) = "open" /\ Life(p)' = "closed"
    BY <2>1, LifeIs
  <2> QED
    BY <2>2, BookMoves DEF Closed
<1> QED
  BY <1>1, <1>2 DEF Orderly

LEMMA AloneExchange ==
  ASSUME IInv, Alone, Calm, Exchange
  PROVE  Orderly
<1>1. UNCHANGED <<trader, h, history>> /\ ExchangeStep
  BY DEF Exchange
<1>2. CASE \E o \in Entry : FillEntry(o)
  BY <1>1, <1>2, AloneFills
<1>3. CASE \E o \in Entry : CancelEntryDone(o)
  BY <1>3 DEF CancelEntryDone, Alone
<1>4. ASSUME NEW s \in Stop, FillStop(s)
      PROVE  Orderly
  <2> DEFINE p == stop[s].pid
             e == [kind |-> "stop", id |-> s, pid |-> p]
  <2>1. pos.st = "held" /\ p \in open /\ p \in Entry
    BY <1>4 DEF FillStop, Alone, IInv, ExchangeOK, TypeOK, ExchangeTypeOK
  <2>2. e \in Event /\ wire' = Append(wire, e)
    BY <1>4, <2>1 DEF FillStop, Event
  <2>3. InFlight' = InFlight \cup {e}
    BY <2>2, AppendEvent DEF IInv, TypeOK
  <2> QED
    BY <1>1, <1>4, <2>1, <2>3, AloneCloses DEF FillStop, trader, history
<1>5. CASE \E s \in Stop : CancelStopDone(s)
  BY <1>1, <1>5, Stays
  DEF CancelStopDone, trader, history, InFlight, Pending, NoStop, IInv, TypeOK, ExchangeTypeOK
<1>6. ASSUME NEW p \in Entry, FillMarket(p)
      PROVE  Orderly
  <2>1. pos.st = "held" /\ p \in open
    BY <1>6 DEF FillMarket, Alone
  <2> QED
    BY <1>1, <1>6, <2>1, AloneCloses DEF FillMarket, trader, history, InFlight
<1> QED
  BY <1>1, <1>2, <1>3, <1>4, <1>5, <1>6 DEF ExchangeStep
-----------------------------------------------------------------------------
(* The steps of the engine.                                                *)

\* Whatever leaves GMO, the position and the books as they are.
LEMMA AloneRests ==
  ASSUME IInv, Alone, UNCHANGED <<ent, stop, mkt, open, pos, booked>>,
         grace' \subseteq grace, InFlight' \subseteq InFlight
  PROVE  Orderly
  BY Stays

LEMMA AloneStages ==
  ASSUME IInv, Alone,
         \/ BoardUpdate \/ ManualStage \/ PreStage \/ GuardStage \/ PendingStage
         \/ HeldStage \/ NoEntry \/ RateLimited \/ AfterStopStage
         \/ CoolExpires \/ (\E o \in Entry : GraceExpires(o))
         \/ (\E on \in BOOLEAN : ManualStop(on))
         \/ EquityCheck \/ EquityRequest \/ GuardClear \/ PauseDecided
  PROVE  Orderly
<1>1. UNCHANGED <<exchange, pos, booked>> /\ grace' \subseteq grace
  BY DEF BoardUpdate, ManualStage, PreStage, GuardStage, PendingStage, HeldStage, NoEntry,
         RateLimited, AfterStopStage, CoolExpires, GraceExpires, ManualStop, EquityCheck,
         EquityRequest, GuardClear, PauseDecided, Loop, Goto, trader, history
<1>2. UNCHANGED <<ent, stop, mkt, open>> /\ InFlight' = InFlight
  BY <1>1 DEF exchange, InFlight
<1> QED
  BY <1>1, <1>2, AloneRests

LEMMA AloneWatches ==
  ASSUME IInv, Alone, Watchdog \/ (\E p \in Entry : Timer(p))
  PROVE  Orderly
<1>1. UNCHANGED <<exchange, pos, booked, grace>>
  BY DEF Watchdog, WatchdogTick, WatchdogClears, WatchdogCloses, WatchdogRetries, Timer,
         PlaceStopOrders, history
<1>2. UNCHANGED <<ent, stop, mkt, open>> /\ InFlight' = InFlight
  BY <1>1 DEF exchange, InFlight
<1> QED
  BY <1>1, <1>2, AloneRests

LEMMA AloneStreamEnds ==
  ASSUME IInv, Alone, LoseEvents \/ Paused \/ Resumed
  PROVE  Orderly
<1>1. UNCHANGED <<ent, stop, mkt, open, booked, pos, grace>> /\ wire' = <<>>
  BY DEF LoseEvents, Paused, Resumed, DropEvents, Loop, trader
<1>2. InFlight' = {}
  BY <1>1 DEF InFlight
<1> QED
  BY <1>1, <1>2, AloneRests

LEMMA AloneEvents ==
  ASSUME IInv, Alone, Executions
  PROVE  Orderly
<1> DEFINE e == Head(wire)
<1>1. wire # <<>> /\ TakeEvent
  BY DEF Executions, EventHead, StopEvent, UnknownStopEvent, EntryEvent, GraceFillEvent,
         GraceFillIgnored, UnknownEntryEvent
<1>2. /\ e \in Event /\ e \in InFlight
      /\ e.kind = "entry" => e.id \in Entry /\ ent[e.id] = "filled"
      /\ e.kind = "stop" => e.pid \notin open
  BY <1>1, HeadEvent
<1>3. UNCHANGED <<ent, stop, mkt, open>> /\ InFlight' \subseteq InFlight
  BY <1>1, TakeHead DEF TakeEvent, IInv, TypeOK
<1>4. CASE StopEvent
  <2>1. pos.st = "held" /\ e.kind = "stop" /\ pos.stop = e.id /\ pos.stop # None
    BY <1>2, <1>4, ExchangeAssumption DEF StopEvent, EventHead, Event
  <2>2. pos.pid = e.pid
    BY <1>2, <2>1 DEF IInv, StopBelongs
  <2> QED
    BY <1>2, <1>3, <1>4, <2>1, <2>2, GoesFlat DEF StopEvent, Settle, GoFlat
<1>5. CASE EntryEvent
  <2>1. pos.st = "pending" /\ e.kind = "entry" /\ pos.entry = e.id
    BY <1>5 DEF EntryEvent, EventHead
  <2>2. pos.entry \in open /\ e.pid = e.id
    BY <1>2, <2>1 DEF Alone
  <2>3. pos' = Held(pos.entry, e.pid)
    BY <1>5 DEF EntryEvent, HoldAfterFill, PlaceStopOrders
  <2> QED
    BY <1>3, <1>5, <2>1, <2>2, <2>3, Takes DEF EntryEvent, Held, history
<1>6. CASE GraceFillEvent
  BY <1>2, <1>6 DEF GraceFillEvent, EventHead, Alone
<1>7. CASE UnknownStopEvent \/ GraceFillIgnored \/ UnknownEntryEvent
  <2>1. UNCHANGED <<pos, booked>> /\ grace' \subseteq grace
    BY <1>7 DEF UnknownStopEvent, GraceFillIgnored, UnknownEntryEvent, trader, history
  <2> QED
    BY <1>3, <2>1, AloneRests
<1> QED
  BY <1>4, <1>5, <1>6, <1>7 DEF Executions
-----------------------------------------------------------------------------
\* A new order, while nothing works and nothing is open.
LEMMA AloneEnters ==
  ASSUME IInv, Alone, Calm, NEW o \in Entry, NEW r \in {"ok", "error"}, EnterRealLimit(o, r)
  PROVE  Orderly
<1>1. r = "ok" /\ pos.st = "flat" /\ ent[o] = "none"
  BY DEF EnterRealLimit, EntryStage, PlaceEntry, Calm
<1>2. /\ open = {} /\ mkt = {} /\ \A s \in Stop : ~Pending(stop[s].st)
      /\ \A q \in Entry : ent[q] \notin {"live", "cxl"}
  BY <1>1 DEF Alone
<1>3. /\ ent' = [ent EXCEPT ![o] = "live"]
      /\ pos' = [Flat EXCEPT !.st = "pending", !.entry = o]
      /\ UNCHANGED <<stop, mkt, open, wire, grace, booked>> /\ InFlight' = InFlight
  BY <1>1 DEF EnterRealLimit, PlaceEntry, InFlight
<1>4. pos'.st = "pending" /\ pos'.entry = o /\ pos'.pid = None
  BY <1>3 DEF Flat
<1>5. booked[o] = 0
  BY <1>1 DEF Alone, IInv, BooksOK
<1>6. Alone'
  BY <1>1, <1>2, <1>3, <1>4, <1>5 DEF Alone, IInv, TypeOK, ExchangeTypeOK, EngineTypeOK
<1>7. BookStep
  <2>1. Life(o) = "new" /\ Life(o)' = "sent"
    BY <1>1, <1>2, <1>3, LifeIs DEF IInv, TypeOK, ExchangeTypeOK
  <2>2. \A q \in Entry : Life(q) \notin {"sent", "open"}
    BY <1>2, LifeIs DEF IInv, TypeOK, ExchangeTypeOK, Status
  <2> QED
    BY <1>3, <2>1, <2>2, BookMoves DEF IInv, TypeOK, ExchangeTypeOK
<1> QED
  BY <1>6, <1>7 DEF Orderly

LEMMA AloneCancels ==
  ASSUME IInv, Alone, Calm, CancelCall
  PROVE  Orderly
<1>1. pos.st = "pending" /\ pos.entry \in Entry
  BY DEF CancelCall, IInv, ControlOK
<1>2. UNCHANGED <<stop, mkt, open, wire, booked>> /\ InFlight' = InFlight
  BY DEF CancelCall, CancelFails, CancelRefused, CancelEntry, Refused, exchange, InFlight
<1>3. CASE UNCHANGED <<ent, pos, grace>>
  BY <1>2, <1>3, AloneRests
<1>4. CASE /\ ent[pos.entry] = "live" /\ ent' = [ent EXCEPT ![pos.entry] = "gone"]
           /\ GoFlat /\ grace' = grace \cup {pos.entry}
  <2>1. open = {} /\ mkt = {} /\ \A s \in Stop : ~Pending(stop[s].st)
    BY <1>1, <1>4 DEF Alone, IInv, ExchangeOK
  <2>2. Alone'
    BY <1>1, <1>2, <1>4, <2>1, ExchangeAssumption
    DEF Alone, GoFlat, Flat, IInv, TypeOK, ExchangeTypeOK, EngineTypeOK
  <2>3. BookStep
    <3>1. PICK o \in Entry : o = pos.entry
      BY <1>1
    <3>2. Life(o) = "sent" /\ Life(o)' = "void"
      BY <1>2, <1>4, <2>1, <3>1, LifeIs DEF IInv, TypeOK, ExchangeTypeOK
    <3> QED
      BY <1>2, <1>4, <3>1, <3>2, BookMoves DEF IInv, TypeOK, ExchangeTypeOK
  <2> QED
    BY <2>2, <2>3 DEF Orderly
<1> QED
  BY <1>3, <1>4
  DEF CancelCall, CancelFails, CancelRefused, CancelEntry, Refused, Calm, exchange

\* The order was executed: the one open position is its own.
LEMMA AloneAdopts ==
  ASSUME IInv, Alone, CancelFetch
  PROVE  Orderly
<1>1. pos.st = "pending" /\ pos.entry \in open
  BY DEF CancelFetch, IInv, ControlOK, Calls, Alone
<1>2. /\ UNCHANGED <<ent, stop, mkt, open, grace, booked>> /\ InFlight' = InFlight
  BY DEF CancelFetch, FetchFails, exchange, InFlight
<1>3. CASE UNCHANGED pos
  BY <1>2, <1>3, AloneRests
<1>4. ASSUME NEW p \in open, PlaceStopOrders(Held(pos.entry, p), wd, h.ret)
      PROVE  Orderly
  <2>1. pos' = Held(pos.entry, p) /\ p = pos.entry
    BY <1>4 DEF PlaceStopOrders, Alone
  <2> QED
    BY <1>1, <1>2, <2>1, Takes DEF Held
<1> QED
  BY <1>1, <1>3, <1>4 DEF CancelFetch

LEMMA AloneProtects ==
  ASSUME IInv, Alone, StopCall
  PROVE  Orderly
<1>1. pos.st = "held" /\ pos \in Positions
  BY DEF StopCall, IInv, ControlOK, Calls, TypeOK, EngineTypeOK
<1>2. UNCHANGED <<ent, mkt, open, wire, grace, booked>> /\ InFlight' = InFlight
  BY DEF StopCall, PlaceStop, Refused, CloseImpossible, exchange, InFlight
<1>3. \E s : pos' = [pos EXCEPT !.stop = s]
  BY DEF StopCall, StopFailed
<1>4. pos'.st = pos.st /\ pos'.entry = pos.entry /\ pos'.pid = pos.pid
  BY <1>1, <1>3 DEF Positions
<1> QED
  BY <1>1, <1>2, <1>4, Stays

LEMMA AloneForces ==
  ASSUME IInv, Alone, ForceCancel \/ ForceFetch \/ ForceClosePlace \/ ForceConfirm
  PROVE  Orderly
<1>1. pos.st = "held" /\ pos.stop \in Stop \cup {None} /\ pos.pid \in Entry
  BY DEF ForceCancel, ForceFetch, ForceClosePlace, ForceConfirm, IInv, ControlOK, Calls,
         TypeOK, EngineTypeOK, Positions, Alone
<1>2. CASE ForceCancel
  BY <1>1, <1>2, Stays DEF ForceCancel, CancelStop, Refused, exchange, trader, history, InFlight
<1>3. CASE ForceFetch
  <2>1. UNCHANGED <<ent, stop, mkt, open, grace, booked>> /\ InFlight' = InFlight
    BY <1>3 DEF ForceFetch, FetchFails, exchange, history, InFlight
  <2> QED
    BY <1>1, <1>3, <2>1, AloneRests, GoesFlat DEF ForceFetch, GoFlat
<1>4. CASE ForceClosePlace
  <2>1. /\ UNCHANGED <<ent, stop, open, grace, pos, booked>> /\ InFlight' = InFlight
        /\ \A p \in mkt' : p \in mkt \/ p \in open
    BY <1>4 DEF ForceClosePlace, PlaceMarket, Closable, Refused, CloseImpossible, exchange,
                history, InFlight
  <2> QED
    BY <1>1, <2>1, Stays
<1>5. CASE ForceConfirm
  <2>1. UNCHANGED <<ent, stop, mkt, open, grace>> /\ InFlight' = InFlight
    BY <1>5 DEF ForceConfirm, exchange, InFlight
  <2> QED
    BY <1>1, <1>5, <2>1, AloneRests, GoesFlat DEF ForceConfirm, Settle, GoFlat
<1> QED
  BY <1>2, <1>3, <1>4, <1>5

LEMMA AloneTakesProfit ==
  ASSUME IInv, Alone,
         TakeProfitCancel \/ TakeProfitFetch \/ TakeProfitClose \/ TakeProfitConfirm
  PROVE  Orderly
<1>1. pos.st = "held" /\ pos.stop \in Stop \cup {None}
  BY DEF TakeProfitCancel, TakeProfitFetch, TakeProfitClose, TakeProfitConfirm, IInv,
         ControlOK, Calls, TypeOK, EngineTypeOK, Positions
<1>2. CASE TakeProfitCancel
  BY <1>1, <1>2, Stays
  DEF TakeProfitCancel, CancelStop, Refused, exchange, trader, history, InFlight
<1>3. CASE SettleIfGone
  <2>1. UNCHANGED <<ent, stop, mkt, open, grace>> /\ InFlight' = InFlight
    BY <1>3 DEF SettleIfGone, exchange, InFlight
  <2> QED
    BY <1>1, <1>3, <2>1, GoesFlat DEF SettleIfGone, Settle, GoFlat
<1>4. CASE UNCHANGED <<exchange, trader, history>>
  BY <1>4, AloneRests DEF exchange, trader, history, InFlight
<1>5. CASE TakeProfitClose
  <2>1. /\ UNCHANGED <<ent, stop, open, grace, pos, booked>> /\ InFlight' = InFlight
        /\ \A p \in mkt' : p \in mkt \/ p \in open
    BY <1>5 DEF TakeProfitClose, PlaceMarket, Closable, Refused, CloseImpossible, exchange,
                trader, history, InFlight
  <2> QED
    BY <1>1, <2>1, Stays
<1> QED
  BY <1>2, <1>3, <1>4, <1>5 DEF TakeProfitFetch, TakeProfitConfirm, FetchFails, Goto

-----------------------------------------------------------------------------
(* What follows from it.                                                   *)

LEMMA NextOrderly ==
  ASSUME IInv, Alone, Calm, [Next]_vars
  PROVE  Orderly
<1>1. CASE Handler
  BY <1>1, AloneStages, AloneEnters, AloneCancels, AloneAdopts, AloneProtects, AloneForces,
     AloneTakesProfit DEF Handler
<1>2. CASE Environment
  BY <1>2, AloneStages, AloneStreamEnds, AloneExchange DEF Environment
<1>3. CASE UNCHANGED vars
  BY <1>3, AloneRests DEF vars, exchange, trader, history, InFlight
<1> QED
  BY <1>1, <1>2, <1>3, AloneStages, AloneEvents, AloneWatches DEF Next

LEMMA InitAlone == ASSUME Init PROVE Alone
<1>1. InFlight = {}
  BY DEF Init, EngineInit, ExchangeInit, InFlight
<1> QED
  BY <1>1, ExchangeAssumption DEF Init, EngineInit, ExchangeInit, Alone, Flat, NoStop, Pending

LEMMA Solitude == Calm => (Spec => [](IInv /\ Alone))
<1> SUFFICES ASSUME Calm PROVE Spec => [](IInv /\ Alone)
  OBVIOUS
<1>1. Init => IInv /\ Alone
  BY InitEstablishes, InitAlone
<1>2. IInv /\ Alone /\ [Next]_vars => (IInv /\ Alone)'
  BY NextKeeps, NextOrderly DEF Orderly
<1> QED
  BY <1>1, <1>2, PTL DEF Spec

\* Every open position is the one that the engine holds, or that of its pending
\* order: none is lost to a cancel, an adoption, a forced close or the end of a
\* stream, however the REST calls of the handlers interleave with the executions.
THEOREM NothingForgotten == ASSUME Calm PROVE Spec => []PositionsKnown
<1>1. IInv /\ Alone => PositionsKnown
  BY DEF IInv, ControlOK, TypeOK, EngineTypeOK, Positions, Alone, PositionsKnown
<1> QED
  BY <1>1, Solitude, PTL

\* The position that is adopted after a cancel that came too late, or from an
\* execution, is the one the tracked order opened.
THEOREM HoldsTheRightOne == ASSUME Calm PROVE Spec => []HoldsOwnPosition
<1>1. IInv /\ Alone => HoldsOwnPosition
  BY DEF IInv, ControlOK, TypeOK, EngineTypeOK, Positions, Alone, HoldsOwnPosition
<1> QED
  BY <1>1, Solitude, PTL

\* The engine implements TradeBook: one exposure at a time, and every exit
\* booked at most once and after its close, for any number of orders and with
\* refused calls, lost executions and every interruption.
THEOREM BookImplemented == ASSUME Calm PROVE Spec => OneTradeAtATime
<1>1. Init => Book!Init
  <2> SUFFICES ASSUME Init PROVE Book!Init
    OBVIOUS
  <2>1. \A p \in Entry : Life(p) = "new"
    BY LifeIs DEF Init, EngineInit, ExchangeInit
  <2> QED
    BY <2>1 DEF Book!Init, Init, EngineInit
<1>2. IInv /\ Alone /\ [Next]_vars => BookStep
  BY NextOrderly DEF Orderly
<1> QED
  BY <1>1, <1>2, Solitude, PTL DEF Spec, OneTradeAtATime, Book!Spec, BookStep

-----------------------------------------------------------------------------
(* Late executions.                                                        *)

TakingProfit == {"tp_cancel", "tp_fetch", "tp_close", "tp_confirm"}

\* What is known of the execution of the order that the engine tracks.
FillsOK ==
  /\ pos.st = "pending" => ent[pos.entry] # "cxl" \/ pos.entry \in excused
  /\ pos.st = "held" =>
       /\ pos.entry \in Entry
       /\ ~Pending(ent[pos.entry]) \/ pos.entry \in excused
       /\ pos.pid \in {None, pos.entry} \/ pos.entry \in excused
  /\ h.pc \in TakingProfit => pos.pid # None
  /\ LateFillsTracked

\* No step but a new order makes an order one that may execute.
LooseKept ==
  \A o \in Entry : /\ Pending(ent'[o]) => Pending(ent[o])
                   /\ Loose(o)' => Loose(o)

LEMMA LooseFewer ==
  ASSUME UNCHANGED ent, open' \subseteq open,
         \A e \in InFlight' : e.kind = "entry" => e \in InFlight
  PROVE  LooseKept
  BY DEF LooseKept, Loose, Announced

LEMMA LooseRests ==
  ASSUME UNCHANGED exchange
  PROVE  LooseKept
  BY LooseFewer DEF exchange, InFlight

\* The engine stays with the order and the position it has.
LEMMA FillsStay ==
  ASSUME IInv, FillsOK, LooseKept,
         \A o \in Entry : ent'[o] = "cxl" => ent[o] = "cxl" \/ o \in excused',
         pos'.st = pos.st /\ pos'.entry = pos.entry /\ pos'.pid = pos.pid,
         grace \subseteq grace' \cup excused', excused \subseteq excused',
         h'.pc \in TakingProfit => h.pc \in TakingProfit \/ pos.pid # None
  PROVE  FillsOK'
<1>1. LateFillsTracked'
  BY DEF FillsOK, LateFillsTracked, LooseKept
<1> QED
  BY <1>1 DEF FillsOK, IInv, ControlOK, LooseKept

\* It goes flat, with nothing left that may execute unremembered.
LEMMA FillsEnd ==
  ASSUME IInv, FillsOK, LooseKept, pos'.st = "flat", h'.pc \notin TakingProfit,
         grace \subseteq grace', excused \subseteq excused',
         \A o \in Entry : o = pos.entry /\ Loose(o)' => o \in grace' \cup excused'
  PROVE  FillsOK'
<1>1. LateFillsTracked'
  BY DEF FillsOK, LateFillsTracked, LooseKept
<1> QED
  BY <1>1 DEF FillsOK

\* It takes over what order o has opened.
LEMMA FillsBegin ==
  ASSUME IInv, FillsOK, LooseKept, NEW o \in Entry,
         pos'.st = "held" /\ pos'.entry = o, h'.pc \notin TakingProfit,
         pos.st = "flat" \/ pos.entry = o,
         ~Pending(ent'[o]) \/ o \in excused', pos'.pid \in {None, o} \/ o \in excused',
         grace \subseteq grace' \cup {o}, excused \subseteq excused'
  PROVE  FillsOK'
<1>1. LateFillsTracked'
  BY DEF FillsOK, LateFillsTracked, LooseKept
<1> QED
  BY <1>1 DEF FillsOK

\* None of the helpers of a handler starts a take-profit.
LEMMA HelpersTakeNoProfit ==
  ASSUME EngineTypeOK
  PROVE  /\ Idle.pc \notin TakingProfit
         /\ \A r \in Stages : Resume(r).pc \notin TakingProfit
         /\ \A r \in Stages, c \in {"cancel", "stop"} : Call(c, r).pc \notin TakingProfit
         /\ \A p \in Positions, b \in {"stop", "watchdog"}, r \in Stages :
              ForceClose(p, b, r).pc \notin TakingProfit
<1> USE ControlTypes, TraderAssumption DEF TakingProfit
<1>1. Idle.pc \notin TakingProfit
  BY DEF Idle
<1>2. \A r \in Stages : Resume(r).pc \notin TakingProfit
  BY DEF Stages
<1>3. \A r \in Stages, c \in {"cancel", "stop"} : Call(c, r).pc \notin TakingProfit
  BY DEF Calls
<1>4. \A p \in Positions, b \in {"stop", "watchdog"}, r \in Stages :
        ForceClose(p, b, r).pc \notin TakingProfit
  OBVIOUS
<1> QED
  BY <1>1, <1>2, <1>3, <1>4

LEMMA PlaceStopTakesNoProfit ==
  ASSUME EngineTypeOK, NEW p \in Positions, NEW r \in Stages,
         PlaceStopOrders(p, wd, r) \/ StartForceClose(p, wd, r)
  PROVE  h'.pc \notin TakingProfit
  BY HelpersTakeNoProfit DEF PlaceStopOrders, StartForceClose

LEMMA MakeSafeTakesNoProfit ==
  ASSUME EngineTypeOK, NEW r \in Stages
  PROVE  MakeSafe(r).pc \notin TakingProfit
<1>1. pos \in Positions
  BY DEF EngineTypeOK
<1> QED
  BY <1>1, HelpersTakeNoProfit DEF MakeSafe

-----------------------------------------------------------------------------
(* The steps.                                                              *)

LEMMA FillsStages ==
  ASSUME IInv, FillsOK,
         \/ BoardUpdate \/ ManualStage \/ PreStage \/ GuardStage \/ PendingStage
         \/ HeldStage \/ NoEntry \/ RateLimited \/ AfterStopStage
  PROVE  FillsOK'
<1>1. UNCHANGED <<exchange, pos, grace, excused>>
  BY DEF BoardUpdate, ManualStage, PreStage, GuardStage, PendingStage, HeldStage, NoEntry,
         RateLimited, AfterStopStage, Goto, trader, history
<1>2. /\ \A r \in {"pre", "guard", "trade", "late", "idle"} : r \in Stages
      /\ EngineTypeOK /\ pos \in Positions
  BY DEF Stages, IInv, TypeOK, EngineTypeOK
<1>3. h'.pc \in TakingProfit => pos.pid # None
  <2>1. CASE BoardUpdate
    BY <2>1 DEF BoardUpdate, TakingProfit, Idle
  <2>2. CASE ManualStage \/ PreStage
    BY <1>2, <2>2, HelpersTakeNoProfit, MakeSafeTakesNoProfit DEF ManualStage, PreStage, Goto
  <2>3. CASE GuardStage
    <3>1. /\ Call("cancel", "trade") \in Handlers /\ Resume("trade") \in Handlers
          /\ Call("cancel", "trade").pc \notin TakingProfit
          /\ Resume("trade").pc \notin TakingProfit
      BY <1>2, HelpersTakeNoProfit, ControlTypes, TraderAssumption DEF Calls
    <3>2. \E next \in Handlers, blk \in BOOLEAN :
            h' = [next EXCEPT !.blk = blk] /\ next.pc \notin TakingProfit
      BY <2>3, <3>1 DEF GuardStage
    <3> QED
      BY <3>2 DEF Handlers
  <2>4. CASE PendingStage \/ NoEntry \/ RateLimited
    BY <1>2, <2>4, HelpersTakeNoProfit DEF PendingStage, NoEntry, RateLimited, Goto
  <2>5. CASE HeldStage
    BY <2>5, HelpersTakeNoProfit, <1>2 DEF HeldStage, Goto
  <2>6. CASE AfterStopStage
    BY <1>2, <2>6, HelpersTakeNoProfit, PlaceStopTakesNoProfit DEF AfterStopStage
  <2> QED
    BY <2>1, <2>2, <2>3, <2>4, <2>5, <2>6
<1>4. LooseKept /\ UNCHANGED ent
  BY <1>1, LooseRests DEF exchange
<1> QED
  BY <1>1, <1>3, <1>4, FillsStay

LEMMA FillsWatch ==
  ASSUME IInv, FillsOK, Watchdog \/ (\E p \in Entry : Timer(p))
  PROVE  FillsOK'
<1>1. UNCHANGED <<exchange, pos, grace, excused>>
  BY DEF Watchdog, WatchdogTick, WatchdogClears, WatchdogCloses, WatchdogRetries, Timer,
         PlaceStopOrders, history
<1>2. UNCHANGED h \/ h'.pc \notin TakingProfit
  BY PlaceStopTakesNoProfit
  DEF Watchdog, WatchdogClears, WatchdogCloses, WatchdogRetries, Timer, Stages, IInv,
      TypeOK, EngineTypeOK
<1>3. LooseKept /\ UNCHANGED ent
  BY <1>1, LooseRests DEF exchange
<1> QED
  BY <1>1, <1>2, <1>3, FillsStay

LEMMA FillsSwitches ==
  ASSUME IInv, FillsOK,
         \/ CoolExpires \/ (\E o \in Entry : GraceExpires(o))
         \/ (\E on \in BOOLEAN : ManualStop(on))
         \/ EquityCheck \/ EquityRequest \/ GuardClear \/ PauseDecided
  PROVE  FillsOK'
<1>1. /\ UNCHANGED <<exchange, pos, h>> /\ grace \subseteq grace' \cup excused'
      /\ excused \subseteq excused'
  BY DEF CoolExpires, GraceExpires, ManualStop, EquityCheck, EquityRequest, GuardClear,
         PauseDecided, Loop, history
<1>2. LooseKept /\ UNCHANGED ent
  BY <1>1, LooseRests DEF exchange
<1> QED
  BY <1>1, <1>2, FillsStay

LEMMA FillsStreamEnds ==
  ASSUME IInv, FillsOK, LoseEvents \/ Paused \/ Resumed
  PROVE  FillsOK'
<1>1. /\ UNCHANGED <<ent, open, pos, h, grace>> /\ wire' = <<>>
      /\ excused \subseteq excused'
  BY DEF LoseEvents, Paused, Resumed, DropEvents, Loop, trader
<1>2. InFlight' = {}
  BY <1>1 DEF InFlight
<1> QED
  BY <1>1, <1>2, LooseFewer, FillsStay

LEMMA FillsExchange ==
  ASSUME IInv, FillsOK, Exchange
  PROVE  FillsOK'
<1>1. UNCHANGED <<pos, h, grace, excused>> /\ ExchangeStep
  BY DEF Exchange, trader, history
<1>2. ASSUME NEW o \in Entry, FillEntry(o)
      PROVE  LooseKept /\ \A q \in Entry : ent'[q] = "cxl" => ent[q] = "cxl"
  <2>1. PICK pid \in {o, None} :
          wire' = Append(wire, [kind |-> "entry", id |-> o, pid |-> pid])
    BY <1>2 DEF FillEntry
  <2> DEFINE e == [kind |-> "entry", id |-> o, pid |-> pid]
  <2>2. e \in Event
    BY DEF Event
  <2>3. InFlight' = InFlight \cup {e}
    BY <2>1, <2>2, AppendEvent DEF IInv, TypeOK
  <2>4. /\ ent' = [ent EXCEPT ![o] = "filled"] /\ open' = open \cup {o}
        /\ Pending(ent[o])
    BY <1>2 DEF FillEntry
  <2> QED
    BY <2>3, <2>4 DEF LooseKept, Loose, Announced, Pending, IInv, TypeOK, ExchangeTypeOK
<1>3. ASSUME NEW o \in Entry, CancelEntryDone(o)
      PROVE  LooseKept /\ \A q \in Entry : ent'[q] = "cxl" => ent[q] = "cxl"
  BY <1>3 DEF CancelEntryDone, LooseKept, Loose, Announced, Pending, InFlight, IInv, TypeOK,
              ExchangeTypeOK
<1>4. ASSUME NEW s \in Stop, FillStop(s)
      PROVE  LooseKept /\ UNCHANGED ent
  <2> DEFINE e == [kind |-> "stop", id |-> s, pid |-> stop[s].pid]
  <2>1. stop[s].pid \in Entry
    BY <1>4 DEF FillStop, IInv, ExchangeOK, TypeOK, ExchangeTypeOK
  <2>2. e \in Event /\ wire' = Append(wire, e)
    BY <1>4, <2>1 DEF FillStop, Event
  <2>3. InFlight' = InFlight \cup {e}
    BY <2>2, AppendEvent DEF IInv, TypeOK
  <2> QED
    BY <1>4, <2>3, LooseFewer DEF FillStop, Closed
<1>5. ASSUME NEW s \in Stop, CancelStopDone(s)
      PROVE  LooseKept /\ UNCHANGED ent
  BY <1>5, LooseFewer DEF CancelStopDone, InFlight
<1>6. ASSUME NEW p \in Entry, FillMarket(p)
      PROVE  LooseKept /\ UNCHANGED ent
  BY <1>6, LooseFewer DEF FillMarket, Closed, InFlight
<1> QED
  BY <1>1, <1>2, <1>3, <1>4, <1>5, <1>6, FillsStay DEF ExchangeStep

LEMMA FillsEvents ==
  ASSUME IInv, FillsOK, Executions
  PROVE  FillsOK'
<1> DEFINE e == Head(wire)
<1>1. wire # <<>> /\ TakeEvent /\ h.pc = "idle"
  BY DEF Executions, EventHead, StopEvent, UnknownStopEvent, EntryEvent, GraceFillEvent,
         GraceFillIgnored, UnknownEntryEvent
<1>2. /\ e \in Event /\ e \in InFlight
      /\ e.kind = "entry" =>
           /\ e.id \in Entry /\ ent[e.id] = "filled"
           /\ e.pid \in {None, e.id}
      /\ e.kind = "stop" => ent[e.pid] = "filled" /\ e.pid \notin open
  BY <1>1, HeadEvent
<1>3. UNCHANGED <<ent, open>> /\ InFlight' \subseteq InFlight
  BY <1>1, TakeHead DEF TakeEvent, IInv, TypeOK
<1>4. LooseKept
  BY <1>3, LooseFewer
<1>5. CASE StopEvent
  <2>1. pos.st = "held" /\ e.kind = "stop" /\ pos.stop = e.id /\ pos.stop # None
    BY <1>2, <1>5, ExchangeAssumption DEF StopEvent, EventHead, Event
  <2>2. pos.pid = e.pid
    BY <1>2, <2>1 DEF IInv, StopBelongs
  <2>3. pos.pid # None
    BY <1>2, <2>1, <2>2, ExchangeAssumption DEF Event
  <2>4. ASSUME NEW o \in Entry, o = pos.entry, Loose(o)'
        PROVE  o \in excused'
    BY <1>2, <1>3, <1>5, <2>1, <2>2, <2>3, <2>4
    DEF FillsOK, Loose, Pending, StopEvent
  <2>5. pos'.st = "flat" /\ h'.pc \notin TakingProfit
    BY <1>1, <1>5 DEF StopEvent, Settle, GoFlat, Flat, TakingProfit
  <2> QED
    BY <1>4, <1>5, <2>4, <2>5, FillsEnd DEF StopEvent
<1>6. CASE EntryEvent \/ GraceFillEvent
  <2> DEFINE p == Held(e.id, e.pid)
  <2>1. /\ e.kind = "entry" /\ HoldAfterFill(p)
        /\ pos.st = "flat" \/ pos.entry = e.id
        /\ grace \subseteq grace' \cup {e.id} /\ excused \subseteq excused'
    BY <1>6 DEF EntryEvent, GraceFillEvent, EventHead, history
  <2>2. p \in Positions /\ p.st = "held" /\ p.entry = e.id /\ p.pid = e.pid
    BY <1>2, <2>1 DEF Held, Positions
  <2> HIDE DEF p
  <2>3. pos' = p /\ (UNCHANGED h \/ PlaceStopOrders(p, wd, "idle"))
    BY <2>1 DEF HoldAfterFill, PlaceStopOrders
  <2>4. h'.pc \notin TakingProfit
    BY <1>1, <2>2, <2>3, PlaceStopTakesNoProfit DEF TakingProfit, Stages, IInv, TypeOK
  <2>5. ~Pending(ent'[e.id])
    BY <1>2, <1>3, <2>1 DEF Pending
  <2> QED
    BY <1>2, <1>4, <2>1, <2>2, <2>3, <2>4, <2>5, FillsBegin
<1>7. CASE UnknownStopEvent \/ GraceFillIgnored \/ UnknownEntryEvent
  <2>1. /\ UNCHANGED <<pos, h>> /\ grace \subseteq grace' \cup excused'
        /\ excused \subseteq excused'
    BY <1>7 DEF UnknownStopEvent, GraceFillIgnored, UnknownEntryEvent, trader, history
  <2> QED
    BY <1>3, <1>4, <2>1, FillsStay
<1> QED
  BY <1>5, <1>6, <1>7 DEF Executions

LEMMA FillsEnter ==
  ASSUME IInv, FillsOK, NEW o \in Entry, NEW r \in {"ok", "error"}, EnterRealLimit(o, r)
  PROVE  FillsOK'
<1>1. /\ ent' = [ent EXCEPT ![o] = "live"] /\ ent'[o] = "live" /\ ent \in [Entry -> Status]
      /\ UNCHANGED <<open, grace>> /\ InFlight' = InFlight
      /\ h' = Idle /\ pos.st = "flat"
  BY DEF EnterRealLimit, PlaceEntry, EntryStage, InFlight, IInv, TypeOK, ExchangeTypeOK
<1>2. \/ /\ pos' = [Flat EXCEPT !.st = "pending", !.entry = o]
         /\ excused' = excused
      \/ pos' = pos /\ excused' = excused \cup {o}
  BY DEF EnterRealLimit
<1>3. \A q \in Entry \ {o} : Loose(q)' => Loose(q)
  BY <1>1 DEF Loose, Announced
<1>4. LateFillsTracked'
  BY <1>1, <1>2, <1>3 DEF FillsOK, LateFillsTracked, Flat
<1> QED
  BY <1>1, <1>2, <1>4, HelpersTakeNoProfit DEF FillsOK, Flat, IInv, TypeOK

\* An accepted cancel leaves the order to the grace period; one whose answer was
\* lost may take effect all the same.
LEMMA FillsCancel == ASSUME IInv, FillsOK, CancelCall PROVE FillsOK'
<1>1. pos.st = "pending" /\ pos.entry \in Entry /\ h.ret \in Stages
  BY DEF CancelCall, IInv, ControlOK, TypeOK, EngineTypeOK, Handlers
<1>2. h'.pc \notin TakingProfit
  BY <1>1, HelpersTakeNoProfit
  DEF CancelCall, CancelFails, CancelRefused, Return, TakingProfit, IInv, TypeOK,
      EngineTypeOK, Handlers
<1>3. PICK r : CancelEntry(pos.entry, r)
  BY DEF CancelCall, CancelFails, CancelRefused
<1>4. /\ UNCHANGED open /\ InFlight' = InFlight
      /\ \/ UNCHANGED ent
         \/ ent[pos.entry] = "live" /\ \E st : ent' = [ent EXCEPT ![pos.entry] = st]
  BY <1>3 DEF CancelEntry, Refused, exchange, InFlight
<1>5. ent \in [Entry -> Status]
  BY DEF IInv, TypeOK, ExchangeTypeOK
<1>6. LooseKept
  BY <1>1, <1>4, <1>5 DEF LooseKept, Loose, Announced, Pending
<1>7. CASE GoFlat /\ grace' = grace \cup {pos.entry} /\ UNCHANGED excused
  BY <1>1, <1>2, <1>6, <1>7, FillsEnd DEF GoFlat, Flat
<1>8. CASE CancelFails \/ CancelRefused
  <2>1. UNCHANGED <<pos, grace>> /\ excused \subseteq excused'
    BY <1>8 DEF CancelFails, CancelRefused
  <2>2. \A o \in Entry : ent'[o] = "cxl" => ent[o] = "cxl" \/ o \in excused'
    <3>1. CASE UNCHANGED ent
      BY <3>1
    <3>2. CASE ent' # ent
      <4>1. excused' = excused \cup {pos.entry}
        BY <1>8, <3>2 DEF CancelFails, CancelRefused, CancelEntry, Refused, exchange
      <4> QED
        BY <1>4, <1>5, <3>2, <4>1
    <3> QED
      BY <3>1, <3>2
  <2> QED
    BY <1>2, <1>6, <2>1, <2>2, FillsStay
<1> QED
  BY <1>7, <1>8 DEF CancelCall

LEMMA FillsFetch == ASSUME IInv, FillsOK, CancelFetch PROVE FillsOK'
<1>1. /\ pos.st = "pending" /\ pos.entry \in Entry /\ h.ret \in Stages
      /\ pos.entry \in excused \/ ~Pending(ent[pos.entry])
  BY DEF CancelFetch, IInv, ControlOK, TypeOK, EngineTypeOK, Handlers, FillsOK, Pending
<1>2. UNCHANGED <<exchange, grace>> /\ LooseKept /\ UNCHANGED <<ent, open>>
  BY LooseRests DEF CancelFetch, FetchFails, exchange
<1>3. CASE FetchFails /\ Return /\ UNCHANGED <<pos, excused>>
  <2>1. h'.pc \notin TakingProfit
    BY <1>1, <1>3, HelpersTakeNoProfit DEF Return, IInv, TypeOK
  <2> QED
    BY <1>2, <1>3, <2>1, FillsStay
<1>4. CASE open = {} /\ GoFlat /\ Return /\ UNCHANGED excused
  <2>1. h'.pc \notin TakingProfit /\ pos'.st = "flat"
    BY <1>1, <1>4, HelpersTakeNoProfit DEF Return, GoFlat, Flat, IInv, TypeOK
  <2>2. ASSUME NEW o \in Entry, o = pos.entry, Loose(o)'
        PROVE  o \in excused'
    BY <1>1, <1>2, <1>4, <2>2 DEF Loose
  <2> QED
    BY <1>2, <1>4, <2>1, <2>2, FillsEnd
<1>5. ASSUME NEW p \in open, PlaceStopOrders(Held(pos.entry, p), wd, h.ret),
             excused' = excused \cup ({pos.entry} \ {p})
      PROVE  FillsOK'
  <2>1. p \in Entry
    BY DEF IInv, TypeOK, ExchangeTypeOK
  <2>2. /\ pos' = Held(pos.entry, p) /\ Held(pos.entry, p) \in Positions
        /\ pos'.st = "held" /\ pos'.entry = pos.entry /\ pos'.pid = p
    BY <1>1, <1>5, <2>1 DEF PlaceStopOrders, Held, Positions
  <2>3. h'.pc \notin TakingProfit
    BY <1>1, <1>5, <2>2, PlaceStopTakesNoProfit DEF IInv, TypeOK
  <2> QED
    BY <1>1, <1>2, <1>5, <2>2, <2>3, FillsBegin
<1> QED
  BY <1>3, <1>4, <1>5 DEF CancelFetch

\* The calls for the STOP and the close of a position leave the entry orders.
LEMMA FillsCalls ==
  ASSUME IInv, FillsOK,
         \/ StopCall \/ ForceCancel \/ ForceClosePlace
         \/ TakeProfitCancel \/ TakeProfitClose
  PROVE  FillsOK'
<1>1. UNCHANGED <<ent, open, grace, excused>> /\ InFlight' = InFlight
  BY DEF StopCall, ForceCancel, ForceClosePlace, TakeProfitCancel, TakeProfitClose,
         CancelStop, PlaceStop, PlaceMarket, Refused, CloseImpossible, exchange, trader,
         history, InFlight
<1>2. pos'.st = pos.st /\ pos'.entry = pos.entry /\ pos'.pid = pos.pid
  <2>1. UNCHANGED pos \/ \E s : pos' = [pos EXCEPT !.stop = s]
    BY DEF StopCall, StopFailed, ForceCancel, ForceClosePlace, TakeProfitCancel,
           TakeProfitClose, trader
  <2>2. pos \in Positions
    BY DEF IInv, TypeOK, EngineTypeOK
  <2> QED
    BY <2>1, <2>2 DEF Positions
<1>3. h'.pc \in TakingProfit => h.pc \in TakingProfit
  <2>1. h.ret \in Stages /\ h \in Handlers
    BY DEF IInv, TypeOK, EngineTypeOK, Handlers
  <2>2. Resume(h.ret).pc \notin TakingProfit
    BY <2>1, HelpersTakeNoProfit DEF IInv, TypeOK
  <2>3. AttemptFails => h'.pc \notin TakingProfit
    BY <2>1, <2>2 DEF AttemptFails, Return, TakingProfit, Handlers
  <2>4. CASE StopCall
    BY <2>2, <2>4 DEF StopCall, Return
  <2>5. CASE ForceCancel
    BY <2>1, <2>5 DEF ForceCancel, Handlers, TakingProfit
  <2>6. CASE ForceClosePlace
    BY <2>1, <2>3, <2>6 DEF ForceClosePlace, Handlers, TakingProfit
  <2>7. CASE TakeProfitCancel \/ TakeProfitClose
    BY <2>7 DEF TakeProfitCancel, TakeProfitClose, TakingProfit
  <2> QED
    BY <2>4, <2>5, <2>6, <2>7
<1> QED
  BY <1>1, <1>2, <1>3, LooseFewer, FillsStay

LEMMA FillsForced == ASSUME IInv, FillsOK, ForceFetch \/ ForceConfirm PROVE FillsOK'
<1>1. pos.st = "held" /\ h.ret \in Stages /\ h \in Handlers
  BY DEF ForceFetch, ForceConfirm, IInv, ControlOK, Calls, TypeOK, EngineTypeOK, Handlers
<1>2. UNCHANGED <<exchange, grace, excused>> /\ LooseKept /\ UNCHANGED <<ent, open>>
  BY LooseRests DEF ForceFetch, ForceConfirm, history, exchange
<1>3. h'.pc \notin TakingProfit
  <2>1. Resume(h.ret).pc \notin TakingProfit
    BY <1>1, HelpersTakeNoProfit DEF IInv, TypeOK
  <2> QED
    BY <1>1, <2>1
    DEF ForceFetch, ForceConfirm, AttemptFails, ForceCloseDone, Return, TakingProfit,
        Handlers
<1>4. CASE UNCHANGED pos
  BY <1>2, <1>3, <1>4, FillsStay
<1>5. CASE open = {} /\ pos' = Flat
  <2>1. ASSUME NEW o \in Entry, o = pos.entry, Loose(o)'
        PROVE  o \in excused'
    BY <1>1, <1>2, <1>5, <2>1 DEF FillsOK, Loose
  <2> QED
    BY <1>2, <1>3, <1>5, <2>1, FillsEnd DEF Flat
<1> QED
  BY <1>4, <1>5 DEF ForceFetch, ForceConfirm, Settle, GoFlat

LEMMA FillsTakeProfit ==
  ASSUME IInv, FillsOK, TakeProfitFetch \/ TakeProfitConfirm
  PROVE  FillsOK'
<1>1. /\ pos.st = "held" /\ pos.pid # None /\ pos \in Positions
      /\ h.pc \in TakingProfit
  BY DEF TakeProfitFetch, TakeProfitConfirm, FillsOK, TakingProfit, IInv, ControlOK, Calls,
         TypeOK, EngineTypeOK
<1>2. UNCHANGED <<exchange, grace, excused>> /\ LooseKept /\ UNCHANGED <<ent, open>>
  BY LooseRests
  DEF TakeProfitFetch, TakeProfitConfirm, SettleIfGone, FetchFails, Goto, trader, history,
      exchange
<1>3. CASE UNCHANGED trader
  BY <1>1, <1>2, <1>3, FillsStay DEF trader
<1>4. CASE SettleIfGone
  <2>1. pos.pid \in Entry /\ ent[pos.pid] = "filled" /\ pos.pid \notin open
    BY <1>1, <1>4 DEF SettleIfGone, IInv, BooksOK, Positions
  <2>2. ASSUME NEW o \in Entry, o = pos.entry, Loose(o)'
        PROVE  o \in excused'
    BY <1>1, <1>2, <2>1, <2>2 DEF FillsOK, Loose, Pending
  <2>3. pos'.st = "flat" /\ h'.pc \notin TakingProfit
    BY <1>4, HelpersTakeNoProfit DEF SettleIfGone, Settle, GoFlat, Flat, IInv, TypeOK
  <2> QED
    BY <1>2, <2>2, <2>3, FillsEnd
<1> QED
  BY <1>3, <1>4 DEF TakeProfitFetch, TakeProfitConfirm, Goto

LEMMA FillsNext == ASSUME IInv, FillsOK, [Next]_vars PROVE FillsOK'
<1>1. CASE Handler
  BY <1>1, FillsStages, FillsEnter, FillsCancel, FillsFetch, FillsCalls, FillsForced,
     FillsTakeProfit DEF Handler
<1>2. CASE Environment
  BY <1>2, FillsSwitches, FillsStreamEnds, FillsExchange DEF Environment
<1>3. CASE UNCHANGED vars
  <2>1. UNCHANGED <<exchange, pos, grace, h, excused>>
    BY <1>3 DEF vars, trader, history
  <2>2. LooseKept /\ UNCHANGED ent
    BY <2>1, LooseRests DEF exchange
  <2> QED
    BY <2>1, <2>2, FillsStay
<1> QED
  BY <1>1, <1>2, <1>3, FillsStages, FillsEvents, FillsWatch DEF Next

LEMMA InitFills == ASSUME Init PROVE FillsOK
<1>1. InFlight = {} /\ open = {} /\ \A o \in Entry : ent[o] = "none"
  BY DEF Init, ExchangeInit, InFlight
<1>2. LateFillsTracked
  BY <1>1 DEF LateFillsTracked, Loose, Announced, Pending
<1> QED
  BY <1>2 DEF Init, EngineInit, FillsOK, Flat, Idle, TakingProfit

\* An execution never meets an engine that has forgotten the order, under every
\* fault: whatever may still execute, or has executed unheard, is tracked,
\* remembered for the grace period, or one of the excused.
THEOREM NoFillUnexpected == Spec => []LateFillsTracked
<1>1. Init => IInv /\ FillsOK
  BY InitEstablishes, InitFills
<1>2. IInv /\ FillsOK /\ [Next]_vars => (IInv /\ FillsOK)'
  BY NextKeeps, FillsNext
<1>3. IInv /\ FillsOK => LateFillsTracked
  BY DEF FillsOK
<1> QED
  BY <1>1, <1>2, <1>3, PTL DEF Spec
=============================================================================
