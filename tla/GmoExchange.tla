---------------------------- MODULE GmoExchange ----------------------------
(***************************************************************************)
(* The exchange (GMO Coin leverage API) as the engine uses it: entry       *)
(* orders, one standing STOP per position, MARKET closes, openPositions,   *)
(* and the executionEvents stream of the private WebSocket.  It is an      *)
(* external service: everything here is inferred from the calls, error     *)
(* codes and comments of virtual_trader.py and websocket_manager.py.       *)
(*                                                                         *)
(* An entry order executes at most once and then opens one position, so a  *)
(* position is named by the entry order that opened it.  A cancel that is  *)
(* accepted need not have happened yet: the order may still fill ("cxl").  *)
(* The id of a STOP is used again once nothing refers to it.               *)
(***************************************************************************)
EXTENDS Sequences, Naturals

CONSTANTS
  Entry,    \* entry orders (bound: each is sent at most once)
  Stop,     \* STOP close orders (bound: the STOPs anything refers to at a time)
  None,
  Fault     \* subset of Faults: what may go wrong on the way

Faults ==
  { "late_fill",    \* an order executes after its cancel was accepted
    "reject",       \* a REST call fails and has no effect at GMO
    "maintenance",  \* ... with the maintenance codes ERR-5201/5202
    "lost_reply",   \* a REST call takes effect but its answer is lost
    "lost_event",   \* the private WebSocket drops queued events (reconnect)
    "no_pid" }      \* an execution event carries no positionId

ASSUME ExchangeAssumption ==
  /\ Fault \subseteq Faults
  /\ None \notin Entry \cup Stop

VARIABLES
  ent,    \* status of each entry order
  stop,   \* status and position of each STOP order
  mkt,    \* positions with an accepted MARKET close that has not executed
  open,   \* open positions
  wire    \* executionEvents sent and not yet handled, oldest first

exchange == <<ent, stop, mkt, open, wire>>

Status == {"none", "live", "cxl", "filled", "gone"}
NoStop == [st |-> "none", pid |-> None]   \* not sent, or executed or void
Event == [kind : {"entry"}, id : Entry, pid : Entry \cup {None}]
           \cup [kind : {"stop"}, id : Stop, pid : Entry]

ExchangeTypeOK ==
  /\ ent \in [Entry -> Status]
  /\ stop \in [Stop -> [st : {"none", "live", "cxl"}, pid : Entry \cup {None}]]
  /\ mkt \subseteq Entry
  /\ open \subseteq Entry
  /\ wire \in Seq(Event)

\* The events on their way.
InFlight == {wire[i] : i \in 1..Len(wire)}

ExchangeInit ==
  /\ ent = [o \in Entry |-> "none"]
  /\ stop = [s \in Stop |-> NoStop]
  /\ mkt = {}
  /\ open = {}
  /\ wire = <<>>

-----------------------------------------------------------------------------
(* REST calls: what a call with answer r does to the exchange.             *)

Pending(st) == st \in {"live", "cxl"}

\* A failed call: refused without effect.
Refused(r) == r = "error" /\ "reject" \in Fault /\ UNCHANGED exchange

\* order (LIMIT, SOK)
PlaceEntry(o, r) ==
  /\ ent[o] = "none"
  /\ r = "ok" \/ (r = "error" /\ "lost_reply" \in Fault)
  /\ ent' = [ent EXCEPT ![o] = "live"]
  /\ UNCHANGED <<stop, mkt, open, wire>>

\* cancelOrder of an entry order; ERR-5122/5123 are the benign answers.
CancelEntry(o, r) ==
  \/ Refused(r)
  \/ /\ ent[o] = "live"
     /\ r = "ok" \/ (r = "error" /\ "lost_reply" \in Fault)
     /\ \/ ent' = [ent EXCEPT ![o] = "gone"]
        \/ "late_fill" \in Fault /\ ent' = [ent EXCEPT ![o] = "cxl"]
     /\ UNCHANGED <<stop, mkt, open, wire>>
  \/ /\ ent[o] # "live"
     /\ r = "benign"
     /\ UNCHANGED exchange

\* cancelOrder of a STOP close order.
CancelStop(s, r) ==
  \/ Refused(r)
  \/ /\ stop[s].st = "live"
     /\ r = "ok" \/ (r = "error" /\ "lost_reply" \in Fault)
     /\ \/ stop' = [stop EXCEPT ![s] = NoStop]
        \/ "late_fill" \in Fault /\ stop' = [stop EXCEPT ![s].st = "cxl"]
     /\ UNCHANGED <<ent, mkt, open, wire>>
  \/ /\ stop[s].st # "live"
     /\ r = "benign"
     /\ UNCHANGED exchange

\* Size that no other close order holds (ERR-200 otherwise).
Closable(p) ==
  /\ p \in open \ mkt
  /\ \A s \in Stop : stop[s].pid = p => stop[s].st # "live"

Fresh(s) ==
  /\ stop[s] = NoStop
  /\ \A e \in InFlight : e.kind = "stop" => e.id # s

\* closeOrder (STOP) for position p, given the order id s.
PlaceStop(p, s, r) ==
  /\ Fresh(s)
  /\ Closable(p)
  /\ r = "ok" \/ (r = "error" /\ "lost_reply" \in Fault)
  /\ stop' = [stop EXCEPT ![s] = [st |-> "live", pid |-> p]]
  /\ UNCHANGED <<ent, mkt, open, wire>>

\* closeOrder (MARKET) for position p.
PlaceMarket(p, r) ==
  /\ Closable(p)
  /\ r = "ok" \/ (r = "error" /\ "lost_reply" \in Fault)
  /\ mkt' = mkt \cup {p}
  /\ UNCHANGED <<ent, stop, open, wire>>

\* A closeOrder for a position that is gone, or whose size is taken.
CloseImpossible(p) == ~Closable(p) /\ UNCHANGED exchange

-----------------------------------------------------------------------------
(* What the exchange does on its own.                                      *)

FillEntry(o) ==
  /\ Pending(ent[o])
  /\ ent' = [ent EXCEPT ![o] = "filled"]
  /\ open' = open \cup {o}
  /\ \E pid \in {o} \cup (IF "no_pid" \in Fault THEN {None} ELSE {}) :
       wire' = Append(wire, [kind |-> "entry", id |-> o, pid |-> pid])
  /\ UNCHANGED <<stop, mkt>>

CancelEntryDone(o) ==
  /\ ent[o] = "cxl"
  /\ ent' = [ent EXCEPT ![o] = "gone"]
  /\ UNCHANGED <<stop, mkt, open, wire>>

\* Position p is closed: every close order of p is void.
Closed(p) ==
  /\ open' = open \ {p}
  /\ mkt' = mkt \ {p}
  /\ stop' = [s \in Stop |-> IF stop[s].pid = p THEN NoStop ELSE stop[s]]

FillStop(s) ==
  /\ Pending(stop[s].st)
  /\ Closed(stop[s].pid)
  /\ wire' = Append(wire, [kind |-> "stop", id |-> s, pid |-> stop[s].pid])
  /\ UNCHANGED ent

CancelStopDone(s) ==
  /\ stop[s].st = "cxl"
  /\ stop' = [stop EXCEPT ![s] = NoStop]
  /\ UNCHANGED <<ent, mkt, open, wire>>

\* The event of a MARKET close carries an order id the engine never
\* compares with, so it is not put on the wire.
FillMarket(p) ==
  /\ p \in mkt
  /\ Closed(p)
  /\ UNCHANGED <<ent, wire>>

ExchangeStep ==
  \/ \E o \in Entry : FillEntry(o) \/ CancelEntryDone(o)
  \/ \E s \in Stop : FillStop(s) \/ CancelStopDone(s)
  \/ \E p \in Entry : FillMarket(p)
=============================================================================
