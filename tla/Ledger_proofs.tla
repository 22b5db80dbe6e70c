--------------------------- MODULE Ledger_proofs ---------------------------
(***************************************************************************)
(* Proofs about Ledger for any prices, limits, days, exits and starts.     *)
(***************************************************************************)
EXTENDS Ledger, TLAPS

Cost(pos) == IF pos.side = "LONG" THEN pos.price ELSE 0

\* Cash that the books do not expect.
Surplus(l, pos) == l.cash + Cost(pos) - InitialCash - l.cumulative

Spent(l) == l.dayProfit < 0 /\ OverLimit(l)

TypesOK ==
  /\ ledger \in Ledgers /\ position \in Positions /\ exits \in Nat
  /\ row.ledger \in Ledgers /\ row.position \in Positions /\ row.exits \in Nat
  /\ flag \in BOOLEAN /\ excused \in BOOLEAN
  /\ recent \in Nat /\ placed \in Nat /\ today \in 0..MaxDays

\* The surplus of the state, and of the row a start may go back to.
CashInv ==
  /\ 0 <= Surplus(ledger, position) /\ Surplus(ledger, position) <= exits
  /\ 0 <= Surplus(row.ledger, row.position) /\ Surplus(row.ledger, row.position) <= row.exits

\* Losses over the limit have set the flag: those of the ledger, and those
\* of a row of today, which a start would restore.
LimitInv ==
  /\ row.ledger.day <= ledger.day /\ ledger.day <= today
  /\ Spent(ledger) => flag \/ excused
  /\ row.ledger.day = today /\ Spent(row.ledger) => flag \/ excused

RateInv == placed <= recent /\ recent <= RateLimit + 1

\* What a board may do to the trader.
Moves ==
  \/ position.side # "none" /\ (Cancel \/ \E price \in Int : Exit(price))
  \/ \E b \in Boards : Fill(b)
  \/ TooMany
  \/ /\ ~flag /\ position = Flat /\ recent <= RateLimit
     /\ \E side \in {"LONG", "SHORT"}, price \in Int : Place(side, price)

-----------------------------------------------------------------------------
(* Records and prices.                                                     *)

LEMMA Numbers ==
  /\ Bids \subseteq Int /\ Spread \in Int /\ Wide \in Int /\ Offset \in Int
  /\ Profit \in Int /\ InitialCash \in Int /\ RateLimit \in Nat /\ MaxDays \in Nat
BY LedgerAssumption

LEMMA FloorBounds ==
  ASSUME NEW profit \in Int
  PROVE  Floored(profit) \in Int /\ 0 <= profit - Floored(profit) /\ profit - Floored(profit) <= 1
BY DEF Floored

LEMMA CostInt == ASSUME NEW pos \in Positions PROVE Cost(pos) \in Int
BY DEF Cost, Positions, Flat

LEMMA FlatCost == Flat \in Positions /\ Flat.side = "none" /\ Cost(Flat) = 0
BY DEF Cost, Positions, Flat

LEMMA Open ==
  ASSUME NEW pos \in Positions, pos.side # "none"
  PROVE  pos.side \in {"LONG", "SHORT"} /\ pos.price \in Int /\ pos.pending \in BOOLEAN
BY DEF Positions, Flat

LEMMA BookedIs ==
  ASSUME NEW profit \in Int, ledger \in Ledgers, position \in Positions
  PROVE  /\ Booked(profit) \in Ledgers
         /\ Booked(profit).cash = ledger.cash + profit + Cost(position)
         /\ Booked(profit).cumulative = ledger.cumulative + Floored(profit)
         /\ Booked(profit).day = ledger.day
<1> DEFINE c == ledger.cash + profit + Cost(position)
           d == ledger.cumulative + Floored(profit)
           e == ledger.dayProfit + Floored(profit)
           new == [ledger EXCEPT !.cash = c, !.cumulative = d, !.dayProfit = e]
<1>1. c \in Int /\ d \in Int /\ e \in Int
  <2>1. Cost(position) \in Int /\ Floored(profit) \in Int
    BY CostInt, FloorBounds
  <2> HIDE DEF Cost, Floored
  <2> QED BY <2>1 DEF Ledgers
<1>2. Booked(profit) = new
  BY DEF Booked, Cost
<1> HIDE DEF c, d, e
<1>3. new \in Ledgers /\ new.cash = c /\ new.cumulative = d /\ new.day = ledger.day
  BY <1>1 DEF Ledgers
<1> QED
  BY <1>2, <1>3 DEF c, d

LEMMA ReleaseIs ==
  ASSUME ledger \in Ledgers, position \in Positions
  PROVE  /\ Release \in Ledgers
         /\ Release.cash = ledger.cash + Cost(position)
         /\ Release.cumulative = ledger.cumulative /\ Release.day = ledger.day
         /\ Release.dayProfit = ledger.dayProfit /\ Release.dayStart = ledger.dayStart
<1> DEFINE c == ledger.cash + Cost(position)
           new == [ledger EXCEPT !.cash = c]
<1>1. c \in Int
  BY CostInt DEF Ledgers
<1>2. Release = new
  BY DEF Release, Cost
<1> HIDE DEF c
<1>3. /\ new \in Ledgers /\ new.cash = c /\ new.cumulative = ledger.cumulative
      /\ new.day = ledger.day /\ new.dayProfit = ledger.dayProfit
      /\ new.dayStart = ledger.dayStart
  BY <1>1 DEF Ledgers
<1> QED
  BY <1>2, <1>3 DEF c

\* An order locks its price.
LEMMA PlaceIs ==
  ASSUME ledger \in Ledgers, NEW side \in {"LONG", "SHORT"}, NEW price \in Int, Place(side, price)
  PROVE  /\ position' \in Positions /\ position'.side = side
         /\ ledger' \in Ledgers /\ ledger'.cash = ledger.cash - Cost(position')
         /\ ledger'.cumulative = ledger.cumulative /\ ledger'.day = ledger.day
         /\ ledger'.dayProfit = ledger.dayProfit /\ ledger'.dayStart = ledger.dayStart
<1> DEFINE c == ledger.cash - (IF side = "LONG" THEN price ELSE 0)
           new == [ledger EXCEPT !.cash = c]
<1>1. c \in Int
  BY DEF Ledgers
<1>2. position' = [side |-> side, price |-> price, pending |-> TRUE] /\ ledger' = new
  BY DEF Place
<1>3. position' \in Positions /\ position'.side = side /\ c = ledger.cash - Cost(position')
  BY <1>2 DEF Positions, Cost
<1> HIDE DEF c
<1>4. /\ new \in Ledgers /\ new.cash = c /\ new.cumulative = ledger.cumulative
      /\ new.day = ledger.day /\ new.dayProfit = ledger.dayProfit
      /\ new.dayStart = ledger.dayStart
  BY <1>1 DEF Ledgers
<1> QED
  BY <1>2, <1>3, <1>4

LEMMA OfTodayIs ==
  ASSUME NEW l \in Ledgers, today \in 0..MaxDays
  PROVE  /\ OfToday(l) \in Ledgers
         /\ OfToday(l).cash = l.cash /\ OfToday(l).cumulative = l.cumulative
         /\ OfToday(l).day = today
         /\ l.day = today => OfToday(l) = l
         /\ l.day # today => OfToday(l).dayProfit = 0
<1>1. CASE l.day = today
  BY <1>1 DEF OfToday
<1>2. CASE l.day # today
  <2> DEFINE c == l.cash
             zero == 0
             new == [l EXCEPT !.day = today, !.dayStart = c, !.dayProfit = zero]
  <2>1. c \in Int /\ zero \in Int /\ OfToday(l) = new
    BY <1>2 DEF OfToday, Ledgers
  <2> HIDE DEF c, zero
  <2>2. new \in Ledgers
    BY <2>1 DEF Ledgers
  <2>3. new.cash = l.cash /\ new.cumulative = l.cumulative /\ new.day = today /\ new.dayProfit = 0
    BY DEF Ledgers, zero
  <2> QED
    BY <2>1, <2>2, <2>3, <1>2
<1> QED
  BY <1>1, <1>2

LEMMA FreshIs ==
  ASSUME NEW d \in 0..MaxDays
  PROVE  /\ Fresh(d) \in Ledgers /\ Fresh(d).cash = InitialCash /\ Fresh(d).cumulative = 0
         /\ Fresh(d).day = d /\ Fresh(d).dayProfit = 0
BY Numbers DEF Fresh, Ledgers

-----------------------------------------------------------------------------
(* A board.                                                                *)

LEMMA BoardMoves ==
  ASSUME TypesOK, Board
  PROVE  Moves /\ UNCHANGED <<up, row, today, starts, excused>>
<1> SUFFICES Moves
  BY DEF Board
<1>1. PICK b \in Boards, window \in Windows :
        \/ Unsafe(window) /\ MakeSafe(b)
        \/ /\ ~Unsafe(window)
           /\ \/ ~Blocked(window) /\ Fill(b)
              \/ (IsPending => Blocked(window) \/ ~Touched(b)) /\ Watch
              \/ Hold(b)
              \/ ~Blocked(window) /\ Enter(b)
  BY DEF Board
<1>2. b.bid \in Int /\ Ask(b) \in Int
  <2>1. b.bid \in Bids /\ b.spread \in {Spread, Wide}
    BY DEF Boards
  <2>2. b.bid \in Int
    BY <2>1, Numbers
  <2>3. b.spread \in Int
    BY <2>1, Numbers
  <2> QED
    BY <2>2, <2>3 DEF Ask
<1>3. position.side # "none" => position.price \in Int /\ position.side \in {"LONG", "SHORT"}
  BY Open DEF TypesOK
<1>4. MarketPrice(b) \in Int
  BY <1>2 DEF MarketPrice
<1>5. CASE Watch \/ MakeSafe(b)
  BY <1>4, <1>5 DEF Watch, MakeSafe, Moves, IsPending, Held
<1>6. CASE Hold(b)
  <2>1. position.side # "none"
    BY <1>6 DEF Hold, Held
  <2>2. Target(position.side, position.price) \in Int
    BY <1>3, <2>1, Numbers DEF Target
  <2> QED
    BY <1>4, <1>6, <2>1, <2>2 DEF Hold, Moves
<1>7. CASE ~Blocked(window) /\ Enter(b)
  <2>1. \A side \in {"LONG", "SHORT"} : EntryPrice(side, b) \in Int
    BY <1>2, Numbers DEF EntryPrice
  <2>2. ~flag /\ position = Flat
    BY <1>7 DEF Blocked, Enter
  <2>3. TooMany \/ \E side \in {"LONG", "SHORT"} :
          recent <= RateLimit /\ Place(side, EntryPrice(side, b))
    BY <1>7 DEF Enter
  <2> QED
    BY <2>1, <2>2, <2>3 DEF Moves
<1>8. CASE Fill(b)
  BY <1>8 DEF Moves
<1> QED
  BY <1>1, <1>5, <1>6, <1>7, <1>8

\* The effect of an exit on type and cash.
LEMMA ExitIs ==
  ASSUME TypesOK, position.side # "none", NEW price \in Int, Exit(price)
  PROVE  /\ ledger' \in Ledgers /\ ledger'.day = ledger.day
         /\ position' = Flat /\ exits' = exits + 1
         /\ flag' = (flag \/ OverLimit(ledger'))
         /\ Surplus(ledger, position) <= Surplus(ledger', position')
         /\ Surplus(ledger', position') <= Surplus(ledger, position) + 1
         /\ UNCHANGED <<recent, placed>>
<1> DEFINE profit == IF position.side = "LONG" THEN price - position.price
                                               ELSE position.price - price
<1>1. profit \in Int
  BY Open DEF TypesOK
<1>2. /\ ledger' = Booked(profit) /\ position' = Flat /\ exits' = exits + 1
      /\ flag' = (flag \/ OverLimit(ledger')) /\ UNCHANGED <<recent, placed>>
  BY DEF Exit
<1> HIDE DEF profit
<1>3. /\ ledger' \in Ledgers /\ ledger'.day = ledger.day
      /\ ledger'.cash = ledger.cash + profit + Cost(position)
      /\ ledger'.cumulative = ledger.cumulative + Floored(profit)
  BY <1>1, <1>2, BookedIs DEF TypesOK
<1>4. /\ Floored(profit) \in Int
      /\ 0 <= profit - Floored(profit) /\ profit - Floored(profit) <= 1
  BY <1>1, FloorBounds
<1>5. /\ ledger.cash \in Int /\ ledger.cumulative \in Int /\ Cost(position) \in Int
      /\ InitialCash \in Int /\ Cost(position') = 0
  BY <1>2, CostInt, FlatCost, Numbers DEF TypesOK, Ledgers
<1>6. /\ Surplus(ledger, position) = ledger.cash + Cost(position) - InitialCash - ledger.cumulative
      /\ Surplus(ledger', position') =
           ledger.cash + profit + Cost(position) - InitialCash - ledger.cumulative - Floored(profit)
  <2> HIDE DEF Cost, Floored
  <2> QED BY <1>1, <1>3, <1>4, <1>5 DEF Surplus
<1>7. /\ Surplus(ledger, position) <= Surplus(ledger', position')
      /\ Surplus(ledger', position') <= Surplus(ledger, position) + 1
  <2> HIDE DEF Cost, Floored, Surplus
  <2> QED BY <1>1, <1>4, <1>5, <1>6
<1> QED
  BY <1>2, <1>3, <1>7
-----------------------------------------------------------------------------
(* The invariants over the steps.                                          *)

IInv == TypesOK /\ CashInv /\ LimitInv /\ RateInv

\* Two ledgers with the same counters of the day.
LEMMA SpentSame ==
  ASSUME NEW l, NEW m, l.dayProfit = m.dayProfit, l.dayStart = m.dayStart
  PROVE  Spent(l) <=> Spent(m)
BY DEF Spent, OverLimit

LEMMA NoProfitNotSpent == ASSUME NEW l, l.dayProfit = 0 PROVE ~Spent(l)
BY DEF Spent

\* The row is left alone, and so is what the invariants say of it.
LEMMA RowKept ==
  ASSUME IInv, UNCHANGED <<row, today, excused>>, flag \in BOOLEAN,
         flag' \in BOOLEAN, flag => flag'
  PROVE  /\ row'.ledger \in Ledgers /\ row'.position \in Positions /\ row'.exits \in Nat
         /\ today' \in 0..MaxDays /\ excused' \in BOOLEAN
         /\ 0 <= Surplus(row.ledger, row.position)'
         /\ Surplus(row.ledger, row.position)' <= row'.exits
         /\ row'.ledger.day = today' /\ Spent(row.ledger)' => flag' \/ excused'
<1>1. Surplus(row.ledger, row.position)' = Surplus(row.ledger, row.position)
  BY DEF Surplus, Cost
<1>2. Spent(row.ledger)' = Spent(row.ledger)
  BY DEF Spent, OverLimit
<1> QED
  BY <1>1, <1>2 DEF IInv, TypesOK, CashInv, LimitInv

\* What is left to show of a step of the trader.
LEMMA RowAside ==
  ASSUME IInv, UNCHANGED <<up, row, today, starts, excused>>,
         ledger' \in Ledgers, position' \in Positions, exits' \in Nat,
         0 <= Surplus(ledger', position'), Surplus(ledger', position') <= exits',
         ledger'.day = ledger.day, Spent(ledger') => flag' \/ excused,
         flag' \in BOOLEAN, flag => flag', recent' \in Nat, placed' \in Nat, RateInv'
  PROVE  IInv'
<1>1. row' = row /\ today' = today /\ excused' = excused
  OBVIOUS
<1>2. /\ row'.ledger \in Ledgers /\ row'.position \in Positions /\ row'.exits \in Nat
      /\ today' \in 0..MaxDays /\ excused' \in BOOLEAN
      /\ 0 <= Surplus(row.ledger, row.position)'
      /\ Surplus(row.ledger, row.position)' <= row'.exits
      /\ row'.ledger.day = today' /\ Spent(row.ledger)' => flag' \/ excused'
  <2>1. flag \in BOOLEAN
    BY DEF IInv, TypesOK
  <2> QED
    BY <1>1, <2>1, RowKept
<1>3. TypesOK'
  BY <1>2 DEF TypesOK
<1>4. CashInv'
  <2>1. Surplus(ledger', position') = Surplus(ledger, position)'
    BY DEF Surplus, Cost
  <2> QED
    BY <1>2, <2>1 DEF CashInv
<1>5. LimitInv'
  <2>1. Spent(ledger') <=> Spent(ledger)'
    BY DEF Spent, OverLimit
  <2>2. row'.ledger.day <= ledger'.day /\ ledger'.day <= today'
    BY <1>1 DEF IInv, LimitInv
  <2> QED
    BY <1>1, <1>2, <2>1, <2>2 DEF LimitInv
<1> QED
  BY <1>3, <1>4, <1>5 DEF IInv

LEMMA LedgerStart == LedgerInit => IInv
<1> SUFFICES ASSUME LedgerInit PROVE IInv
  OBVIOUS
<1>1. 0 \in 0..MaxDays
  BY Numbers
<1>2. /\ ledger = Fresh(0) /\ position = Flat /\ exits = 0
      /\ row.ledger = Fresh(0) /\ row.position = Flat /\ row.exits = 0
      /\ today = 0 /\ recent = 0 /\ placed = 0 /\ flag \in BOOLEAN /\ excused \in BOOLEAN
  BY DEF LedgerInit, NoRow
<1>3. TypesOK
  BY <1>1, <1>2, FreshIs, FlatCost DEF TypesOK
<1>4. Surplus(Fresh(0), Flat) = 0
  BY <1>1, FreshIs, FlatCost, Numbers DEF Surplus
<1>5. CashInv
  BY <1>2, <1>4 DEF CashInv
<1>6. LimitInv
  BY <1>1, <1>2, FreshIs, NoProfitNotSpent DEF LimitInv
<1> QED
  BY <1>2, <1>3, <1>5, <1>6, Numbers DEF IInv, RateInv

LEMMA TraderStep ==
  ASSUME IInv, Moves, UNCHANGED <<up, row, today, starts, excused>>
  PROVE  IInv'
<1>1. /\ TypesOK /\ CashInv /\ LimitInv /\ RateInv
      /\ ledger \in Ledgers /\ position \in Positions /\ flag \in BOOLEAN
      /\ exits \in Nat /\ recent \in Nat /\ placed \in Nat
  BY DEF IInv, TypesOK
<1>2. /\ Surplus(ledger, position) \in Int
      /\ 0 <= Surplus(ledger, position) /\ Surplus(ledger, position) <= exits
  BY <1>1, CostInt, Numbers DEF CashInv, Surplus, Ledgers
<1>3. /\ row.ledger.day <= ledger.day /\ ledger.day <= today
      /\ Spent(ledger) => flag \/ excused
  BY <1>1 DEF LimitInv
<1>4. SUFFICES /\ ledger' \in Ledgers /\ position' \in Positions /\ exits' \in Nat
               /\ 0 <= Surplus(ledger', position') /\ Surplus(ledger', position') <= exits'
               /\ ledger'.day = ledger.day
               /\ Spent(ledger') => flag' \/ excused
               /\ flag' \in BOOLEAN
               /\ flag => flag'
               /\ recent' \in Nat /\ placed' \in Nat /\ RateInv'
  BY RowAside
<1>5. CASE position.side # "none" /\ Cancel
  <2>1. /\ ledger' = Release /\ position' = Flat
        /\ UNCHANGED <<recent, flag, placed, exits>>
    BY <1>5 DEF Cancel
  <2>2. ledger' \in Ledgers /\ position' \in Positions /\ ledger'.day = ledger.day
    BY <1>1, <2>1, ReleaseIs, FlatCost
  <2>3. Surplus(ledger', position') = Surplus(ledger, position)
    <3>1. /\ ledger'.cash = ledger.cash + Cost(position)
          /\ ledger'.cumulative = ledger.cumulative /\ Cost(position') = 0
      BY <1>1, <2>1, ReleaseIs, FlatCost
    <3>2. /\ ledger.cash \in Int /\ ledger.cumulative \in Int /\ Cost(position) \in Int
          /\ InitialCash \in Int
      BY <1>1, CostInt, Numbers DEF Ledgers
    <3> HIDE DEF Cost
    <3> QED BY <3>1, <3>2 DEF Surplus
  <2>4. Spent(ledger') <=> Spent(ledger)
    BY <1>1, <2>1, ReleaseIs, SpentSame
  <2>5. RateInv'
    BY <1>1, <2>1 DEF RateInv
  <2> QED
    BY <1>1, <1>2, <1>3, <2>1, <2>2, <2>3, <2>4, <2>5
<1>6. CASE position.side # "none" /\ \E price \in Int : Exit(price)
  <2>1. PICK price \in Int : Exit(price)
    BY <1>6
  <2>2. /\ ledger' \in Ledgers /\ ledger'.day = ledger.day
        /\ position' = Flat /\ exits' = exits + 1
        /\ flag' = (flag \/ OverLimit(ledger'))
        /\ Surplus(ledger, position) <= Surplus(ledger', position')
        /\ Surplus(ledger', position') <= Surplus(ledger, position) + 1
        /\ UNCHANGED <<recent, placed>>
    BY <1>1, <1>6, <2>1, ExitIs
  <2>3. Surplus(ledger', position') \in Int /\ position' \in Positions
    BY <2>2, FlatCost, CostInt, Numbers DEF Surplus, Ledgers
  <2>4. 0 <= Surplus(ledger', position') /\ Surplus(ledger', position') <= exits'
    <3> HIDE DEF Surplus
    <3> QED BY <1>1, <1>2, <2>2, <2>3
  <2>5. Spent(ledger') => flag'
    BY <2>2 DEF Spent
  <2>6. flag' \in BOOLEAN
    BY <1>1, <2>2 DEF OverLimit
  <2>7. RateInv'
    BY <1>1, <2>2 DEF RateInv
  <2> QED
    BY <1>1, <2>2, <2>3, <2>4, <2>5, <2>6, <2>7
<1>7. CASE \E b \in Boards : Fill(b)
  <2>1. PICK b \in Boards : Fill(b)
    BY <1>7
  <2>2. /\ position.side # "none"
        /\ position' = [side |-> position.side, price |-> position.price, pending |-> FALSE]
        /\ UNCHANGED <<ledger, recent, flag, placed, exits>>
    BY <2>1 DEF Fill, IsPending
  <2>3. position' \in Positions /\ Cost(position') = Cost(position)
    BY <1>1, <2>2, Open DEF Positions, Cost
  <2>4. Surplus(ledger', position') = Surplus(ledger, position)
    BY <2>2, <2>3 DEF Surplus
  <2>5. Spent(ledger') <=> Spent(ledger)
    BY <2>2, SpentSame
  <2>6. RateInv'
    BY <1>1, <2>2 DEF RateInv
  <2> QED
    BY <1>1, <1>2, <1>3, <2>2, <2>3, <2>4, <2>5, <2>6
<1>8. CASE TooMany
  <2>1. flag' = TRUE /\ UNCHANGED <<ledger, position, recent, placed, exits>>
    BY <1>8 DEF TooMany, traderVars
  <2>2. Surplus(ledger', position') = Surplus(ledger, position) /\ RateInv'
    BY <1>1, <2>1 DEF Surplus, RateInv
  <2> QED
    BY <1>1, <1>2, <2>1, <2>2
<1>9. CASE /\ ~flag /\ position = Flat /\ recent <= RateLimit
           /\ \E side \in {"LONG", "SHORT"}, price \in Int : Place(side, price)
  <2>1. PICK side \in {"LONG", "SHORT"}, price \in Int : Place(side, price)
    BY <1>9
  <2>2. /\ position' \in Positions /\ ledger' \in Ledgers
        /\ ledger'.cash = ledger.cash - Cost(position')
        /\ ledger'.cumulative = ledger.cumulative /\ ledger'.day = ledger.day
        /\ ledger'.dayProfit = ledger.dayProfit /\ ledger'.dayStart = ledger.dayStart
    BY <1>1, <2>1, PlaceIs
  <2>3. /\ recent' = recent + 1 /\ placed' = placed + 1 /\ UNCHANGED <<flag, exits>>
    BY <2>1 DEF Place
  <2>4. Surplus(ledger', position') = Surplus(ledger, position)
    <3>1. /\ ledger.cash \in Int /\ ledger.cumulative \in Int /\ Cost(position') \in Int
          /\ Cost(position) = 0 /\ InitialCash \in Int
      BY <1>1, <1>9, <2>2, CostInt, FlatCost, Numbers DEF Ledgers
    <3> HIDE DEF Cost
    <3> QED BY <2>2, <3>1 DEF Surplus
  <2>5. Spent(ledger') <=> Spent(ledger)
    BY <2>2, SpentSame
  <2>6. RateInv'
    BY <1>1, <1>9, <2>3, Numbers DEF RateInv
  <2> QED
    BY <1>1, <1>2, <1>3, <2>2, <2>3, <2>4, <2>5, <2>6
<1> QED
  BY <1>5, <1>6, <1>7, <1>8, <1>9 DEF Moves

LEMMA BoardStep == ASSUME IInv, Board PROVE IInv'
BY BoardMoves, TraderStep DEF IInv

\* What a step leaves of the trader, the books and the limits when it touches
\* neither them nor the row.
LEMMA NothingMoves ==
  ASSUME IInv, UNCHANGED <<ledger, position, recent, row, flag, today, placed, exits, excused>>
  PROVE  IInv'
BY DEF IInv, TypesOK, CashInv, LimitInv, RateInv, Surplus, Cost, Spent, OverLimit

LEMMA SaveRowStep == ASSUME IInv, SaveRow PROVE IInv'
<1>1. /\ row'.ledger = ledger /\ row'.position = position /\ row'.exits = exits
      /\ UNCHANGED <<ledger, position, recent, flag, today, placed, exits, excused>>
  BY DEF SaveRow, traderVars
<1>2. TypesOK' /\ RateInv'
  BY <1>1 DEF IInv, TypesOK, RateInv
<1>3. CashInv'
  BY <1>1 DEF IInv, CashInv
<1>4. LimitInv'
  <2>1. ledger.day \in Int
    BY DEF IInv, TypesOK, Ledgers
  <2> QED BY <1>1, <2>1 DEF IInv, LimitInv
<1> QED
  BY <1>2, <1>3, <1>4 DEF IInv

LEMMA RolloverStep == ASSUME IInv, Rollover PROVE IInv'
<1>1. /\ ledger' = OfToday(ledger) /\ ledger.day # today /\ excused' = FALSE
      /\ UNCHANGED <<position, recent, row, flag, today, placed, exits>>
  BY DEF Rollover, OfToday
<1>2. ledger \in Ledgers /\ row.ledger \in Ledgers /\ today \in 0..MaxDays
  BY DEF IInv, TypesOK
<1>3. /\ ledger' \in Ledgers
      /\ ledger'.cash = ledger.cash /\ ledger'.cumulative = ledger.cumulative
      /\ ledger'.day = today /\ ledger'.dayProfit = 0
  BY <1>1, <1>2, OfTodayIs
<1>4. TypesOK' /\ RateInv'
  BY <1>1, <1>3 DEF IInv, TypesOK, RateInv
<1>5. CashInv'
  BY <1>1, <1>3 DEF IInv, CashInv, Surplus, Cost
<1>6. row.ledger.day < today
  <2>1. ledger.day \in Int /\ row.ledger.day \in Int /\ today \in Int
    BY <1>2, Numbers DEF Ledgers
  <2> QED BY <1>1, <2>1 DEF IInv, LimitInv
<1>7. LimitInv'
  <2>1. row.ledger.day \in Int /\ today \in Int
    BY <1>2, Numbers DEF Ledgers
  <2>2. ~Spent(ledger')
    BY <1>3, NoProfitNotSpent
  <2> QED BY <1>1, <1>3, <1>6, <2>1, <2>2 DEF LimitInv
<1> QED
  BY <1>4, <1>5, <1>7 DEF IInv

LEMMA StartStep == ASSUME IInv, Start PROVE IInv'
<1>1. /\ recent' = 0 /\ placed' = 0 /\ UNCHANGED <<row, flag, today>>
      /\ \/ /\ ledger' = OfToday(row.ledger) /\ position' = row.position /\ exits' = row.exits
            /\ excused' = (excused /\ row.ledger.day = today)
         \/ /\ ledger' = Fresh(today) /\ position' = Flat /\ exits' = 0
            /\ excused' = TRUE
  BY DEF Start, Restored
<1>2. /\ row.ledger \in Ledgers /\ row.position \in Positions /\ row.exits \in Nat
      /\ today \in 0..MaxDays /\ excused \in BOOLEAN /\ flag \in BOOLEAN
      /\ 0 <= Surplus(row.ledger, row.position)
      /\ Surplus(row.ledger, row.position) <= row.exits
  BY DEF IInv, TypesOK, CashInv
<1>3. RateInv'
  BY <1>1, Numbers DEF RateInv
<1>4. row.ledger.day \in Int /\ today \in Int /\ row.ledger.day <= today
  <2>1. ledger.day \in Int /\ row.ledger.day \in Int /\ today \in Int
    BY <1>2, Numbers DEF IInv, TypesOK, Ledgers
  <2> QED BY <2>1 DEF IInv, LimitInv
<1>5. Surplus(row.ledger, row.position)' = Surplus(row.ledger, row.position)
  BY <1>1 DEF Surplus, Cost
<1>6. Spent(row.ledger)' <=> Spent(row.ledger)
  BY <1>1 DEF Spent, OverLimit
<1>7. CASE /\ ledger' = OfToday(row.ledger) /\ position' = row.position /\ exits' = row.exits
           /\ excused' = (excused /\ row.ledger.day = today)
  <2>1. /\ OfToday(row.ledger) \in Ledgers
        /\ OfToday(row.ledger).cash = row.ledger.cash
        /\ OfToday(row.ledger).cumulative = row.ledger.cumulative
        /\ OfToday(row.ledger).day = today
        /\ row.ledger.day = today => OfToday(row.ledger) = row.ledger
        /\ row.ledger.day # today => OfToday(row.ledger).dayProfit = 0
    BY <1>2, OfTodayIs
  <2>2. TypesOK'
    BY <1>1, <1>2, <1>7, <2>1 DEF TypesOK
  <2>3. Surplus(ledger', position') = Surplus(row.ledger, row.position)
    BY <1>7, <2>1 DEF Surplus
  <2>4. CashInv'
    BY <1>1, <1>2, <1>5, <1>7, <2>3 DEF CashInv
  <2>5. row.ledger.day = today /\ Spent(row.ledger) => flag' \/ excused'
    BY <1>1, <1>7 DEF IInv, LimitInv
  <2>6. Spent(ledger') => flag' \/ excused'
    BY <1>7, <2>1, <2>5, NoProfitNotSpent
  <2>7. LimitInv'
    BY <1>1, <1>4, <1>6, <1>7, <2>1, <2>5, <2>6 DEF LimitInv
  <2> QED
    BY <1>3, <2>2, <2>4, <2>7 DEF IInv
<1>8. CASE ledger' = Fresh(today) /\ position' = Flat /\ exits' = 0 /\ excused' = TRUE
  <2>1. TypesOK'
    BY <1>1, <1>2, <1>8, FreshIs, FlatCost DEF TypesOK
  <2>2. Surplus(ledger', position') = 0
    BY <1>2, <1>8, FreshIs, FlatCost, Numbers DEF Surplus
  <2>3. CashInv'
    BY <1>1, <1>2, <1>5, <1>8, <2>2 DEF CashInv
  <2>4. LimitInv'
    BY <1>1, <1>2, <1>4, <1>8, FreshIs DEF LimitInv
  <2> QED
    BY <1>3, <2>1, <2>3, <2>4 DEF IInv
<1> QED
  BY <1>1, <1>7, <1>8

LEMMA OperatorStep == ASSUME IInv, Operator PROVE IInv'
<1>1. /\ flag' = ~flag /\ excused' = (excused \/ flag)
      /\ UNCHANGED <<ledger, position, recent, row, today, placed, exits>>
  BY DEF Operator, traderVars
<1>2. TypesOK' /\ RateInv'
  BY <1>1 DEF IInv, TypesOK, RateInv
<1>3. CashInv'
  BY <1>1 DEF IInv, CashInv, Surplus, Cost
<1>4. flag' \/ excused'
  BY <1>1 DEF IInv, TypesOK
<1>5. LimitInv'
  BY <1>1, <1>4 DEF IInv, LimitInv
<1> QED
  BY <1>2, <1>3, <1>5 DEF IInv

LEMMA NewDayStep == ASSUME IInv, NewDay PROVE IInv'
<1>1. /\ today < MaxDays /\ today' = today + 1
      /\ UNCHANGED <<ledger, position, recent, row, flag, placed, exits, excused>>
  BY DEF NewDay, traderVars
<1>2. /\ ledger.day \in Int /\ row.ledger.day \in Int /\ today \in Int
      /\ today' \in 0..MaxDays
  BY <1>1, Numbers DEF IInv, TypesOK, Ledgers
<1>3. TypesOK' /\ RateInv'
  BY <1>1, <1>2 DEF IInv, TypesOK, RateInv
<1>4. CashInv'
  BY <1>1 DEF IInv, CashInv, Surplus, Cost
<1>5. /\ row.ledger.day <= ledger.day /\ ledger.day <= today
      /\ Spent(ledger) => flag \/ excused
  BY DEF IInv, LimitInv
<1>6. row.ledger.day # today' /\ ledger.day <= today'
  BY <1>1, <1>2, <1>5
<1>7. Spent(ledger)' <=> Spent(ledger)
  BY <1>1 DEF Spent, OverLimit
<1>8. LimitInv'
  BY <1>1, <1>5, <1>6, <1>7 DEF LimitInv
<1> QED
  BY <1>3, <1>4, <1>8 DEF IInv

LEMMA AgeStep == ASSUME IInv, Age PROVE IInv'
<1>1. /\ placed > 0 /\ placed' = placed - 1
      /\ recent' = IF recent > 0 THEN recent - 1 ELSE 0
      /\ UNCHANGED <<ledger, position, row, flag, today, exits, excused>>
  BY DEF Age
<1>2. recent \in Nat /\ placed \in Nat /\ placed <= recent /\ recent <= RateLimit + 1
  BY DEF IInv, TypesOK, RateInv
<1>3. recent' \in Nat /\ placed' \in Nat /\ RateInv'
  BY <1>1, <1>2, Numbers DEF RateInv
<1>4. TypesOK'
  BY <1>1, <1>3 DEF IInv, TypesOK
<1>5. CashInv' /\ LimitInv'
  BY <1>1 DEF IInv, CashInv, LimitInv, Surplus, Cost, Spent, OverLimit
<1> QED
  BY <1>3, <1>4, <1>5 DEF IInv

LEMMA LedgerStep == ASSUME IInv, [LedgerNext]_ledgerVars PROVE IInv'
<1>1. CASE Down \/ UNCHANGED ledgerVars
  BY <1>1, NothingMoves DEF Down, ledgerVars, traderVars
<1> QED
  BY <1>1, BoardStep, SaveRowStep, RolloverStep, StartStep, OperatorStep, NewDayStep, AgeStep
  DEF LedgerNext

LEMMA Inductive == LedgerSpec => []IInv
<1> QED
  BY LedgerStart, LedgerStep, PTL DEF LedgerSpec

-----------------------------------------------------------------------------

(***************************************************************************)
(* For any prices, limits and number of exits, days and starts, the cash   *)
(* differs from what check_account_integrity expects by at most what the   *)
(* floor of each exit cut off.                                             *)
(***************************************************************************)
THEOREM CashAccounted == LedgerSpec => []IntegrityQuiet
<1>1. ASSUME IInv PROVE IntegrityQuiet
  <2>1. /\ ledger.cash \in Int /\ ledger.cumulative \in Int /\ Cost(position) \in Int
        /\ InitialCash \in Int
    BY <1>1, CostInt, Numbers DEF IInv, TypesOK, Ledgers
  <2>2. Expected = InitialCash + ledger.cumulative - Cost(position)
    BY DEF Expected, Cost
  <2>3. /\ 0 <= ledger.cash + Cost(position) - InitialCash - ledger.cumulative
        /\ ledger.cash + Cost(position) - InitialCash - ledger.cumulative <= exits
        /\ exits \in Nat
    BY <1>1 DEF IInv, TypesOK, CashInv, Surplus
  <2> HIDE DEF Cost, Expected
  <2> QED
    BY <2>1, <2>2, <2>3 DEF IntegrityQuiet
<1> QED
  BY <1>1, Inductive, PTL

(***************************************************************************)
(* For any order_rate_limit_per_minute, no run of the engine has more than *)
(* the limit and one order in a minute.                                    *)
(***************************************************************************)
THEOREM RateBounded == LedgerSpec => []OrderRateBounded
<1>1. ASSUME IInv PROVE OrderRateBounded
  BY <1>1, Numbers DEF IInv, TypesOK, RateInv, OrderRateBounded
<1> QED
  BY <1>1, Inductive, PTL

(***************************************************************************)
(* For any limit, an entry after the limit of the trading day's losses was *)
(* reached has the excuse of the operator or of a ledger that was lost.    *)
(***************************************************************************)
THEOREM LimitHolds == LedgerSpec => LossLimitHolds
<1>1. ASSUME IInv, [LedgerNext]_ledgerVars
      PROVE  [ /\ position = Flat /\ position'.side # "none" /\ up
               /\ ledger.dayProfit < 0 /\ OverLimit(ledger)
               => excused ]_ledgerVars
  <2>1. SUFFICES ASSUME position = Flat, position'.side # "none", up, Spent(ledger), ~excused
                 PROVE  FALSE
    BY DEF Spent
  <2>2. flag /\ position.side = "none"
    BY <1>1, <2>1, FlatCost DEF IInv, LimitInv
  <2>3. Board
    BY <1>1, <2>1, <2>2 DEF LedgerNext, SaveRow, Rollover, Down, Start, Operator, NewDay, Age,
                            ledgerVars, traderVars
  <2>4. TooMany \/ \E b \in Boards : Fill(b)
    BY <1>1, <2>2, <2>3, BoardMoves DEF IInv, Moves
  <2> QED
    BY <2>1, <2>2, <2>4 DEF TooMany, Fill, IsPending, traderVars
<1> QED
  BY <1>1, Inductive, PTL DEF LedgerSpec, LossLimitHolds
=============================================================================
