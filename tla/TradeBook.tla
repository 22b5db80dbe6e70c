----------------------------- MODULE TradeBook -----------------------------
(***************************************************************************)
(* What the engine promises of the trades it makes: one exposure at a      *)
(* time.  An entry order is sent only when no other order can still        *)
(* execute and no position is open; it is executed or void; the position   *)
(* it opens is closed once, and only after that its exit is booked, at     *)
(* most once.                                                              *)
(***************************************************************************)
CONSTANT Position

VARIABLES
  life,    \* "new", "sent", "open", "closed" or "void"
  exits    \* times the exit of each position was booked

Alive(p) == life[p] \in {"sent", "open"}

Init ==
  /\ life = [p \in Position |-> "new"]
  /\ exits = [p \in Position |-> 0]

Moves(p, from, to) ==
  /\ life[p] = from
  /\ life' = [life EXCEPT ![p] = to]
  /\ UNCHANGED exits

Send(p) == (\A q \in Position : ~Alive(q)) /\ Moves(p, "new", "sent")
Fill(p) == Moves(p, "sent", "open")
Void(p) == Moves(p, "sent", "void")
Close(p) == Moves(p, "open", "closed")

Book(p) ==
  /\ life[p] = "closed"
  /\ exits[p] = 0
  /\ exits' = [exits EXCEPT ![p] = 1]
  /\ UNCHANGED life

Next == \E p \in Position : Send(p) \/ Fill(p) \/ Void(p) \/ Close(p) \/ Book(p)

Spec == Init /\ [][Next]_<<life, exits>>
=============================================================================
