\* Every interruption of the trading, with an exchange that works.
SPECIFICATION Spec
CONSTANTS
  Entry = {o1, o2}
  Stop = {s1, s2}
  None = None
  Fault = {}
  Interrupt = {"manual", "maintenance", "guard", "pause"}
  MaxStopAttempts = 2
  MaxCloseAttempts = 2
SYMMETRY Symmetry
INVARIANTS PositionsKnown HoldsOwnPosition
PROPERTY OneTradeAtATime
