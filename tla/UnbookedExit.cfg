\* An exit that is never booked: GMO works, MARKET orders take a moment.
SPECIFICATION Spec
CONSTANTS
  Entry = {o1, o2}
  Stop = {s1, s2}
  None = None
  Fault = {}
  Interrupt = {}
  MaxStopAttempts = 2
  MaxCloseAttempts = 2
SYMMETRY Symmetry
INVARIANT ExitsBooked
