\* A board take-profit that is refused after its STOP was cancelled.
SPECIFICATION Spec
CONSTANTS
  Entry = {o1, o2}
  Stop = {s1, s2}
  None = None
  Fault = {"reject"}
  Interrupt = {}
  MaxStopAttempts = 2
  MaxCloseAttempts = 2
SYMMETRY Symmetry
INVARIANT StandingStop
