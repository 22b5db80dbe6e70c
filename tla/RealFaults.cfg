\* Everything that may go wrong at the exchange and on the way to it.
SPECIFICATION Spec
CONSTANTS
  Entry = {o1, o2}
  Stop = {s1, s2}
  None = None
  Fault = {"late_fill", "reject", "maintenance", "lost_reply", "lost_event", "no_pid"}
  Interrupt = {}
  MaxStopAttempts = 2
  MaxCloseAttempts = 2
SYMMETRY Symmetry
INVARIANTS TypeOK BookedAfterClose OrdersTracked LateFillsTracked StopBelongs
