\* One trade, one crash at any moment, and a start that reads live_state and GMO;
\* or the start after one that placed a missing STOP again.
SPECIFICATION RestartLiveSpec
CONSTANTS
  Entry = {o1}
  Stop = {s1, s2}
  None = None
  Fault = {"reject"}
  Interrupt = {"pause"}
  MaxStopAttempts = 1
  MaxCloseAttempts = 1
  MaxCrashes = 1
INVARIANTS BookedOnce KeptAcrossRestart
PROPERTIES AlarmIsStray StrayReported MismatchStops
