\* One trade, REST calls that are refused, the manual stop and the equity guard.
SPECIFICATION LiveSpec
CONSTANTS
  Entry = {o1}
  Stop = {s1}
  None = None
  Fault = {"reject"}
  Interrupt = {"manual", "guard"}
  MaxStopAttempts = 2
  MaxCloseAttempts = 1
PROPERTIES WatchdogProtects ManualStopFlattens GuardCancelsPending
