\* Each part that runs beside the trader, by itself.  The parts may stop.
CONSTANTS
  MaxBuilds = 2
  MaxOutages = 2
  MaxTokens = 5
  MaxSessions = 8
  MaxErrors = 2
  MaxDays = 3
  MaxRows = 3
  MaxRestarts = 2
  QueueMax = 2
  Retention = 1
  Overlap = FALSE
  MaxFaults = 2
  Monitors = {k1, k2}
  MaxBeats = 2
  MaxTroubles = 2
  TargetServices = {engine, dashboard}
  MaxLosses = 2
  Proc = {p1, p2, p3}
  Inode = {i1, i2, i3, i4}
  NoInode = NoInode
  NoProc = NoProc
  GracefulRelease = TRUE
  FirstValue = 100
  Lower = 80
  Upper = 130
  MinStep = 2
  Rises = {1, 10, 60}
  Falls = {20}
  MaxProposals = 3
  MaxTornNights = 1
SPECIFICATION ServicesSpec
INVARIANTS ServicesTypeOK EntryAfterRecovery FlushedKept NoHeartbeatLost SameFileExclusive
PROPERTIES StopEndsLoop OldRenewerSilent PrivateComesBack DownIsNoticed StaleIsNotified ExhaustionIsNotified RefusedOnlyWhileHeld RolloutEnds
CHECK_DEADLOCK FALSE
