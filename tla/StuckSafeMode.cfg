\* The message of virtual_trader.py:1353: new trades stop until a normal answer is seen.
CONSTANTS
  MaxBuilds = 2
  MaxOutages = 1
SPECIFICATION BoardLiveSpec
PROPERTIES SafeModeEnds
CHECK_DEADLOCK FALSE
