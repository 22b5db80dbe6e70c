\* A change that the backtest refuses, and the nights after it.
CONSTANTS
  FirstValue = 100
  Lower = 80
  Upper = 130
  MinStep = 2
  Rises = {10}
  Falls = {20}
  MaxProposals = 2
  MaxTornNights = 1
SPECIFICATION ReviewSpec
PROPERTY GateHolds
