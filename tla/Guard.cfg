\* Two threads of the engine and a command, with every single failure.
SPECIFICATION LiveSpec
CONSTANTS
  Thread = {board, main}
  Operator = {command}
  Equity <- MCEquity
  Drawdown = 1
  Nobody = Nobody
  Fault = {"kill", "damage", "no_flock", "coarse"}
INVARIANTS TypeOK StopVisible NoLostUpdate
PROPERTIES ReleasedByOperator ReleaseSeen
