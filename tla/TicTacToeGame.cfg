\* Every cell and a pair off the board are typed; player 2 may leave.
CONSTANTS
  Inputs <- CellsAndOff
  MayQuit = {2}
SPECIFICATION FairSpec
INVARIANTS TurnDiscipline NeverStale
PROPERTIES GameSpec GameEnds
CHECK_DEADLOCK FALSE
