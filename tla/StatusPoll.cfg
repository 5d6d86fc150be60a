CONSTANTS
  Levels <- MCLevels
  MachineStates <- MCMachineStates
  Versions = {2, 3}
  MinVersion = 3
  Garbage = {0, 7}
  MaxCommands = 2
  MaxConnections = 2
SPECIFICATION FairSpec
INVARIANTS TypeOK LossesReported OneRequest BusyUntilSeen
PROPERTIES GreetedOnce BusyExpires
CHECK_DEADLOCK FALSE
