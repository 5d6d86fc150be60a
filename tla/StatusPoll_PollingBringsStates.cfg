CONSTANTS
  Levels <- MCLevels
  MachineStates <- MCMachineStates
  Versions = {2, 3}
  MinVersion = 3
  Garbage = {0, 7}
  MaxCommands = 1
  MaxConnections = 2
SPECIFICATION FairSpec
PROPERTY PollingBringsStates
CHECK_DEADLOCK FALSE
