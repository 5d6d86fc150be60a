CONSTANTS
  gui = gui
  pendant = pendant
  Clients <- MCClients
  MaxErrors = 3
  MaxRequests = 2
  MaxFailures = 1
  MaxRestarts = 1
SPECIFICATION FairSpec
INVARIANTS TypeOK ShownInOrder
PROPERTIES EveryErrorShown
CHECK_DEADLOCK FALSE
