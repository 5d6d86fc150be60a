CONSTANTS
  first = first
  second = second
  Clients <- MCClients
  Blocks <- MCBlocks
  MaxRequests = 2
  MaxUploads = 2
  MaxRestarts = 1
SYMMETRY MCSymmetry
SPECIFICATION Spec
INVARIANTS TypeOK
PROPERTIES KeepsWholeFiles
CHECK_DEADLOCK FALSE
