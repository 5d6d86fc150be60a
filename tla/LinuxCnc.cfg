CONSTANTS
  MaxAxes = 1
  Speeds <- MCSpeeds
SPECIFICATION FairSpec
INVARIANTS TypeOK MovingIsCached
PROPERTIES DeadIsReported ConnectedAgain
