CONSTANTS MaxX = 1 MaxZ = 1 MaxStep = 2
SPECIFICATION FairSpec
INVARIANTS TypeOK NoStrayCalls NothingLeftBehind ReturnsLifted
PROPERTIES CallsReturn ConnectsInTheEnd ResumesAtPause CycleStartReturns MoveEnds OffStandsStill
