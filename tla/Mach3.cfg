CONSTANT MaxLoads = 2
SPECIFICATION FairSpec
INVARIANTS TypeOK DrivenIsWatched
PROPERTIES StopStops AcceptedIsTried
