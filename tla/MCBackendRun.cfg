SPECIFICATION FairSpec
CONSTANT MaxCommits = 2
INVARIANT AtMostOneLateCommit StopIsUnderWay ObserverIsStopped
PROPERTY TripStopsBackend WinamaxStopsBackend
CHECK_DEADLOCK FALSE
