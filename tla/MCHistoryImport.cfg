SPECIFICATION FairSpec
CONSTANTS
  p1 = p1  p2 = p2  t1 = t1  worker = worker  request = request
  Scanners = {worker, request}
  Worker = worker
  Pairs <- MCPairs
  TourOf <- MCTourOf
  Broken = {p2}
  MaxScans = 1
  MaxFaults = 1
INVARIANT TypeOK StoredWhole
PROPERTY ImplementsArchive EveryPairArchived
