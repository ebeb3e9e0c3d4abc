SPECIFICATION LiveSpec
CONSTANTS
  Clients = {pc1, pc2}
  Tournaments = {t1, t2}
  Versions = {v1, v2}
  Absent = Absent
  None = None
  Pending = Pending
  Rejected = Rejected
  TrackingEnabled = TRUE
  MaxTournaments = 2
  MaxReceipts = 2
  MaxPairings = 2
  MaxFaults = 2
  MaxRequests = 3
PROPERTY EveryTournamentDelivered AccessIsGranted
CHECK_DEADLOCK FALSE
