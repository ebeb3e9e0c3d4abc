SPECIFICATION Spec
CONSTANTS
  Clients = {pc1, pc2}
  Tournaments = {t1}
  Versions = {v1, v2}
  Absent = Absent
  None = None
  Pending = Pending
  Rejected = Rejected
  TrackingEnabled = TRUE
  MaxTournaments = 1
  MaxReceipts = 2
  MaxPairings = 3
  MaxFaults = 1
  MaxRequests = 2
SYMMETRY Symmetry
INVARIANT SyncedIsOnHub ReceiptsAgree SharedReadOnlyWhenDelivered QuotaExceededByHandlersOnly
PROPERTY ImplementsDelivery NamesOnlyUnderPolicy2
CHECK_DEADLOCK FALSE
