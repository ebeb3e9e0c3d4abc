SPECIFICATION FairSpec
CONSTANTS
  enroll = enroll  sync = sync  other = other
  Keys = {enroll, sync, other}
  Limit <- MCLimit
  MaxBuckets = 2
  Window = 3
  Opponents = 3
  Handlers = 2
INVARIANT OrderedByAccess AdmittedWithinLimit AtMostOneLateName
PROPERTY TripStopsHub
CHECK_DEADLOCK FALSE
