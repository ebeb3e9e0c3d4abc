SPECIFICATION Spec
CONSTANTS
  Clients = {pc1, pc2}
  Names = {ann, bob}
  Host = host
  MaxJoins = 2
  MaxInvites = 2
  MaxCommands = 1
  MaxFaults = 1
SYMMETRY Symmetry
INVARIANT LeaveErasesToken
CHECK_DEADLOCK FALSE
