SPECIFICATION Spec
CONSTANTS
  NoClient = NoClient
  NoConnection = NoConnection
  Clients = {c1, c2}
  Descriptors = {5, 6}
  MaxConnections = 2
  MaxPieces = 2
  MaxPayload = 3
  Large = {"response"}
  ResponseSize = 1
  Departures = {"hangup"}
  AcceptFaults = {"lookup", "setup"}
  Faulty = {0}
CHECK_DEADLOCK FALSE
SYMMETRY ClientSymmetry
INVARIANTS TypeOK ConnectionsMatchDescriptors AnswersFollowRequests
PROPERTY ClosedForAReason
