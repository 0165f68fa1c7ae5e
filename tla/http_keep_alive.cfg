SPECIFICATION Spec
CONSTANTS
  NoClient = NoClient
  NoConnection = NoConnection
  Clients = {c1}
  Descriptors = {5}
  MaxConnections = 1
  MaxPieces = 6
  MaxPayload = 4
  Large = {"exact", "excess", "response"}
  ResponseSize = 2
  Departures = {"half", "reset", "hangup"}
  AcceptFaults = {}
  Faulty = {2}
CHECK_DEADLOCK FALSE
INVARIANTS AnswersFollowRequests PatientClientsLoseNothing
PROPERTIES KeepsItsPromise ClosedForAReason
