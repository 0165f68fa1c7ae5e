SPECIFICATION FairSpec
CONSTANTS
  NoClient = NoClient
  NoConnection = NoConnection
  Clients = {c1, c2}
  Descriptors = {5}
  MaxConnections = 1
  MaxPieces = 2
  MaxPayload = 3
  Large = {}
  ResponseSize = 2
  Departures = {}
  AcceptFaults = {}
  Faulty = {1}
CHECK_DEADLOCK FALSE
PROPERTIES EveryConnectionEnds BacklogIsServed SignalStops
