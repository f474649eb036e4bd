SPECIFICATION Spec
CONSTANTS
  AllProcs = {p, q}
  NumRows = 3
  Lease = 1
  Delays = {1}
  MaxAge = 1
  OlderThan = 1
  UnparkLimit = 1
  Settings <- RaceAndAlone
SYMMETRY Symmetry
INVARIANTS TypeOK SentWasReceived QueueStaysCapped
PROPERTIES FencedWrites SentIsFinal DriftAbandonsNoBatch CapShedsLast
CHECK_DEADLOCK FALSE
