SPECIFICATION Spec
CONSTANTS
  Clients = 2
  Depth = 2
  QueueLimit = 4
  Sessions = 2
  Requests = 7
  Losses = 1
\* all sessions and connections may be used up
CHECK_DEADLOCK FALSE
INVARIANTS
  TypeOK
  InFlightExact
  NoStuckJob
  SessionAgrees
PROPERTIES
  AnswersInOrder
  RelayedInSession
