CONSTANTS
  chat = chat
  probe = probe
  Requests <- MCRequests
  Kinds <- MCKinds
  MaxPieces = 3
  ReadSize = 2
SPECIFICATION Spec
CHECK_DEADLOCK FALSE
INVARIANT
  RepliesAreHonest
PROPERTIES
  RepliesImplement
  EveryRequestEnds
  FinishedStreamsArrive
  HealthAnswers
