SPECIFICATION FairSpec
CONSTANTS
  Sender = {"page", "soon", "stray"}
  Script <- MCScript
  HostQueue <- MCHostQueue
  MaxConns = 2
  Refusable <- MCHostQueue
  MaxTrouble = 2
  NoMessage = NoMessage
INVARIANTS
  TypeOK
  ReceivedIsCommitted
  CommittedInOrder
  StallsOnlyByLeaks
PROPERTIES
  ImplementsOutbox
  SendersServed
CHECK_DEADLOCK FALSE
