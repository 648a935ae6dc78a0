SPECIFICATION FairSpec
CONSTANTS
  h1 = h1
  p1 = p1
  p2 = p2
  p3 = p3
  w1 = w1
  w2 = w2
  NoPage = NoPage
  NoMessage = NoMessage
  Host <- OneHost
  Page <- TwoPages
  HostOf <- SameHost
  Reject = {}
  Worker <- TwoWorkers
  QueueModel = "simple"
  Ascii <- Letters
  Allowed <- OneHost
  PoliteSleep = 1
  Faults = FALSE
  MaxAsked = 1
  MaxErrors = 0
  MaxCrashes = 0
  MaxTrouble = 0
INVARIANTS
  TypeOK
  DeliveredIsCommitted
  GatecrashBounded
PROPERTIES
  AskedIsAnswered
