SPECIFICATION Spec
CONSTANTS
  h1 = h1
  p1 = p1
  p2 = p2
  p3 = p3
  w1 = w1
  w2 = w2
  NoPage = NoPage
  NoMessage = NoMessage
  Host <- OneHost
  Page <- ThreePages
  HostOf <- SameHost
  Reject <- ThirdPage
  Worker <- OneWorker
  QueueModel = "one_per_domain"
  Ascii <- Letters
  Allowed <- OneHost
  PoliteSleep = 1
  Faults = TRUE
  MaxAsked = 1
  MaxErrors = 1
  MaxCrashes = 1
  MaxTrouble = 1
SYMMETRY Alike
INVARIANTS
  CrashLosesOne
  NextServiceFindsPage
