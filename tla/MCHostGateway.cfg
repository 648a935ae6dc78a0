SPECIFICATION Spec
CONSTANTS
  h1 = h1
  h2 = h2
  w1 = w1
  w2 = w2
  Host <- MCHost
  Worker <- MCWorker
  NoWorker = NoWorker
  PoliteSleep = 1
  MaxTime = 4
INVARIANTS
  TypeOK
  PoliteSpacing
PROPERTIES
  WaitIsHonoured
  ImplementsPoliteGate
SYMMETRY Symmetry
