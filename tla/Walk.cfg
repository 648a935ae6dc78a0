SPECIFICATION Spec
CONSTANTS
  j1 = j1
  j2 = j2
  j3 = j3
  NoPath = NoPath
  NoLink = NoLink
  Job <- ThreeJobs
  PageOf <- Pages
  Content <- Links
  Rejected <- Filtered
  MaxWorkers = 2
  TTL = 1
  MaxTrouble = 1
INVARIANTS
  TypeOK
  OffersBounded
  CachedIsOffered
  WalkedIsOffered
  CrashLosesOne
SYMMETRY Symmetry
