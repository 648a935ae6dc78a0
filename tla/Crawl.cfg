SPECIFICATION FairSpec
CONSTANTS
  root = root
  below = below
  slash = slash
  w1 = w1
  w2 = w2
  NoPage = NoPage
  Page <- SomePages
  Root <- root
  Links <- Circle
  Blank <- OnlySlash
  Gone <- TooSmall
  Walker <- TwoWalkers
  MaxEvents = 2
INVARIANTS
  TypeOK
  PassReachesAll
PROPERTIES
  CrawlDescends
  CrawlEnds
