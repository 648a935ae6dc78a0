SPECIFICATION FairSpec
CONSTANTS
  d1 = d1
  x1 = x1
  k1 = k1
  k2 = k2
  NoDoc = NoDoc
  Nothing = Nothing
  Doc <- OneDoc
  Pages <- TwoPages
  Extractor <- OneExtractor
  Packer <- TwoPackers
  MaxVersion = 2
  MaxAsked = 1
  MaxOrdered = 1
  MaxTrouble = 1
INVARIANTS
  TypeOK
  LastPageIsPacked
  BodyHasItsTitle
  PackFindsObject
PROPERTIES
  EventuallyPacked
