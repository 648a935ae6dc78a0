SPECIFICATION Spec
CONSTANTS
  TLDs = {1, 2}
  Table <- MCTable
  Domains = 2
  Subdomains = 3
  Reserved = 2
  Visit = {"first", "second"}
  Asking <- MCAsking
  Nobody = Nobody
  MaxRaces = 1
INVARIANTS
  TypeOK
  AnswersFromOverlapping
  SearchFindsNamesBelow
