SPECIFICATION Spec
CONSTANTS
  Filings <- MCFilings
  At <- MCAt
  Refiles <- MCRefiles
  None = 0
  Malformed <- MCMalformed
  NoInstant <- MinusOne
  PageLength = 2
  Ordered = TRUE
INVARIANTS
  TypeOK
  CompleteKeepsAll
  CursorLosesNothing
