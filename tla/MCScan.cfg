SPECIFICATION FairSpec
CONSTANTS
  Filings <- MCFilings
  At <- MCAt
  Refiles <- MCRefiles
  None = 0
  PageLength = 2
  Ordered = FALSE
  MaxScanAttempts = 3
INVARIANTS
  CompleteMissesNoMore
PROPERTIES
  ScanEnds
