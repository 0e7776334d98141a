SPECIFICATION FairSpec
CONSTANTS
  fund = fund
  class = class
  a = a
  b = b
  c = c
  d1 = d1
  d2 = d2
  None = None
  Scopes <- MCScopesSet
  Cnpjs <- MCCnpjs
  Ids <- MCIds
  Docs <- MCDocs
  Expand <- MCExpand
  Hits <- MCHits
  Volume <- MCVolume
  IdOf <- MCIdOf
  Served <- MCServed
  MayFail <- MCMayFail
  MaxEdits = 2
INVARIANTS
  ConfirmedIsEarned
  CompleteMeansWhole
  NothingForeignIsFiled
PROPERTIES
  ContestedWaits
  ConfirmationsStay
  EveryScopeResolves
