SPECIFICATION Spec
CONSTANTS
  Docs <- MCDocs
  Id <- MCId
  Version <- MCVersion
  Key <- MCKey
  NoKey = "nokey"
  Pub <- MCPub
  Delivery <- MCDelivery
  None = 0
  Entities <- MCEntities
  Entity <- MCEntity
  Predicted <- MCPredicted
  Wanted <- MCWanted
  RetentionDays = 2
  MaxAttempts = 2
  MaxDay = 3
INVARIANTS
  IInv
  ReaderHasACopy
  NoStrayFile
  PurgedMeansAged
  MarksPointUp
PROPERTIES
  NeverRefetched
  KeepsItsPromise
