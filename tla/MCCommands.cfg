SPECIFICATION CommandsSpec
CONSTANTS
  Docs <- MCDocs
  Id <- MCId
  Version <- MCVersion
  Key <- MCKey
  NoKey = "none"
  Pub <- MCPub
  Delivery <- MCDelivery
  None = 0
  Entities <- MCEntities
  Entity <- MCEntity
  Predicted <- MCDocs
  Wanted <- MCDocs
  RetentionDays = 1
  MaxAttempts = 1
  MaxDay = 2
  MaxCommands = 1
INVARIANTS
  CommandsTypeOK
  CommandsLeaveACopy
  PurgedMeansAgedOrDiscarded
