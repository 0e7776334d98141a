SPECIFICATION InboxSpec
CONSTANTS
  Docs <- MCDocs
  Id <- MCId
  Version <- MCVersion
  Key <- MCKey
  NoKey = "none"
  Pub <- MCPub
  Delivery <- MCDelivery
  None = 0
  Entities <- MCEntities
  Entity <- MCEntity
  Predicted <- MCPredicted
  Wanted <- MCWanted
  RetentionDays = 2
  MaxAttempts = 1
  MaxDay = 3
INVARIANTS
  LinksLead
  ArrivalsAreListed
PROPERTIES
  NothingVanishes
