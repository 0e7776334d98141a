SPECIFICATION CommandsFairSpec
CONSTANTS
  Docs <- MCDocs
  Id <- TwoId
  Version <- TwoVersion
  Key <- TwoKey
  NoKey = "none"
  Pub <- TwoPub
  Delivery <- TwoDelivery
  None = 0
  Entities <- MCEntities
  Entity <- MCEntity
  Predicted <- MCDocs
  Wanted <- TwoWanted
  RetentionDays = 1
  MaxAttempts = 2
  MaxDay = 2
  MaxCommands = 1
PROPERTIES
  QueueSettles
  AgesOut
