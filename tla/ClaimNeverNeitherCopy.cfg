SPECIFICATION Spec
CONSTANTS
  Docs <- TwoDocs
  Id <- TwoId
  Version <- TwoVersion
  Key <- TwoKey
  NoKey = "nokey"
  Pub <- TwoPub
  Delivery <- TwoDelivery
  None = 0
  Entities <- MCEntities
  Entity <- TwoEntity
  Predicted <- TwoPredicted
  Wanted <- TwoPredicted
  RetentionDays = 1
  MaxAttempts = 1
  MaxDay = 2
INVARIANT
  NeverNeitherCopy
