SPECIFICATION FairSpec
CONSTANTS
  Docs <- MCDocs
  Entities <- MCEntities
  None = 0
  Entity <- MCEntity
  At <- MCAt
  Day <- MCDay
  Refiles <- MCRefiles
  Spelling <- MCSpelling
  LegalName <- MCLegalName
  FirstSpelling <- MCFirstSpelling
  RetentionDays = 3
  SweepDays = 3
  MonitorDays = 2
  MaxDay = 3
INVARIANTS
  CursorIsAPromise
PROPERTIES
  WatermarkIsHonest
  SweepFindsAll
