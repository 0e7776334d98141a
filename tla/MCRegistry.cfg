SPECIFICATION Spec
CONSTANTS
  Procs = {"run", "resolve"}
  Forced = {"resolve"}
  Refused = Refused
  Broken = Broken
  None = None
  Interval = 2
  MaxEdition = 2
  MaxNow = 3
INVARIANTS
  FreshIsRecent
  LastGoodStays
