SPECIFICATION FairSpec
CONSTANTS
  Children = {"c1", "c2"}
  Manual = {"m"}
  Inodes = {"i", "j"}
  None = "none"
  SweepCron <- MCSweep
  MonitorCron <- MCMonitor
  Moment <- MCMoment
  RunOnStart = "sweep"
  LastMinute = 3
  MaxBacks = 1
  MaxSignals = 2
INVARIANTS
  Exclusive
  PayloadNamesHolder
  NeverContends
  OncePerMinute
  OneStopIsPolite
PROPERTIES
  KeepsToTheLock
  StopEnds
