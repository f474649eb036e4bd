SPECIFICATION FairSpec
CONSTANTS
  Daemons = {a, b, c}
  Stoppers = {s, t}
  None = none
  MaxFaults = 1
INVARIANTS OneDaemon RunningDaemonIsRecorded RestartLeavesOne
PROPERTIES EveryStartDecides
CHECK_DEADLOCK FALSE
