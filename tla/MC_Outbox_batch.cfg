SPECIFICATION HSpec
CONSTANTS
  Procs = {d, c}
  Daemon = d
  Reviewers = {}
  NumRows = 2
  Kinds = {"observation"}
  Parses = {TRUE}
  MaxRetry = 2
  Threshold = 1
  OpenTicks = 1
  Stale = 0
  OlderThan = 0
  BatchSize = 2
  MaxItems = 2
  MaxFaults = 1
CONSTRAINT OverrunOrFaults
INVARIANTS ExclusiveUnlessOverrun NoSilentLoss RetryMatchesStatus
