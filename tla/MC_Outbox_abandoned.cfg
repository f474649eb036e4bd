SPECIFICATION Spec
CONSTANTS
  Procs = {d, c}
  Daemon = d
  Reviewers = {}
  NumRows = 1
  Kinds = {"observation"}
  Parses = {TRUE}
  MaxRetry = 3
  Threshold = 2
  OpenTicks = 1
  Stale = 0
  OlderThan = 0
  BatchSize = 1
  MaxItems = 1
  MaxFaults = 0
PROPERTIES AbandonedStaysAbandoned
