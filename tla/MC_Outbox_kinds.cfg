SPECIFICATION FairSpec
CONSTANTS
  Procs = {d, c}
  Daemon = d
  Reviewers = {r}
  NumRows = 1
  Kinds = {"trajectory", "observation", "accepted_edit", "fix_acceptance", "session_mined_candidate", "other"}
  Parses = {TRUE, FALSE}
  MaxRetry = 2
  Threshold = 2
  OpenTicks = 1
  Stale = 0
  OlderThan = 0
  BatchSize = 1
  MaxItems = 1
  MaxFaults = 1
INVARIANTS ConfirmedEditHasReceipt OnlyApprovedUploaded
PROPERTIES EveryRowSettles ImplementsDeliveryQueue
