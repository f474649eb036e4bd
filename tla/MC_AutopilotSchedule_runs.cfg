SPECIFICATION Spec
CONSTANTS
  Owners = {p, q}
  Candidates = {a, b, c}
  Drafts = {c}
  MaxScan = 1
  None = none
  Lease = 1
  Cooldowns = {1}
  MaxTime = 3
SYMMETRY Symmetry
INVARIANTS OverlapOnlyAfterExpiry NoMarkForgotten
