SPECIFICATION Spec
CONSTANTS
  AllProcs = {p1, p2}
  t1 = t1
  t2 = t2
  Texts = {t1, t2}
  Repos = {r1, r2}
  NoRepo = NoRepo
  NoText = NoText
  Unguided = {t1}
  Cap = 1
  NumRules = 2
  Settings <- Everyday
SYMMETRY Symmetry
INVARIANTS TypeOK ApprovedIsActivated SyncCatchesUp
PROPERTIES DisabledStaysOff NoForkedDraft TrustTiersApart
CHECK_DEADLOCK FALSE
