SPECIFICATION Spec
CONSTANTS
  AllProcs = {p1}
  t1 = t1
  t2 = t2
  Texts = {t1, t2}
  Repos = {r1, r2}
  NoRepo = NoRepo
  NoText = NoText
  Unguided = {t1}
  Cap = 1
  NumRules = 2
  Settings <- Refining
PROPERTY PromotesNoCopy
CHECK_DEADLOCK FALSE
