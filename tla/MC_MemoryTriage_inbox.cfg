SPECIFICATION Spec
CONSTANTS
  AllProcs = {p1, p2}
  a1 = a1
  a2 = a2
  b = b
  s1 = s1
  s2 = s2
  Lessons = {a1, a2, b}
  Topic <- TopicOf
  Length <- LengthOf
  Sessions = {s1, s2}
  NoLesson = NoLesson
  NumRows = 4
  Settings <- Everyday
INVARIANTS TypeOK FoldedBehindLive MinedIsKept
PROPERTIES EvidenceNeverFalls ApprovedIsKept
CHECK_DEADLOCK FALSE
