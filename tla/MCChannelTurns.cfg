CONSTANTS
  m1 = m1
  m2 = m2
  m3 = m3
  NoQuestion = NoQuestion
  Message = {m1, m2, m3}
  Scripts <- MCScripts
SPECIFICATION Spec
PROPERTIES
  QuestionEnds
  RestIsTold
INVARIANTS
  SentOnce
  OneTurn
  WholeReply
  SettledByOne
CHECK_DEADLOCK FALSE
