SPECIFICATION Spec
CONSTANTS
  t1 = t1
  t2 = t2
  p1 = p1
  p2 = p2
  p3 = p3
  NoPid = NoPid
  Threads = {t1, t2}
  Pids = {p1, p2, p3}
  MaxStrangers = 1
  MaxCrashes = 1
INVARIANTS
  TypeOK
  SoleLoop
PROPERTIES
  AnswersAreTrue
  RequestsEnd
