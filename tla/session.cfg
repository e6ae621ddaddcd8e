SPECIFICATION Spec
CONSTANTS
  s1 = s1  s2 = s2  t1 = t1  t2 = t2  t3 = t3
  k1 = k1  k2 = k2  p1 = p1  p2 = p2
  None = None
  Writer = {s1, s2}
  Target = {}
  Task = {t1, t2, t3}
  Of <- MCOf
  Job <- MCJob
  Skew <- MCSkew
  TTL = 3
  Slack = 1
  Budget = 3
  MaxRounds = 2
  LastStart = 1
  MaxCalls = 3
  MaxFaults = 1
INVARIANTS TypeOK KeyOnce OneActiveWriter ActiveBelief
PROPERTIES LostIsSilent FencedLogSpec
CHECK_DEADLOCK FALSE
