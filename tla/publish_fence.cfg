SPECIFICATION Spec
CONSTANTS
  c1 = c1  c2 = c2
  o1 = o1  o2 = o2  o3 = o3
  w1 = w1  w2 = w2  t1 = t1  t2 = t2
  None = None
  Client = {c1, c2}
  Op = {o1, o2, o3}
  Writer = {w1, w2}
  Target = {t1}
  Call <- FenceCalls
  TTL = 1
  FirstUse = 0  Window = 2  MaxClock = 1
  MaxCalls = 3  MaxFaults = 0  MaxTampers = 0  MaxRenewals = 1
SYMMETRY ClientSymmetry
PROPERTIES RegisterSpec
CHECK_DEADLOCK FALSE
