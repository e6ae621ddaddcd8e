SPECIFICATION Spec
CONSTANTS
  c1 = c1  c2 = c2
  o1 = o1  o2 = o2  o3 = o3
  w1 = w1  w2 = w2  t1 = t1  t2 = t2
  None = None
  Client = {c1, c2}
  Op = {o1, o2}
  Writer = {w1}
  Target = {t1, t2}
  Call <- RetryCalls
  TTL = 1
  FirstUse = 0  Window = 1  MaxClock = 0
  MaxCalls = 3  MaxFaults = 2  MaxTampers = 1  MaxRenewals = 0
SYMMETRY ClientSymmetry
INVARIANTS TypeOK AtMostOnce ReceiptsAreCommits FirstDeliveryOnce
           HistoryIsDurable NeverFailsClosed
PROPERTIES ConflictIsJustified RegisterSpec
CHECK_DEADLOCK FALSE
