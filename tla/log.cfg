SPECIFICATION Spec
CONSTANTS
  w1 = w1  w2 = w2  t1 = t1  t2 = t2  p = p  q = q
  None = None
  Op = {"o1", "o2", "o4", "o5", "o6"}
  Key = {"k"}
  Payload = {p, q}
  Writer = {w1, w2}
  Target = {}
  TTL = 1
  Task = {t1, t2}
  Job <- MCJob
  Follower = {"f"}
  Start = {1}
  MaxEvents = 2
  MaxClock = 1
  MaxCalls = 5
  MaxFaults = 1
INVARIANTS ReadsAgree FollowerTiles AnswersStand StableOnce EpochHasOneWriter
 
SYMMETRY TaskSymmetry
CHECK_DEADLOCK FALSE
