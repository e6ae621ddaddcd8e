SPECIFICATION Spec
CONSTANTS
  l1 = l1  l2 = l2  l3 = l3
  o1 = o1  o2 = o2  o3 = o3
  None = None
  GroupTask = {l1, l2}  Appender = {}
  Op = {o1, o2, o3}
  Event <- SomeEvents
  Payloads <- SomePayloads
  Batch <- SharedBatches
  Lone <- Nobody
  MaxAttempts = 2
  MaxBatches = 3  MaxAppends = 0  MaxFaults = 1  MaxLosses = 0
SYMMETRY TaskSymmetry
INVARIANTS TypeOK AdmittedOnce AcksAreWritten NeverFailsClosed
CHECK_DEADLOCK FALSE
