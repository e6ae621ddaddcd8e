SPECIFICATION Spec
CONSTANTS
  l1 = l1  l2 = l2  l3 = l3
  o1 = o1  o2 = o2  o3 = o3
  None = None
  GroupTask = {l1}  Appender = {l2}
  Op = {o1, o2, o3}
  Event <- SomeEvents
  Payloads <- SomePayloads
  Batch <- DoubledBatch
  Lone <- MisusedAppend
  MaxAttempts = 2
  MaxBatches = 2  MaxAppends = 2  MaxFaults = 1  MaxLosses = 1
INVARIANTS AdmittedOnce AcksAreWritten
CHECK_DEADLOCK FALSE
