SPECIFICATION Spec
CONSTANTS
  l1 = l1  l2 = l2  l3 = l3
  o1 = o1  o2 = o2  o3 = o3
  None = None
  GroupTask = {l1}  Appender = {l2}
  Op = {o1, o2, o3}
  Event <- SomeEvents
  Payloads <- SomePayloads
  Batch <- OneBatch
  Lone <- CompanionAppend
  MaxAttempts = 3
  MaxBatches = 3  MaxAppends = 2  MaxFaults = 0  MaxLosses = 0
INVARIANTS ResubmissionServes
CHECK_DEADLOCK FALSE
