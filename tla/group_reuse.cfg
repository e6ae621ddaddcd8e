SPECIFICATION Spec
CONSTANTS
  l1 = l1  l2 = l2  l3 = l3
  o1 = o1  o2 = o2  o3 = o3
  None = None
  GroupTask = {l1}  Appender = {l2}
  Op = {o1, o2, o3}
  Event <- SomeEvents
  Payloads <- SomePayloads
  Batch <- OneBatch
  Lone <- LeadersPayload
  MaxAttempts = 3
  MaxBatches = 1  MaxAppends = 1  MaxFaults = 0  MaxLosses = 0
INVARIANTS DifferentRequestConflicts
CHECK_DEADLOCK FALSE
