SPECIFICATION Spec
CONSTANTS
  None = None
  Log = {"a", "b", "c"}
  Frame <- MCFrame
  MaxRequests = 2
  MaxQueued = 1
  MaxLogs = 2
  MaxFrames = 3
INVARIANTS OneSlotPerLog NoSlotLeaks CleanExit
PROPERTIES EndsWithoutTimers
CHECK_DEADLOCK FALSE
