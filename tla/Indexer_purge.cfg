SPECIFICATION Spec
CONSTANTS
  Docs = {1}
  Blank = {}
  Ops = {"trash", "delete"}
  MaxAttempts = 2
  MaxQueue = 3
  MaxOps = 2
  MaxFaults = 0
  MaxCrashes = 0
INVARIANT PurgedStaysPurged
CHECK_DEADLOCK FALSE
