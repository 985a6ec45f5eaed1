SPECIFICATION FairSpec
CONSTANTS
  Docs = {1}
  Blank = {}
  Ops = {"star", "unstar", "reprocess", "trash", "restore", "delete"}
  MaxAttempts = 2
  MaxQueue = 3
  MaxOps = 3
  MaxFaults = 1
  MaxCrashes = 1
INVARIANTS TypeOK 
PROPERTIES  FiledIsIndexed
CHECK_DEADLOCK FALSE
