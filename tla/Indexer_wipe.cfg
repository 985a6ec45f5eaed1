SPECIFICATION Spec
CONSTANTS
  Docs = {1}
  Blank = {}
  Ops = {"reprocess"}
  MaxAttempts = 2
  MaxQueue = 3
  MaxOps = 1
  MaxFaults = 1
  MaxCrashes = 0
PROPERTY EmbedBeforeDelete
CHECK_DEADLOCK FALSE
