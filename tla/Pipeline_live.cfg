SPECIFICATION FairSpec
CONSTANTS
  Docs = {1, 2}
  Filed = {2}
  Clients = {c1}
  Untrusted = {}
  Empty = {2}
  Suggested <- MCSuggested
  Cluster <- MCCluster
  KnownTags <- Tag
  Ops = {"approve", "reprocess"}
  BatchSize = 5
  MaxTransient = 2
  MaxAttempts = 2
  MaxCopies = 1
  MaxOps = 1
  MaxFaults = 1
  MaxCrashes = 1
PROPERTIES EventuallyClassified ApprovedIsHandled
CHECK_DEADLOCK FALSE
