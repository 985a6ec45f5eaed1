SPECIFICATION Spec
CONSTANTS
  Docs = {1, 2}
  Filed = {2}
  Clients = {c1}
  Untrusted = {}
  Empty = {}
  Suggested <- MCSuggested
  Cluster <- MCCluster
  KnownTags <- Tag
  Ops = {"approve", "reprocess", "dismiss"}
  BatchSize = 5
  MaxTransient = 2
  MaxAttempts = 2
  MaxCopies = 1
  MaxOps = 2
  MaxFaults = 0
  MaxCrashes = 0
PROPERTY DismissalSticks
CHECK_DEADLOCK FALSE
