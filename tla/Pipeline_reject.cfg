SPECIFICATION Spec
CONSTANTS
  Docs = {1}
  Filed = {}
  Clients = {c1}
  Untrusted = {}
  Empty = {}
  Suggested <- MCSuggested
  Cluster <- MCCluster
  KnownTags <- Tag
  Ops = {"approve", "reject"}
  BatchSize = 5
  MaxTransient = 2
  MaxAttempts = 2
  MaxCopies = 1
  MaxOps = 2
  MaxFaults = 0
  MaxCrashes = 0
PROPERTY RejectedIsNotPropagated
CHECK_DEADLOCK FALSE
