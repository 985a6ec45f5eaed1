SPECIFICATION SumSpec
CONSTANTS
  Docs = {1, 2}
  Filed = {2}
  Clients = {c1}
  Untrusted = {1}
  Empty = {2}
  Suggested <- MCSuggested
  Cluster <- MCCluster
  KnownTags <- Tag
  Ops = {"approve", "reject", "star", "reprocess", "dismiss"}
  BatchSize = 5
  MaxTransient = 2
  MaxAttempts = 2
  MaxCopies = 1
  MaxOps = 2
  MaxFaults = 1
  MaxCrashes = 1
  Null = Null
  Files = {1, 2}
  FileNames = {"a", "b"}
  Batches = {1, 2}
  BinDocs = {d1, d2, d3}
  Users = {u1}
  PageSize = 1
  Fields = {"f"}
  Values = {"", "a ", "a", "b"}
  Trim <- MCTrim
  Normal <- MCNormal
  TypeOf <- MCTypeOf
  Types = {"t", "u"}
  TagSets <- MCTagSets
  PAGE_SIZE = 1
  NoType = ""
  SearchTexts = {"", "x", "y"}
  PageTypes = {"", "t"}
  Statuses = {"", "error"}
  MaxPages = 2
  Models = {m1}
  DEFAULT_MODEL = m0
  fallbackModel = env
  Admins = {a1}
  Thresholds = {905}
  TTL = 1
  Timeout = 1
  MaxTicks = 2
  MaxSaves = 2
  Browsers = {b1, b2}
  Passwords = {p, q}
  Bootstrap = p
  MaxFailures = 2
  Window = 1
  Expires = 1
  MaxTime = 1
  MaxChanges = 2
INVARIANTS PartsTypeOK FiledOnlyIfApproved ProvenanceKept RowsTellOfTheirName EmptiedAll EditsWereTyped  SavedModelKept ReadersFollowTables 
PROPERTIES LateTagsSurvive AcknowledgedSwapHolds  LostAsAsked 
CHECK_DEADLOCK FALSE
