SPECIFICATION FairSumSpec
CONSTANTS
  Docs = {d1, d2}
  Null = Null
  MaxQueue = 3
  ContextSize = 1
  RerankTopK = 2
  MaxResults = 1
  MaxHits = 2
  MaxDeltas = 1
  MaxAsks = 2
  MaxMoves = 1
  MaxDrops = 2
  MaxSigns = 2
  InboxDocs <- MCInboxDocs
  PageSize = 1
  Concurrency = 2
  Fields <- MCFieldNames
  Garbled <- MCGarbled
  Prefix <- MCPrefix
  MaxAttempts = 2
  MaxLength = 3
INVARIANTS PartsTypeOK NoLostWakeup ShownIsTheAnswer   RescueKeepsTheReply
PROPERTIES MailboxServed ShutdownCompletes AnswerSettles BarSettles
CHECK_DEADLOCK FALSE
