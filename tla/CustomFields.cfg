SPECIFICATION SumSpec
CONSTANTS
  AI_FIELD_NAMES = {"ai_title", "ai_issue_date"}
  UserFields = {"note"}
  Editors = {e1}
  MaxExtractions = 2
  MaxWrites = 1
  Null = Null
  TypeFieldNames <- MCTypeFieldNames
  Pages = {p1}
  TagNames = {"a", "A"}
  Lower <- MCLower
  Order <- MCOrder
  Callers = {w1, w2}
  MaxId = 2
  PageSize = 1
  ApiPage = 1
  Docs = {1, 2}
  Contents <- MCContents
  Trim <- MCTrim
  LowerText <- MCLowerText
  Close = {{10, 11}}
  MaxChanges = 3
INVARIANTS PartsTypeOK NoMixedExtractions OwnFieldsFromUser    PanelsAgree
CHECK_DEADLOCK FALSE
