SPECIFICATION Spec
CONSTANTS
    AI_FIELD_NAMES = {"ai_title", "ai_issue_date"}
    UserFields = {"note"}
    Editors = {e1}
    MaxExtractions = 2
    MaxWrites = 1
PROPERTY AiWritesKeepOthers
CHECK_DEADLOCK FALSE
