CONSTANTS
    NumEvents = 2
    NumSends = 1
    OldEvents = 0
    Encrypted = {1}
    Messages = {1, 2}
    Redactable = {1}
    PageSize = 1
SPECIFICATION FairSpec
CHECK_DEADLOCK FALSE
INVARIANTS TypeOK TreeAndMapAgree PlaceholdersReplaceable UndecryptableReplaceable RedactionSticks HistoryComplete
PROPERTIES DecryptingEnds EchoReplacesPending
