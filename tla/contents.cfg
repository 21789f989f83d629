CONSTANTS
    Machines = {"files", "documents", "partitions"}
    Names = {"old", "new"}
    FirstName = "old"
    Requests = {r1}
    Tools = {"rollback", "delete", "rename"}
    LAST = 3
    Titles <- DocTitles
    Numbered <- DocNumbered
    Answers <- DocAnswers
    Scopes <- DocScopes
    Modes <- DocModes
    Places <- DocPlaces
    Fixings <- DocFixings
    KEEP_HALF = TRUE
    DOUBT = TRUE
    MAX_BAKES = 3
    MAX_LOCKS = 1
    N = 5
    Lookers = {ai}
    TARGET = 2
    MAX_RUNS = 6
    MAX_NEW = 2
    ANYTIME = FALSE
    EARLY = FALSE
SPECIFICATION MCSpec
INVARIANTS
    TypeOK
    
PROPERTIES
    FilesAreKept
    DecidedStays
    UnreadIsLeftAlone
CHECK_DEADLOCK FALSE
