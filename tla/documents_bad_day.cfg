CONSTANTS
    Machines = {"documents"}
    Names = {"old", "new"}
    FirstName = "old"
    Requests = {r1}
    Tools = {"rollback", "delete", "rename"}
    LAST = 3
    Titles <- DocTitles
    Numbered <- DocNumbered
    Answers <- DocAnswers
    Scopes <- DocScopes
    Modes <- DocModes
    Places <- DocPlaces
    Fixings <- DocFixings
    KEEP_HALF = TRUE
    DOUBT = TRUE
    MAX_BAKES = 3
    MAX_LOCKS = 0
    N = 5
    Lookers = {ai}
    TARGET = 2
    MAX_RUNS = 5
    MAX_NEW = 2
    ANYTIME = FALSE
    EARLY = TRUE
SPECIFICATION MCSpec
PROPERTY BadDayIsStopped
CHECK_DEADLOCK FALSE
