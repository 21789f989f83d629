CONSTANTS
    Machines = {"gather"}
    k1 = k1
    k2 = k2
    b1 = b1
    b2 = b2
    d1 = d1
    d2 = d2
    RUNS = 1
    MAX_STOPS = 1
    MAX_TIME = 4
    COOLDOWN = 2
    STOP_POLL = 1
    BEAT_GRACE = 2
    STOP_GRACE = 2
    TIMEOUT = 2
    STALE_GRACE = 1
    RETRIES = 1
    Faults = {"crash"}
    Requests = {r1}
    Kinds = {"chat", "image", "usage", "probe"}
    Slow = {"chat", "image", "usage", "probe"}
    Dropped = {"chat", "usage"}
    MAX_CREDENTIAL = 2
    MAX_TOKEN = 2
    MAX_RESTARTS = 1
    Jobs = {j1, j2}
    TextJobs = {j2}
    Workers = {p1, p2}
    Kind <- JobKind
    Bridged <- Jobs
    Count <- JobCount
    Stops = 1
    MAX_CRASHES = 1
SPECIFICATION MCSpec
INVARIANT ReviewedWasRead
CHECK_DEADLOCK FALSE
