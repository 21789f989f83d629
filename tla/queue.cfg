CONSTANTS
    Procs = {p1, p2}
    Ids = {i1, i2, i3}
    Collections = {c1, c2}
    Sweeps = {s1}
    Times = {0, 1}
    Pair = {j1, j2}
    Single = {c3}
    Moments = {1}
    RETRIES = 2
    NoEntry = NoEntry
    GRACE = 5
    LAG = 2
    MINRUN = 3
    LAST = 12
    OfWorker = {l1, l2}
    w1 = w1
    PER_RUN = 1
SPECIFICATION MCSpec
SYMMETRY Symmetry
INVARIANTS
    TypeOK
    NoPlainTwins
    OneHolder
    OvertakenOnlyByReturned
PROPERTIES
    NamedIsNeverFolded
    CasImplementsAtomicQueue
    
    OneRunPerInterval
