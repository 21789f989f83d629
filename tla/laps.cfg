CONSTANTS
    c1 = c1
    c2 = c2
    s1 = s1
    s2 = s2
    s3 = s3
    w1 = w1
    clock = clock
    person = person
    waker = waker
    i1 = i1
    i2 = i2
    i3 = i3
    i4 = i4
    NoWorker = NoWorker
    NoSweep = NoSweep
    Clocks = {clock}
    Askers = {person}
    Wakers = {waker}
    Ids = {i1, i2, i3, i4}
    Collections = {c1, c2}
    Sweeps = {s1, s2, s3}
    Workers = {w1}
    CollOf <- MCCollOf
    WorkerOf <- MCWorkerOf
    Casts <- LiveCasts
    lap = lap
    Readers = {r1, r2}
    NPARTS = 2
    After <- MCAfter
    AfterEach = {}
    OneLap = {}
    HoldSweeps <- JustLap
    PER_RUN = 1
    MAX_CUTS = 2
    MAX_HOLDS = 2
    TROUBLES = 2
    Faults = {}
SPECIFICATION MCSpec
PROPERTIES
    
    LapGoesOn
