CONSTANTS
    Sources = {c1, c2, d1, z}
    Dumps = {d1}
    Zim = z
    SLOTS = 1
    DUMP_LANE = FALSE
    Threads = {t1, t2}
    Stoppers = {k1}
SPECIFICATION FairSpec
INVARIANTS
    TypeOK
    OneRunPerSource
    AdmissionHolds
PROPERTIES
    StopSurvivesOtherRuns
    SlotComesFree
