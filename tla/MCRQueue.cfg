\* Every operation of the class, and three threads on one condition variable.
SPECIFICATION FairSpec
CONSTANTS
    t1 = t1
    t2 = t2
    t3 = t3
    Threads = {t1, t2, t3}
    Items = {a, b}
    NoItem = NoItem
    Nobody = Nobody
    Uses <- EveryUse
INVARIANTS TypeOK MutexHeld OnePlace NoLostWakeup
PROPERTIES WaitersServed ImplementsChannel
