SPECIFICATION Spec
CONSTANTS
    p1 = p1  p2 = p2  p3 = p3
    r1 = r1  r2 = r2  r3 = r3  r4 = r4
    NoRec = NoRec
    Proc = {p1, p2}
    Rec = {r1, r2, r3}
    Scoped = {p1}
    Suspends = FALSE
    Clock = TRUE
    Faults = TRUE
    MaxCalls = 3
    MaxCrashes = 1
    MaxSkews = 1
SYMMETRY RecSymmetry
INVARIANTS TypeOK Exclusion CacheInv GuardedLeaseKept
CHECK_DEADLOCK FALSE
