SPECIFICATION FairSpec
CONSTANTS
    c1 = c1  c2 = c2  c3 = c3
    NoOne = NoOne  NoPub = NoPub  Old = Old
    Claim = {c1, c2}
    Rejecting = {c1}
    Reused = {c2}
    Faults = TRUE
    MaxLapses = 2
INVARIANTS SharedInv OneCompile NoDuplicateCompile PartialsKept
PROPERTY ClaimEnds
CHECK_DEADLOCK FALSE
