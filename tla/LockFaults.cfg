SPECIFICATION Spec
CONSTANTS
    p1 = p1  p2 = p2  p3 = p3
    g1 = g1  g2 = g2  g3 = g3  g4 = g4
    here = here  there = there
    NoGen = NoGen  NoProc = NoProc
    Proc = {p1, p2}
    Gen = {g1, g2, g3}
    Host <- OneHost
    Scoped = {p1}
    Managed = TRUE
    Reuse = TRUE
    Clock = TRUE
    Faults = TRUE
    MaxTasks = 3
    MaxCrashes = 2
SYMMETRY GenSymmetry
INVARIANTS KeyInv ReadersKeepBinary NativeKeepsKey CompletionCertified
PROPERTY ImplementsKey
CHECK_DEADLOCK FALSE
