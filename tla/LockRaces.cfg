SPECIFICATION Spec
CONSTANTS
    p1 = p1  p2 = p2  p3 = p3
    g1 = g1  g2 = g2  g3 = g3  g4 = g4
    here = here  there = there
    NoGen = NoGen  NoProc = NoProc
    Proc = {p1, p2, p3}
    Gen = {g1, g2}
    Host <- OneHost
    Scoped = {}
    Managed = TRUE
    Reuse = FALSE
    Clock = FALSE
    Faults = FALSE
    MaxTasks = 4
    MaxCrashes = 2
SYMMETRY ProcGenSymmetry
INVARIANTS LeaseIsCurrent TombstonesHonest FencesReserved
CHECK_DEADLOCK FALSE
