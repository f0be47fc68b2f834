SPECIFICATION FairSpec
CONSTANTS
    p1 = p1  p2 = p2  p3 = p3
    g1 = g1  g2 = g2  g3 = g3  g4 = g4
    here = here  there = there
    NoGen = NoGen  NoProc = NoProc
    Proc = {p1, p2}
    Gen = {g1, g2}
    Host <- TwoHosts
    Scoped = {p1}
    Managed = FALSE
    Reuse = TRUE
    Clock = TRUE
    Faults = FALSE
    MaxTasks = 2
    MaxCrashes = 1

INVARIANT LeaseIsCurrent
PROPERTY TaskEnds
CHECK_DEADLOCK FALSE
