SPECIFICATION FairSpec
CONSTANTS
    d1 = d1  d2 = d2  NoDoc = NoDoc
    o1 = o1  o2 = o2  r1 = r1
    Docs = {d1}
    Owners = {o1}
    Reqs = {r1}
    MaxEvents = 3
    MaxJobs = 2
INVARIANTS ProxyInv RefreshInv AnsweredOnce RefreshKept
PROPERTIES FindingsCurrent AnswersCurrent RequestAnswered RefreshCatchesUp
CHECK_DEADLOCK FALSE
