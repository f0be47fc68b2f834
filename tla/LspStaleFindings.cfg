SPECIFICATION Spec
CONSTANTS
    d1 = d1  d2 = d2  NoDoc = NoDoc
    o1 = o1  o2 = o2  r1 = r1
    Docs = {d1}
    Owners = {o1}
    Reqs = {}
    MaxEvents = 4
    MaxJobs = 2
INVARIANT SuppressedWhileDirty
CHECK_DEADLOCK FALSE
