SPECIFICATION Spec
CONSTANTS
    r1 = r1  r2 = r2  a = a  b = b
    Requests = {r1, r2}
    Prepares = {r2}
    Inputs = {a, b}
    Modules = {a, b}
    Asks <- OneForA
    Deps <- AImportsB
    Volatile = {b}
    Watching = {r1}
    Watched = TRUE
    Rewritten = Rewritten
    MaxEvents = 5
INVARIANTS TransformInv CompiledOnce
PROPERTY AnswersFresh
CHECK_DEADLOCK FALSE
