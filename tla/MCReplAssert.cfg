CONSTANTS
    MaxThreads = 3
    NSteps = 2
    Locks = {}
    MsgQs = {q1}
    NIL = NIL
    Ops <- WaitOps
    MaxKids = 2
    MaxWaiting = 2
    MaxTid = 4
    Messages = {m1}
    MaxSends = 1
    MaxWaits = 2
    MaxDepth = 2
SPECIFICATION Spec
INVARIANTS ReplHasValue
