CONSTANTS
    MaxThreads = 3
    NSteps = 1
    Locks = {}
    MsgQs = {q1}
    NIL = NIL
    Ops <- MsgQOps
    MaxKids = 2
    MaxWaiting = 2
    MaxTid = 4
    Messages = {m1, m2}
    MaxSends = 2
    MaxWaits = 2
    MaxDepth = 2
SPECIFICATION Spec
INVARIANTS SleeperIsQueued NoMessageWithWaiter MatchedInOrder
