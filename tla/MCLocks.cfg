CONSTANTS
    MaxThreads = 3
    NSteps = 2
    Locks = {l1}
    MsgQs = {}
    NIL = NIL
    Ops <- LockOps
    MaxKids = 2
    MaxWaiting = 2
    MaxTid = 4
    Messages = {}
    MaxSends = 0
    MaxWaits = 0
    MaxDepth = 2
SPECIFICATION Spec
INVARIANTS IInv FreeLockHasNoWaiters MutualExclusion
PROPERTIES LocksAreFair
