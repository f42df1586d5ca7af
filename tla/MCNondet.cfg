CONSTANTS
    MaxThreads = 3
    NSteps = 2
    Locks = {}
    MsgQs = {}
    NIL = NIL
    Ops <- NondetOps
    MaxKids = 2
    MaxWaiting = 2
    MaxTid = 4
    Messages = {}
    MaxSends = 0
    MaxWaits = 0
    MaxDepth = 2
SPECIFICATION Spec
PROPERTIES TerminatedThreadsStayTerminated
