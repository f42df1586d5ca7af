CONSTANTS
    Sessions <- AllSessions
    Orders <- OneOrder
    Match <- MatchObject
SPECIFICATION FairSpec
INVARIANTS TypeOK TailCallsPushNothing OperandsBalance ValueIsTheReference EnvIsTheReference
PROPERTIES EveryInputIsAnswered
