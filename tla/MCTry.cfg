CONSTANTS
    Sessions <- TrySessions
    Orders <- OneOrder
    Match <- MatchObject
SPECIFICATION Spec
INVARIANT TryHasTheValueOfItsRule
