CONSTANTS
    NULL = NULL
    Elems = {e1, e2}
    MaxCells = 5
    Chars = {c1, c2}
    SegmentSize = 2
    MaxChars = 5
    k1 = k1
    k2 = k2
    k3 = k3
    k4 = k4
    Keys <- MCKeys
    HashCode <- MCHashCode
    Values = {v1, v2}
    InitialBuckets = 4
    MaxLinks = 5
    MaxBuckets = 9
    Upper = {"A"}
    Lower = {"n"}
    Digit = {"0"}
    Underscore = {"_"}
    Operators = {"+", "-", "."}
    Blank <- MCBlank
    Other = {}
    Reserved <- MCReserved
    Alphabets <- MCAlphabets
    Vocabularies <- MCVocabularies
    i1 = i1
    i2 = i2
    i3 = i3
    Items = {i1, i2, i3}
    Rank <- MCRank
    MaxItems = 4
    Things = {t1, t2, t3}
    MaxThings = 3
    MaxNumber = 4
    Stocks <- MCStocks
SYMMETRY Symmetry
SPECIFICATION Spec
CHECK_DEADLOCK FALSE
INVARIANTS ListsSeeTheQueue SegmentsAreExact LinksAreExact LexesAsWritten ParsedAsWritten TakesTheMost ShownIsRead CopiesStandApart OrderIsTotal HeldIsMarked MatchBindsFreeVars VisitsEachOnce
PROPERTIES QueueIsFifo BufferIsFifo HashIsDictionary ArrayIsVector
