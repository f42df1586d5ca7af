CONSTANTS
    Objects = {o1, o2, o3}
    NIL = NIL
    MaxRefs = 1
    MaxRoots = 2
    MarkCommand = TRUE
SPECIFICATION Spec
INVARIANTS ContentsAreMarked
