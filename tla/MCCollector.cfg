CONSTANTS
    Objects = {o1, o2, o3, o4}
    NIL = NIL
    MaxRefs = 1
    MaxRoots = 2
    MarkCommand = FALSE
SYMMETRY Symmetry
SPECIFICATION Spec
INVARIANTS ListsAreExact ContentsAreMarked
PROPERTIES GarbageIsCollected MemoryIsSafe
