CONSTANTS
    IdBits = 2
    Ids = {0, 1, 2}
    MaxLists = 3
SPECIFICATION Spec
INVARIANTS
    TypeOK
    IntersectionCorrect
    UnionCorrect
PROPERTIES
    OperationsTerminate
