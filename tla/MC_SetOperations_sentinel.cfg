CONSTANTS
    IdBits = 2
    Ids = {1, 3}
    MaxLists = 2
SPECIFICATION Spec
INVARIANT
    UnionCorrect
