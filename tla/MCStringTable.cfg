\* A table that starts at two slots and grows to eight; every hash function.
SPECIFICATION Spec
CONSTANTS
    s1 = s1
    s2 = s2
    s3 = s3
    s4 = s4
    Strings <- MCStrings
    Empty = Empty
    HashRange = 8
    FirstSize = 2
    Missing = Missing
    Unasked = Unasked
SYMMETRY Symmetry
INVARIANTS
    TypeOK
    NeverFull
PROPERTIES
    RefinesInterner
CHECK_DEADLOCK FALSE
