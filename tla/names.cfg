SPECIFICATION Spec
CONSTANTS
    Dash = "-"
    Char = {"-", "a", "b"}
    Limit = 3
    Objects = {o1, o2}
    FullNames <- SomeNames
    MaxWorkloads = 2
INVARIANTS TypeOK FoundByEitherName PartsKeepApart
CHECK_DEADLOCK FALSE
