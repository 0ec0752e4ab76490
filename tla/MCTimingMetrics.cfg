CONSTANTS
    MaxSize = 4
    Durations = {1, 2, 3}
SPECIFICATION Spec
INVARIANTS
    TypeOK
    TotalIsSum
PROPERTY
    WindowSpec
