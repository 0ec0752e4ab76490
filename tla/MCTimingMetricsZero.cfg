CONSTANTS
    MaxSize = 0
    Durations = {1, 2}
SPECIFICATION Spec
PROPERTY
    WindowSpec
