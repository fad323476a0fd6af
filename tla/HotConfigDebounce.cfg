SPECIFICATION Spec
CONSTANTS
    Contents = {"a","b"}
    Alike = {}
    Unparsable = {}
    FailOnError = FALSE
    DebounceTicks = 2
    Timers = {"t"}
    MaxWrites = 2
    MaxCalls = 1
    MaxCallbacks = 0
CHECK_DEADLOCK FALSE
PROPERTY ConfigFollows
