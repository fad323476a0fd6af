SPECIFICATION Spec
CONSTANTS
    Key = {1,2,3}
    MemTableSize = 2
    TargetFileSize = 1
    MaxLevel = 3
    Level0Files = 3
    LevelFiles = 2
    MaxWrites = 4
    MaxCrashes = 0
CHECK_DEADLOCK FALSE
INVARIANT LsmGetLatest
