SPECIFICATION MCSpec
CONSTANTS
    Offers <- OneEach
    Firmware = 0
    Absent = Absent
    ListMax = 2
    MaxMsgs = 4
    MaxMishaps = 1
    Written = {"blank", "app = long path", "DEVICE TYPE", "FIRMWARE PARSER",
               "FIRMWARE RESET", "app = path", "ENABLE = 1"}
    MaxLines = 4
    MaxSteps = 4
    UpgradeMishaps = 1
INVARIANTS TableOnDisk RecordsHaveFiles CrashLosesNothing
           ReadsWhatItSays AnswersAreTrue
PROPERTIES ModifiedIsSaved
CHECK_DEADLOCK FALSE
