SPECIFICATION MCSpec
CONSTANTS
    QMax = 2
    MaxEvents = 6
    BufSize = 3
    MaxTunes = 2
INVARIANTS ReleasedWhenOver NoneWithoutTimer RingsTheTune
PROPERTIES CallsTimeOut NobodyTalksAlone
CHECK_DEADLOCK FALSE
