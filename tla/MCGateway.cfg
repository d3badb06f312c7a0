SPECIFICATION MCSpec
CONSTANTS
    Commands = {"DATA_SINGLE", "DATA_AUDIO_RUN", "DATA_VIDEO_TRA_RUN",
                "DATA_ASTP_VTRA_RUN", "DATA_ASTP_VALL_STP"}
    Strays = {"VIDEO_TRA_STOP"}
    MaxCommands = 2
    MaxMishaps = 1
    QMax = 2
    QueueSize = 2
    RingSize = 1
    Pieces = 2
    MaxFrames = 3
    LineMishaps = 1
INVARIANTS ServicesAgree HeardInOrder WholeFramesInOrder OneFalseFramePerMishap
PROPERTIES StopReturns
CHECK_DEADLOCK FALSE
