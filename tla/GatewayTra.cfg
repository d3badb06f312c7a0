SPECIFICATION Spec
CONSTANTS
  Commands = {"DATA_VIDEO_TRA_RUN"}
  Strays = {"VIDEO_TRA_RUN"}
  MaxCommands = 1
  MaxMishaps = 1
  QMax = 2
PROPERTY StartsOnly
CHECK_DEADLOCK FALSE
