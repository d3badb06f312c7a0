SPECIFICATION Spec
CONSTANTS
  TimerCnt = 1  Loader = loader  Adjuster = adjuster  Params = 2  Top = 1
  Torn = Torn  Absent = Absent
  QMax = 2  Interval = 2
  MaxOps = 2  MaxMishaps = 1
INVARIANTS OwnAnswer SavedMeansDurable ImageAgrees
PROPERTIES SavedUnlessLost
CHECK_DEADLOCK FALSE
