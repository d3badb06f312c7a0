SPECIFICATION MCSpec
CONSTANTS
  Words = 11
  Lens <- SmallLens
  CharRange = 256
  Tags = {t}
  None = None
  Callers = {a, b}
  SlotCount = 2
  SendPolls = 2
  RecvPolls = 2
  MaxSn = 1
  NoBuffer = NoBuffer
  PeerIds = {2}
PROPERTIES FifoRefinement FifoDelivers RefusesOnlyWhenTight SlotsExpire
CHECK_DEADLOCK FALSE
