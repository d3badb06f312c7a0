SPECIFICATION Spec
CONSTANTS
  Callers = {a, b}
  SlotCount = 2
  SendPolls = 1
  RecvPolls = 1
  MaxSn = 2
  PeerIds = {1}
  NoBuffer = NoBuffer
INVARIANT UniqueKeys
PROPERTY OwnResponse
CHECK_DEADLOCK FALSE
