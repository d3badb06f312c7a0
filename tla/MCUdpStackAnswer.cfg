SPECIFICATION Spec
CONSTANTS
  Callers = {a, b}
  SlotCount = 1
  SendPolls = 1
  RecvPolls = 1
  MaxSn = 2
  PeerIds = {1}
  NoBuffer = NoBuffer
PROPERTY GetsItsData
CHECK_DEADLOCK FALSE
