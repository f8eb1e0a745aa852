SPECIFICATION BufferSpec
CONSTANTS
  BufferSize = 4
  BufferCount = 4
  MaxPacketSize = 7
INVARIANTS BufferTypeOK RoomToReceive PullIsDisjoint
CHECK_DEADLOCK FALSE
