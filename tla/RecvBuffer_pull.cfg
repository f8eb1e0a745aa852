SPECIFICATION BufferSpec
CONSTANTS
  BufferSize = 4
  BufferCount = 4
  MaxPacketSize = 7
INVARIANT PulledBelowOneBuffer
CHECK_DEADLOCK FALSE
