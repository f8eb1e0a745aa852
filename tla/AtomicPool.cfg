SPECIFICATION Spec
CONSTANTS
  t1 = t1
  t2 = t2
  t3 = t3
  a = a
  b = b
  c = c
  NoBlock = NoBlock
  Threads <- MCThreads
  Allocators <- MCAllocators
  Blocks <- MCBlocks
  Chunk <- MCChunk
  Tags = 4
SYMMETRY Symmetry
INVARIANTS TypeOK BlocksArePartitioned
CHECK_DEADLOCK FALSE
