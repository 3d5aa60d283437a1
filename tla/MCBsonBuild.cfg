SPECIFICATION MCSpec
CONSTANTS
  d1 = d1
  d2 = d2
  Docs = {d1, d2}
  Appends <- AllAppends
  Keys <- AllKeys
  Buffers <- AllBuffers
  Sizes <- AllSizes
  Numbers <- AllNumbers
  InlineCap = 12
  StructSize = 14
  INT32_MAX = 32
  Builders = {d1}
  Nested <- AllNested
  Keeps <- AllKeeps
  MaxCopied = 19
  MaxDepth = 2
INVARIANTS
  MemoryInOrder
  HeapMatches
PROPERTIES
  BuildsLists
CHECK_DEADLOCK FALSE
