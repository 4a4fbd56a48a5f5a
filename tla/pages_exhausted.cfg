SPECIFICATION Spec
CONSTANTS
  LowPages = 1
  NFrames = 8
  TablePages = 3
  Dirs = 5
  Scratch = 1
  IndexStart = 2
  HeapStart = 2
  InitEnd = 4
  HeapMin = 1
  HeapMax = 11
  Sizes = {1, 2, 11}
  Stale <- MCStale
PROPERTIES FoundPageWasFree
