\* Two pages of heap at boot; four have memory to themselves, 11 fill the memory mapped at
\* boot, and two more take a new page table.
SPECIFICATION Spec
CONSTANTS
  LowPages = 1
  NFrames = 15
  TablePages = 2
  Dirs = 9
  Scratch = 3
  IndexStart = 4
  HeapStart = 5
  InitEnd = 7
  HeapMin = 1
  HeapMax = 13
  Sizes = {1, 2, 4, 8, 11, 12, 13}
  Stale <- MCStale
INVARIANTS TypeOK HeapBacked OwnedExclusively NoLostPages
