\* Two pages of heap at boot, up to four; growing further is aliased.
\* With header and footer, blocks of 4 (a page), 7 and 11 units.
SPECIFICATION Spec
CONSTANTS
  Page = 4
  InitPages = 2
  MinPages = 1
  OwnPages = 5
  Sizes = {2, 5, 9}
INVARIANTS TypeOK TilesTheHeap FootersLeadBack HolesUnited
PROPERTY ImplementsAllocator
