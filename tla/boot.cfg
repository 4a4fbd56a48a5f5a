\* The values of boot.s: 18 sectors, 0x7000.
SPECIFICATION FairSpec
CONSTANTS
  TOTALSECTORS = 18
  SYSSIZE = 28672
INVARIANTS TypeOK ReadFits LoadedInOrder KernelInPlace
PROPERTY Boots
