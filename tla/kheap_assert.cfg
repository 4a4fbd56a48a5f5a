\* The assertion of free fails.
SPECIFICATION Spec
CONSTANTS
  Page = 4
  InitPages = 2
  MinPages = 1
  OwnPages = 5
  Sizes = {2, 5, 9}
INVARIANT RightHoleIsIndexed
