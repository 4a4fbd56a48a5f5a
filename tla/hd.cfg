\* Four requests of two sectors; three polls stand for 10000.
SPECIFICATION Spec
CONSTANTS
  Requests = {r1, r2, r3, r4}
  Null = null
  Sectors = 2
  Retries = 3
SYMMETRY Symmetry
INVARIANTS TypeOK TailsMatchChains
PROPERTIES InterruptFindsCommand ImplementsQueues
