\* Four CPU-bound tasks with the priorities of the code.
SPECIFICATION LinkedSpec
CONSTANTS
  Tasks = {t0, t1, t2, t3}
  Task0 = t0
  NoTask = null
  Queues = {q}
  Sleepers = {}
  Wakers = {}
  PrioMod = 256
  InitialPrio = 200
  RunCost = 30
  WaitGain = 10
  Nested = {}
  MaxNest <- MCMaxNest
PROPERTIES EveryTaskRuns
