\* Three tasks, each of which may call sleep_on; the init task wakes.
SPECIFICATION Spec
CONSTANTS
  Tasks = {t0, t1, t2}
  Task0 = t0
  NoTask = null
  Queues = {q}
  Sleepers = {t0, t1, t2}
  Wakers = {t0}
  PrioMod = 3
  InitialPrio = 2
  RunCost = 1
  WaitGain = 1
  Nested = {}
  MaxNest <- MCMaxNest
INVARIANTS TypeOK InitTaskReady NewbornNotDispatched SelectionIsLoop
PROPERTIES StrandedForever
