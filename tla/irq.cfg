\* Handlers in handlers, in two tasks.
SPECIFICATION FairSpec
CONSTANTS
  Task = {main, task1}
  main = main
  task1 = task1
  MaxNested = 2
INVARIANTS TypeOK OnlyOwnInService
PROPERTIES TimerServed KeyServed OneDiskInterrupt DiskStopsAll
