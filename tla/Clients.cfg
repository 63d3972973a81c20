\* Two client objects on three descriptors and a pool of one worker: the pool
\* can be full, and a descriptor can be reused.
SPECIFICATION LiveSpec
CONSTANTS
  MaxClient = 2
  MaxFd = 3
  MaxInput = 2
  MaxTick = 1
  Worker <- MCWorker
  edges = 1
INVARIANTS WorkerOwnsItsClient InOneContainer
PROPERTIES InputIsServed DetachIsServed
CHECK_DEADLOCK FALSE
