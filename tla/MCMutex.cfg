CONSTANTS
  Threads = {client1, client2, io, server}
  NoThread = NoThread
  MaxDepth = 3
SPECIFICATION Spec
INVARIANTS
  MutualExclusion
  NoSelfDeadlock
PROPERTY
  ImplementsRecursiveLock
