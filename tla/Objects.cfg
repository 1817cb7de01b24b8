\* Three threads on two futex words; three threads with a mutex, a condition, an
\* event, and a semaphore with one unit that is posted once.
SPECIFICATION ObjectsSpec
CONSTANTS
  FutexThreads = {t1, t2, t3}
  Keys = {k1, k2}
  Values = {0, 1}
  Threads = {t1, t2, t3}
  Timed = {t1, t2, t3}
  Uses <- MCUses
  Initial = 1
  MaxPosts = 1
CONSTRAINT NoStray
SYMMETRY Symmetry
INVARIANTS FutexListsSound SyncSound
PROPERTY FutexImplementsQueue
\* A null callback stops the machine.
CHECK_DEADLOCK FALSE
