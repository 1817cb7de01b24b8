\* A ring of three bytes and five written ones; a log of eight words with records
\* of up to three; two cpus and two timers; four ranges; a heap of ten pages;
\* three devices and two threads; a ring of four bytes and two readers.  x1 and x2
\* name the address spaces, the cpus, the threads and the readers, which never meet, so that there are fewer permutations to try.
SPECIFICATION ServicesSpec
CONSTANTS
  Size = 3
  MaxBytes = 5
  Aspaces = {x1, x2}
  NoAspace = NoAspace
  MaxRegions = 2
  LogSize = 8
  MaxEntry = 3
  MaxRecords = 7
  LogReaders = {r1}
  Cpus = {x1, x2}
  KTimers = {T1, T2}
  NoTimer = NoTimer
  ClockMod = 6
  MaxLate = 1
  MaxDelay = 1
  MaxInterval = 2
  MaxBucket = 2
  Ranges <- MCRanges
  PageUnits = 8
  GrowUnits = 8
  LargeUnits = 64
  Pages <- MCPages
  AllocSizes = {1, 19, 63}
  Alignments = {8}
  MaxLive = 3
  MaxHeapSize = 40
  Devs = {d1, d2, d3}
  DevThreads = {x1, x2}
  Root = Root
  NoDev = NoDev
  MaxOpens = 1
  MaxProbes = 1
  CbufSize = 4
  MaxCbufBytes = 6
  CbufReaders = {x1, x2}
SYMMETRY Symmetry
INVARIANTS
  RingSound StreamIntegrity SignalsMatchState VmoKeptWhileNeeded
  BuffersSound TimersSound P2raSound CmpctSound DevmgrSound
\* The endpoints may be destroyed, a NULL callback stops the machine, and every
\* component's calls are bounded.
CHECK_DEADLOCK FALSE
