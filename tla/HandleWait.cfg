\* Waits on up to two handles to two objects; the handles are closed and made again.
CONSTANTS
  Threads = {t1}
  Timed = {t1}
  Handles = {h1, h2}
  Objects = {o1, o2}
  Signals = {s}
  MaxCount = 2
SPECIFICATION FairSpec
INVARIANT ObserversSound
PROPERTIES  WaitEnds
