\* Each component runs alone; sets that are symmetric in their component share values.
SPECIFICATION MachineSpec
CONSTANTS
  Threads = {main, a1, a2}
  Main = main
  None = None
  MpCpus = {a1, a2, c1}
  MpCallers = {a1, a2}
  Pluggable = {c1}
  VmThreads = {t1}
  as1 = as1
  Aspaces = {as1, as2}
  AspaceSize <- MCAspaceSize
  VmObjects = {o1}
  Pages = {a1, a2}
  MaxObjectSize = 2
  MaxReserved = 2
  Arenas <- MCArenas
  MaxRun = 3
SYMMETRY Symmetry
INVARIANTS
  GoneForGood  MemorySound
PROPERTIES
  ProcessSteps
\* The process ends, and an assertion that fails stops the machine.
CHECK_DEADLOCK FALSE
