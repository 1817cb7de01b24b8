\* Each component runs alone; sets that are symmetric in their component share values.
SPECIFICATION KernelSpec
CONSTANTS
  Slots = {s1, s2, s3}
  Objects = {b1, b2}
  Processes = {b1, b2}
  Threads = {a1, a2}
  Modulus = 8
  MaxDups = 4
  None = None
  t1 = t1
  t2 = t2
  t3 = t3
  c1 = c1
  SchedThreads = {t1, t2, t3}
  Managers = {t1, t2}
  SchedCpus = {c1, c2}
  Priorities = {1, 2}
  Pinned <- MCPinned
  Readers = {r1}
  WritePorts = {w}
  ReadPorts = {b1, b2}
  Groups = {g}
  PortBufSize = 2
  Counts = {1, 2}
  BindSlots = {s1, s2}
  BindProcesses = {b1, b2}
  BindThreads = {a1, a2}
  Keys = {k1, k2}
  Observers = {o1, o2}
  Nobody = Nobody
SYMMETRY Symmetry
INVARIANTS
     BindingsSound
\* Ports may all be gone, and a failed assertion stops the machine.
CHECK_DEADLOCK FALSE
