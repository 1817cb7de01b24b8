\* Two threads; a pipe of each kind; messages with up to two handles.
SPECIFICATION Spec
CONSTANTS
  Threads = {t1, t2}
  Things = {x}
  MaxMessages = 2
  MaxHandles = 2
SYMMETRY ThreadSymmetry
INVARIANT PipeSound
PROPERTY ImplementsChannel
\* Both sides may be gone.
CHECK_DEADLOCK FALSE
