\* Any wait after a timed one, with its timer's handler still on its way.
SPECIFICATION SyncSpec
CONSTANTS
  Threads = {t1, t2}
  Timed = {t1}
  Initial = 0
  MaxPosts = 1
  Uses = {{"mutex", "cond"}, {"mutex", "sem"}, {"sem", "event"}}
PROPERTY TimeoutsAreOwn
CHECK_DEADLOCK FALSE
