\* Three threads, one of which gives up after a while, with the mutex and the once
\* object or with the completion; a pool of two threads on a port, either of which
\* may be killed; three log packets, with two datagrams on the link each way and one
\* restart of each end; a thread with two return values; two exception handlers.
SPECIFICATION RuntimeSpec
CONSTANTS
  Threads = {t1, t2, t3}
  Timed = {t1}
  Uses = {{"mutex", "once"}, {"completion"}}
  Waiters = {t1, t2}
  MaxPackets = 3
  Mortal = {t1, t2}
  MaxFilled = 3
  MaxInFlight = 2
  MaxReboots = 1
  ReturnValues = {1, 2}
  ExcPorts = {x1, x2}
  NoExcPort = NoExcPort
INVARIANTS
  Exclusion NoLostWakeup NotAllAsleep PacketsAccounted  ThreadReleasedOnce
PROPERTIES
  OkMeansSignaled RunsOnce CallsEnd FIFO QueuedPacketsAreTaken PacketsGetThrough ExceptionsEnd
\* Everybody may wait for a completion, for packets or for a dead handler.
CHECK_DEADLOCK FALSE
