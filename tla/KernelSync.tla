----------------------------- MODULE KernelSync -----------------------------
(***************************************************************************)
(* Threads that use a mutex, a condition variable, a semaphore and an      *)
(* event, one after the other or nested: while it owns the mutex, a thread *)
(* may wait for the others.  What the objects share is the memory each     *)
(* thread has for its wait: one queue_node, one blocked_status, and timers *)
(* whose handlers know the thread only.                                    *)
(***************************************************************************)
EXTENDS Mutex, Semaphore, Event

CONSTANT Uses    \* the sets of objects that are used together

VARIABLE together    \* the one of this behaviour

syncVars == <<waits, mutex, cond, sem, event, together>>

SyncInit ==
  /\ WaitInit /\ MutexInit /\ CondInit /\ SemInit /\ EventInit
  /\ together \in Uses

SyncNext ==
  /\ ~panic
  /\ \/ TimerNext /\ UNCHANGED <<mutex, cond, sem, event>>
     \/ "mutex" \in together /\ MutexNext /\ UNCHANGED <<cond, sem, event>>
     \/ "cond" \in together /\ CondNext /\ UNCHANGED <<sem, event>>
     \/ "sem" \in together /\ SemNext /\ UNCHANGED <<mutex, cond, event>>
     \/ "event" \in together /\ EventNext /\ UNCHANGED <<mutex, cond, sem>>
  /\ UNCHANGED together

SyncSpec == SyncInit /\ [][SyncNext]_syncVars

-----------------------------------------------------------------------------
Label == {"idle", "mutex", "mutex_timed", "cond", "recond", "sem", "sem_timed", "event"}

QueueOf(label) ==
  CASE label \in {"mutex", "mutex_timed", "recond"} -> "mutex"
    [] label \in {"sem", "sem_timed"} -> "sem"
    [] OTHER -> label

(* Types; and a thread is in the one list of the object it waits for, once,  *)
(* exactly while it is blocked (one queue_node serves every list).           *)
SyncTypeOK ==
  /\ WaitTypeOK /\ MutexTypeOK /\ CondTypeOK /\ SemTypeOK /\ EventTypeOK
  /\ pc \in [Threads -> Label] /\ together \in Uses
  /\ \A t \in Threads : w.state[t] = "running" <=> pc[t] = "idle"
  /\ \A t \in Threads, q \in Queues :
       InList(t, q) <=> w.state[t] = "blocked" /\ QueueOf(pc[t]) = q
  /\ \A q \in Queues : \A i, j \in DOMAIN w.list[q] : w.list[q][i] = w.list[q][j] => i = j

(* Nobody sleeps without a reason: a mutex that is waited for has an owner,  *)
(* a condition that is waited for does not hold, and so on, however wakes,   *)
(* timeouts and the waits of other objects interleave; and every sleeper is  *)
(* in the list of what it waits for, and in no other (SyncTypeOK).               *)
SleepersHaveReason ==
  SyncTypeOK /\ WaitersHaveOwner /\ NoMissedWakeups /\ SleepersLackUnits /\ SignalFound

(* "If the timeout is INFINITE_TIME, this function waits indefinitely.       *)
(* Otherwise, this function returns with ERR_TIMED_OUT at the end of the     *)
(* timeout period" (wait_queue_block): only the timer that was set for a     *)
(* wait ends it.                                                             *)
TimeoutsAreOwn ==
  [][\A t \in Threads :
       w.state[t] = "blocked" /\ w'.state[t] = "ready" /\ w'.status[t] = "TIMED_OUT"
         => w.handler[t] = "own"]_syncVars
=============================================================================
