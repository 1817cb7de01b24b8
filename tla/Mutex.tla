------------------------------- MODULE Mutex --------------------------------
(***************************************************************************)
(* A mutex_t of kernel/kernel/mutex.c.  Callers of mutex_acquire ignore    *)
(* its result, and those of mutex_acquire_timeout do not.                  *)
(***************************************************************************)
EXTENDS WaitQueue

VARIABLES count,     \* m->count: owner, waiters and waiters backing out
          holder,    \* m->holder
          inside     \* threads that go on as owners

mutex == <<count, holder, inside>>

MutexInit ==
  /\ count = 0
  /\ holder = None
  /\ inside = {}

-----------------------------------------------------------------------------
(* Up to the point where it blocks. *)
mutex_acquire_timeout_internal(v, t, label) ==
  /\ count' = count + 1
  /\ IF count + 1 > 1
       THEN /\ w' = wait_queue_block(v, t, "mutex", label = "mutex_timed")
            /\ Goto(t, label)
            /\ UNCHANGED <<holder, inside>>
       ELSE /\ w' = v
            /\ Goto(t, "idle")
            /\ holder' = t
            /\ inside' = inside \cup {t}

(* mutex_acquire, or with a finite timeout. *)
mutex_acquire_timeout(t, label) ==
  /\ pc[t] = "idle" /\ t \notin inside
  /\ label = "mutex_timed" => t \in Timed
  /\ mutex_acquire_timeout_internal(w, t, label)
  /\ UNCHANGED <<gaveup, stray, panic>>

(* Mutant: a thread that gives up goes on counting as a waiter. *)
AcquireReturnsCounted(t) ==
  /\ Waiting(t, {"mutex", "mutex_timed", "recond"})
  /\ w' = Returned(w, t)
  /\ Goto(t, "idle")
  /\ IF w.status[t] = "NO_ERROR"
       THEN holder' = t /\ inside' = inside \cup {t}
       ELSE UNCHANGED <<holder, inside>>
  /\ UNCHANGED <<count, gaveup, stray, panic>>

(* wait_queue_block returns; a wait that timed out is taken back. *)
AcquireReturns(t) ==
  /\ Waiting(t, {"mutex", "mutex_timed", "recond"})
  /\ w' = Returned(w, t)
  /\ Goto(t, "idle")
  /\ IF w.status[t] = "NO_ERROR"
       THEN holder' = t /\ UNCHANGED count
       ELSE count' = count - 1 /\ UNCHANGED holder
  /\ inside' = IF w.status[t] # "NO_ERROR" /\ pc[t] = "mutex_timed"
                 THEN inside ELSE inside \cup {t}
  /\ UNCHANGED <<gaveup, stray, panic>>

mutex_release_internal == holder' = None /\ count' = count - 1

(* Mutant: a single waiter is not woken. *)
ReleasedWakesNone == IF count - 1 >= 2 THEN wait_queue_wake_one(w, "mutex") ELSE w

(* Mutant: all waiters are woken. *)
ReleasedWakesAll == IF count - 1 >= 1 THEN wait_queue_wake_all(w, "mutex") ELSE w

(* What mutex_release_internal makes of the wait queues. *)
Released == IF count - 1 >= 1 THEN wait_queue_wake_one(w, "mutex") ELSE w

mutex_release(t) ==
  /\ pc[t] = "idle" /\ t \in inside
  /\ IF holder # t
       THEN panic' = TRUE /\ UNCHANGED <<w, mutex>>
       ELSE /\ mutex_release_internal
            /\ w' = Released
            /\ inside' = inside \ {t}
            /\ UNCHANGED panic
  /\ UNCHANGED <<pc, gaveup, stray>>

MutexNext ==
  \E t \in Threads :
    \/ \E label \in {"mutex", "mutex_timed"} : mutex_acquire_timeout(t, label)
    \/ AcquireReturns(t) \/ mutex_release(t)

-----------------------------------------------------------------------------
MutexTypeOK ==
  /\ count \in Int
  /\ holder \in Threads \cup {None}
  /\ inside \subseteq Threads

Acquiring == {t \in Threads : pc[t] \in {"mutex", "mutex_timed", "recond"}}
Granted == {t \in Acquiring : w.state[t] = "ready" /\ w.status[t] = "NO_ERROR"}

(* At most one thread owns the mutex or has been handed it by mutex_release, *)
(* and holder is the thread that owns it, as is_mutex_held and the panic of  *)
(* mutex_release require.  count is the number of threads between ++count    *)
(* and the matching --count, with timeouts racing releases.                  *)
Exclusion ==
  ~stray =>
    /\ \A t, u \in inside \cup Granted : t = u
    /\ \A t \in Threads : holder = t <=> t \in inside
    /\ count = Cardinality(inside \cup Acquiring)

(* A mutex that threads wait for is owned or handed over, until an acquire   *)
(* has timed out: a release between the timeout and the matching --count     *)
(* finds the count too high.                                                 *)
WaitersHaveOwner ==
  "mutex" \notin gaveup /\ w.list["mutex"] # <<>> => inside \cup Granted # {}

-----------------------------------------------------------------------------
(***************************************************************************)
(* A cond_t of kernel/kernel/cond.c used with a mutex_t, by clients that   *)
(* wait until a flag is set: cond_wait gives the mutex up and enters the   *)
(* wait queue in one step under thread_lock.                               *)
(***************************************************************************)
VARIABLES flag,  \* the client's condition, protected by the mutex
          owes   \* threads that have set it and have still to wake its waiters

cond == <<flag, owes>>

CondInit ==
  /\ flag = FALSE
  /\ owes = {}

-----------------------------------------------------------------------------
(* Release the mutex and block, while the flag is not set. *)
cond_wait_timeout(t, timed) ==
  /\ pc[t] = "idle" /\ t \in inside \ owes /\ ~flag
  /\ mutex_release_internal
  /\ w' = wait_queue_block(Released, t, "cond", timed)
  /\ inside' = inside \ {t}
  /\ Goto(t, "cond")
  /\ UNCHANGED <<gaveup, stray, panic, cond>>

(* Woken or timed out: acquire the mutex again, without a timeout. *)
Reacquire(t) ==
  /\ Waiting(t, {"cond"})
  /\ mutex_acquire_timeout_internal(Returned(w, t), t, "recond")
  /\ UNCHANGED <<gaveup, stray, panic, cond>>

cond_signal ==
  /\ w' = wait_queue_wake_one(w, "cond")
  /\ UNCHANGED <<pc, gaveup, stray, panic, mutex, cond>>

(* Mutant: one waiter is woken. *)
cond_broadcastOne(t) ==
  /\ pc[t] = "idle" /\ t \in owes
  /\ w' = wait_queue_wake_one(w, "cond")
  /\ owes' = owes \ {t}
  /\ UNCHANGED <<pc, gaveup, stray, panic, mutex, flag>>

cond_broadcast(t) ==
  /\ pc[t] = "idle" /\ t \in owes
  /\ w' = wait_queue_wake_all(w, "cond")
  /\ owes' = owes \ {t}
  /\ UNCHANGED <<pc, gaveup, stray, panic, mutex, flag>>

(* The client: an owner changes the flag. *)
SetFlag(t) ==
  /\ pc[t] = "idle" /\ t \in inside \ owes
  /\ flag' = ~flag
  /\ owes' = IF flag THEN owes ELSE owes \cup {t}
  /\ UNCHANGED <<waits, mutex>>

CondNext ==
  \/ \E t \in Threads :
       \/ \E timed \in MayTime(t) : cond_wait_timeout(t, timed)
       \/ Reacquire(t) \/ cond_broadcast(t) \/ SetFlag(t)
  \/ cond_signal

-----------------------------------------------------------------------------
CondTypeOK == flag \in BOOLEAN /\ owes \subseteq Threads

(* Nobody sleeps on a condition that holds, unless the thread that made it   *)
(* true has still to call cond_broadcast: "we could miss wakeups" otherwise  *)
(* (cond.c).                                                                 *)
NoMissedWakeups ==
  ~stray /\ flag /\ w.list["cond"] # <<>> => owes # {}
=============================================================================
