----------------------------- MODULE Semaphore ------------------------------
(***************************************************************************)
(* A semaphore_t of kernel/kernel/semaphore.c.                             *)
(***************************************************************************)
EXTENDS WaitQueue

CONSTANTS Initial,   \* the count sem_init is given
          MaxPosts   \* bound on the number of posts

ASSUME SemAssumption == Initial \in Nat /\ MaxPosts \in Nat

VARIABLES units,     \* sem->count
          posts,     \* history: number of posts
          taken      \* history: number of units waits were granted

sem == <<units, posts, taken>>

SemInit ==
  /\ units = Initial
  /\ posts = 0
  /\ taken = 0

-----------------------------------------------------------------------------
(* Mutant: the last waiter is not woken. *)
sem_postEarly ==
  /\ posts < MaxPosts
  /\ posts' = posts + 1
  /\ units' = units + 1
  /\ w' = IF units + 1 < 0 THEN wait_queue_wake_one(w, "sem") ELSE w
  /\ UNCHANGED <<pc, gaveup, stray, panic, taken>>

sem_post ==
  /\ posts < MaxPosts
  /\ posts' = posts + 1
  /\ units' = units + 1
  /\ w' = IF units + 1 <= 0 THEN wait_queue_wake_one(w, "sem") ELSE w
  /\ UNCHANGED <<pc, gaveup, stray, panic, taken>>

(* sem_wait, and sem_timedwait with a timeout that is not zero. *)
sem_wait(t, label) ==
  /\ pc[t] = "idle"
  /\ label = "sem_timed" => t \in Timed
  /\ units' = units - 1
  /\ IF units - 1 < 0
       THEN /\ w' = wait_queue_block(w, t, "sem", label = "sem_timed")
            /\ Goto(t, label)
            /\ UNCHANGED taken
       ELSE taken' = taken + 1 /\ UNCHANGED <<w, pc>>
  /\ UNCHANGED <<gaveup, stray, panic, posts>>

sem_trywait(t) ==
  /\ pc[t] = "idle"
  /\ units > 0
  /\ units' = units - 1
  /\ taken' = taken + 1
  /\ UNCHANGED <<waits, posts>>

(* Mutant: a wait that timed out is not taken back. *)
SemReturnsCounted(t) ==
  /\ Waiting(t, {"sem", "sem_timed"})
  /\ w' = Returned(w, t)
  /\ Goto(t, "idle")
  /\ taken' = IF w.status[t] = "NO_ERROR" THEN taken + 1 ELSE taken
  /\ UNCHANGED <<gaveup, stray, panic, units, posts>>

(* wait_queue_block returns; sem_timedwait takes back a wait that timed out. *)
SemReturns(t) ==
  /\ Waiting(t, {"sem", "sem_timed"})
  /\ w' = Returned(w, t)
  /\ Goto(t, "idle")
  /\ IF w.status[t] = "NO_ERROR"
       THEN taken' = taken + 1 /\ UNCHANGED units
       ELSE /\ units' = IF pc[t] = "sem_timed" THEN units + 1 ELSE units
            /\ UNCHANGED taken
  /\ UNCHANGED <<gaveup, stray, panic, posts>>

SemNext ==
  \/ sem_post
  \/ \E t \in Threads :
       \/ \E label \in {"sem", "sem_timed"} : sem_wait(t, label)
       \/ sem_trywait(t) \/ SemReturns(t)

-----------------------------------------------------------------------------
SemTypeOK ==
  /\ units \in Int
  /\ posts \in 0 .. MaxPosts
  /\ taken \in Nat

SemWaiters == {t \in Threads : pc[t] \in {"sem", "sem_timed"}}
SemGranted == {t \in SemWaiters : w.state[t] = "ready" /\ w.status[t] = "NO_ERROR"}

(* Every unit is accounted for, with timeouts racing posts: what was put in  *)
(* is what was granted plus the count, less the threads the count holds for; *)
(* and no more is granted than was put in.                                   *)
UnitsConserved ==
  ~stray =>
    /\ Initial + posts = taken + units + Cardinality(SemWaiters)
    /\ taken + Cardinality(SemGranted) <= Initial + posts

(* "If there are no resources available then we need to sit in the wait      *)
(* queue until sem_post adds some" (sem_wait): a thread sits there only      *)
(* while every unit is granted, until a wait has timed out.                  *)
SleepersLackUnits ==
  "sem" \notin gaveup /\ w.list["sem"] # <<>> =>
    taken + Cardinality(SemGranted) = Initial + posts
=============================================================================
