----------------------------- MODULE Scheduler ------------------------------
(***************************************************************************)
(* Threads and the scheduler (kernel/kernel/thread.c): the run queues and  *)
(* their bitmap, the current thread of every CPU, and the life of a thread *)
(* from thread_create to the thread_join, thread_detach or thread_exit     *)
(* that frees it.                                                          *)
(*                                                                         *)
(* A step is what happens between taking thread_lock and releasing it.  A  *)
(* thread that blocks switches to another one with the lock held, and      *)
(* whichever thread is switched to releases it: what a blocked thread does *)
(* when it is switched to is a step that comes before any other (Resumes). *)
(* An IPI from mp_reschedule and the return of any interrupt preempt the   *)
(* running thread: thread_preempt may happen at any time.                  *)
(***************************************************************************)
EXTENDS Integers, Sequences, FiniteSetsExt, SequencesExt

CONSTANTS SchedThreads, SchedCpus, Priorities,
          Pinned,    \* the CPU a thread is pinned to, or AnyCpu
          Managers   \* the threads that create, join and kill threads; the others sleep and wait

IdleThread == "idle"       \* the idle thread of each CPU
AnyCpu == "any"
NoThread == "nobody"
Waits == "event"     \* an event that some threads wait for, interruptably

VARIABLES k,         \* what thread_lock guards: run queues, wait queues, thread states
          tpc,        \* what a thread is in the middle of
          target,    \* the thread it is joining, killing or detaching
          owned,     \* live threads that someone still has to join or detach
          sched_panic      \* a DEBUG_ASSERT of thread.c has failed

schedVars == <<k, tpc, target, owned, sched_panic>>

WaitQueues == SchedThreads \cup {Waits}  \* retcode_wait_queue of a thread, the event's queue
ThreadStates == {"none", "SUSPENDED", "READY", "RUNNING", "BLOCKED", "SLEEPING", "DEATH"}
HoldingLock == {"join", "kill", "sleep", "wait"}  \* blocked in the middle of these

SchedInit ==
  /\ \E first \in Managers, c \in SchedCpus :
       /\ Pinned[first] \in {AnyCpu, c}
       /\ k = [state |-> [t \in SchedThreads |-> IF t = first THEN "RUNNING" ELSE "none"],
               priority |-> [t \in SchedThreads |-> Max(Priorities)],
               runq |-> [p \in Priorities |-> <<>>], bitmap |-> {},
               curr |-> [d \in SchedCpus |-> IF d = c THEN first ELSE IdleThread],
               wait |-> [q \in WaitQueues |-> <<>>],
               status |-> [t \in SchedThreads |-> "NO_ERROR"],
               kill |-> {}, interruptable |-> {},
               detached |-> {first},
               armed |-> {}, firing |-> {}]
  /\ tpc = [t \in SchedThreads |-> "run"]
  /\ target = [t \in SchedThreads |-> NoThread]
  /\ owned = {}
  /\ sched_panic = FALSE

-----------------------------------------------------------------------------
(* Run queues.                                                             *)

insert_in_run_queue_head(s, t) ==
  [s EXCEPT !.runq[s.priority[t]] = <<t>> \o @, !.bitmap = @ \cup {s.priority[t]}]

insert_in_run_queue_tail(s, t) ==
  [s EXCEPT !.runq[s.priority[t]] = Append(@, t), !.bitmap = @ \cup {s.priority[t]}]

MayRun(t, c) == Pinned[t] \in {AnyCpu, c}

(* A plausible slip: a queue is marked empty as soon as a thread leaves it. *)
get_top_thread_bitmap(s, c) ==
  LET found == {p \in s.bitmap : \E i \in DOMAIN s.runq[p] : MayRun(s.runq[p][i], c)}
      p == Max(found)
      i == Min({j \in DOMAIN s.runq[p] : MayRun(s.runq[p][j], c)})
  IN IF found = {} THEN [s |-> s, t |-> IdleThread]
     ELSE [s |-> [s EXCEPT !.runq[p] = RemoveAt(@, i), !.bitmap = @ \ {p}], t |-> s.runq[p][i]]

(* The first thread that may run here, in the highest queue that has one.  *)
get_top_thread(s, c) ==
  LET found == {p \in s.bitmap : \E i \in DOMAIN s.runq[p] : MayRun(s.runq[p][i], c)}
      p == Max(found)
      i == Min({j \in DOMAIN s.runq[p] : MayRun(s.runq[p][j], c)})
  IN IF found = {} THEN [s |-> s, t |-> IdleThread]
     ELSE [s |-> [s EXCEPT !.runq[p] = RemoveAt(@, i),
                           !.bitmap = IF Len(s.runq[p]) = 1 THEN @ \ {p} ELSE @],
           t |-> s.runq[p][i]]

thread_resched(s, c) ==
  LET top == get_top_thread(s, c)
  IN IF top.t = IdleThread THEN [top.s EXCEPT !.curr[c] = IdleThread]
     ELSE [top.s EXCEPT !.curr[c] = top.t, !.state[top.t] = "RUNNING"]

Ready(s, t, status) ==
  insert_in_run_queue_head([s EXCEPT !.state[t] = "READY", !.status[t] = status], t)

wait_queue_wake_all(s, q, status) ==
  FoldLeft(LAMBDA r, t : Ready(r, t, status), [s EXCEPT !.wait[q] = <<>>], s.wait[q])

wait_queue_wake_one(s, q) ==
  IF s.wait[q] = <<>> THEN s
  ELSE Ready([s EXCEPT !.wait[q] = Tail(@)], Head(s.wait[q]), "NO_ERROR")

wait_queue_block(s, c, q) ==
  LET t == s.curr[c]
  IN thread_resched([s EXCEPT !.wait[q] = Append(@, t), !.state[t] = "BLOCKED",
                              !.status[t] = "NO_ERROR"], c)

thread_unblock_from_wait_queue(s, t, status) ==
  IF s.state[t] # "BLOCKED" THEN s
  ELSE Ready([s EXCEPT !.wait = [q \in WaitQueues |-> SelectSeq(@[q], LAMBDA u : u # t)]], t, status)

-----------------------------------------------------------------------------
(* thread_lock is free, and t is running on c with nothing left half done. *)
Unlocked == \A c \in SchedCpus : k.curr[c] # IdleThread => tpc[k.curr[c]] \notin HoldingLock
SchedRuns(t, c) == ~sched_panic /\ Unlocked /\ k.curr[c] = t
SchedCalls(t, c) == SchedRuns(t, c) /\ tpc[t] = "run"
Manages(t, c) == SchedCalls(t, c) /\ t \in Managers

DebugAssert(ok) == sched_panic' = ~ok

thread_create(t, c, u) ==
  /\ Manages(t, c) /\ k.state[u] = "none"
  /\ k' = [k EXCEPT !.state[u] = "SUSPENDED"]
  /\ owned' = owned \cup {u}
  /\ tpc' = [tpc EXCEPT ![u] = "run"]
  /\ UNCHANGED <<target, sched_panic>>

(* The caller then yields: a step of its own, since the lock is released.  *)
thread_resume(t, c, u) ==
  /\ Manages(t, c) /\ k.state[u] = "SUSPENDED"
  /\ k' = insert_in_run_queue_head([k EXCEPT !.state[u] = "READY"], u)
  /\ tpc' = [tpc EXCEPT ![t] = "yield"]
  /\ UNCHANGED <<target, owned, sched_panic>>

(* Off the list and freed: nobody may name the thread any more.            *)
Freed(s, u) == [s EXCEPT !.state[u] = "none", !.kill = @ \ {u}, !.detached = @ \ {u},
                         !.interruptable = @ \ {u}, !.status[u] = "NO_ERROR",
                         !.priority[u] = Max(Priorities)]

Reap(u) ==
  /\ DebugAssert(k.state[u] = "DEATH" /\ \A q \in WaitQueues : ~Contains(k.wait[q], u))
  /\ k' = Freed(k, u)

(* The owner of u joins it, for ever or with a timeout.                    *)
thread_join(t, c, u) ==
  /\ Manages(t, c) /\ u \in owned /\ u # t
  /\ owned' = owned \ {u}
  /\ IF k.state[u] = "DEATH"
     THEN Reap(u) /\ UNCHANGED <<tpc, target>>
     ELSE /\ k' = wait_queue_block(k, c, u)
          /\ tpc' = [tpc EXCEPT ![t] = "join"]
          /\ target' = [target EXCEPT ![t] = u]
          /\ UNCHANGED sched_panic

wait_queue_timeout_handler(t) ==
  /\ ~sched_panic /\ Unlocked /\ tpc[t] = "join" /\ k.state[t] = "BLOCKED"
  /\ k' = thread_unblock_from_wait_queue(k, t, "TIMED_OUT")
  /\ UNCHANGED <<tpc, target, owned, sched_panic>>

thread_detach_silent(t, c, u) ==
  /\ Manages(t, c) /\ u # t
  /\ u \in owned \/ \E v \in SchedThreads : tpc[v] = "join" /\ target[v] = u /\ Contains(k.wait[u], v)
  /\ owned' = owned \ {u}
  /\ LET woken == k
     IN IF k.state[u] = "DEATH"
        THEN /\ k' = woken
             /\ tpc' = [tpc EXCEPT ![t] = "rejoin"]
             /\ target' = [target EXCEPT ![t] = u]
        ELSE /\ k' = [woken EXCEPT !.detached = @ \cup {u}]
             /\ UNCHANGED <<tpc, target>>
  /\ UNCHANGED sched_panic

(* The owner, or anybody while the owner is blocked in thread_join.        *)
thread_detach(t, c, u) ==
  /\ Manages(t, c) /\ u # t
  /\ u \in owned \/ \E v \in SchedThreads : tpc[v] = "join" /\ target[v] = u /\ Contains(k.wait[u], v)
  /\ owned' = owned \ {u}
  /\ LET woken == wait_queue_wake_all(k, u, "THREAD_DETACHED")
     IN IF k.state[u] = "DEATH"
        THEN /\ k' = woken
             /\ tpc' = [tpc EXCEPT ![t] = "rejoin"]
             /\ target' = [target EXCEPT ![t] = u]
        ELSE /\ k' = [woken EXCEPT !.detached = @ \cup {u}]
             /\ UNCHANGED <<tpc, target>>
  /\ UNCHANGED sched_panic

(* thread_detach found the thread dead: it joins it, with the lock taken again. *)
DetachJoins(t, c) ==
  /\ SchedRuns(t, c) /\ tpc[t] = "rejoin"
  /\ Reap(target[t])
  /\ tpc' = [tpc EXCEPT ![t] = "run"]
  /\ target' = [target EXCEPT ![t] = NoThread]
  /\ UNCHANGED owned

thread_exit_locked(s, c, t) ==
  thread_resched(IF t \in s.detached THEN Freed(s, t)
                 ELSE wait_queue_wake_all([s EXCEPT !.state[t] = "DEATH"], t, "NO_ERROR"), c)

thread_exit(t, c) ==
  /\ SchedRuns(t, c) /\ tpc[t] \in {"run", "exit"}
  /\ k' = thread_exit_locked(k, c, t)
  /\ tpc' = [tpc EXCEPT ![t] = "run"]
  /\ UNCHANGED <<target, owned, sched_panic>>

(* Wake the victim so that it notices; a blocking killer waits for its end. *)
thread_kill(t, c, u, block) ==
  /\ SchedCalls(t, c) /\ k.state[u] # "none" /\ u \notin Managers
  /\ t \in Managers \/ t = u
  /\ LET s == [k EXCEPT !.kill = @ \cup {u}]
         woken == IF k.state[u] = "BLOCKED" /\ u \in k.interruptable
                  THEN thread_unblock_from_wait_queue(s, u, "INTERRUPTED")
                  ELSE IF k.state[u] = "SLEEPING" /\ u \in k.interruptable
                  THEN Ready(s, u, "INTERRUPTED") ELSE s
     IN IF u = t \/ k.state[u] = "DEATH" \/ ~block \/ u \in k.detached
        THEN k' = woken /\ UNCHANGED <<tpc, target>>
        ELSE /\ k' = wait_queue_block(woken, c, u)
             /\ tpc' = [tpc EXCEPT ![t] = "kill"]
             /\ target' = [target EXCEPT ![t] = u]
  /\ UNCHANGED <<owned, sched_panic>>

thread_process_pending_signals(t, c) ==
  /\ SchedCalls(t, c) /\ t \in k.kill
  /\ k' = [k EXCEPT !.kill = @ \ {t}]
  /\ tpc' = [tpc EXCEPT ![t] = "exit"]
  /\ UNCHANGED <<target, owned, sched_panic>>

thread_yield(t, c) ==
  /\ SchedRuns(t, c) /\ tpc[t] \in {"run", "yield"}
  /\ k' = thread_resched(insert_in_run_queue_tail(
            [k EXCEPT !.state[t] = "READY"], t), c)
  /\ tpc' = [tpc EXCEPT ![t] = "run"]
  /\ UNCHANGED <<target, owned, sched_panic>>

(* To the head of its queue with quantum left, to the tail without: how    *)
(* far thread_timer_tick has counted the quantum down is not tracked, so   *)
(* an interrupt finds a thread with or without any.                        *)
thread_preempt(c) ==
  /\ ~sched_panic /\ Unlocked
  /\ LET t == k.curr[c]
         s == [k EXCEPT !.state[t] = "READY"]
     IN \/ t = IdleThread /\ k' = thread_resched(k, c)
        \/ t # IdleThread /\ k' = thread_resched(insert_in_run_queue_head(s, t), c)
        \/ t # IdleThread /\ k' = thread_resched(insert_in_run_queue_tail(s, t), c)
  /\ UNCHANGED <<tpc, target, owned, sched_panic>>

thread_set_priority(t, c, p) ==
  /\ SchedCalls(t, c) /\ t \notin Managers /\ p # k.priority[t]
  /\ k' = thread_resched(insert_in_run_queue_head(
            [k EXCEPT !.priority[t] = p, !.state[t] = "READY"], t), c)
  /\ UNCHANGED <<tpc, target, owned, sched_panic>>

-----------------------------------------------------------------------------
(* Sleeping, and waiting for an event; a killed thread does neither.       *)

thread_sleep_etc(t, c, interruptable) ==
  /\ SchedCalls(t, c) /\ t \notin Managers /\ t \notin k.armed
  /\ ~(interruptable /\ t \in k.kill)
  /\ k' = thread_resched([k EXCEPT !.armed = @ \cup {t}, !.state[t] = "SLEEPING",
                                   !.status[t] = "NO_ERROR",
                                   !.interruptable = IF interruptable THEN @ \cup {t} ELSE @], c)
  /\ tpc' = [tpc EXCEPT ![t] = "sleep"]
  /\ UNCHANGED <<target, owned, sched_panic>>

(* The timer is taken off its queue before its callback takes thread_lock. *)
TimerFires(t) ==
  /\ ~sched_panic /\ t \in k.armed /\ t \notin k.firing
  /\ k' = [k EXCEPT !.armed = @ \ {t}, !.firing = @ \cup {t}]
  /\ UNCHANGED <<tpc, target, owned, sched_panic>>

thread_sleep_handler(t) ==
  /\ ~sched_panic /\ Unlocked /\ t \in k.firing
  /\ LET s == [k EXCEPT !.firing = @ \ {t}]
     IN k' = IF k.state[t] = "SLEEPING" THEN Ready(s, t, "NO_ERROR") ELSE s
  /\ UNCHANGED <<tpc, target, owned, sched_panic>>

event_wait_timeout(t, c, interruptable) ==
  /\ SchedCalls(t, c) /\ t \notin Managers
  /\ ~(interruptable /\ t \in k.kill)
  /\ k' = wait_queue_block([k EXCEPT !.interruptable =
                              IF interruptable THEN @ \cup {t} ELSE @ \ {t}], c, Waits)
  /\ tpc' = [tpc EXCEPT ![t] = "wait"]
  /\ UNCHANGED <<target, owned, sched_panic>>

event_signal(t, c) ==
  /\ SchedCalls(t, c) /\ k.wait[Waits] # <<>>
  /\ k' = wait_queue_wake_one(k, Waits)
  /\ UNCHANGED <<tpc, target, owned, sched_panic>>

(* A thread that blocked is switched to, still inside its locked section.  *)
Resumes(c) ==
  LET t == k.curr[c]
      u == target[t]
  IN /\ ~sched_panic /\ t # IdleThread /\ tpc[t] \in HoldingLock
     /\ \/ /\ tpc[t] = "join" /\ k.status[t] = "NO_ERROR"
           /\ Reap(u) /\ UNCHANGED owned
        \/ /\ tpc[t] = "join" /\ k.status[t] # "NO_ERROR"
           /\ owned' = IF k.status[t] = "TIMED_OUT" /\ u \notin k.detached
                       THEN owned \cup {u} ELSE owned
           /\ k' = [k EXCEPT !.status[t] = "NO_ERROR"]
           /\ UNCHANGED sched_panic
        \/ /\ tpc[t] = "kill"
           /\ k' = [k EXCEPT !.status[t] = "NO_ERROR"]
           /\ UNCHANGED <<owned, sched_panic>>
        \/ /\ tpc[t] \in {"sleep", "wait"}
           /\ k' = [k EXCEPT !.interruptable = @ \ {t}, !.status[t] = "NO_ERROR",
                             !.armed = IF k.status[t] = "INTERRUPTED" THEN @ \ {t} ELSE @]
           /\ UNCHANGED <<owned, sched_panic>>
     /\ tpc' = [tpc EXCEPT ![t] = "run"]
     /\ target' = [target EXCEPT ![t] = NoThread]

SchedNext ==
  \/ \E t, u \in SchedThreads, c \in SchedCpus :
       \/ thread_create(t, c, u)
       \/ thread_resume(t, c, u)
       \/ thread_join(t, c, u) \/ thread_detach(t, c, u)
       \/ \E block \in BOOLEAN : thread_kill(t, c, u, block)
  \/ \E t \in SchedThreads, c \in SchedCpus :
       \/ thread_exit(t, c) \/ DetachJoins(t, c) \/ thread_process_pending_signals(t, c)
       \/ thread_yield(t, c) \/ event_signal(t, c)
       \/ \E p \in Priorities : thread_set_priority(t, c, p)
       \/ \E i \in BOOLEAN : thread_sleep_etc(t, c, i) \/ event_wait_timeout(t, c, i)
  \/ \E t \in SchedThreads : \/ wait_queue_timeout_handler(t)
                        \/ TimerFires(t) \/ thread_sleep_handler(t)
  \/ \E c \in SchedCpus : thread_preempt(c) \/ Resumes(c)

SchedSpec == SchedInit /\ [][SchedNext]_schedVars

-----------------------------------------------------------------------------
(* Every thread is where its state says: RUNNING on exactly one CPU and    *)
(* allowed there, READY in exactly one run queue, that of its priority,    *)
(* BLOCKED in exactly one wait queue, and otherwise nowhere; the bitmap    *)
(* names exactly the queues that hold a thread, so get_top_thread misses   *)
(* none; and no assertion of thread.c has failed.                          *)
ThreadsPlaced ==
  LET cpus(t) == {c \in SchedCpus : k.curr[c] = t}
      slots(t) == {<<p, i>> \in Priorities \X (1..Cardinality(SchedThreads)) :
                     i <= Len(k.runq[p]) /\ k.runq[p][i] = t}
      waits(t) == {<<q, i>> \in WaitQueues \X (1..Cardinality(SchedThreads)) :
                     i <= Len(k.wait[q]) /\ k.wait[q][i] = t}
      is(t, s) == IF k.state[t] = s THEN 1 ELSE 0
  IN /\ ~sched_panic
     /\ k.bitmap = {p \in Priorities : k.runq[p] # <<>>}
     /\ \A t \in SchedThreads :
          /\ Cardinality(cpus(t)) = is(t, "RUNNING")
          /\ \A c \in cpus(t) : MayRun(t, c)
          /\ Cardinality(slots(t)) = is(t, "READY")
          /\ \A s \in slots(t) : s[1] = k.priority[t]
          /\ Cardinality(waits(t)) = is(t, "BLOCKED")

(* Nobody waits in vain for a thread to end: a thread blocked in           *)
(* thread_join or in a blocking thread_kill waits for one that can still   *)
(* exit and will wake it then, and a thread that was sent a kill signal is *)
(* not left in a sleep or a wait that it allowed to be interrupted.        *)
WaitersWoken ==
  /\ \A u \in SchedThreads : k.wait[u] # <<>> =>
       k.state[u] \notin {"none", "DEATH"} /\ u \notin k.detached
  /\ \A t \in k.kill \cap k.interruptable : k.state[t] \notin {"BLOCKED", "SLEEPING"}
=============================================================================
