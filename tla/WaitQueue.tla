----------------------------- MODULE WaitQueue ------------------------------
(***************************************************************************)
(* Wait queues (kernel/kernel/thread.c) and the timers that end the waits  *)
(* in them (kernel/kernel/timer.c), for threads on any number of CPUs.     *)
(*                                                                         *)
(* Wait queues are used under thread_lock, so a step is what happens       *)
(* between taking that lock and giving it up.  A thread that blocks gives  *)
(* it up; what it does once it runs again is a step of its own.            *)
(*                                                                         *)
(* timer_tick takes a timer off its queue, releases timer_lock, and only   *)
(* then calls wait_queue_timeout_handler, which takes thread_lock:         *)
(* timer_cancel does not wait for it.  A handler that is late finds the    *)
(* thread running, or in another wait, which it then ends; or timer_tick   *)
(* calls the null pointer that timer_cancel left in the timer.             *)
(***************************************************************************)
EXTENDS Integers, Sequences, FiniteSets

CONSTANTS Threads,
          Timed    \* threads that may wait with a finite timeout

None == "none"
Queues == {"mutex", "cond", "sem", "event"}

ASSUME ThreadsAssumption == 
  IsFiniteSet(Threads) /\ Timed \subseteq Threads /\ None \notin Threads

VARIABLES w,      \* the wait queues, and the wait of each thread
          pc,     \* the call a thread is in, "idle" if none
          gaveup, \* history: the queues in which some wait timed out
          stray,  \* history: a handler ended a wait its timer was not set for
          panic   \* the machine has stopped

waits == <<w, pc, gaveup, stray, panic>>

Status == {"NO_ERROR", "TIMED_OUT"}
Handler == {"none", "own", "stale"}  \* pending, for the wait it was set for or a later one

WaitInit ==
  /\ w = [list |-> [q \in Queues |-> <<>>],
          state |-> [t \in Threads |-> "running"],
          status |-> [t \in Threads |-> "NO_ERROR"],
          timer |-> [t \in Threads |-> FALSE],
          handler |-> [t \in Threads |-> "none"]]
  /\ pc = [t \in Threads |-> "idle"]
  /\ gaveup = {}
  /\ stray = FALSE
  /\ panic = FALSE

-----------------------------------------------------------------------------
MayTime(t) == IF t \in Timed THEN BOOLEAN ELSE {FALSE}

(* A timeout of zero is not a wait at all: callers take back what they did. *)
wait_queue_block(v, t, q, timed) ==
  [v EXCEPT !.list[q] = Append(@, t), !.state[t] = "blocked",
            !.status[t] = "NO_ERROR", !.timer[t] = timed]

wait_queue_wake_one(v, q) ==
  IF v.list[q] = <<>> THEN v
  ELSE [v EXCEPT !.list[q] = Tail(@), !.state[Head(v.list[q])] = "ready"]

wait_queue_wake_all(v, q) ==
  [v EXCEPT !.list[q] = <<>>,
            !.state = [t \in Threads |-> IF \E i \in DOMAIN v.list[q] : v.list[q][i] = t
                                         THEN "ready" ELSE @[t]]]

(* wait_queue_block returns: timer_cancel does not stop a handler. *)
Returned(v, t) ==
  [v EXCEPT !.state[t] = "running", !.timer[t] = FALSE,
            !.handler[t] = IF @ = "own" THEN "stale" ELSE @]

Without(q, t) ==
  IF \E i \in DOMAIN q : q[i] = t
    THEN LET i == CHOOSE i \in DOMAIN q : q[i] = t
         IN  [j \in 1 .. Len(q) - 1 |-> IF j < i THEN q[j] ELSE q[j + 1]]
    ELSE q

(* Mutant: the thread stays in the list. *)
thread_unblock_from_wait_queueKeeps(v, t, st) ==
  [v EXCEPT !.state[t] = "ready", !.status[t] = st]

(* list_delete finds the thread wherever it is. *)
thread_unblock_from_wait_queue(v, t, st) ==
  [v EXCEPT !.list = [q \in Queues |-> Without(@[q], t)],
            !.state[t] = "ready", !.status[t] = st]

-----------------------------------------------------------------------------
(* A timer expires and is taken off its queue.  At most one handler of a    *)
(* thread is pending.                                                       *)
timer_tick(t) ==
  /\ w.timer[t] /\ w.handler[t] = "none"
  /\ w' = [w EXCEPT !.timer[t] = FALSE, !.handler[t] = "own"]
  /\ UNCHANGED <<pc, gaveup, stray, panic>>

wait_queue_timeout_handler(t) ==
  LET v == [w EXCEPT !.handler[t] = "none"] IN
  /\ w.handler[t] # "none"
  /\ IF w.state[t] = "blocked"
       THEN /\ w' = thread_unblock_from_wait_queue(v, t, "TIMED_OUT")
            /\ gaveup' = gaveup \cup {q \in Queues : \E i \in DOMAIN w.list[q] : w.list[q][i] = t}
            /\ stray' = (stray \/ w.handler[t] = "stale")
       ELSE w' = v /\ UNCHANGED <<gaveup, stray>>
  /\ UNCHANGED <<pc, panic>>

NullCallback(t) ==
  /\ w.handler[t] = "stale"
  /\ panic' = TRUE
  /\ UNCHANGED <<w, pc, gaveup, stray>>

TimerNext ==
  \E t \in Threads : timer_tick(t) \/ wait_queue_timeout_handler(t) \/ NullCallback(t)

-----------------------------------------------------------------------------
Waiting(t, labels) == w.state[t] = "ready" /\ pc[t] \in labels
Goto(t, label) == pc' = [pc EXCEPT ![t] = label]

InList(t, q) == \E i \in DOMAIN w.list[q] : w.list[q][i] = t

WaitTypeOK ==
  /\ w \in [list : [Queues -> Seq(Threads)],
            state : [Threads -> {"running", "ready", "blocked"}],
            status : [Threads -> Status],
            timer : [Threads -> BOOLEAN],
            handler : [Threads -> Handler]]
  /\ gaveup \subseteq Queues
  /\ stray \in BOOLEAN /\ panic \in BOOLEAN
=============================================================================
