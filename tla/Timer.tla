------------------------------- MODULE Timer --------------------------------
(***************************************************************************)
(* Kernel timers (kernel/kernel/timer.c, dynamic timer builds): a queue of *)
(* timers for each cpu, sorted by time, and a hardware one-shot timer that *)
(* has to be armed for the head of the queue.  Timers are set and          *)
(* cancelled on any cpu, the tick handler gives up timer_lock around each  *)
(* callback, and a cpu that is unplugged leaves its timers to another.     *)
(*                                                                         *)
(* Time is in milliseconds modulo ClockMod, as lk_time_t is modulo 2^32.   *)
(* A tick takes less than one.  The scheduled_time of a timer is kept with *)
(* its place in the queue, where alone it is read.                         *)
(***************************************************************************)
EXTENDS Naturals, Sequences, SequencesExt

CONSTANTS Cpus,
          KTimers,     \* timer_t objects
          NoTimer,     \* none of them
          ClockMod,    \* 2^32
          MaxLate,     \* bound on how late a timer interrupt may be
          MaxDelay,    \* bound on the delays asked for
          MaxInterval  \* MAX_TIMER_INTERVAL of the platform

VARIABLES clock,       \* current_time()
          queue,       \* timers[cpu].timer_queue: <<[timer, at], ...>>
          period,      \* timer->periodic_time
          callback,    \* timer->callback is not NULL
          hw,          \* the hardware timer of a cpu: when it fires, or Off
          tick,        \* the timer that timer_tick of a cpu has in hand
          cpu_state,   \* "online", "halted" or "off"
          unarmed,     \* history: cpus whose head a migration left unarmed
          panicked     \* a NULL callback was called

timerVars == <<clock, queue, period, callback, hw, tick, cpu_state, unarmed, panicked>>

Off == ClockMod
NotTicking == [stage |-> "none", timer |-> NoTimer, periodic |-> FALSE]

TimerInit ==
  /\ clock = 0 /\ panicked = FALSE /\ unarmed = {}
  /\ queue = [c \in Cpus |-> <<>>]
  /\ period = [t \in KTimers |-> 0] /\ callback = [t \in KTimers |-> FALSE]
  /\ hw = [c \in Cpus |-> Off]
  /\ tick = [c \in Cpus |-> NotTicking]
  /\ cpu_state = [c \in Cpus |-> "online"]

-----------------------------------------------------------------------------
Later(t, d) == (t + d) % ClockMod

Until(t) == (t + ClockMod - clock) % ClockMod

(* Mutant: times are compared as unsigned numbers. *)
TIME_GTUnsigned(a, b) == a > b

(* The sign of the difference decides, so that the clock may wrap. *)
TIME_GT(a, b) == (a + ClockMod - b) % ClockMod \in 1 .. ClockMod \div 2 - 1

InQueue(t) == \E c \in Cpus : \E i \in DOMAIN queue[c] : queue[c][i].timer = t

InHand(t) == \E c \in Cpus : tick[c].timer = t

(* insert_timer_in_queue: before the first one that is later. *)
Inserted(q, e) ==
  LET before == SelectSeq(q, LAMBDA x : ~TIME_GT(x.at, e.at))
      after == SelectSeq(q, LAMBDA x : TIME_GT(x.at, e.at))
  IN before \o <<e>> \o after

Without(q, t) == SelectSeq(q, LAMBDA x : x.timer # t)

(* platform_set_oneshot_timer. *)
Oneshot(delay) ==
  Later(clock, IF delay < 1 THEN 1 ELSE IF delay > MaxInterval THEN MaxInterval ELSE delay)

(* The hardware timer for the head of a queue whose time may be over. *)
ArmedFor(q) == Oneshot(IF TIME_GT(q[1].at, clock) THEN Until(q[1].at) ELSE 0)

(* A cpu's hardware timer and what is known about it. *)
SetHw(c, v) == hw' = [hw EXCEPT ![c] = v] /\ unarmed' = unarmed \ {c}
KeepHw == UNCHANGED <<hw, unarmed>>

(* timer_set on cpu c.  A timer that is in a list is a panic. *)
timer_set(c, t, delay, per) ==
  LET q == Inserted(queue[c], [timer |-> t, at |-> Later(clock, delay + 1)])
  IN /\ queue' = [queue EXCEPT ![c] = q]
     /\ period' = [period EXCEPT ![t] = per]
     /\ callback' = [callback EXCEPT ![t] = TRUE]
     /\ IF q[1].timer = t THEN SetHw(c, Oneshot(delay + 1)) ELSE KeepHw

timer_cancel(c, t) ==
  LET q == Without(queue[c], t)
  IN /\ queue' = [x \in Cpus |-> Without(queue[x], t)]
     /\ period' = [period EXCEPT ![t] = 0]
     /\ callback' = [callback EXCEPT ![t] = FALSE]
     /\ IF q = <<>> THEN SetHw(c, Off)
        ELSE IF q[1] # queue[c][1] THEN SetHw(c, ArmedFor(q))
        ELSE KeepHw

(* What a thread or another interrupt handler does on cpu c.  A timer whose  *)
(* callback may be running elsewhere is cancelled but not set again.         *)
Use(c) ==
  /\ cpu_state[c] = "online" /\ tick[c] = NotTicking
  /\ \E t \in KTimers :
       \/ /\ ~InQueue(t) /\ ~InHand(t)
          /\ \E delay \in 1 .. MaxDelay :
               \E per \in {0, delay} : timer_set(c, t, delay, per)
       \/ (InQueue(t) \/ InHand(t)) /\ timer_cancel(c, t)
  /\ UNCHANGED <<clock, tick, cpu_state, panicked>>

-----------------------------------------------------------------------------
(* timer_tick on cpu c. *)

(* The hardware timer has fired, and the handler is called. *)
Interrupt(c) ==
  /\ cpu_state[c] = "online" /\ tick[c] = NotTicking
  /\ hw[c] # Off /\ ~TIME_GT(hw[c], clock)
  /\ tick' = [tick EXCEPT ![c].stage = "loop"]
  /\ hw' = [hw EXCEPT ![c] = Off]
  /\ UNCHANGED <<clock, queue, period, callback, cpu_state, unarmed, panicked>>

(* Take the head off the list and release the lock. *)
Dequeue(c) ==
  /\ tick[c].stage = "loop"
  /\ queue[c] # <<>> /\ ~TIME_GT(queue[c][1].at, clock)
  /\ tick' = [tick EXCEPT ![c].stage = "call", ![c].timer = queue[c][1].timer]
  /\ queue' = [queue EXCEPT ![c] = Tail(@)]
  /\ UNCHANGED <<clock, period, callback, hw, cpu_state, unarmed, panicked>>

(* Call it.  A callback may cancel its timer, or set it again. *)
Call(c) ==
  LET t == tick[c].timer
  IN /\ tick[c].stage = "call"
     /\ IF ~callback[t]
          THEN panicked' = TRUE /\ UNCHANGED <<queue, period, callback, hw, unarmed>>
          ELSE /\ UNCHANGED panicked
               /\ \/ UNCHANGED <<queue, period, callback, hw, unarmed>>
                  \/ timer_cancel(c, t)
                  \/ \E delay \in 1 .. MaxDelay :
                       \E per \in {0, delay} : timer_set(c, t, delay, per)
     /\ tick' = [tick EXCEPT ![c].stage = "after", ![c].periodic = period[t] > 0]
     /\ UNCHANGED <<clock, cpu_state>>

(* Mutant: the callback's own timer_set is not looked for. *)
RequeueTwice(c) ==
  LET t == tick[c].timer
  IN /\ tick[c].stage = "after"
     /\ IF tick[c].periodic /\ period[t] > 0
          THEN queue' = [queue EXCEPT
                 ![c] = Inserted(@, [timer |-> t, at |-> Later(clock, period[t])])]
          ELSE UNCHANGED queue
     /\ tick' = [tick EXCEPT ![c] = [NotTicking EXCEPT !.stage = "loop"]]
     /\ UNCHANGED <<clock, period, callback, hw, cpu_state, unarmed, panicked>>

(* With the lock again: put a periodic timer back. *)
Requeue(c) ==
  LET t == tick[c].timer
  IN /\ tick[c].stage = "after"
     /\ IF tick[c].periodic /\ ~InQueue(t) /\ period[t] > 0
          THEN queue' = [queue EXCEPT
                 ![c] = Inserted(@, [timer |-> t, at |-> Later(clock, period[t])])]
          ELSE UNCHANGED queue
     /\ tick' = [tick EXCEPT ![c] = [NotTicking EXCEPT !.stage = "loop"]]
     /\ UNCHANGED <<clock, period, callback, hw, cpu_state, unarmed, panicked>>

(* Nothing else is due: arm the hardware timer for the next. *)
TickDone(c) ==
  /\ tick[c].stage = "loop"
  /\ queue[c] # <<>> => TIME_GT(queue[c][1].at, clock)
  /\ tick' = [tick EXCEPT ![c] = NotTicking]
  /\ IF queue[c] # <<>> THEN SetHw(c, Oneshot(Until(queue[c][1].at))) ELSE KeepHw
  /\ UNCHANGED <<clock, queue, period, callback, cpu_state, panicked>>

-----------------------------------------------------------------------------
(* Cpus come and go. *)

(* mp_unplug_trampoline: the cpu takes no more interrupts. *)
Halt(c) ==
  /\ cpu_state[c] = "online" /\ tick[c] = NotTicking
  /\ \E d \in Cpus \ {c} : cpu_state[d] = "online"
  /\ \A d \in Cpus : cpu_state[d] # "halted"
  /\ cpu_state' = [cpu_state EXCEPT ![c] = "halted"]
  /\ UNCHANGED <<clock, queue, period, callback, hw, tick, unarmed, panicked>>

(* timer_transition_off_cpu on cpu c, called by mp_unplug_cpu, and the end   *)
(* of the old cpu.                                                           *)
timer_transition_off_cpu(c, old_cpu) ==
  /\ cpu_state[c] = "online" /\ tick[c] = NotTicking
  /\ cpu_state[old_cpu] = "halted"
  /\ LET q == FoldLeft(Inserted, queue[c], queue[old_cpu])
         old_head == IF queue[old_cpu] = <<>> THEN NoTimer ELSE queue[old_cpu][1].timer
         new_head == IF q = <<>> THEN NoTimer ELSE q[1].timer
     IN /\ queue' = [queue EXCEPT ![c] = q, ![old_cpu] = <<>>]
        /\ IF new_head # old_head
             THEN /\ hw' = [hw EXCEPT ![c] = ArmedFor(q), ![old_cpu] = Off]
                  /\ unarmed' = unarmed \ {c, old_cpu}
             ELSE /\ hw' = [hw EXCEPT ![old_cpu] = Off]
                  /\ unarmed' = (unarmed \cup (IF q = <<>> THEN {} ELSE {c})) \ {old_cpu}
  /\ cpu_state' = [cpu_state EXCEPT ![old_cpu] = "off"]
  /\ UNCHANGED <<clock, period, callback, tick, panicked>>

(* mp_hotplug_cpu. *)
Hotplug(c) ==
  /\ cpu_state[c] = "off"
  /\ cpu_state' = [cpu_state EXCEPT ![c] = "online"]
  /\ UNCHANGED <<clock, queue, period, callback, hw, tick, unarmed, panicked>>

(* The last cpu is suspended, loses its hardware timer, and resumes. *)
timer_thaw_percpu(c) ==
  /\ cpu_state[c] = "online" /\ tick[c] = NotTicking
  /\ \A d \in Cpus \ {c} : cpu_state[d] = "off"
  /\ SetHw(c, IF queue[c] = <<>> THEN Off ELSE ArmedFor(queue[c]))
  /\ UNCHANGED <<clock, queue, period, callback, tick, cpu_state, panicked>>

(* A tick, and an interrupt that is late, are over before time goes on; no   *)
(* timer waits for half the range of the clock.                              *)
Passes ==
  /\ \A c \in Cpus :
       /\ tick[c] = NotTicking
       /\ hw[c] # Off /\ cpu_state[c] = "online" => ~TIME_GT(clock, Later(hw[c], MaxLate - 1))
       /\ queue[c] # <<>> => ~TIME_GT(clock, Later(queue[c][1].at, MaxLate))
  /\ clock' = Later(clock, 1)
  /\ UNCHANGED <<queue, period, callback, hw, tick, cpu_state, unarmed, panicked>>

TimerNext ==
  /\ ~panicked
  /\ \/ Passes
     \/ \E c \in Cpus :
          \/ Use(c)
          \/ Interrupt(c) \/ Dequeue(c) \/ Call(c) \/ Requeue(c) \/ TickDone(c)
          \/ Halt(c) \/ Hotplug(c) \/ timer_thaw_percpu(c)
          \/ \E d \in Cpus : timer_transition_off_cpu(c, d)

TimerSpec == TimerInit /\ [][TimerNext]_timerVars

-----------------------------------------------------------------------------
(* Properties. *)

Due(c) == hw[c] # Off /\ (~TIME_GT(hw[c], clock) \/ ~TIME_GT(hw[c], queue[c][1].at)
                          \/ ~TIME_GT(queue[c][1].at, clock))

(* A timer is in one queue at most, once, and the queues are sorted, over    *)
(* the wrap of the clock too: timer_tick stops at the first timer that is    *)
(* not due, and list_delete of a timer that is twice in a list ruins it.     *)
TimerQueuesSound ==
  /\ \A c, d \in Cpus : \A i \in DOMAIN queue[c], j \in DOMAIN queue[d] :
       queue[c][i].timer = queue[d][j].timer => c = d /\ i = j
  /\ \A c \in Cpus : \A i \in DOMAIN queue[c] :
       i > 1 => ~TIME_GT(queue[c][i - 1].at, queue[c][i].at)

(* Every cpu with timers has its hardware timer armed for the first of them  *)
(* or for an earlier time, outside the tick handler, so that no timer is     *)
(* forgotten when others are set, cancelled from any cpu or called; except   *)
(* where timer_transition_off_cpu has moved timers to the head of a queue    *)
(* without arming the cpu for them: it compares the new head with the head   *)
(* of the queue they left (line 307).                                        *)
TimersArmed ==
  \A c \in Cpus :
    cpu_state[c] = "online" /\ tick[c] = NotTicking /\ queue[c] # <<>> /\ ~panicked
      => c \in unarmed \/ Due(c)
=============================================================================
