----------------------------- MODULE MxrRuntime -----------------------------
(***************************************************************************)
(* The threads of a process that use the runtime library                   *)
(* (system/ulib/runtime), and the futexes of the process (FutexQueue).     *)
(* The library's atomic operations, its calls of the kernel and the        *)
(* returns from them are separate steps.                                   *)
(***************************************************************************)
EXTENDS Naturals, Sequences

CONSTANTS Threads,
          Timed      \* threads that may wait with a finite timeout

ASSUME TimedAssumption == Timed \subseteq Threads

Keys == {"mutex", "completion", "once"}   \* one object of each kind
Values == 0 .. 3

VARIABLES word, queue, status, result,    \* the futexes, see FutexQueue
          pc                              \* where each thread is in the library

futex == <<word, queue, status, result>>

F == INSTANCE FutexQueue

BaseInit ==
  /\ F!FQInit
  /\ word = [k \in Keys |-> 0]
  /\ pc = [t \in Threads |-> "out"]

goto(t, p) == pc' = [pc EXCEPT ![t] = p]

-----------------------------------------------------------------------------
(***************************************************************************)
(* The mxr_mutex_t of system/ulib/runtime/mutex.c, a lock in user space on *)
(* one futex word.                                                         *)
(***************************************************************************)
UNLOCKED == 0
LOCKED == 1

-----------------------------------------------------------------------------
mxr_mutex_timedlock(t) ==
  /\ pc[t] = "out"
  /\ goto(t, "m_swap")
  /\ UNCHANGED futex

(* atomic_cmpxchg; a failure changes nothing. *)
mxr_mutex_trylock(t) ==
  /\ pc[t] = "out"
  /\ word["mutex"] = UNLOCKED
  /\ F!Store("mutex", LOCKED)
  /\ goto(t, "m_in")

(* atomic_swap. *)
MSwap(t) ==
  /\ pc[t] = "m_swap"
  /\ F!Store("mutex", LOCKED)
  /\ goto(t, IF word["mutex"] = UNLOCKED THEN "m_in" ELSE "m_wait")

(* Mutant: ERR_BUSY is answered by another wait. *)
MBusySpins(t) ==
  /\ pc[t] = "m_wait"
  /\ word["mutex"] # LOCKED
  /\ goto(t, "m_wait")
  /\ UNCHANGED futex

(* mx_futex_wait with another value than LOCKED in the word: ERR_BUSY. *)
MBusy(t) ==
  /\ pc[t] = "m_wait"
  /\ word["mutex"] # LOCKED
  /\ goto(t, "m_swap")
  /\ UNCHANGED futex

MSleep(t) ==
  /\ pc[t] = "m_wait"
  /\ F!Wait(t, "mutex", LOCKED)
  /\ goto(t, "m_asleep")

(* Mutant: a thread that was woken takes the lock for its own. *)
MWokenOwns(t) ==
  /\ pc[t] = "m_asleep"
  /\ F!Succeed(t)
  /\ goto(t, "m_in")

MWoken(t) ==
  /\ pc[t] = "m_asleep"
  /\ F!Succeed(t)
  /\ goto(t, "m_swap")

(* The timeout is returned to the caller. *)
MTimedOut(t) ==
  /\ t \in Timed
  /\ pc[t] = "m_asleep"
  /\ F!TimeOut(t)
  /\ goto(t, "out")

(* atomic_store, and then mx_futex_wake. *)
mxr_mutex_unlock(t) ==
  /\ pc[t] = "m_in"
  /\ F!Store("mutex", UNLOCKED)
  /\ goto(t, "m_wake")

MWake(t) ==
  /\ pc[t] = "m_wake"
  /\ F!Wake("mutex", Len(queue["mutex"]))
  /\ goto(t, "out")

MutexStep(t) ==
  MSwap(t) \/ MBusy(t) \/ MSleep(t) \/ MWoken(t) \/ mxr_mutex_unlock(t) \/ MWake(t)

MutexCall(t) == mxr_mutex_timedlock(t) \/ mxr_mutex_trylock(t) \/ MTimedOut(t)

-----------------------------------------------------------------------------
MutexLabel == {"m_swap", "m_wait", "m_asleep", "m_in", "m_wake"}

(* At most one thread owns the mutex, and the word says whether one does,  *)
(* although contenders overwrite it in mxr_mutex_timedlock.                *)
Exclusion ==
  /\ \A t, u \in Threads : pc[t] = "m_in" /\ pc[u] = "m_in" => t = u
  /\ (word["mutex"] = LOCKED) <=> \E t \in Threads : pc[t] = "m_in"

(* While threads sleep in mx_futex_wait the mutex is owned, or its last    *)
(* owner has yet to call mx_futex_wake.                                    *)
MutexWakes ==
  \A t \in Threads : pc[t] = "m_asleep" /\ status[t] = "waiting" =>
     word["mutex"] = LOCKED \/ \E u \in Threads : pc[u] = "m_wake"

(* A free mutex that a thread tries to lock is locked by some thread, or   *)
(* the thread gives up.                                                    *)
SomeoneLocks ==
  LET owned == \E u \in Threads : pc[u] = "m_in"
  IN \A t \in Threads :
       (pc[t] \in {"m_swap", "m_wait", "m_asleep"} /\ ~owned) ~> (pc[t] = "out" \/ owned)

-----------------------------------------------------------------------------
(***************************************************************************)
(* The mxr_completion_t of system/ulib/runtime/completion.c, an event in   *)
(* user space on one futex word.                                           *)
(***************************************************************************)
UNSIGNALED == 0
SIGNALED == 1

VARIABLE seen    \* history: the completion was signaled during t's last wait

CompletionInit == seen = [t \in Threads |-> FALSE]

InWait(t) == pc[t] \in {"c_load", "c_wait", "c_asleep"}

-----------------------------------------------------------------------------
mxr_completion_wait(t) ==
  /\ pc[t] = "out"
  /\ goto(t, "c_load")
  /\ seen' = [seen EXCEPT ![t] = (word["completion"] = SIGNALED)]
  /\ UNCHANGED futex

(* atomic_load. *)
CLoad(t) ==
  /\ pc[t] = "c_load"
  /\ goto(t, IF word["completion"] = SIGNALED THEN "out" ELSE "c_wait")
  /\ UNCHANGED <<futex, seen>>

(* mx_futex_wait finds another value than the one loaded: ERR_BUSY, which   *)
(* is taken for a signal.                                                   *)
CBusy(t) ==
  /\ pc[t] = "c_wait"
  /\ word["completion"] # UNSIGNALED
  /\ goto(t, "out")
  /\ UNCHANGED <<futex, seen>>

CSleep(t) ==
  /\ pc[t] = "c_wait"
  /\ F!Wait(t, "completion", UNSIGNALED)
  /\ goto(t, "c_asleep")
  /\ UNCHANGED seen

(* Mutant: the wait goes on with the value it loaded. *)
CWokenWaits(t) ==
  /\ pc[t] = "c_asleep"
  /\ F!Succeed(t)
  /\ goto(t, "c_asleep")
  /\ UNCHANGED seen

CWoken(t) ==
  /\ pc[t] = "c_asleep"
  /\ F!Succeed(t)
  /\ goto(t, "c_load")
  /\ UNCHANGED seen

CTimedOut(t) ==
  /\ t \in Timed
  /\ pc[t] = "c_asleep"
  /\ F!TimeOut(t)
  /\ goto(t, "out")
  /\ UNCHANGED seen

(* atomic_store, and then mx_futex_wake. *)
mxr_completion_signal(t) ==
  /\ pc[t] = "out"
  /\ F!Store("completion", SIGNALED)
  /\ goto(t, "c_wake")
  /\ seen' = [u \in Threads |-> seen[u] \/ InWait(u)]

CWake(t) ==
  /\ pc[t] = "c_wake"
  /\ F!Wake("completion", Len(queue["completion"]))
  /\ goto(t, "out")
  /\ UNCHANGED seen

(* Mutant: a value of its own for a completion that was reset. *)
mxr_completion_resetOther(t) ==
  /\ pc[t] = "out"
  /\ F!Store("completion", 2)
  /\ UNCHANGED <<pc, seen>>

mxr_completion_reset(t) ==
  /\ pc[t] = "out"
  /\ F!Store("completion", UNSIGNALED)
  /\ UNCHANGED <<pc, seen>>

CompletionStep(t) == CLoad(t) \/ CBusy(t) \/ CSleep(t) \/ CWoken(t) \/ CWake(t)

CompletionCall(t) ==
  \/ mxr_completion_wait(t) \/ mxr_completion_signal(t) \/ mxr_completion_reset(t)
  \/ CTimedOut(t)

-----------------------------------------------------------------------------
CompletionLabel == {"c_load", "c_wait", "c_asleep", "c_wake"}

(* mxr_completion_wait returns NO_ERROR only if the completion was signaled *)
(* when it was called or while it was in progress, also where ERR_BUSY      *)
(* makes it return without looking at the word again ("This could only have *)
(* happened if we were signaled").                                          *)
OkMeansSignaled ==
  [][\A t \in Threads : InWait(t) /\ pc'[t] = "out" /\ status[t] # "waiting" => seen[t]]_<<futex, pc, seen>>

(* While threads sleep in mx_futex_wait the completion is not signaled, or  *)
(* the signaler has yet to call mx_futex_wake.                              *)
CompletionWakes ==
  \A t \in Threads : pc[t] = "c_asleep" /\ status[t] = "waiting" =>
     word["completion"] # SIGNALED \/ \E u \in Threads : pc[u] = "c_wake"

(* "Awakens all waiters on the completion": a wait in progress when the     *)
(* completion is signaled returns, unless the completion is reset.          *)
SignalEndsWaits ==
  \A t \in Threads :
    (InWait(t) /\ word["completion"] = SIGNALED) ~> (~InWait(t) \/ word["completion"] # SIGNALED)

-----------------------------------------------------------------------------
(***************************************************************************)
(* mxr_once of system/ulib/runtime/once.c: threads that call it with the   *)
(* same mxr_once_t run the function once between them.                     *)
(***************************************************************************)
UNUSED == 0
RUNNING == 1
RAN == 2
WAITING == 3

VARIABLES runs,      \* history: how often the function was started
          ran        \* history: the function has returned

OnceInit == runs = 0 /\ ran = FALSE

-----------------------------------------------------------------------------
mxr_once(t) ==
  /\ pc[t] = "out"
  /\ goto(t, "o_claim")
  /\ UNCHANGED <<futex, runs, ran>>

(* Mutant: the claim is a load and a store without a comparison. *)
OClaimRaces(t) ==
  /\ pc[t] = "o_claim"
  /\ IF word["once"] \in {UNUSED, RUNNING}
       THEN /\ F!Store("once", RUNNING)
            /\ runs' = runs + 1
            /\ goto(t, "o_run")
       ELSE /\ goto(t, IF word["once"] = RAN THEN "out" ELSE "o_wait")
            /\ UNCHANGED <<futex, runs>>
  /\ UNCHANGED ran

(* The first atomic_cmpxchg, and the switch on the value it found. *)
OClaim(t) ==
  /\ pc[t] = "o_claim"
  /\ IF word["once"] = UNUSED
       THEN /\ F!Store("once", RUNNING)
            /\ runs' = runs + 1
            /\ goto(t, "o_run")
       ELSE /\ goto(t, CASE word["once"] = RAN -> "out"
                         [] word["once"] = RUNNING -> "o_announce"
                         [] word["once"] = WAITING -> "o_wait")
            /\ UNCHANGED <<futex, runs>>
  /\ UNCHANGED ran

(* The function returns. *)
ORun(t) ==
  /\ pc[t] = "o_run"
  /\ ran' = TRUE
  /\ goto(t, "o_finish")
  /\ UNCHANGED <<futex, runs>>

(* Mutant: waiters are woken only if there were none. *)
OFinishNoWake(t) ==
  /\ pc[t] = "o_finish"
  /\ F!Store("once", RAN)
  /\ goto(t, IF word["once"] = RUNNING THEN "o_wake" ELSE "out")
  /\ UNCHANGED <<runs, ran>>

(* atomic_swap. *)
OFinish(t) ==
  /\ pc[t] = "o_finish"
  /\ F!Store("once", RAN)
  /\ goto(t, IF word["once"] = WAITING THEN "o_wake" ELSE "out")
  /\ UNCHANGED <<runs, ran>>

OWake(t) ==
  /\ pc[t] = "o_wake"
  /\ F!Wake("once", Len(queue["once"]))
  /\ goto(t, "out")
  /\ UNCHANGED <<runs, ran>>

(* The second atomic_cmpxchg. *)
OAnnounce(t) ==
  /\ pc[t] = "o_announce"
  /\ IF word["once"] = RUNNING
       THEN F!Store("once", WAITING) /\ goto(t, "o_wait")
       ELSE goto(t, "o_claim") /\ UNCHANGED futex
  /\ UNCHANGED <<runs, ran>>

(* Mutant: ERR_BUSY is answered by another wait. *)
OWaitSpins(t) ==
  /\ pc[t] = "o_wait"
  /\ \/ F!Wait(t, "once", WAITING) /\ goto(t, "o_asleep")
     \/ word["once"] # WAITING /\ goto(t, "o_wait") /\ UNCHANGED futex
  /\ UNCHANGED <<runs, ran>>

(* mx_futex_wait: ERR_BUSY, or asleep. *)
OWait(t) ==
  /\ pc[t] = "o_wait"
  /\ \/ F!Wait(t, "once", WAITING) /\ goto(t, "o_asleep")
     \/ word["once"] # WAITING /\ goto(t, "o_claim") /\ UNCHANGED futex
  /\ UNCHANGED <<runs, ran>>

OWoken(t) ==
  /\ pc[t] = "o_asleep"
  /\ F!Succeed(t)
  /\ goto(t, "o_claim")
  /\ UNCHANGED <<runs, ran>>

OnceStep(t) ==
  \/ OClaim(t) \/ ORun(t) \/ OFinish(t) \/ OWake(t)
  \/ OAnnounce(t) \/ OWait(t) \/ OWoken(t)

-----------------------------------------------------------------------------
OnceLabel == {"o_claim", "o_run", "o_finish", "o_wake", "o_announce", "o_wait", "o_asleep"}

(* "Calls the function exactly once across all threads", and no call of    *)
(* mxr_once returns before the function has.                               *)
RunsOnce ==
  [][/\ runs' <= 1
     /\ \A t \in Threads : pc[t] \in OnceLabel /\ pc'[t] = "out" => runs' = 1 /\ ran']_<<futex, pc, runs, ran>>

(* While threads sleep in mx_futex_wait, the word tells the one that runs  *)
(* the function to wake them, or it is about to.                           *)
OnceWakes ==
  \A t \in Threads : pc[t] = "o_asleep" /\ status[t] = "waiting" =>
    \/ word["once"] = WAITING /\ \E u \in Threads : pc[u] \in {"o_run", "o_finish"}
    \/ \E u \in Threads : pc[u] = "o_wake"

(* Every call of mxr_once returns. *)
EveryCallReturns == \A t \in Threads : pc[t] = "o_claim" ~> pc[t] = "out"

-----------------------------------------------------------------------------
(***************************************************************************)
(* Threads of a process that use a mutex, a completion and a once object   *)
(* of the runtime library, on the futexes of one process.                  *)
(***************************************************************************)
CONSTANT Uses    \* the sets of objects that are used together

VARIABLE used    \* the one of this behaviour

vars == <<futex, pc, seen, runs, ran, used>>

Init == BaseInit /\ CompletionInit /\ OnceInit /\ used \in Uses

Step(t) ==
  \/ MutexStep(t) /\ UNCHANGED <<seen, runs, ran>>
  \/ CompletionStep(t) /\ UNCHANGED <<runs, ran>>
  \/ OnceStep(t) /\ UNCHANGED seen

Call(t) ==
  \/ "mutex" \in used /\ MutexCall(t) /\ UNCHANGED <<seen, runs, ran>>
  \/ "completion" \in used /\ CompletionCall(t) /\ UNCHANGED <<runs, ran>>
  \/ "once" \in used /\ mxr_once(t) /\ UNCHANGED seen

Next == \E t \in Threads : (Step(t) \/ Call(t)) /\ UNCHANGED used

Spec == Init /\ [][Next]_vars

-----------------------------------------------------------------------------
AsleepOn(t, k) ==
  CASE k = "mutex" -> pc[t] = "m_asleep"
    [] k = "completion" -> pc[t] = "c_asleep"
    [] k = "once" -> pc[t] = "o_asleep"

(* Types; and a thread is in the queue of the object it waits for, and in  *)
(* no other, until it is woken.                                            *)
TypeOK ==
  /\ word \in [Keys -> Values] /\ word["mutex"] \in {UNLOCKED, LOCKED}
  /\ queue \in [Keys -> Seq(Threads)]
  /\ status \in [Threads -> {"user", "waiting", "woken"}]
  /\ pc \in [Threads -> {"out"} \cup MutexLabel \cup CompletionLabel \cup OnceLabel]
  /\ seen \in [Threads -> BOOLEAN]
  /\ runs \in Nat /\ ran \in BOOLEAN /\ used \in Uses
  /\ \A t \in Threads, k \in Keys :
       (\E i \in DOMAIN queue[k] : queue[k][i] = t) <=> status[t] = "waiting" /\ AsleepOn(t, k)

(* No wake-up is lost between a store to a futex word and the wake that    *)
(* follows it, in none of the three objects.                               *)
NoLostWakeup == MutexWakes /\ CompletionWakes /\ OnceWakes

(* A call with a reason to return does: a free mutex is taken, a signal ends *)
(* the waits, and mxr_once returns to every caller.                          *)
CallsEnd == SomeoneLocks /\ SignalEndsWaits /\ EveryCallReturns
=============================================================================
