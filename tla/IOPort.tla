------------------------------- MODULE IOPort -------------------------------
(***************************************************************************)
(* The packet queue of an IO port and the threads that wait on it          *)
(* (IOPortDispatcher in kernel/lib/magenta/io_port_dispatcher.cpp, the     *)
(* io_port system calls, and the auto-unsignalling event of                *)
(* kernel/kernel/event.c they sleep on).                                   *)
(*                                                                         *)
(* Wait looks at the queue under lock_ and sleeps on the event without it, *)
(* so the two are separate steps.  Queue pushes and signals under lock_    *)
(* and is one step: only event_wait_timeout can come between its halves,   *)
(* and that does not look at the queue.                                    *)
(***************************************************************************)
EXTENDS Naturals, Sequences, FiniteSets

CONSTANTS Waiters,     \* threads that call io_port_wait
          MaxPackets,  \* bound on the packets ever queued
          Mortal       \* the threads that may be killed

ASSUME WaitersAssumption == Mortal \subseteq Waiters
ASSUME MaxPacketsAssumption == MaxPackets \in Nat

VARIABLES packets,     \* packets_, the queue; packets are numbered from 1
          no_clients,  \* no_clients_
          signalled,   \* event_.signalled
          waitq,       \* the threads in the wait queue of event_
          wait_pc,     \* where each thread is in io_port_wait
          holding,     \* the packet a thread has dequeued, 0 for none
          killed,      \* threads with THREAD_SIGNAL_KILL
          wait_result, \* what the last io_port_wait of a thread returned
          received,    \* the packet that call copied out, 0 for none
          fate         \* what became of each packet

event_ == <<signalled, waitq>>
call == <<wait_result, received>>
iopVars == <<packets, no_clients, event_, wait_pc, holding, killed, call, fate>>

Packet == 1 .. MaxPackets
Fate == {"unmade", "queued", "taken", "deleted", "leaked"}
Status == {"none", "NO_ERROR", "ERR_INTERRUPTED", "ERR_INVALID_ARGS"}

IopTypeOK ==
  /\ packets \in Seq(Packet)
  /\ no_clients \in BOOLEAN
  /\ signalled \in BOOLEAN
  /\ waitq \in Seq(Waiters)
  /\ wait_pc \in [Waiters -> {"user", "check", "sleep", "blocked", "copy", "dead"}]
  /\ holding \in [Waiters -> 0 .. MaxPackets]
  /\ killed \in SUBSET Mortal
  /\ wait_result \in [Waiters -> Status]
  /\ received \in [Waiters -> 0 .. MaxPackets]
  /\ fate \in [Packet -> Fate]

IopInit ==
  /\ packets = <<>>
  /\ no_clients = FALSE
  /\ signalled = FALSE
  /\ waitq = <<>>
  /\ wait_pc = [t \in Waiters |-> "user"]
  /\ holding = [t \in Waiters |-> 0]
  /\ killed = {}
  /\ wait_result = [t \in Waiters |-> "none"]
  /\ received = [t \in Waiters |-> 0]
  /\ fate = [p \in Packet |-> "unmade"]

-----------------------------------------------------------------------------
(* The event, with EVENT_FLAG_AUTOUNSIGNAL. *)

(* Mutant: a signal nobody waits for is forgotten. *)
SignalEventNoLatch ==
  IF waitq = <<>>
    THEN UNCHANGED <<event_, wait_pc>>
    ELSE /\ waitq' = Tail(waitq)
         /\ wait_pc' = [wait_pc EXCEPT ![Head(waitq)] = "check"]
         /\ UNCHANGED signalled

(* event_signal_etc: wake one waiter, or leave the event signalled. *)
SignalEvent ==
  IF signalled THEN UNCHANGED <<event_, wait_pc>>
  ELSE IF waitq = <<>>
    THEN signalled' = TRUE /\ UNCHANGED <<waitq, wait_pc>>
    ELSE /\ waitq' = Tail(waitq)
         /\ wait_pc' = [wait_pc EXCEPT ![Head(waitq)] = "check"]
         /\ UNCHANGED signalled

-----------------------------------------------------------------------------
(* io_port_queue, and the packets of bound objects. *)

(* Mutant: the newest packet goes first. *)
QueueFront(p) ==
  /\ fate[p] = "unmade"
  /\ \A q \in 1 .. p - 1 : fate[q] # "unmade"
  /\ ~no_clients
  /\ fate' = [fate EXCEPT ![p] = "queued"]
  /\ packets' = <<p>> \o packets
  /\ SignalEvent
  /\ UNCHANGED <<no_clients, holding, killed, call>>

(* Mutant: packets are accepted although the last handle is gone. *)
QueueNoClients(p) ==
  /\ fate[p] = "unmade"
  /\ \A q \in 1 .. p - 1 : fate[q] # "unmade"
  /\ fate' = [fate EXCEPT ![p] = "queued"]
  /\ packets' = Append(packets, p)
  /\ SignalEvent
  /\ UNCHANGED <<no_clients, holding, killed, call>>

Queue(p) ==
  /\ fate[p] = "unmade"
  /\ \A q \in 1 .. p - 1 : fate[q] # "unmade"
  /\ IF no_clients
       THEN fate' = [fate EXCEPT ![p] = "deleted"] /\ UNCHANGED <<packets, event_, wait_pc>>
       ELSE /\ fate' = [fate EXCEPT ![p] = "queued"]
            /\ packets' = Append(packets, p)
            /\ SignalEvent
  /\ UNCHANGED <<no_clients, holding, killed, call>>

-----------------------------------------------------------------------------
(* io_port_wait. *)

(* A thread looks its handle up; the reference it gets keeps the port.     *)
CallWait(t) ==
  /\ wait_pc[t] = "user" /\ t \notin killed
  /\ ~no_clients
  /\ wait_pc' = [wait_pc EXCEPT ![t] = "check"]
  /\ wait_result' = [wait_result EXCEPT ![t] = "none"]
  /\ received' = [received EXCEPT ![t] = 0]
  /\ UNCHANGED <<packets, no_clients, event_, holding, killed, fate>>

(* Under lock_: take the first packet, or go to sleep without the lock. *)
CheckQueue(t) ==
  /\ wait_pc[t] = "check"
  /\ IF packets # <<>>
       THEN /\ packets' = Tail(packets)
            /\ holding' = [holding EXCEPT ![t] = Head(packets)]
            /\ fate' = [fate EXCEPT ![Head(packets)] = "taken"]
            /\ wait_pc' = [wait_pc EXCEPT ![t] = "copy"]
       ELSE wait_pc' = [wait_pc EXCEPT ![t] = "sleep"] /\ UNCHANGED <<packets, holding, fate>>
  /\ UNCHANGED <<no_clients, event_, killed, call>>

(* Mutant: a thread blocks although the event is signalled. *)
EventWaitIgnoresSignal(t) ==
  /\ wait_pc[t] = "sleep"
  /\ \/ /\ t \in killed
        /\ wait_pc' = [wait_pc EXCEPT ![t] = "user"]
        /\ wait_result' = [wait_result EXCEPT ![t] = "ERR_INTERRUPTED"]
        /\ UNCHANGED event_
     \/ /\ t \notin killed
        /\ waitq' = Append(waitq, t)
        /\ wait_pc' = [wait_pc EXCEPT ![t] = "blocked"]
        /\ UNCHANGED <<signalled, wait_result>>
  /\ UNCHANGED <<packets, no_clients, holding, killed, received, fate>>

(* event_wait_timeout(&event_, INFINITE_TIME, true). *)
EventWait(t) ==
  /\ wait_pc[t] = "sleep"
  /\ \/ /\ t \in killed
        /\ wait_pc' = [wait_pc EXCEPT ![t] = "user"]
        /\ wait_result' = [wait_result EXCEPT ![t] = "ERR_INTERRUPTED"]
        /\ UNCHANGED event_
     \/ /\ t \notin killed /\ signalled
        /\ signalled' = FALSE
        /\ wait_pc' = [wait_pc EXCEPT ![t] = "check"]
        /\ UNCHANGED <<waitq, wait_result>>
     \/ /\ t \notin killed /\ ~signalled
        /\ waitq' = Append(waitq, t)
        /\ wait_pc' = [wait_pc EXCEPT ![t] = "blocked"]
        /\ UNCHANGED <<signalled, wait_result>>
  /\ UNCHANGED <<packets, no_clients, holding, killed, received, fate>>

(* CopyToUser returns a bool: ERR_NOT_ENOUGH_BUFFER, for a buffer that is too *)
(* small, is true.  A copy that faults leaves the packet behind.              *)
CopyToUser(t) ==
  /\ wait_pc[t] = "copy"
  /\ \/ /\ received' = [received EXCEPT ![t] = holding[t]]
        /\ wait_result' = [wait_result EXCEPT ![t] = "NO_ERROR"]
        /\ fate' = [fate EXCEPT ![holding[t]] = "deleted"]
     \/ /\ wait_result' = [wait_result EXCEPT ![t] = "NO_ERROR"]
        /\ fate' = [fate EXCEPT ![holding[t]] = "deleted"]
        /\ UNCHANGED received
     \/ /\ wait_result' = [wait_result EXCEPT ![t] = "ERR_INVALID_ARGS"]
        /\ fate' = [fate EXCEPT ![holding[t]] = "leaked"]
        /\ UNCHANGED received
  /\ holding' = [holding EXCEPT ![t] = 0]
  /\ wait_pc' = [wait_pc EXCEPT ![t] = "user"]
  /\ UNCHANGED <<packets, no_clients, event_, killed>>

-----------------------------------------------------------------------------
(* The environment: the last handle is closed, threads are killed. *)

on_zero_handles ==
  /\ ~no_clients
  /\ no_clients' = TRUE
  /\ packets' = <<>>
  /\ fate' = [p \in Packet |-> IF fate[p] = "queued" THEN "deleted" ELSE fate[p]]
  /\ UNCHANGED <<event_, wait_pc, holding, killed, call>>

(* list_delete of the thread at place i of a wait queue. *)
Without(q, i) == [j \in 1 .. Len(q) - 1 |-> IF j < i THEN q[j] ELSE q[j + 1]]

(* thread_kill: an interruptable blocked thread is taken out of its queue. *)
Kill(t) ==
  /\ t \in Mortal \ killed
  /\ killed' = killed \cup {t}
  /\ IF wait_pc[t] = "blocked"
       THEN /\ \E i \in DOMAIN waitq : waitq[i] = t /\ waitq' = Without(waitq, i)
            /\ wait_pc' = [wait_pc EXCEPT ![t] = "user"]
            /\ wait_result' = [wait_result EXCEPT ![t] = "ERR_INTERRUPTED"]
       ELSE UNCHANGED <<waitq, wait_pc, wait_result>>
  /\ UNCHANGED <<packets, no_clients, signalled, holding, received, fate>>

(* A killed thread exits when it is about to return to user space. *)
Exit(t) ==
  /\ wait_pc[t] = "user" /\ t \in killed
  /\ wait_pc' = [wait_pc EXCEPT ![t] = "dead"]
  /\ UNCHANGED <<packets, no_clients, event_, holding, killed, call, fate>>

-----------------------------------------------------------------------------
InPortWait(t) == CheckQueue(t) \/ EventWait(t) \/ CopyToUser(t)

IopNext ==
  \/ \E p \in Packet : Queue(p)
  \/ \E t \in Waiters : CallWait(t) \/ InPortWait(t) \/ Kill(t) \/ Exit(t)
  \/ on_zero_handles

IopSpec == IopInit /\ [][IopNext]_iopVars

-----------------------------------------------------------------------------
(* Properties. *)

Asleep(t) == wait_pc[t] \in {"sleep", "blocked"}

(* The threads of a port are never all asleep, or past the check that sends   *)
(* them to sleep, while a packet is queued and no signal is pending: a packet *)
(* queued between the check and event_wait_timeout is not missed by everyone. *)
(* Threads outside the call, or killed, do not count as asleep.               *)
NotAllAsleep ==
  (\A t \in Waiters : Asleep(t)) => packets = <<>> \/ signalled

(* Every packet is in exactly one place: queued once, in the hands of one      *)
(* thread, or gone.  None is handed to two waiters, kept after on_zero_handles *)
(* or deleted while queued.                                                    *)
PacketsAccounted ==
  /\ \A i, j \in DOMAIN packets : packets[i] = packets[j] => i = j
  /\ \A t, u \in Waiters : holding[t] = holding[u] /\ holding[t] # 0 => t = u
  /\ \A p \in Packet :
       /\ fate[p] = "queued" <=> \E i \in DOMAIN packets : packets[i] = p
       /\ fate[p] = "taken" <=> \E t \in Waiters : holding[t] = p
  /\ no_clients => packets = <<>>

(* Packets leave the port in the order they were queued. *)
TakesEarliest ==
  \A t \in Waiters : holding'[t] # holding[t] /\ holding'[t] # 0 =>
     \A p \in Packet : fate[p] = "queued" => holding'[t] <= p

FIFO == [][TakesEarliest]_iopVars

(* As long as no thread of a pool that keeps waiting is killed, every queued   *)
(* packet is taken, or freed with the port.                                    *)
QueuedPacketsAreTaken ==
  [](killed = {}) => \A p \in Packet : fate[p] = "queued" ~> fate[p] # "queued"
=============================================================================
