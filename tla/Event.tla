------------------------------- MODULE Event --------------------------------
(***************************************************************************)
(* An event_t of kernel/kernel/event.c, with and without                   *)
(* EVENT_FLAG_AUTOUNSIGNAL.                                                *)
(***************************************************************************)
EXTENDS WaitQueue

VARIABLES signalled,    \* e->signalled
          autounsignal  \* e->flags

event == <<signalled, autounsignal>>

EventInit ==
  /\ signalled = FALSE
  /\ autounsignal \in BOOLEAN

-----------------------------------------------------------------------------
event_wait_timeout(t, timed) ==
  /\ pc[t] = "idle"
  /\ IF signalled
       THEN signalled' = ~autounsignal /\ UNCHANGED <<w, pc>>
       ELSE /\ w' = wait_queue_block(w, t, "event", timed)
            /\ Goto(t, "event")
            /\ UNCHANGED signalled
  /\ UNCHANGED <<gaveup, stray, panic, autounsignal>>

EventReturns(t) ==
  /\ Waiting(t, {"event"})
  /\ w' = Returned(w, t)
  /\ Goto(t, "idle")
  /\ UNCHANGED <<gaveup, stray, panic, event>>

(* Mutant: the signal is kept as well as passed on. *)
event_signalLatches ==
  /\ ~signalled
  /\ signalled' = TRUE
  /\ w' = IF autounsignal THEN wait_queue_wake_one(w, "event") ELSE wait_queue_wake_all(w, "event")
  /\ UNCHANGED <<pc, gaveup, stray, panic, autounsignal>>

event_signal ==
  /\ ~signalled
  /\ IF autounsignal
       THEN /\ w' = wait_queue_wake_one(w, "event")
            /\ signalled' = (w.list["event"] = <<>>)
       ELSE /\ w' = wait_queue_wake_all(w, "event")
            /\ signalled' = TRUE
  /\ UNCHANGED <<pc, gaveup, stray, panic, autounsignal>>

event_unsignal ==
  /\ signalled' = FALSE
  /\ UNCHANGED <<waits, autounsignal>>

EventNext ==
  \/ event_signal \/ event_unsignal
  \/ \E t \in Threads :
       EventReturns(t) \/ \E timed \in MayTime(t) : event_wait_timeout(t, timed)

-----------------------------------------------------------------------------
EventTypeOK == signalled \in BOOLEAN /\ autounsignal \in BOOLEAN

(* "If the event has already been signaled, this function returns            *)
(* immediately": no thread sleeps on an event that is signalled, although    *)
(* signals, waits and timeouts interleave.                                   *)
SignalFound == signalled => w.list["event"] = <<>>
=============================================================================
