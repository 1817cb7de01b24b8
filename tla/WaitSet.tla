------------------------------- MODULE WaitSet -------------------------------
(***************************************************************************)
(* A wait set, its entries and the state trackers that the entries observe *)
(* (kernel/lib/magenta/wait_set_dispatcher.cpp, state_tracker.cpp).        *)
(*                                                                         *)
(* The wait set's mutex_ is held for single steps only, since no other     *)
(* mutex may be taken under it.  A tracker's lock_ is held while it walks  *)
(* its observers, and is taken with mutex_ free: AddEntry and RemoveEntry  *)
(* are therefore two steps each, and whatever holds mutex_ may run between *)
(* them or between two callbacks of a walk.                                *)
(*                                                                         *)
(* Each object has one signal that matters: "none" (not satisfied, may     *)
(* be), "ready" (satisfied) or "never" (unsatisfiable).  A handle is a     *)
(* pair of its object and an index.  An entry that is destroyed while a    *)
(* tracker still lists it makes the rest of the behaviour undefined: lost. *)
(***************************************************************************)
EXTENDS Naturals, Sequences, SequencesExt, FiniteSets

CONSTANTS Threads,    \* threads of the process that owns the wait set
          Objects,    \* waitable objects
          HandleIds,  \* handles to each of them
          Cookies,    \* keys of entries
          Entries,    \* memory for Entry objects
          None

VARIABLES sig,        \* signals_state_ of each tracker
          observers,  \* observers_ of each tracker
          tracker,    \* holder of each tracker's lock_
          table,      \* holder of the handle table's lock
          open,       \* handles in the handle table
          ws,         \* the wait set: "open", "closed" (cancelled_), "dying", "gone"
          entries,    \* entries_, by cookie
          ent,        \* the Entry objects
          triggered,  \* triggered_entries_
          pc, arg, walk, \* of each thread: next step, its object, observers to call
          lost        \* an entry was destroyed while it was listed

vars == <<sig, observers, tracker, table, open, ws, entries, ent, triggered, pc, arg, walk, lost>>
trackers == <<sig, observers, tracker>>
waitset == <<ws, entries, ent, triggered>>

Handles == Objects \X HandleIds
Signals == {"none", "ready", "never"}
Unused == [state |-> "free", handle |-> None, seen |-> "none", trig |-> FALSE]

Init ==
    /\ sig = [o \in Objects |-> "none"]
    /\ observers = [o \in Objects |-> <<>>]
    /\ tracker = [o \in Objects |-> None]
    /\ table = None /\ open = Handles
    /\ ws = "open"
    /\ entries = [c \in Cookies |-> None]
    /\ ent = [e \in Entries |-> Unused]
    /\ triggered = <<>>
    /\ pc = [t \in Threads |-> "idle"]
    /\ arg = [t \in Threads |-> None]
    /\ walk = [t \in Threads |-> <<>>]
    /\ lost = FALSE

-----------------------------------------------------------------------------
Listed(e) == \E o \in Objects : Contains(observers[o], e)

\* Those asleep on cv_ are woken by a broadcast.
Broadcast(p) == [t \in Threads |-> IF p[t] = "asleep" THEN "woken" ELSE p[t]]

SetEntryWakeNone(e, r, p) ==
    /\ ent' = [ent EXCEPT ![e] = r]
    /\ triggered' = CASE r.trig /\ ~ent[e].trig -> Append(triggered, e)
                      [] ~r.trig /\ ent[e].trig -> Remove(triggered, e)
                      [] OTHER -> triggered
    /\ pc' = p

\* Entry e becomes r; it joins the triggered entries, or leaves them, as
\* r.trig says.  The first to join wakes the waiters (Trigger_NoLock).
\* The calling thread goes on with p.
SetEntry(e, r, p) ==
    /\ ent' = [ent EXCEPT ![e] = r]
    /\ triggered' = CASE r.trig /\ ~ent[e].trig -> Append(triggered, e)
                      [] ~r.trig /\ ent[e].trig -> Remove(triggered, e)
                      [] OTHER -> triggered
    /\ pc' = IF triggered = <<>> /\ triggered' # <<>> THEN Broadcast(p) ELSE p

SeeingLatched(r, s) == [r EXCEPT !.seen = s, !.trig = @ \/ s # "none"]

\* As the entry sees a state of its object (OnInitialize, OnStateChange).
Seeing(r, s) == [r EXCEPT !.seen = s, !.trig = s # "none"]

\* sys_wait_set_add, to the end of the first half of AddEntry.  The handle
\* table stays locked until the second half is done.
AddEntry(t, c, h) ==
    LET e == CHOOSE e \in Entries : ent[e].state = "free" IN
    /\ pc[t] = "idle" /\ ws = "open" /\ table = None
    /\ h \in open
    /\ entries[c] = None
    /\ \E f \in Entries : ent[f].state = "free"
    /\ entries' = [entries EXCEPT ![c] = e]
    /\ ent' = [ent EXCEPT ![e] = [Unused EXCEPT !.state = "ADD_PENDING", !.handle = h]]
    /\ pc' = [pc EXCEPT ![t] = "observe"]
    /\ arg' = [arg EXCEPT ![t] = e]
    /\ table' = t
    /\ UNCHANGED <<trackers, open, ws, triggered, walk, lost>>

\* StateTracker::AddObserver, with OnInitialize.
AddObserver(t) ==
    LET e == arg[t]
        o == ent[e].handle[1]
    IN
    /\ pc[t] = "observe"
    /\ tracker[o] = None
    /\ observers' = [observers EXCEPT ![o] = <<e>> \o @]
    /\ SetEntry(e, Seeing([ent[e] EXCEPT !.state = "ADDED"], sig[o]), [pc EXCEPT ![t] = "idle"])
    /\ table' = IF table = t THEN None ELSE table
    /\ arg' = [arg EXCEPT ![t] = None]
    /\ UNCHANGED <<sig, tracker, open, ws, entries, walk, lost>>

-----------------------------------------------------------------------------
\* A walk over the observers of o begins, with the tracker locked ...
StartWalk(t, o, label, a) ==
    IF observers[o] = <<>>
    THEN /\ pc' = [pc EXCEPT ![t] = "idle"]
         /\ arg' = [arg EXCEPT ![t] = None]
         /\ UNCHANGED <<tracker, walk>>
    ELSE /\ pc' = [pc EXCEPT ![t] = label]
         /\ tracker' = [tracker EXCEPT ![o] = t]
         /\ walk' = [walk EXCEPT ![t] = observers[o]]
         /\ arg' = [arg EXCEPT ![t] = a]

\* ... and goes on to the next one, or ends.
NextOfWalk(t, o) ==
    /\ walk' = [walk EXCEPT ![t] = Tail(@)]
    /\ IF Len(walk[t]) = 1
       THEN tracker' = [tracker EXCEPT ![o] = None] /\ arg' = [arg EXCEPT ![t] = None]
       ELSE UNCHANGED <<tracker, arg>>

AfterWalk(t, label) == [pc EXCEPT ![t] = IF Len(walk[t]) = 1 THEN "idle" ELSE label]

\* StateTracker::UpdateState.
UpdateState(t, o, s) ==
    /\ pc[t] = "idle" /\ tracker[o] = None
    /\ s # sig[o]
    /\ sig' = [sig EXCEPT ![o] = s]
    /\ StartWalk(t, o, "change", o)
    /\ UNCHANGED <<observers, table, open, waitset, lost>>

\* Entry::OnStateChange.
OnStateChange(t) ==
    LET e == Head(walk[t])
        o == arg[t]
    IN
    /\ pc[t] = "change"
    /\ IF ent[e].state = "REMOVED"
       THEN pc' = AfterWalk(t, "change") /\ UNCHANGED <<ent, triggered>>
       ELSE SetEntry(e, Seeing(ent[e], sig[o]), AfterWalk(t, "change"))
    /\ NextOfWalk(t, o)
    /\ UNCHANGED <<sig, observers, table, open, ws, entries, lost>>

\* sys_handle_close: the handle leaves the table, then its waits are cancelled.
RemoveHandle(t, h) ==
    /\ pc[t] = "idle" /\ table = None
    /\ h \in open
    /\ open' = open \ {h}
    /\ pc' = [pc EXCEPT ![t] = "cancel"]
    /\ arg' = [arg EXCEPT ![t] = h]
    /\ UNCHANGED <<trackers, table, waitset, walk, lost>>

Cancel(t) ==
    LET o == arg[t][1] IN
    /\ pc[t] = "cancel" /\ tracker[o] = None
    /\ StartWalk(t, o, "on_cancel", arg[t])
    /\ UNCHANGED <<sig, observers, table, open, waitset, lost>>

\* Entry::OnCancel.  It has left mutex_ when the tracker erases the entry.
Cancelling(t) ==
    LET e == Head(walk[t])
        o == arg[t][1]
    IN
    /\ pc[t] = "on_cancel"
    /\ IF ent[e].state = "REMOVED" \/ ent[e].handle # arg[t]
       THEN pc' = AfterWalk(t, "on_cancel") /\ NextOfWalk(t, o) /\ UNCHANGED <<ent, triggered>>
       ELSE /\ SetEntry(e, [ent[e] EXCEPT !.handle = None, !.trig = TRUE], [pc EXCEPT ![t] = "erase"])
            /\ UNCHANGED <<walk, tracker, arg>>
    /\ UNCHANGED <<sig, observers, table, open, ws, entries, lost>>

OnCancelSkips(t) ==
    IF pc[t] = "on_cancel" /\ ent[Head(walk[t])].trig
    THEN /\ pc' = AfterWalk(t, "on_cancel") /\ NextOfWalk(t, arg[t][1])
         /\ UNCHANGED <<sig, observers, table, open, waitset, lost>>
    ELSE Cancelling(t)

OnCancel(t) == Cancelling(t)

EraseObserver(t) ==
    LET o == arg[t][1] IN
    /\ pc[t] = "erase"
    /\ observers' = [observers EXCEPT ![o] = Remove(@, Head(walk[t]))]
    /\ pc' = AfterWalk(t, "on_cancel")
    /\ NextOfWalk(t, o)
    /\ UNCHANGED <<sig, table, open, waitset, lost>>

-----------------------------------------------------------------------------
\* sys_wait_set_remove and sys_wait_set_wait find the wait set and keep a
\* reference to it; it may be closed before they get to it.
GetDispatcher(t, label, c) ==
    /\ pc[t] = "idle" /\ ws = "open" /\ table = None
    /\ pc' = [pc EXCEPT ![t] = label]
    /\ arg' = [arg EXCEPT ![t] = c]
    /\ UNCHANGED <<trackers, table, open, waitset, walk, lost>>

\* RemoveEntry, under mutex_.  An entry that is being added stays, and the
\* caller is told that it is removed.  One whose handle was closed has no
\* dispatcher any more and is destroyed at once.
RemoveEntry(t) ==
    LET c == arg[t]
        e == entries[c]
        r == ent[e]
    IN
    /\ pc[t] = "remove"
    /\ IF e = None \/ r.state = "ADD_PENDING"
       THEN /\ pc' = [pc EXCEPT ![t] = "idle"] /\ arg' = [arg EXCEPT ![t] = None]
            /\ UNCHANGED <<entries, ent, triggered, lost>>
       ELSE /\ entries' = [entries EXCEPT ![c] = None]
            /\ IF r.handle = None
               THEN /\ SetEntry(e, Unused, [pc EXCEPT ![t] = "idle"])
                    /\ arg' = [arg EXCEPT ![t] = None]
                    /\ lost' = Listed(e)
               ELSE /\ SetEntry(e, [r EXCEPT !.state = "REMOVED", !.trig = FALSE],
                                [pc EXCEPT ![t] = "unobserve"])
                    /\ arg' = [arg EXCEPT ![t] = e]
                    /\ UNCHANGED lost
    /\ UNCHANGED <<trackers, table, open, ws, walk>>

\* StateTracker::RemoveObserver; the entry is then destroyed.
RemoveObserver(t) ==
    LET e == arg[t]
        o == ent[e].handle[1]
    IN
    /\ pc[t] = "unobserve" /\ tracker[o] = None
    /\ observers' = [observers EXCEPT ![o] = Remove(@, e)]
    /\ ent' = [ent EXCEPT ![e] = Unused]
    /\ pc' = [pc EXCEPT ![t] = "idle"]
    /\ arg' = [arg EXCEPT ![t] = None]
    /\ UNCHANGED <<sig, tracker, table, open, ws, entries, triggered, walk, lost>>

\* Wait returns at once or sleeps.
Wait(t) ==
    /\ pc[t] = "wait"
    /\ pc' = [pc EXCEPT ![t] = IF triggered # <<>> \/ ws # "open" THEN "idle" ELSE "asleep"]
    /\ UNCHANGED <<trackers, table, open, waitset, arg, walk, lost>>

\* DoWaitInfinite_NoLock and DoWaitTimeout_NoLock, after a wake-up.
Woken(t) ==
    /\ pc[t] = "woken"
    /\ pc' = [pc EXCEPT ![t] = IF triggered # <<>> \/ ws # "open" THEN "idle" ELSE "asleep"]
    /\ UNCHANGED <<trackers, table, open, waitset, arg, walk, lost>>

\* The timeout elapses, or the thread is killed.
GiveUp(t) ==
    /\ pc[t] = "asleep"
    /\ pc' = [pc EXCEPT ![t] = "idle"]
    /\ UNCHANGED <<trackers, table, open, waitset, arg, walk, lost>>

-----------------------------------------------------------------------------
\* The handle to the wait set is closed: WaitSetDispatcher::OnCancel.
Closing(t, p) ==
    /\ pc[t] = "idle" /\ ws = "open" /\ table = None
    /\ ws' = "closed" /\ pc' = p
    /\ UNCHANGED <<trackers, table, open, entries, ent, triggered, arg, walk, lost>>

CloseQuietly(t) == Closing(t, pc)

Close(t) == Closing(t, Broadcast(pc))

\* The destructor runs when the last call that holds a reference is over.
Destroy ==
    /\ ws = "closed"
    /\ \A t \in Threads : pc[t] \notin {"remove", "unobserve", "wait", "asleep", "woken"}
    /\ ws' = "dying"
    /\ triggered' = <<>>
    /\ ent' = [e \in Entries |->
                 IF Contains(triggered, e) \/ \E c \in Cookies : entries[c] = e
                 THEN [ent[e] EXCEPT !.state = "REMOVED", !.trig = FALSE] ELSE ent[e]]
    /\ UNCHANGED <<trackers, table, open, entries, pc, arg, walk, lost>>

\* RemoveObserver for each entry in turn; None marks those that are done.
DestroyObserver(c) ==
    LET e == entries[c]
        o == ent[e].handle[1]
    IN
    /\ ws = "dying"
    /\ e # None /\ ent[e].handle # None
    /\ tracker[o] = None
    /\ observers' = [observers EXCEPT ![o] = Remove(@, e)]
    /\ ent' = [ent EXCEPT ![e].handle = None]
    /\ UNCHANGED <<sig, tracker, table, open, ws, entries, triggered, pc, arg, walk, lost>>

\* entries_.clear()
DestroyEntries ==
    LET all == {entries[c] : c \in Cookies} \ {None} IN
    /\ ws = "dying"
    /\ \A e \in all : ent[e].handle = None
    /\ ws' = "gone"
    /\ entries' = [c \in Cookies |-> None]
    /\ ent' = [e \in Entries |-> IF e \in all THEN Unused ELSE ent[e]]
    /\ lost' = \E e \in all : Listed(e)
    /\ UNCHANGED <<trackers, table, open, triggered, pc, arg, walk>>

-----------------------------------------------------------------------------
\* Steps of calls in progress.
Step(t) ==
    \/ AddObserver(t) \/ OnStateChange(t) \/ Cancel(t) \/ OnCancel(t)
    \/ EraseObserver(t) \/ RemoveEntry(t) \/ RemoveObserver(t) \/ Wait(t) \/ Woken(t)

Call(t) ==
    \/ \E c \in Cookies : GetDispatcher(t, "remove", c) \/ \E h \in Handles : AddEntry(t, c, h)
    \/ \E o \in Objects, s \in Signals : UpdateState(t, o, s)
    \/ \E h \in Handles : RemoveHandle(t, h)
    \/ GetDispatcher(t, "wait", None) \/ GiveUp(t) \/ Close(t)

Destructor == Destroy \/ DestroyEntries \/ \E c \in Cookies : DestroyObserver(c)

Next ==
    /\ ~lost
    /\ \/ \E t \in Threads : Step(t) \/ Call(t)
       \/ Destructor

Spec == Init /\ [][Next]_vars

\* The kernel goes on with every call; its mutexes serve waiters in turn.
FairSpec ==
    /\ Spec
    /\ \A t \in Threads : SF_vars(~lost /\ Step(t))
    /\ SF_vars(~lost /\ Destructor)

-----------------------------------------------------------------------------
\* Types.  An entry is on the list of triggered entries once if it is
\* triggered and not at all otherwise.
TypeOK ==
    /\ sig \in [Objects -> Signals]
    /\ observers \in [Objects -> Seq(Entries)]
    /\ tracker \in [Objects -> Threads \union {None}]
    /\ table \in Threads \union {None} /\ open \subseteq Handles
    /\ ws \in {"open", "closed", "dying", "gone"}
    /\ entries \in [Cookies -> Entries \union {None}]
    /\ ent \in [Entries -> [state : {"free", "ADD_PENDING", "ADDED", "REMOVED"},
                            handle : Handles \union {None}, seen : Signals, trig : BOOLEAN]]
    /\ lost \in BOOLEAN
    /\ pc \in [Threads -> {"idle", "observe", "change", "cancel", "on_cancel", "erase", "remove", "unobserve",
                           "wait", "asleep", "woken"}]
    /\ IsInjective(triggered) /\ ToSet(triggered) = {e \in Entries : ent[e].trig}

\* What wait_set_wait reports is what holds: an entry is triggered exactly
\* when its object is ready or can never be, or its handle was closed.  Only
\* an entry that a walk has still to come to may lag behind.  And no thread
\* sleeps while there is something to report.
NoMissedTrigger ==
    /\ \A t \in Threads : pc[t] = "asleep" => triggered = <<>>
    /\ \A e \in Entries :
        ent[e].state = "ADDED" /\ (\A t \in Threads : ~Contains(walk[t], e)) =>
            IF ent[e].handle = None
            THEN ent[e].trig
            ELSE ent[e].seen = sig[ent[e].handle[1]] /\ (ent[e].trig <=> ent[e].seen # "none")

\* An entry refers to a handle only as long as the handle exists, or until
\* the cancellation under way gets to the entry: the slot may be used again.
EntryHandlesValid ==
    /\ TypeOK
    /\ \A e \in Entries :
         ent[e].state \in {"ADD_PENDING", "ADDED"} /\ ent[e].handle # None =>
            \/ ent[e].handle \in open
            \/ \E t \in Threads : /\ pc[t] \in {"cancel", "on_cancel", "erase"}
                                  /\ arg[t] = ent[e].handle
                                  /\ pc[t] = "cancel" \/ Contains(walk[t], e)

\* wait_set_wait misses nothing and reports nothing else, and no entry names a
\* handle whose slot is used again.
EntriesSound == NoMissedTrigger /\ EntryHandlesValid

\* Closing the wait set ends every wait on it, and then the set itself.
CloseEndsWaits == ws = "closed" ~> (ws = "gone" \/ lost)
=============================================================================
