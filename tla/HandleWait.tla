---------------------------- MODULE HandleWait ------------------------------
(***************************************************************************)
(* Waiting for signals on handles: sys_handle_wait_one and                  *)
(* sys_handle_wait_many (lib/syscalls/syscalls_magenta.cpp),                *)
(* state_tracker.cpp, wait_state_observer.cpp and wait_event.cpp of         *)
(* lib/magenta.  A wait has an event on its stack and one observer per      *)
(* handle, which it puts on the state trackers of the objects behind the    *)
(* handles, one after the other, under the handle table lock.               *)
(*                                                                         *)
(* What a state tracker does is one step: it holds its lock throughout, and *)
(* a WaitEvent shows nothing between the exchange of signaled_ and the      *)
(* event_signal that follows.  handle_close removes the handle in one step  *)
(* and cancels its observers in a later one.                                *)
(***************************************************************************)
EXTENDS Integers, Sequences, FiniteSets

CONSTANTS Threads,
          Handles,   \* slots of the handle arena, used again after a close
          Objects,
          Signals,
          MaxCount,  \* bound on the number of handles of a wait
          Timed      \* threads that wait with a finite timeout or may be killed

ASSUME HandleWaitAssumption ==
  /\ IsFiniteSet(Threads) /\ IsFiniteSet(Handles)
  /\ MaxCount \in Nat /\ Timed \subseteq Threads

None == "none"

ASSUME NoneAssumption == None \notin Threads

VARIABLES slot,      \* state of each handle: "free", "open" or "removed"
          object,    \* the object behind each handle
          lock,      \* thread that holds handle_table_lock_
          satisfied, satisfiable,   \* signals_state_ of each object
          observers, \* observers_ of each object: <<t, i>> is the i-th of t's wait
          pc, list, watched,        \* each thread's wait: its handles and signals
          next,      \* the observer whose Begin or End is next
          event,     \* result_ and context_ of each wait's event
          ret        \* what the wait will return

tracker == <<satisfied, satisfiable, observers>>
table == <<slot, object>>
args == <<list, watched>>
vars == <<slot, object, lock, satisfied, satisfiable, observers,
          pc, list, watched, next, event, ret>>

Unsignaled == [result |-> None, context |-> 0]
Result == {"satisfied", "unsatisfiable", "cancelled"}
Lists == UNION {[1 .. n -> Handles] : n \in 1 .. MaxCount}

TypeOK ==
  /\ slot \in [Handles -> {"free", "open", "removed"}]
  /\ object \in [Handles -> Objects]
  /\ lock \in Threads \cup {None}
  /\ satisfied \in [Objects -> SUBSET Signals]
  /\ satisfiable \in [Objects -> SUBSET Signals]
  /\ observers \in [Objects -> SUBSET (Threads \X (1 .. MaxCount))]
  /\ pc \in [Threads -> {"idle", "begin", "wait", "end"}]
  /\ list \in [Threads -> Lists \cup {<<>>}]
  /\ watched \in [Threads -> SUBSET Signals]
  /\ next \in [Threads -> 1 .. MaxCount + 1]
  /\ event \in [Threads -> [result : Result \cup {None}, context : 0 .. MaxCount]]
  /\ ret \in [Threads -> Result \cup {None, "badhandle", "timedout"}]

Init ==
  /\ slot = [h \in Handles |-> "free"]
  /\ object \in [Handles -> Objects]
  /\ lock = None
  /\ satisfied = [o \in Objects |-> {}]
  /\ satisfiable = [o \in Objects |-> Signals]
  /\ observers = [o \in Objects |-> {}]
  /\ pc = [t \in Threads |-> "idle"]
  /\ list = [t \in Threads |-> <<>>]
  /\ watched = [t \in Threads |-> {}]
  /\ next = [t \in Threads |-> 1]
  /\ event = [t \in Threads |-> Unsignaled]
  /\ ret = [t \in Threads |-> None]

-----------------------------------------------------------------------------
(* WaitStateObserver::MaybeSignal, the result it would signal. *)
Verdict(sat, able, watch) ==
  IF sat \cap watch # {} THEN "satisfied"
  ELSE IF able \cap watch = {} THEN "unsatisfiable" ELSE None

(* WaitEvent::Signal: only the first call for an event counts. *)
Signaled(e, r, i) == IF e.result = None THEN [result |-> r, context |-> i] ELSE e

(* A wait that observes an object more than once hears through the          *)
(* observer that was added last: they are added to the front.               *)
Latest(o, t) == CHOOSE i \in 1 .. MaxCount :
  /\ <<t, i>> \in observers[o]
  /\ \A j \in 1 .. MaxCount : <<t, j>> \in observers[o] => j <= i

Observes(t, o) == \E i \in 1 .. MaxCount : <<t, i>> \in observers[o]

(* Mutant: observers are told only of satisfied signals. *)
UpdateStateSatisfied(o, sat, able) ==
  /\ <<sat, able>> # <<satisfied[o], satisfiable[o]>>
  /\ satisfied' = [satisfied EXCEPT ![o] = sat]
  /\ satisfiable' = [satisfiable EXCEPT ![o] = able]
  /\ event' = [t \in Threads |->
       LET v == Verdict(sat, able, watched[t])
       IN IF Observes(t, o) /\ v # None /\ sat # satisfied[o]
            THEN Signaled(event[t], v, Latest(o, t)) ELSE event[t]]
  /\ UNCHANGED <<table, lock, observers, pc, args, next, ret>>

(* StateTracker::UpdateState.  Nobody is told if nothing changed. *)
UpdateState(o, sat, able) ==
  /\ <<sat, able>> # <<satisfied[o], satisfiable[o]>>
  /\ satisfied' = [satisfied EXCEPT ![o] = sat]
  /\ satisfiable' = [satisfiable EXCEPT ![o] = able]
  /\ event' = [t \in Threads |->
       LET v == Verdict(sat, able, watched[t])
       IN IF Observes(t, o) /\ v # None
            THEN Signaled(event[t], v, Latest(o, t)) ELSE event[t]]
  /\ UNCHANGED <<table, lock, observers, pc, args, next, ret>>

-----------------------------------------------------------------------------
(* A new handle, in any free slot and to any object. *)
AddHandle(h, o) ==
  /\ lock = None
  /\ slot[h] = "free"
  /\ slot' = [slot EXCEPT ![h] = "open"]
  /\ object' = [object EXCEPT ![h] = o]
  /\ UNCHANGED <<lock, tracker, pc, args, next, event, ret>>

(* sys_handle_close: ProcessDispatcher::RemoveHandle. *)
RemoveHandle(h) ==
  /\ lock = None
  /\ slot[h] = "open"
  /\ slot' = [slot EXCEPT ![h] = "removed"]
  /\ UNCHANGED <<object, lock, tracker, pc, args, next, event, ret>>

(* Indices of t's observers on o whose handle_ is h. *)
Matching(t, o, h) ==
  {i \in 1 .. MaxCount : <<t, i>> \in observers[o] /\ list[t][i] = h}

(* Mutant: OnCancel does not look at the handle. *)
CancelAny(o, h) ==
  [t \in Threads |-> IF Observes(t, o) THEN Signaled(event[t], "cancelled", Latest(o, t))
                     ELSE event[t]]

(* StateTracker::Cancel with WaitStateObserver::OnCancel: the events after. *)
Cancel(o, h) ==
  [t \in Threads |->
     LET m == Matching(t, o, h)
     IN IF m = {} THEN event[t]
        ELSE Signaled(event[t], "cancelled", CHOOSE i \in m : \A j \in m : j <= i)]

(* Mutant: the slot is freed without Cancel. *)
DeleteHandleSilently(h) ==
  /\ slot[h] = "removed"
  /\ slot' = [slot EXCEPT ![h] = "free"]
  /\ UNCHANGED <<object, lock, tracker, pc, args, next, event, ret>>

(* sys_handle_close: DeleteHandle cancels, and frees the slot. *)
DeleteHandle(h) ==
  /\ slot[h] = "removed"
  /\ slot' = [slot EXCEPT ![h] = "free"]
  /\ event' = Cancel(object[h], h)
  /\ UNCHANGED <<object, lock, tracker, pc, args, next, ret>>

-----------------------------------------------------------------------------
(* A wait begins: the arguments are copied in and the table is locked. *)
handle_wait(t, hs, watch) ==
  /\ pc[t] = "idle"
  /\ lock = None
  /\ lock' = t
  /\ list' = [list EXCEPT ![t] = hs]
  /\ watched' = [watched EXCEPT ![t] = watch]
  /\ next' = [next EXCEPT ![t] = 1]
  /\ event' = [event EXCEPT ![t] = Unsignaled]
  /\ ret' = [ret EXCEPT ![t] = None]
  /\ pc' = [pc EXCEPT ![t] = "begin"]
  /\ UNCHANGED <<table, tracker>>

Done(t) == next[t] > Len(list[t])

(* WaitStateObserver::Begin: StateTracker::AddObserver with OnInitialize. *)
Begin(t) ==
  /\ pc[t] = "begin"
  /\ ~Done(t)
  /\ LET i == next[t]
         o == object[list[t][i]]
         v == Verdict(satisfied[o], satisfiable[o], watched[t])
     IN /\ slot[list[t][i]] = "open"
        /\ observers' = [observers EXCEPT ![o] = @ \cup {<<t, i>>}]
        /\ event' = IF v = None THEN event
                    ELSE [event EXCEPT ![t] = Signaled(@, v, i)]
        /\ next' = [next EXCEPT ![t] = i + 1]
  /\ UNCHANGED <<table, lock, satisfied, satisfiable, pc, args, ret>>

(* Mutant: the unwinding forgets the first observer. *)
UnwindShort(t) ==
  /\ pc[t] = "begin"
  /\ ~Done(t)
  /\ slot[list[t][next[t]]] # "open"
  /\ lock' = None
  /\ list' = [list EXCEPT ![t] = SubSeq(@, 1, next[t] - 1)]
  /\ next' = [next EXCEPT ![t] = 2]
  /\ ret' = [ret EXCEPT ![t] = "badhandle"]
  /\ pc' = [pc EXCEPT ![t] = "end"]
  /\ UNCHANGED <<table, tracker, watched, event>>

(* A handle that is not there: unlock, and take back what was begun. *)
Unwind(t) ==
  /\ pc[t] = "begin"
  /\ ~Done(t)
  /\ slot[list[t][next[t]]] # "open"
  /\ lock' = None
  /\ list' = [list EXCEPT ![t] = SubSeq(@, 1, next[t] - 1)]
  /\ next' = [next EXCEPT ![t] = 1]
  /\ ret' = [ret EXCEPT ![t] = "badhandle"]
  /\ pc' = [pc EXCEPT ![t] = "end"]
  /\ UNCHANGED <<table, tracker, watched, event>>

(* All observers are in place: unlock and wait for the event. *)
Sleep(t) ==
  /\ pc[t] = "begin"
  /\ Done(t)
  /\ lock' = None
  /\ next' = [next EXCEPT ![t] = 1]
  /\ pc' = [pc EXCEPT ![t] = "wait"]
  /\ UNCHANGED <<table, tracker, args, event, ret>>

WakeUncancelled(t) ==
  /\ pc[t] = "wait"
  /\ event[t].result \in Result \ {"cancelled"}
  /\ ret' = [ret EXCEPT ![t] = event[t].result]
  /\ pc' = [pc EXCEPT ![t] = "end"]
  /\ UNCHANGED <<table, lock, tracker, args, next, event>>

(* WaitEvent::Wait returns the result of the event. *)
Wake(t) ==
  /\ pc[t] = "wait"
  /\ event[t].result # None
  /\ ret' = [ret EXCEPT ![t] = event[t].result]
  /\ pc' = [pc EXCEPT ![t] = "end"]
  /\ UNCHANGED <<table, lock, tracker, args, next, event>>

(* WaitEvent::Wait returns TIMED_OUT or INTERRUPTED. *)
GiveUp(t) ==
  /\ t \in Timed
  /\ pc[t] = "wait"
  /\ event[t].result = None
  /\ ret' = [ret EXCEPT ![t] = "timedout"]
  /\ pc' = [pc EXCEPT ![t] = "end"]
  /\ UNCHANGED <<table, lock, tracker, args, next, event>>

(* WaitStateObserver::End: StateTracker::RemoveObserver. *)
End(t) ==
  /\ pc[t] = "end"
  /\ ~Done(t)
  /\ observers' = [o \in Objects |-> observers[o] \ {<<t, next[t]>>}]
  /\ next' = [next EXCEPT ![t] = @ + 1]
  /\ UNCHANGED <<table, lock, satisfied, satisfiable, pc, args, event, ret>>

(* The call returns, and its event and observers are gone. *)
Return(t) ==
  /\ pc[t] = "end"
  /\ Done(t)
  /\ pc' = [pc EXCEPT ![t] = "idle"]
  /\ list' = [list EXCEPT ![t] = <<>>]
  /\ watched' = [watched EXCEPT ![t] = {}]
  /\ next' = [next EXCEPT ![t] = 1]
  /\ event' = [event EXCEPT ![t] = Unsignaled]
  /\ ret' = [ret EXCEPT ![t] = None]
  /\ UNCHANGED <<table, lock, tracker>>

-----------------------------------------------------------------------------
Step(t) ==
  Begin(t) \/ Unwind(t) \/ Sleep(t) \/ Wake(t) \/ End(t) \/ Return(t)

Next ==
  \/ \E h \in Handles : \/ RemoveHandle(h)
                       \/ DeleteHandle(h)
                       \/ \E o \in Objects : AddHandle(h, o)
  \/ \E o \in Objects, sat, able \in SUBSET Signals : UpdateState(o, sat, able)
  \/ \E t \in Threads : \/ Step(t)
                        \/ GiveUp(t)
                        \/ \E hs \in Lists, w \in SUBSET Signals : handle_wait(t, hs, w)

Spec == Init /\ [][Next]_vars

(* A thread in the kernel that is not blocked goes on, and a close that has *)
(* begun is finished.                                                       *)
FairSpec ==
  /\ Spec
  /\ \A t \in Threads : WF_vars(Step(t))
  /\ \A h \in Handles : WF_vars(DeleteHandle(h))

-----------------------------------------------------------------------------
(* No change of state is missed: as long as the event of a wait is not      *)
(* signaled, none of its observers looks at an object on which its signals  *)
(* are pending or have become impossible, although objects change while     *)
(* the observers are added one by one.                                      *)
NoMissedEvent ==
  \A o \in Objects : \A ob \in observers[o] :
     event[ob[1]].result = None =>
       Verdict(satisfied[o], satisfiable[o], watched[ob[1]]) = None

(* No close is missed: as long as the event of a wait is not signaled, the  *)
(* handle_ of each of its observers is a handle to the observed object that *)
(* is in the table or on its way to DeleteHandle.  And "If this succeeds,   *)
(* End() must be called (before the WaitEvent is destroyed)": a state       *)
(* tracker knows no observer of a wait that has returned, also where the    *)
(* wait failed half way.                                                    *)
ObserversValid ==
  /\ TypeOK
  /\ \A o \in Objects : \A ob \in observers[o] :
       event[ob[1]].result = None =>
         LET h == list[ob[1]][ob[2]] IN slot[h] # "free" /\ object[h] = o
  /\ \A o \in Objects : \A ob \in observers[o] :
       /\ pc[ob[1]] # "idle"
       /\ pc[ob[1]] = "end" => next[ob[1]] <= ob[2]

(* Neither a change of state nor a close is missed while handles are closed *)
(* and made again, and no observer outlives its wait.                       *)
ObserversSound == NoMissedEvent /\ ObserversValid

(* A wait is cancelled only when a handle of its own is deleted, and the    *)
(* index it reports is that of the handle.                                  *)
CancelNamesHandle ==
  [][\A t \in Threads :
       event[t].result = None /\ event'[t].result = "cancelled" =>
         LET h == list[t][event'[t].context] IN slot[h] = "removed" /\ slot'[h] = "free"]_vars

(* A wait without timeout that has a reason to end ends: its event was      *)
(* signaled, or one of its handles is being closed.                         *)
WaitEnds ==
  \A t \in Threads :
    (pc[t] = "wait" /\ (\/ event[t].result # None
                       \/ \E i \in DOMAIN list[t] : slot[list[t][i]] = "removed"))
      ~> pc[t] = "idle"
=============================================================================
