----------------------------- MODULE PortBinding -----------------------------
(***************************************************************************)
(* Binding handles to an I/O port: io_port_observer.cpp, the bindings of   *)
(* io_port_dispatcher.cpp, and StateTracker's list of observers.           *)
(*                                                                         *)
(* An observer is on two lists, the port's and the tracker's, each with a  *)
(* lock of its own, and belongs to one of a handle's owners: binding runs  *)
(* under the owner's handle table lock, cancelling when the handle is in   *)
(* no table.  Handles of one object only, and one port; its packets are    *)
(* IOPort's.  A section under a lock is one step.                          *)
(*                                                                         *)
(* The lists are sets here.  Their order decides only which of several     *)
(* bindings of one handle with one key Unbind takes, and the order of the  *)
(* calls of OnDidCancel: the model allows any.                             *)
(***************************************************************************)

CONSTANTS BindSlots,     \* of the handle arena; each is free or a handle of the object
          BindProcesses,
          BindThreads,   \* each may act for any process
          Keys,
          Observers,     \* memory for observers
          Nobody

Held == {"free", "message", "kernel"}   \* handles that no table has

ASSUME BindAssumption ==
  /\ BindProcesses \cap Held = {}
  /\ Nobody \notin BindSlots

VARIABLES owner,        \* the process whose table a handle is in, or how else it is held
          bound,        \* IOPortDispatcher::observers_
          tracked,      \* StateTracker::observers_
          observer,     \* NoObserver when deleted
          bind_call,    \* what each thread is doing
          table_lock,   \* handle_table_lock of each process
          port_handle   \* the port has one

bindVars == <<owner, bound, tracked, observer, bind_call, table_lock, port_handle>>

Out == [at |-> "out"]
NoObserver == [handle |-> Nobody, key |-> Nobody, state |-> "none", by |-> Nobody]

BindInit ==
  /\ \E h \in BindSlots, p \in BindProcesses :
       owner = [s \in BindSlots |-> IF s = h THEN p ELSE "free"]
  /\ bound = {} /\ tracked = {}
  /\ observer = [o \in Observers |-> NoObserver]
  /\ bind_call = [t \in BindThreads |-> Out]
  /\ table_lock = [p \in BindProcesses |-> FALSE]
  /\ port_handle = TRUE

Goes(t, c) == bind_call' = [bind_call EXCEPT ![t] = c]

(* sys_io_port_bind: the port is looked up, and referred to from here on; then *)
(* the table lock is taken, and the handle looked up.                          *)
FindPort(t) ==
  /\ bind_call[t].at = "out" /\ port_handle
  /\ Goes(t, [at |-> "found"])
  /\ UNCHANGED <<owner, bound, tracked, observer, table_lock, port_handle>>

HoldsHandle(t, p, h) ==
  /\ bind_call[t].at = "found"
  /\ ~table_lock[p] /\ owner[h] = p

(* The handle is not there, Unbind finds no binding, or Bind no memory. *)
BindFails(t) ==
  /\ bind_call[t].at = "found"
  /\ Goes(t, Out)
  /\ UNCHANGED <<owner, bound, tracked, observer, table_lock, port_handle>>

-----------------------------------------------------------------------------
(* Mutant: the handle may leave the table before the tracker is told. *)
BindUnlocked(t, p, h, key) ==
  /\ HoldsHandle(t, p, h)
  /\ \E o \in Observers :
       /\ observer[o] = NoObserver
       /\ observer' = [observer EXCEPT ![o] =
                         [handle |-> h, key |-> key, state |-> "NEW", by |-> p]]
       /\ bound' = bound \cup {o}
       /\ Goes(t, [at |-> "bind", o |-> o, p |-> p])
  /\ UNCHANGED <<owner, tracked, table_lock, port_handle>>

(* IOPortDispatcher::Bind: the observer is put on the port's list ... *)
Bind(t, p, h, key) ==
  /\ HoldsHandle(t, p, h)
  /\ \E o \in Observers :
       /\ observer[o] = NoObserver
       /\ observer' = [observer EXCEPT ![o] =
                         [handle |-> h, key |-> key, state |-> "NEW", by |-> p]]
       /\ bound' = bound \cup {o}
       /\ Goes(t, [at |-> "bind", o |-> o, p |-> p])
  /\ table_lock' = [table_lock EXCEPT ![p] = TRUE]
  /\ UNCHANGED <<owner, tracked, port_handle>>

(* ... and AddObserver puts it on the tracker's. *)
AddObserver(t) ==
  /\ bind_call[t].at = "bind"
  /\ tracked' = tracked \cup {bind_call[t].o}
  /\ table_lock' = [table_lock EXCEPT ![bind_call[t].p] = FALSE]
  /\ Goes(t, Out)
  /\ UNCHANGED <<owner, bound, observer, port_handle>>

(* IOPortDispatcher::Unbind takes a binding of handle and key off the port's *)
(* list, unless there is none or OnCancel came first.                        *)
Unbind(t, p, h, key) ==
  /\ HoldsHandle(t, p, h)
  /\ \E o \in bound :
       /\ observer[o].handle = h /\ observer[o].key = key
       /\ observer' = [observer EXCEPT ![o].state = "UNBOUND"]
       /\ IF observer[o].state # "NEW" THEN Goes(t, Out) /\ UNCHANGED <<bound, table_lock>>
          ELSE /\ bound' = bound \ {o}
               /\ table_lock' = [table_lock EXCEPT ![p] = TRUE]
               /\ Goes(t, [at |-> "unbind", o |-> o, p |-> p])
  /\ UNCHANGED <<owner, tracked, port_handle>>

RemoveObserver(t) ==
  /\ bind_call[t].at = "unbind"
  /\ tracked' = tracked \ {bind_call[t].o}
  /\ observer' = [observer EXCEPT ![bind_call[t].o] = NoObserver]
  /\ table_lock' = [table_lock EXCEPT ![bind_call[t].p] = FALSE]
  /\ Goes(t, Out)
  /\ UNCHANGED <<owner, bound, port_handle>>

-----------------------------------------------------------------------------
(* A handle leaves its table to be deleted (DeleteHandle) ... *)
CloseHandle(t, p, h) ==
  /\ bind_call[t].at = "out" /\ ~table_lock[p] /\ owner[h] = p
  /\ owner' = [owner EXCEPT ![h] = "kernel"]
  /\ Goes(t, [at |-> "cancel", h |-> h, then |-> "free"])
  /\ UNCHANGED <<bound, tracked, observer, table_lock, port_handle>>

(* ... or to be sent, ... *)
SendHandle(t, p, h) ==
  /\ bind_call[t].at = "out" /\ ~table_lock[p] /\ owner[h] = p
  /\ owner' = [owner EXCEPT ![h] = "kernel"]
  /\ Goes(t, [at |-> "write", h |-> h, p |-> p])
  /\ UNCHANGED <<bound, tracked, observer, table_lock, port_handle>>

WriteMessage(t) ==
  /\ bind_call[t].at = "write"
  /\ owner' = [owner EXCEPT ![bind_call[t].h] = "message"]
  /\ Goes(t, Out)
  /\ UNCHANGED <<bound, tracked, observer, table_lock, port_handle>>

(* The other end is closed: UndoRemoveHandle_NoLock, with its bindings. *)
WriteFails(t) ==
  /\ bind_call[t].at = "write" /\ ~table_lock[bind_call[t].p]
  /\ owner' = [owner EXCEPT ![bind_call[t].h] = bind_call[t].p]
  /\ Goes(t, Out)
  /\ UNCHANGED <<bound, tracked, observer, table_lock, port_handle>>

(* Mutant: the bindings of the sender stay. *)
ReceiveHandleBound(t, p, h) ==
  /\ bind_call[t].at = "out" /\ owner[h] = "message"
  /\ owner' = [owner EXCEPT ![h] = "kernel"]
  /\ Goes(t, [at |-> "done", h |-> h, then |-> p, did_cancel |-> {}])
  /\ UNCHANGED <<bound, tracked, observer, table_lock, port_handle>>

(* ... and is received by a process, which cancels what the sender bound; a  *)
(* message that nobody reads is deleted with its pipe.                       *)
ReceiveHandle(t, p, h) ==
  /\ bind_call[t].at = "out" /\ owner[h] = "message"
  /\ owner' = [owner EXCEPT ![h] = "kernel"]
  /\ Goes(t, [at |-> "cancel", h |-> h, then |-> p])
  /\ UNCHANGED <<bound, tracked, observer, table_lock, port_handle>>

(* OnCancel of the observer o, for the handle h. *)
OnCancel(o, h) ==
  IF observer[o].handle # h THEN observer[o]
  ELSE [observer[o] EXCEPT !.handle = Nobody,
                           !.state = IF @ = "NEW" THEN "CANCELLED" ELSE @]

(* StateTracker::Cancel, under its lock: those OnCancel says to remove go on *)
(* did_cancel_list.                                                          *)
Cancel(t) ==
  /\ bind_call[t].at = "cancel"
  /\ LET h == bind_call[t].h
         removed == {o \in tracked : observer[o].handle = h /\ observer[o].state = "NEW"}
     IN /\ observer' = [o \in Observers |-> IF o \in tracked THEN OnCancel(o, h) ELSE observer[o]]
        /\ tracked' = tracked \ removed
        /\ Goes(t, [at |-> "done", h |-> h, then |-> bind_call[t].then, did_cancel |-> removed])
  /\ UNCHANGED <<owner, bound, table_lock, port_handle>>

(* OnDidCancel, CancelObserver. *)
CancelObserver(t) ==
  /\ bind_call[t].at = "done"
  /\ \E o \in bind_call[t].did_cancel :
       /\ bound' = bound \ {o}
       /\ observer' = [observer EXCEPT ![o] = NoObserver]
       /\ Goes(t, [bind_call[t] EXCEPT !.did_cancel = @ \ {o}])
  /\ UNCHANGED <<owner, tracked, table_lock, port_handle>>

(* The end of DeleteHandle, or AddHandle. *)
Cancelled(t) ==
  /\ bind_call[t].at = "done" /\ bind_call[t].did_cancel = {}
  /\ bind_call[t].then \in BindProcesses => ~table_lock[bind_call[t].then]
  /\ owner' = [owner EXCEPT ![bind_call[t].h] = bind_call[t].then]
  /\ Goes(t, Out)
  /\ UNCHANGED <<bound, tracked, observer, table_lock, port_handle>>

(* sys_handle_duplicate: a new handle, added to the table later. *)
DuplicateHandle(t, p, h) ==
  /\ bind_call[t].at = "out" /\ ~table_lock[p] /\ owner[h] = p
  /\ \E new \in BindSlots :
       /\ owner[new] = "free"
       /\ owner' = [owner EXCEPT ![new] = "kernel"]
       /\ Goes(t, [at |-> "done", h |-> new, then |-> p, did_cancel |-> {}])
  /\ UNCHANGED <<bound, tracked, observer, table_lock, port_handle>>

(* The port's last handle goes; its observers keep it. *)
ClosePort ==
  /\ port_handle /\ port_handle' = FALSE
  /\ UNCHANGED <<owner, bound, tracked, observer, bind_call, table_lock>>

BindNext ==
  \/ \E t \in BindThreads :
       \/ \E p \in BindProcesses, h \in BindSlots :
            \/ \E key \in Keys : Bind(t, p, h, key) \/ Unbind(t, p, h, key)
            \/ CloseHandle(t, p, h) \/ SendHandle(t, p, h) \/ DuplicateHandle(t, p, h)
       \/ \E h \in BindSlots : \E p \in BindProcesses \cup {"free"} : ReceiveHandle(t, p, h)
       \/ FindPort(t) \/ BindFails(t) \/ AddObserver(t) \/ RemoveObserver(t)
       \/ WriteMessage(t) \/ WriteFails(t)
       \/ Cancel(t) \/ CancelObserver(t) \/ Cancelled(t)
  \/ ClosePort

BindSpec == BindInit /\ [][BindNext]_bindVars

-----------------------------------------------------------------------------
Live == {o \in Observers : observer[o].state # "none"}

(* The threads whose call is to put o on its second list or to delete it. *)
InCharge(o) ==
  {t \in BindThreads : \/ bind_call[t].at \in {"bind", "unbind"} /\ bind_call[t].o = o
                       \/ bind_call[t].at = "done" /\ o \in bind_call[t].did_cancel}

(* However binding, unbinding, closing, sending and receiving overlap, an    *)
(* observer is deleted once, when it is on neither list: those listed are    *)
(* live, and a live one is on both lists, or one call is in charge of it and *)
(* it is on one.  So the port and the object may go when their last handles  *)
(* have (~IOPortDispatcher's DEBUG_ASSERT).                                  *)
ObserversListed ==
  /\ bound \cup tracked \subseteq Live
  /\ \A o \in Observers : \A t, u \in InCharge(o) : t = u /\ o \in Live
  /\ \A o \in Live :
       IF InCharge(o) = {} THEN o \in bound \cap tracked
       ELSE o \in (bound \cup tracked) \ (bound \cap tracked)

(* A binding is its handle's: none survives into a free slot, where the next *)
(* handle would inherit it, and none is left from before a handle was sent   *)
(* when its receiver may use it.                                             *)
BindingsFollowHandles ==
  \A o \in Live :
    observer[o].handle # Nobody =>
      /\ owner[observer[o].handle] # "free"
      /\ owner[observer[o].handle] \in BindProcesses => owner[observer[o].handle] = observer[o].by

(* io_port_observer.cpp: an observer is on both lists or in the charge of    *)
(* one call, and no binding outlives its handle or follows it to another     *)
(* process.                                                                  *)
BindingsSound == ObserversListed /\ BindingsFollowHandles
=============================================================================
