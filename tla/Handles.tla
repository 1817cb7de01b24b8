------------------------------- MODULE Handles -------------------------------
(***************************************************************************)
(* Handles: the arena they live in, the handle tables of processes, and    *)
(* the count of handles of each object (kernel/lib/magenta/handle.cpp,     *)
(* dispatcher.cpp, magenta.cpp and process_dispatcher.cpp).                *)
(*                                                                         *)
(* The value a program uses for a handle is its slot in the arena, made    *)
(* unreadable by a constant per process, so that a program may present any *)
(* slot, in particular that of a handle it has closed before.  A system    *)
(* call finds the handle only if process_id_ is that of the caller.  A     *)
(* step is one region under the handle table's lock, or one that needs no  *)
(* lock.  Erasing a handle from a list it is not on leaves the rest of the *)
(* behaviour undefined: lost.                                              *)
(***************************************************************************)
EXTENDS Naturals, FiniteSets

CONSTANTS Slots,      \* handle_arena
          Objects,    \* kernel objects
          Processes,
          Threads,    \* of each process
          Modulus,    \* of the integer type of handle_count_
          MaxDups,    \* bound on the handles duplicated
          None

\* A program cannot duplicate a handle 2^32 times in any time that matters.
ASSUME HandlesAssumption ==
    /\ MaxDups \in Nat /\ Modulus \in Nat /\ Modulus > MaxDups + 1
    /\ IsFiniteSet(Slots)
    /\ None \notin Slots \union Objects \union Processes

VARIABLES object,     \* dispatcher_ of the handle in each slot, None if it is free
          process_id, \* the process it is bound to, None when bound to the kernel
          handles,    \* handles_ of each process
          transit,    \* handles in messages
          count,      \* handle_count_ of each object
          made,       \* objects that have been created
          zeroed,     \* objects whose on_zero_handles has been called, and how often
          pc, held,   \* of each thread: what comes next, and the handle it holds
          dups,       \* handles duplicated so far
          lost        \* a list was corrupted

vars == <<object, process_id, handles, transit, count, made, zeroed, pc, held, dups, lost>>
objects == <<count, made, zeroed>>

Callers == Processes \X Threads

Init ==
    /\ object = [s \in Slots |-> None]
    /\ process_id = [s \in Slots |-> None]
    /\ handles = [p \in Processes |-> {}]
    /\ transit = {}
    /\ count = [o \in Objects |-> 0]
    /\ made = {}
    /\ zeroed = [o \in Objects |-> 0]
    /\ pc = [t \in Callers |-> "idle"]
    /\ held = [t \in Callers |-> None]
    /\ dups = 0
    /\ lost = FALSE

-----------------------------------------------------------------------------
Hold(t, s, label) ==
    /\ held' = [held EXCEPT ![t] = s]
    /\ pc' = [pc EXCEPT ![t] = label]

\* A call that creates an object: MakeHandle, which counts the handle.
Create(t, s, o) ==
    /\ pc[t] = "idle"
    /\ o \notin made /\ object[s] = None
    /\ made' = made \union {o}
    /\ object' = [object EXCEPT ![s] = o]
    /\ count' = [count EXCEPT ![o] = (@ + 1) % Modulus]
    /\ Hold(t, s, "add")
    /\ UNCHANGED <<process_id, handles, transit, zeroed, dups, lost>>

\* sys_handle_duplicate: DupHandle copies process_id_ and does not count.
Duplicate(t, from, s) ==
    /\ pc[t] = "idle"
    /\ process_id[from] = t[1] /\ object[s] = None
    /\ object' = [object EXCEPT ![s] = object[from]]
    /\ process_id' = [process_id EXCEPT ![s] = process_id[from]]
    /\ dups < MaxDups /\ dups' = dups + 1
    /\ Hold(t, s, "add")
    /\ UNCHANGED <<handles, transit, objects, lost>>

AddHandleKeeping(t) ==
    LET s == held[t] IN
    /\ pc[t] = "add"
    /\ handles' = [handles EXCEPT ![t[1]] = @ \union {s}]
    /\ Hold(t, None, "idle")
    /\ UNCHANGED <<object, process_id, transit, objects, dups, lost>>

\* ProcessDispatcher::AddHandle.
AddHandle(t) ==
    LET s == held[t] IN
    /\ pc[t] = "add"
    /\ process_id' = [process_id EXCEPT ![s] = t[1]]
    /\ handles' = [handles EXCEPT ![t[1]] = @ \union {s}]
    /\ Hold(t, None, "idle")
    /\ UNCHANGED <<object, transit, objects, dups, lost>>

\* ProcessDispatcher::RemoveHandle.
RemoveHandle(t, s) ==
    /\ process_id[s] = t[1]
    /\ lost' = (s \notin handles[t[1]])
    /\ handles' = [handles EXCEPT ![t[1]] = @ \ {s}]
    /\ process_id' = [process_id EXCEPT ![s] = None]

\* sys_handle_close, up to the deletion of the handle.
Close(t, s) ==
    /\ pc[t] = "idle"
    /\ RemoveHandle(t, s)
    /\ Hold(t, s, "delete")
    /\ UNCHANGED <<object, transit, objects, dups>>

\* sys_message_write takes a handle off the table ...
Send(t, s) ==
    /\ pc[t] = "idle"
    /\ RemoveHandle(t, s)
    /\ Hold(t, s, "write")
    /\ UNCHANGED <<object, transit, objects, dups>>

\* ... and puts it in transit, or back (UndoRemoveHandle_NoLock) if the write
\* fails.
Write(t) ==
    /\ pc[t] = "write"
    /\ \/ transit' = transit \union {held[t]} /\ Hold(t, None, "idle")
       \/ Hold(t, held[t], "add") /\ UNCHANGED transit
    /\ UNCHANGED <<object, process_id, handles, objects, dups, lost>>

\* sys_message_read takes a handle out of transit; a pipe that is destroyed
\* deletes it.
Receive(t, s, label) ==
    /\ pc[t] = "idle"
    /\ s \in transit
    /\ transit' = transit \ {s}
    /\ Hold(t, s, label)
    /\ UNCHANGED <<object, process_id, handles, objects, dups, lost>>

\* DeleteHandle: ~Handle, and the slot is free.  remove_handle leaves the
\* count at n and calls on_zero_handles if last holds.
Deleting(t, n, last) ==
    LET s == held[t]
        o == object[s]
    IN
    /\ pc[t] = "delete"
    /\ count' = [count EXCEPT ![o] = n]
    /\ zeroed' = [zeroed EXCEPT ![o] = IF last THEN @ + 1 ELSE @]
    /\ object' = [object EXCEPT ![s] = None]
    /\ Hold(t, None, "idle")
    /\ UNCHANGED <<process_id, handles, transit, made, dups, lost>>

Counted(t) == count[object[held[t]]]

DeleteHandle(t) == Deleting(t, (Counted(t) + Modulus - 1) % Modulus, Counted(t) = 1)

-----------------------------------------------------------------------------
Next ==
    /\ ~lost
    /\ \E t \in Callers :
         \/ AddHandle(t) \/ DeleteHandle(t) \/ Write(t)
         \/ \E s \in Slots :
              \/ Close(t, s) \/ Send(t, s) \/ Receive(t, s, "add") \/ Receive(t, s, "delete")
              \/ \E o \in Objects : Create(t, s, o)
              \/ \E from \in Slots : Duplicate(t, from, s)

Spec == Init /\ [][Next]_vars

-----------------------------------------------------------------------------
\* Those that refer to slot s: handle tables, messages and threads.
Owners(s) ==
    {<<"table", p>> : p \in {q \in Processes : s \in handles[q]}}
        \union {<<"thread", t>> : t \in {u \in Callers : held[u] = s}}
        \union {<<"message", x>> : x \in transit \intersect {s}}

\* Types.
TypeOK ==
    /\ object \in [Slots -> Objects \union {None}]
    /\ process_id \in [Slots -> Processes \union {None}]
    /\ handles \in [Processes -> SUBSET Slots] /\ transit \subseteq Slots
    /\ count \in [Objects -> 0 .. Modulus - 1] /\ made \subseteq Objects
    /\ zeroed \in [Objects -> Nat]
    /\ pc \in [Callers -> {"idle", "add", "write", "delete"}]
    /\ held \in [Callers -> Slots \union {None}]
    /\ dups \in 0 .. MaxDups /\ lost \in BOOLEAN

\* A handle is bound to a single process or to the kernel (handles.md:12-14):
\* every handle has one owner and a free slot none, so that no handle leaks
\* or is deleted twice, and the one table that lists a handle is that of the
\* process it is bound to.
OneOwner ==
    /\ TypeOK
    /\ ~lost =>
        /\ \A s \in Slots : Cardinality(Owners(s)) = IF object[s] = None THEN 0 ELSE 1
        /\ \A p \in Processes : \A s \in handles[p] : process_id[s] = p

\* on_zero_handles is called at most once for an object, although duplicates
\* take the count below zero, and has been called when no handle is left.
ZeroedOnce ==
    \A o \in Objects :
        /\ zeroed[o] <= 1
        /\ o \in made /\ (\A s \in Slots : object[s] # o) => zeroed[o] = 1

\* A handle has one owner, the process it is bound to or the kernel, and
\* on_zero_handles is called once, when an object's last handle goes.
HandlesSound == OneOwner /\ ZeroedOnce
=============================================================================
