------------------------------- MODULE MCKernel -------------------------------
(***************************************************************************)
(* Instances of kernel components that share no state here, in one state   *)
(* graph.  The initial state chooses a component, which then runs alone;   *)
(* the variables of the others stay as they are, those of Handles and      *)
(* PortBinding in a state without any handle, the rest 0.  The reachable   *)
(* states are the sum of the components', not their product.               *)
(***************************************************************************)
EXTENDS Handles, Scheduler, Port, PortBinding

CONSTANTS t1, t2, t3, c1

VARIABLE component

\* The second of the scheduler's threads is pinned to a CPU.
MCPinned == [t \in SchedThreads |-> IF t = t2 THEN c1 ELSE AnyCpu]

NoHandles == Init
NoSched == k = 0 /\ tpc = 0 /\ target = 0 /\ owned = 0 /\ sched_panic = 0
NoPorts == /\ wport = 0 /\ named = 0 /\ rport = 0 /\ group = 0 /\ reader = 0 /\ unread = 0
           /\ last_packet = 0 /\ port_crashed = 0
NoBindings == /\ owner = [s \in BindSlots |-> "free"] /\ bound = {} /\ tracked = {}
              /\ observer = [o \in Observers |-> NoObserver] /\ bind_call = [t \in BindThreads |-> Out]
              /\ table_lock = [p \in BindProcesses |-> FALSE] /\ port_handle = FALSE

KernelInit ==
  \/ component = "handles" /\ Init /\ NoSched /\ NoPorts /\ NoBindings
  \/ component = "threads" /\ SchedInit /\ NoHandles /\ NoPorts /\ NoBindings
  \/ component = "ports" /\ PortInit /\ NoHandles /\ NoSched /\ NoBindings
  \/ component = "bindings" /\ BindInit /\ NoHandles /\ NoSched /\ NoPorts

KernelNext ==
  /\ UNCHANGED component
  /\ \/ component = "handles" /\ Next /\ UNCHANGED <<schedVars, portVars, bindVars>>
     \/ component = "threads" /\ SchedNext /\ UNCHANGED <<vars, portVars, bindVars>>
     \/ component = "ports" /\ PortNext /\ UNCHANGED <<vars, schedVars, bindVars>>
     \/ component = "bindings" /\ BindNext /\ UNCHANGED <<vars, schedVars, portVars>>

KernelSpec == KernelInit /\ [][KernelNext]_<<component, vars, schedVars, portVars, bindVars>>

Symmetry == Permutations(Threads) \union Permutations(ReadPorts)

-----------------------------------------------------------------------------
\* thread.c: every thread is in the one queue or on the one CPU its state says, and
\* nobody waits for a thread that has ended, or for an event that is signaled.
SchedSound == component = "threads" => ThreadsPlaced /\ WaitersWoken

\* port.c: packets are delivered in order, without loss or repetition, and
\* nobody sleeps on a port that has some.
PortsDeliver == component = "ports" => PortFIFO /\ SleepersHaveNoPackets
=============================================================================
