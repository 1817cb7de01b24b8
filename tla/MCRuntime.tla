------------------------------ MODULE MCRuntime ------------------------------
(***************************************************************************)
(* Instances of five components in one state graph, with the fairness of   *)
(* each: one of them is in use, and the others stay in their initial       *)
(* states.                                                                 *)
(***************************************************************************)
EXTENDS MxrRuntime, IOPort, NetLog, MxrThread, Exceptions

VARIABLE component

Components == {"objects", "io port", "netlog", "thread", "exceptions"}

RuntimeInit ==
  /\ component \in Components
  /\ Init /\ (component # "objects" => used = {"completion"})
  /\ IopInit /\ NetLogInit /\ MxrThreadInit /\ ExcpInit

InUse(c) == component = c

RuntimeNext ==
  /\ UNCHANGED component
  /\ \/ InUse("objects") /\ Next /\ UNCHANGED <<iopVars, netlogVars, mxrtVars, excpVars>>
     \/ InUse("io port") /\ IopNext /\ UNCHANGED <<vars, netlogVars, mxrtVars, excpVars>>
     \/ InUse("netlog") /\ NetLogNext /\ UNCHANGED <<vars, iopVars, mxrtVars, excpVars>>
     \/ InUse("thread") /\ MxrThreadNext /\ UNCHANGED <<vars, iopVars, netlogVars, excpVars>>
     \/ InUse("exceptions") /\ ExcpNext /\ UNCHANGED <<vars, iopVars, netlogVars, mxrtVars>>

\* Threads are scheduled fairly, an owner unlocks eventually, the function of
\* mxr_once returns, and so does a wait that the kernel has ended.
ObjectsFairness == \A t \in Threads : WF_vars(InUse("objects") /\ Step(t) /\ UNCHANGED used)

\* A thread inside io_port_wait runs until it blocks or returns; the threads are
\* a pool of service threads, each of which waits again after a packet.
PoolFairness ==
  \A t \in Waiters : /\ WF_iopVars(InUse("io port") /\ InPortWait(t))
                     /\ WF_iopVars(InUse("io port") /\ CallWait(t))

\* The timer expires and netsvc sends again, and a link that datagrams are put on
\* again and again delivers one.
NetLogFairness ==
  /\ WF_netlogVars(InUse("netlog") /\ TimerExpires)
  /\ WF_netlogVars(InUse("netlog") /\ SendAgain)
  /\ SF_netlogVars(InUse("netlog") /\ Listen)
  /\ SF_netlogVars(InUse("netlog") /\ udp6_recv)

\* A thread that is not waiting goes on, and a handler that lives reads and
\* answers what is sent to it.
ExcpFairness ==
  /\ WF_excpVars(InUse("exceptions") /\ TryHandler)
  /\ WF_excpVars(InUse("exceptions") /\ Exchanged)
  /\ \A p \in ExcPorts : /\ WF_excpVars(InUse("exceptions") /\ ReadReport(p))
                         /\ WF_excpVars(InUse("exceptions") /\ Answers(p))

RuntimeSpec ==
  /\ RuntimeInit
  /\ [][RuntimeNext]_<<component, vars, iopVars, netlogVars, mxrtVars, excpVars>>
  /\ ObjectsFairness /\ PoolFairness /\ NetLogFairness /\ ExcpFairness
=============================================================================
