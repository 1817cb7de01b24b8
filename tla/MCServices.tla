----------------------------- MODULE MCServices -----------------------------
(***************************************************************************)
(* Instances of eight components in one state graph, each running alone: the *)
(* variables of the others stay idle.                                      *)
(***************************************************************************)
EXTENDS DataPipe, DebugLog, Timer, P2ra, Heap, Devmgr, VirtioRng, TLC

VARIABLE component

\* Ranges that touch or not, that are aligned to the blocks or not, and one
\* that overlaps two others.
MCRanges == {<<0, 3>>, <<3, 5>>, <<1, 6>>, <<8, 1>>}

MCPages == 0 .. 9

NoDebugLog == dlog_head = 0 /\ dlog_tail = 0 /\ dlog_data = 0 /\ dlog_count = 0 /\ rdr = 0
NoTimers == /\ clock = 0 /\ queue = 0 /\ period = 0 /\ callback = 0 /\ hw = 0 /\ tick = 0
            /\ cpu_state = 0 /\ unarmed = 0 /\ panicked = FALSE
NoP2ra == ranges = 0 /\ free_blocks = 0 /\ allocated = 0 /\ unused = 0 /\ asserted = FALSE
NoHeap == heap = 0 /\ live = 0 /\ bad = "none"
NoDevmgr == dev = 0 /\ unmatched = 0 /\ call = 0 /\ probes = 0 /\ touched = "none"
NoCbuf == cb = 0 /\ cb_signaled = FALSE /\ cb_reader = 0 /\ cb_read = 0 /\ cb_overrun = FALSE
NoRng == rng_in_flight = FALSE /\ rng_chain = 0 /\ rng_at = 0 /\ rng_left = 0

\* The data pipe has its initial states also while another component runs.
ServicesInit ==
  /\ Init
  /\ component \in {"data pipe", "debuglog", "timer", "p2ra", "heap", "devmgr", "cbuf", "rng"}
  /\ IF component = "debuglog" THEN DebugLogInit ELSE NoDebugLog
  /\ IF component = "timer" THEN TimerInit ELSE NoTimers
  /\ IF component = "p2ra" THEN P2raInit ELSE NoP2ra
  /\ IF component = "heap" THEN HeapInit ELSE NoHeap
  /\ IF component = "devmgr" THEN DevmgrInit ELSE NoDevmgr
  /\ \/ component = "cbuf" /\ CbufInit /\ NoRng
     \/ component = "rng" /\ RngInit
     \/ component \notin {"cbuf", "rng"} /\ NoCbuf /\ NoRng

ServicesNext ==
  /\ UNCHANGED component
  /\ \/ /\ component = "data pipe" /\ Next
        /\ UNCHANGED <<dlogVars, timerVars, p2raVars, heapVars, devmgrVars, cbufVars, rngVars>>
     \/ /\ component = "debuglog" /\ DebugLogNext
        /\ UNCHANGED <<vars, timerVars, p2raVars, heapVars, devmgrVars, cbufVars, rngVars>>
     \/ /\ component = "timer" /\ TimerNext
        /\ UNCHANGED <<vars, dlogVars, p2raVars, heapVars, devmgrVars, cbufVars, rngVars>>
     \/ /\ component = "p2ra" /\ P2raNext
        /\ UNCHANGED <<vars, dlogVars, timerVars, heapVars, devmgrVars, cbufVars, rngVars>>
     \/ /\ component = "heap" /\ HeapNext
        /\ UNCHANGED <<vars, dlogVars, timerVars, p2raVars, devmgrVars, cbufVars, rngVars>>
     \/ /\ component = "devmgr" /\ DevmgrNext
        /\ UNCHANGED <<vars, dlogVars, timerVars, p2raVars, heapVars, cbufVars, rngVars>>
     \/ /\ component = "cbuf" /\ CbufNext
        /\ UNCHANGED <<vars, dlogVars, timerVars, p2raVars, heapVars, devmgrVars, rngVars>>
     \/ /\ component = "rng" /\ RngNext
        /\ UNCHANGED <<vars, dlogVars, timerVars, p2raVars, heapVars, devmgrVars>>

ServicesSpec ==
  ServicesInit
  /\ [][ServicesNext]_<<component, vars, dlogVars, timerVars, p2raVars, heapVars, devmgrVars,
                       cbufVars, rngVars>>

\* The members of each of these sets are alike; Services.cfg gives the first
\* three the same members.
Symmetry == Permutations(Aspaces) \cup Permutations(Cpus) \cup Permutations(DevThreads)
            \cup Permutations(Devs)

-----------------------------------------------------------------------------
\* debuglog.c: however the writers lap the readers, every tail stands on a whole
\* record newer than those read, and no reader sleeps with a record in its view.
\* cbuf.c, virtio-rng.c: the ring holds what was written and not read, its event
\* says so, and the device fills only what is free, whenever something is.
BuffersSound ==
  /\ component = "debuglog" => DlogTailsSound /\ DlogWakes
  /\ component \in {"cbuf", "rng"} => CbufIntact
  /\ component = "rng" => PoolFilled

\* timer.c: over ticks, cancels from any cpu, migrations and the wrap of the
\* clock, the queues are sorted, hold a timer once, and their heads are armed.
TimersSound == component = "timer" => TimerQueuesSound /\ TimersArmed

\* pow2_range_allocator.c: the blocks cover the ranges exactly, and an
\* allocation fails only when no free run would do.
P2raSound == component = "p2ra" => P2raPartition /\ P2raMerges

\* cmpctmalloc.c: headers, buckets and OS pages describe the same memory after
\* any sequence of calls, failed ones and trims included (HeapSound).
CmpctSound == component = "heap" => HeapSound

\* devmgr.c: references are exact, and a released device is not used again
\* beyond the two windows DevsNotTouchedWhenReleased names.
DevmgrSound == component = "devmgr" => DevRefsExact /\ DevsNotTouchedWhenReleased
=============================================================================
