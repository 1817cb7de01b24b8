# A verification of the Magenta kernel's concurrent core

This directory holds TLA+ models of the parts of Magenta in which threads meet:
the kernel objects behind handles (`kernel/lib/magenta`), the LK synchronization
primitives, threads, timers, cross-CPU calls and memory managers under them
(`kernel/kernel`, `kernel/lib`), the user-space runtime library on top of them
(`system/ulib/runtime`), and two services (`system/uapp`): the network log and the
device manager. TLC checks the models on small instances. TLAPS proves the central
properties of four of them for every value of the constants.
`PROJECT.json` lists components, runs, hazards and theorems, and maps every
definition to the lines it models.

## 1. The system

User programs hold *handles* to kernel objects. A system call
(`syscalls_magenta.cpp`) looks the handle up in the table of the calling
process, under the table's mutex, keeps a reference to the *dispatcher* behind
it, and calls it with no table lock held. What follows runs under the
dispatcher's own mutex. Objects tell the world about their state through a
*state tracker*: a set of satisfied and of satisfiable signals and a list of
observers, called under the tracker's lock. A wait on handles, a wait set and
an IO port are kinds of observers.

| part | state | operations | interacts with |
|---|---|---|---|
| handles | arena of slots, a table per process, a count per object | make, duplicate, transfer, close | everything |
| state trackers, waits | signals, observers, the event of each wait | update, cancel, wait on one or many | handle table, LK event |
| message pipes | two queues, a pending message per side, handles inside | read, write, close | handle table, trackers |
| data pipes | ring of bytes in a vmo, cursors, lent windows, mappings | read, write, two-phase read and write, close | trackers, address spaces |
| IO ports | packet queue, auto-unsignalling event; bound observers | queue, wait, close; bind, unbind | LK event, thread kill; trackers, handle table |
| wait sets | entries by cookie, list of triggered ones | add, remove, wait, cancel | trackers, handle table, LK condition variable |
| futexes | a table of linked lists of waiting threads | wait, wake, requeue | LK condition variable |
| processes, threads | states, thread list, four kinds of mutex | start, create, exit, crash, kill | handle table, LK threads |
| exceptions | a port per thread, process and system; the state of the hand-shake | set, report, answer | IO ports, LK condition variable |
| runtime library | one futex word per object; the page of a thread | mutex, completion, once; thread create, join, detach | futexes, handles |
| LK primitives | wait queues, counts, holders | mutex, cond, semaphore, event, ports | threads, timers |
| LK threads | run queues, a current thread per CPU | create, join, detach, kill, sleep, preempt | wait queues, CPUs |
| LK timers | a sorted queue and a hardware timer per CPU | set, cancel, tick, move off a CPU | wait queues, CPU hotplug |
| CPUs | masks, lists of tasks | call on other CPUs, unplug, plug | interrupts |
| memory | arenas of pages; regions and objects; heap areas and buckets; ranges of vectors | allocate, map, fault, unmap, trim, free | each other |
| debug log | ring of records, a tail per reader | write, read, wait | LK event |
| circular buffer | ring of bytes, event | read, write, peek | LK event, the entropy driver's device |
| network log | a pending packet; the last number seen | send, send again, acknowledge, restart | the network |
| device manager | device tree, references, owners | add, probe, bind, remove, open, close | drivers, devfs |

What makes them hard: mutexes are dropped between two halves of a system call;
objects are closed while calls on them are in progress; handle slots are used
again; timeouts and kills race wake-ups; callbacks run under one lock and take
another; failed calls have to take back what they did, in whatever state others
have left.

The correctness one expects: no handle, message, byte or packet is lost,
duplicated or reordered; signals tell the truth; no thread sleeps although what
it waits for has come, and none is left with a dangling reference; a mutex
excludes; what is dying dies.

## 2. The modules

Names follow the code. A step of a model is what the code does between giving
up one lock and getting the next, or one atomic operation where there is no
lock. System calls that fail without having changed anything are not steps.
DEBUG_ASSERT and panic are enabled in the default build; where one of them
fires, or where undefined behaviour begins, a model records it (`panic`,
`fault`, `lost`, `asserted`, `bad`, `touched`) and, unless said otherwise, stops.

| module | models | notes |
|---|---|---|
| `DataPipe` | `data_pipe.cpp` and its dispatchers | Each operation is one action, as it holds `lock_` throughout; begin and end of a two-phase operation are two. A byte is its position in the stream. |
| `MessagePipe` | `msg_pipe.cpp`, `msg_pipe_dispatcher.cpp`, `sys_message_read`, `sys_message_write` | Calls are cut where a lock is dropped. Handles travel in messages, those of the pipe's own ends included. Implements `Channel`. |
| `Channel` | what a pipe promises | two queues |
| `IOPort` | `io_port_dispatcher.cpp`: queue and waiters | with the event it sleeps on and kills of sleeping threads |
| `PortBinding` | `io_port_observer.cpp`, `Bind` and `Unbind` of `io_port_dispatcher.cpp`, the list of `state_tracker.cpp` | A section under a lock is one step. Handles of one object are closed, duplicated and sent meanwhile, between two processes. |
| `HandleWait` | `state_tracker.cpp`, `wait_state_observer.cpp`, `wait_event.cpp`, `sys_handle_wait_*` | Observers are added and removed one by one; slots of closed handles are used again. |
| `WaitSet` | `wait_set_dispatcher.cpp` on state trackers | A tracker's walk over its observers is one step per callback. |
| `Handles` | `handle.cpp`, `dispatcher.cpp`, `magenta.cpp`, handle tables | The count of handles wraps, as its type does. |
| `Futex` | `futex_context.cpp`, `futex_node.cpp` | the pointer lists and the intrusive table; implements `FutexQueue` |
| `FutexQueue` | what futexes promise | used by `Futex` as a refinement and by the `Mxr*` modules as their kernel |
| `Process` | `process_dispatcher.cpp`, `user_thread.cpp` | Steps end where a mutex is taken or state is read without one. |
| `Exceptions` | `exception.cpp`, `excp_port.cpp`, `user_thread.cpp`, `syscalls_exceptions.cpp` | One thread and the handlers of its three levels, which come, go and die. |
| `MxrBase`, `MxrMutex`, `MxrCompletion`, `MxrOnce`, `MxrRuntime` | `runtime/mutex.c`, `completion.c`, `once.c` | One step per atomic operation. `MxrRuntime` composes the three objects over the futexes of one process. |
| `MxrThread` | `runtime/thread.c` | The owner and the thread; every access to the shared page is checked against its unmapping. |
| `WaitQueue` | wait queues of `thread.c`, the timeouts of waits | with the gap between a timer's expiry and its handler |
| `Mutex`, `CondVar`, `Semaphore`, `Event`, `KernelSync` | the files of these names | `KernelSync` composes them; threads nest waits. |
| `Scheduler` | `thread.c`: run queues, reschedule, the life of a thread | One step per holding of `thread_lock`; preemption at any time. |
| `Timer` | `timer.c` (builds with a dynamic timer) | The clock wraps; `timer_tick` is cut where it releases `timer_lock`; CPUs are unplugged and come back. |
| `Mp` | `mp.c` | calls between CPUs, with CPUs that go offline in the middle |
| `Port` | `port.c` | write ports, read ports, groups, readers |
| `Vm` | `kernel/vm`: address spaces, regions, objects | Locks of spaces and objects are separate; faults fall between the pages of a map. |
| `Pmm` | `pmm.cpp` | arenas, single pages, ranges, aligned runs |
| `Heap` | `cmpctmalloc.c` | headers, left pointers, buckets, OS pages; sizes in units of 8 bytes |
| `P2ra` | `pow2_range_allocator.c` | buckets of blocks, splits and merges, failures on the way |
| `DebugLog` | `debuglog.c` and its readers | records with their `next` offsets in the ring, tails that are advanced by writers |
| `Cbuf` | `cbuf.c` | Sections under its lock; readers that block do so before. A byte is its number in the stream. |
| `VirtioRng` | `virtio-rng.c` on a `Cbuf` | Fills, the interrupt and the readers on CPUs of their own; the device may return less than asked for. |
| `NetLog` | `netsvc.c`, `loglistener.c`, the timer of `netifc.c` | A link that loses datagrams, resends, restarts of both ends. |
| `Devmgr` | `devmgr.c`, opens in `rpc-device.c`, `vfs-device.c` | The lock is given up around every call of a driver; each side of it is an action. |
| `MC*` | | the bundles of section 3, with the sets and symmetries a `.cfg` cannot say |
| `DataPipeProofs`, `IOPortProofs`, `MxrRuntimeProofs`, `MxrThreadProofs` | | theorems |

Operators whose comment begins with "Mutant", or whose name extends that of an
action by what is wrong with it, are plausible errors. Each breaks the property
`PROJECT.json` pairs it with; they are part of no specification.

## 3. The runs

`MCObjects`, `MCRuntime`, `MCServices`, `MCKernel` and `MCMachine` are *bundles*:
they extend several components that share no state and run one of them. The
variable `component` is chosen by the initial state and never changes; the
variables of the other components keep one idle value or their initial states. The states of a
bundle are therefore the sum of the states of its parts, and a property
`component = "x" => P` says of `x` what `P` would in a run of its own. Properties
of `MCRuntime` need no such guard: they hold of the idle values too. The parts do
not interact in a bundle; where the code composes components, a module does
(`MxrRuntime` over `FutexQueue`, `KernelSync`, `MessagePipe` over handles,
`VirtioRng` over `Cbuf`).

| run | instance | shows |
|---|---|---|
| `objects` | 3 threads on 2 futex words; 3 threads, all with timeouts, on mutex+cond, mutex+semaphore, semaphore+event | futex lists and table sound, `FutexQueue` implemented; exclusion, exact counts, conserved units, nobody sleeps without a reason (`SyncSound`) |
| `runtime` | 3 threads, one with timeouts, on mutex and once together and on a completion; a pool of 2 killable threads on a port, 3 packets; 3 log packets, 2 datagrams each way, a restart of each end; a thread and its owner; 2 exception handlers | exclusion, one run of the function, no lost wake-up, calls end; no packet overlooked, lost or out of order, every one taken; log printed in order and nothing but a masked first packet lost, packets get through; a thread's page and handle released once; exceptions end |
| `services` | a ring of 3 bytes, 5 written, 2 address spaces; a log of 8 units with records of 1 to 3; 2 CPUs, 2 timers, a clock modulo 6; ranges that touch, overlap and are not aligned; a heap of 10 pages with requests of 1, 19 and 63 units; 3 devices, 2 threads; a ring of 4 bytes, 6 written, 2 readers, alone and with the entropy device | each component's redundant state agrees (`RingSound`, `TimersSound`, `P2raSound`, `CmpctSound`, `DevmgrSound`, `BuffersSound`); streams are intact, signals true, the vmo kept while bytes can pass; timers are armed; readers are woken; the device writes only free bytes and no fill is forgotten; free blocks merge; empty memory goes back |
| `handle_wait` | a wait on up to 2 of 2 handle slots to 2 objects, with timeouts, closes and new handles | no missed event or close, no dangling observer (`ObserversSound`); a wait with a reason to end ends |
| `wait_set` | 2 threads, an object with 2 handles, 2 entries | triggered means ready, nobody sleeps over a trigger (`EntriesSound`); closing the set ends its waits and the set |
| `kernel` | 2 processes of 2 threads, 3 handle slots, 2 objects, 4 duplicates; 3 threads, one pinned, on 2 CPUs; a write port with 2 read ports, a group and a reader; 2 handles of an object in 2 processes, 2 observers, 2 keys | one owner per handle, `on_zero_handles` once; threads are where their state says and joiners are woken; packets in order, nobody sleeps on a port that has some; observers are on both lists or in one call's charge, bindings end with their handle or its owner |
| `machine` | main thread and 2 more, either bad-handle policy; 2 calling CPUs and one that comes and goes; an object of 2 pages in 2 address spaces; 2 arenas of 5 and 3 pages | DEAD means all threads are down; calls ran on every target; regions disjoint, mappings backed; pages accounted for, runs found |
| `message_pipe` | 2 threads, 2 messages with up to 2 handles, both kinds of pipe | every handle in exactly one place, signals match queues, open sides are owed what was written (`PipeSound`); `Channel` is implemented |
| `kernel_sync_timeout`, `process_death`, `debug_log`, `heap_trim` | | *violated*: see section 5 |

**Bounds.** Three bytes are the least ring in which two windows and a gap can
lie in every order around the end, and five bytes take the stream around it.
Three threads give a list of futex waiters a head, a middle and a tail, and a
mutex an owner, a waiter that times out and one that comes in between. Two
messages tell orders apart; two handles let a message carry the pipe's own end
together with another. Two observers can be bound to one handle under one key,
which the code allows. Six bytes take a ring of four around its end. Three packets with two waiters leave more packets than
signals. Two slots per object let a closed handle's slot be used again while
observers of the old one are listed. Eight units and records of up to three make
the log wrap with records of every size around the end, and seven records lap a
reader. A clock modulo 6, with delays of at most 2, wraps as the real one does:
all times in a queue are within half of the range. Requests of 1, 19 and 63 units
fall below, in and at the edge of a row of buckets, and the last ones force
growth; ten pages let growth fail. Where the product of all objects is out of
reach, the constant `Uses` names the sets of objects used together; each object
occurs.

**Constraint.** `objects` does not go on after a stray timeout (section 5): counts
then diverge for good.

**Deadlock** is not checked where a system may rest: both ends closed, a process
that is gone, everybody waiting for a completion, a bundle whose bounds are used up.

**Symmetry** is used only in runs that check safety.

**Fairness.** `MCRuntime`, `HandleWait`: weak fairness of each thread's steps inside a
call, as the scheduler runs every ready thread; an owner of a runtime mutex
unlocks, and the function given to `mxr_once` returns. A pool of IO port threads
waits again after each packet. netsvc's timer expires and it sends again; strong
fairness of receiving, at either end, says that a link that is tried again and
again lets some datagram through. A thread in an exception goes on unless it
waits, and a live handler reads and answers. Timeouts, losses, restarts and
deaths are never fair. `WaitSet` and `Process`: strong fairness of the steps that
take a mutex, as LK mutexes are handed over in FIFO order.

## 4. The proofs

`DataPipeProofs`, for every buffer size, number of bytes and address spaces.
The inductive invariant `IInv` is the type invariant (sizes are unsigned and do
not wrap), a description of the ring from which the properties follow
(`RingInv`: cursors are the byte counts modulo the size, each unread byte is in
its slot, a lent window fits the free or the filled part), the exact meaning of
`vmo_` and of the signals, and that a mapped endpoint has a region. The ring is
treated in lemmas about numbers and functions alone, and each action cites them.

`IOPortProofs`, for any number of threads and packets. Packets are accounted for
only if the queue is in the order of making (`Ordered`), a thread holds a packet
exactly while it copies it, and the threads in the wait queue are blocked, each
once (`QueuedBlocked`). FIFO follows as an action property.

`MxrRuntimeProofs`, for any set of threads, with or without timeouts, and any
combination of the objects: every safety property of these objects in the run `runtime`. The
invariant has a part per object that ties the futex word to the labels of the
threads (`Exclusion`; `SeenOK`; `OnceOK`: the word is RUNNING or WAITING exactly
while one thread is at the function) and a part for the futexes (`QueueOK`: a
queue holds, once each, the threads that sleep on its word). The second is what
`NoLostWakeup` needs: `mx_futex_wake` reaches every sleeper only if all of them
are queued. The queues are treated in lemmas about sequences, the steps of the
futexes in one lemma each, and a step of one object keeps the parts of the
others because it moves a thread among its own labels (`Within`).
The futexes are those of `FutexQueue`, which `Futex` is model-checked to implement.

`MxrThreadProofs`, for every set of return values: `ThreadReleasedOnce`. Its
invariant is a disjunction of four situations (no thread yet, an owner still busy,
an owner that has released everything, a thread that does), each with the places
both can be in, the state word, the page and the handle. The property alone is not
inductive: it does not say what the word is, which decides who cleans up.

Only model-checked: liveness, refinements (`Channel`, `FutexQueue`), and the
invariants of the other modules.

## 5. Where the code falls short

Four runs end in a counterexample and are recorded as findings.

* `kernel_sync_timeout`: `timer_tick` releases `timer_lock` between taking an
  expired timer off its queue and calling its handler (`timer.c:235`), and
  `timer_cancel` does not wait for it. If the thread was woken in between, the
  handler can end a later wait of the thread, one without a timeout.
* `process_death`: `KillAllThreads` and `Exiting` take the same mutexes in
  opposite orders; a thread that exits while it is being killed deadlocks with
  the killer and the process stays DYING.

* `debug_log`: a write that ends exactly where the oldest record left begins makes
  a lagging reader's tail equal to the head, which means "empty"
  (`debuglog.c:80`); the comment above says that this never happens. The reader
  loses what was left, and its event stays signalled until the next write.
* `heap_trim`: `cmpct_trim` may leave a left sentinel wider than a header, and does
  not expect one when it trims the same memory again (`cmpctmalloc.c:695`); the
  headers then stop short of the next area. `HeapSound` is about heaps in which
  this has not happened.

The models reproduce further behaviours that no run is devoted to. Properties
are stated so that they hold beside them, and say so.

* A timed acquire that gives up is counted until it runs (`mutex.c:67`); a
  release in between wakes nobody and a waiter may be left behind. The same
  holds for `sem_timedwait` (`semaphore.c:84`). (`gaveup` in `SleepersHaveReason`.)
* Duplicates of a handle are not counted when made but are when deleted
  (`handle.cpp:18`); `on_zero_handles` comes while handles are left.
* A duplicate carries the process's id before it is listed (`handle.cpp:19`); a
  close of a stale value can erase it from a list it is not on (`lost`).
* A wait-set entry can be destroyed between `OnCancel` and the tracker's erase
  (`wait_set_dispatcher.cpp:304`, `lost`), and `RemoveEntry` of an entry that is
  being added returns success and leaves it (`:297`).
* A read of a drained data pipe whose producer is gone uses a null `vmo_`
  (`data_pipe.cpp:223`, `:308`; `fault`), and each begin call maps the vmo again.
* `message_read` checks the sizes of one message and may take another
  (`msg_pipe_dispatcher.cpp:86`); a copy that faults afterwards leaks the handles.
* A packet is lost when its copy to the user faults (`syscalls_magenta.cpp:1363`).
* A completion that is reset right after a signal can send a woken thread back
  to sleep (`completion.c:39`).
* `AddThread` reads the process's state without its mutex
  (`process_dispatcher.cpp:198`), two exits at once trip an assertion (`:146`), and
  the exit for a bad handle keeps the handle table locked
  (`syscalls_magenta.cpp:116`).
* Timers moved off a CPU are not armed when the timer at the head of the queue
  they join was at the head of the one they left (`timer.c:307`; `unarmed`), and a
  cancel just before a callback makes `timer_tick` call a null pointer
  (`timer.c:245`; `panicked`). Setting a timer whose callback is running on another
  CPU is not modelled.
* Adding a range next to one that is free can complete a pair of blocks, which
  `p2ra_return_free_block` asserts against (`pow2_range_allocator.c:108`; `asserted`).
* `cmpct_realloc` and `cmpct_memalign` use the result of an allocation that failed
  (`cmpctmalloc.c:846`, `:779`; `bad`), and a growth that failed is counted in
  `theheap.size` (`:875`).
* `devmgr_driver_add` holds no reference during bind (`devmgr.c:286`) and goes on
  with a place in a list that may have changed (`:585`); an open through devfs holds
  none from the lookup to `devmgr_device_open` (`vfs-device.c:72`). Both can use a
  device that was released (`touched`).
* A `cbuf_write_etc` of more bytes than there is room for, with the tail at 0, takes
  the byte that has to stay free (`cbuf.c:72`): the full ring reads as an empty one
  (`cb_overrun`). No caller in the repository writes more than fits.
* A read, with a timeout, of a port whose write side was destroyed blocks
  (`port.c:466`); `port.h:107` says that it returns ERR_CHANNEL_CLOSED.
* The race of `Unbind` and `OnCancel` that a comment provides for
  (`io_port_dispatcher.cpp:189`) does not occur: a handle is cancelled only when it
  is in no table, and unbound only while it is in one.
* A restarted device's first log packet is taken for a repetition when the last
  one the listener saw was a first packet too (`loglistener.c:87`).
* A thread whose exception handler dies with its report waits for ever
  (`excp_port.cpp:39`).

## 6. Not modelled

* Deferred procedure calls: one list, one event and one thread that runs it.
* `ReadUser` and `WriteUser` of memory objects, which copy to user memory with the
  object's lock held (`vm_object.cpp:383`); a fault on a buffer in the same object
  would need that lock again.
* Architecture and platform code: assembly, page-table formats, interrupt
  controllers. The atomic steps of the modules rest on the spinlocks and atomics
  it provides.
* PCI and the interrupt and PCI objects: mostly registers of hardware, whose
  behaviour would have to be invented.
* mxio, the virtual file systems, drivers, launchers, shells, the C library and the
  tools: programs on top of the system calls. They are by far the larger part of
  the source and mostly transform data.
* In modelled parts: rights, names, formatting, statistics, dumps and self tests;
  `*_destroy` of LK objects that may not be used afterwards. `PROJECT.json` says for each component what is left out.
