------------------------------- MODULE Futex --------------------------------
(***************************************************************************)
(* The futexes of one process: lib/magenta/futex_context.cpp and            *)
(* futex_node.cpp.  Every thread has one FutexNode.  The threads that wait  *)
(* on a word form a list through next_, whose head is in futex_table_ and   *)
(* knows the tail.  The table is intrusive: it finds a head by the key the  *)
(* node holds when it is looked up.                                         *)
(*                                                                         *)
(* Every operation is one critical section of lock_, which BlockThread      *)
(* releases in the step in which it falls asleep.  A timeout expires under  *)
(* thread_lock, at any time, and the thread continues once it has lock_     *)
(* again: the two are separate steps.                                       *)
(***************************************************************************)
EXTENDS Naturals, FiniteSets, Sequences

CONSTANTS FutexThreads,   \* the threads that wait
          Keys,      \* addresses of futex words
          Values     \* values of futex words

ASSUME FutexAssumption == IsFiniteSet(FutexThreads)

Null == "null"       \* a null pointer
NoKey == "zero"      \* the key of a node that was woken

ASSUME NullAssumption == Null \notin FutexThreads /\ NoKey \notin Keys

VARIABLES word,      \* the words in user memory
          node,      \* node[t]: hash_key_, next_ and tail_ of t's FutexNode
          table,     \* futex_table_: the nodes in it
          state,     \* where each thread is
          result     \* what its last FutexWait returned

futexVars == <<word, node, table, state, result>>

FutexTypeOK ==
  /\ word \in [Keys -> Values]
  /\ node \in [FutexThreads -> [key : Keys \cup {NoKey}, next : FutexThreads \cup {Null},
                           tail : FutexThreads \cup {Null}]]
  /\ table \subseteq FutexThreads
  /\ state \in [FutexThreads -> {"user", "asleep", "signaled", "timedout"}]
  /\ result \in [FutexThreads -> {"none", "ok", "timedout"}]

FutexInit ==
  /\ word \in [Keys -> Values]
  /\ node = [t \in FutexThreads |-> [key |-> NoKey, next |-> Null, tail |-> Null]]
  /\ table = {}
  /\ state = [t \in FutexThreads |-> "user"]
  /\ result = [t \in FutexThreads |-> "none"]

-----------------------------------------------------------------------------
(* find: the list head for a key in table tb, given the nodes ns. *)
find(ns, tb, k) ==
  IF \E h \in tb : ns[h].key = k THEN CHOOSE h \in tb : ns[h].key = k ELSE Null

(* The node i links behind h. *)
Link(ns, h, i) ==
  LET to[n \in 0 .. i] ==
        IF n = 0 THEN h
        ELSE IF to[n - 1] = Null THEN Null ELSE ns[to[n - 1]].next
  IN to[i]

(* FutexNode::AppendList, the list at h to the list at c. *)
AppendList(ns, c, h) ==
  [ns EXCEPT ![ns[c].tail].next = h, ![c].tail = ns[h].tail]

(* FutexContext::QueueNodesLocked: the nodes and the table after it. *)
QueueNodesLocked(ns, tb, h) ==
  LET c == find(ns, tb, ns[h].key)
  IN IF c = Null THEN <<ns, tb \cup {h}>> ELSE <<AppendList(ns, c, h), tb>>

(* FutexNode::RemoveFromHead: up to n nodes are cut off the list at h   *)
(* and get another key; the nodes after it, and the head of what is left.   *)
RemoveFromHead(ns, h, n, key) ==
  IF n = 0 THEN <<ns, h>> ELSE
  LET cut == {Link(ns, h, i) : i \in 0 .. n - 1} \ {Null}
      last == CHOOSE u \in cut : ns[u].next \notin cut
      rest == Link(ns, h, n)
  IN <<[u \in FutexThreads |->
          [key |-> IF u \in cut THEN key ELSE ns[u].key,
           next |-> IF u = last THEN Null ELSE ns[u].next,
           tail |-> IF u = h THEN last
                    ELSE IF u = rest THEN ns[h].tail ELSE ns[u].tail]], rest>>

(* The nodes of the list at h. *)
List(ns, h) == {Link(ns, h, i) : i \in 0 .. Cardinality(FutexThreads)} \ {Null}

(* FutexNode::WakeThreads: cond_signal for each; it finds nobody where the  *)
(* timeout came first.                                                      *)
WakeThreads(ns, h) ==
  state' = [t \in FutexThreads |-> IF t \in List(ns, h) /\ state[t] = "asleep"
                                THEN "signaled" ELSE state[t]]

-----------------------------------------------------------------------------
(* User code changes a word without the kernel. *)
StoreWord(k, v) ==
  /\ word[k] # v
  /\ word' = [word EXCEPT ![k] = v]
  /\ UNCHANGED <<node, table, state, result>>

(* FutexWait up to the sleep.  With another value it returns ERR_BUSY. *)
FutexWait(t, k, v) ==
  /\ state[t] = "user"
  /\ word[k] = v
  /\ LET ns == [node EXCEPT ![t] = [key |-> k, next |-> Null, tail |-> t]]
         q == QueueNodesLocked(ns, table, t)
     IN node' = q[1] /\ table' = q[2]
  /\ state' = [state EXCEPT ![t] = "asleep"]
  /\ result' = [result EXCEPT ![t] = "none"]
  /\ UNCHANGED word

(* The timeout of cond_wait_timeout expires. *)
Expire(t) ==
  /\ state[t] = "asleep"
  /\ state' = [state EXCEPT ![t] = "timedout"]
  /\ UNCHANGED <<word, node, table, result>>

Return(t, r) ==
  /\ state' = [state EXCEPT ![t] = "user"]
  /\ result' = [result EXCEPT ![t] = r]
  /\ UNCHANGED word

(* BlockThread returns NO_ERROR. *)
Woken(t) ==
  /\ state[t] = "signaled"
  /\ Return(t, "ok")
  /\ UNCHANGED <<node, table>>

(* futex_table_.insert of the rest of a list, if there is one. *)
Insert(tb, h) == IF h = Null THEN tb ELSE tb \cup {h}

(* Mutant: the tail is not updated when the last node leaves. *)
UnlinkNoTail(t, h) ==
  LET next == node[t].next
  IN IF t = h
       THEN /\ table' = Insert(table \ {h}, next)
            /\ node' = IF next = Null THEN node
                       ELSE [node EXCEPT ![next].tail = node[h].tail]
       ELSE LET prev == CHOOSE u \in List(node, h) : node[u].next = t
            IN /\ node' = [node EXCEPT ![prev].next = next]
               /\ UNCHANGED table

(* The timeout path takes t out of the list at h. *)
Unlink(t, h) ==
  LET next == node[t].next
  IN IF t = h
       THEN /\ table' = Insert(table \ {h}, next)
            /\ node' = IF next = Null THEN node
                       ELSE [node EXCEPT ![next].tail = node[h].tail]
       ELSE LET prev == CHOOSE u \in List(node, h) : node[u].next = t
            IN /\ node' = [node EXCEPT ![prev].next = next,
                                       ![h].tail = IF next = Null THEN prev ELSE @]
               /\ UNCHANGED table

(* Mutant: a timeout is reported although a FutexWake chose this thread. *)
TimedOutAlways(t) ==
  /\ state[t] = "timedout"
  /\ LET h == find(node, table, node[t].key)
     IN IF t \in List(node, h)
          THEN Unlink(t, h) /\ Return(t, "timedout")
          ELSE UNCHANGED <<node, table>> /\ Return(t, "timedout")

(* BlockThread returns ERR_TIMED_OUT.  A thread that is on no list was      *)
(* woken as well.                                                           *)
TimedOut(t) ==
  /\ state[t] = "timedout"
  /\ LET h == find(node, table, node[t].key)
     IN IF t \in List(node, h)
          THEN Unlink(t, h) /\ Return(t, "timedout")
          ELSE UNCHANGED <<node, table>> /\ Return(t, "ok")

FutexWake(k, n) ==
  /\ n > 0
  /\ LET h == find(node, table, k)
         r == RemoveFromHead(node, h, n, NoKey)
     IN /\ h # Null
        /\ node' = r[1]
        /\ table' = Insert(table \ {h}, r[2])
        /\ WakeThreads(r[1], h)
  /\ UNCHANGED <<word, result>>

(* FutexRequeue: c, r and q are what the three list operations leave. *)
FutexRequeue(k, wake_count, v, j, requeue_count) ==
  /\ word[k] = v
  /\ k # j
  /\ LET h == find(node, table, k)
         tb == table \ {h}
         c == RemoveFromHead(node, h, wake_count, NoKey)
         r == IF c[2] = Null THEN c ELSE RemoveFromHead(c[1], c[2], requeue_count, j)
         q == IF c[2] = Null \/ requeue_count = 0 THEN <<r[1], tb>>
              ELSE QueueNodesLocked(r[1], tb, c[2])
     IN /\ h # Null
        /\ node' = q[1]
        /\ table' = Insert(q[2], r[2])
        /\ WakeThreads(q[1], IF wake_count = 0 THEN Null ELSE h)
  /\ UNCHANGED <<word, result>>

-----------------------------------------------------------------------------
(* Larger counts do no more than this one. *)
Counts == 0 .. Cardinality(FutexThreads)

Resume(t) == Woken(t) \/ TimedOut(t)

(* Any thread of the process may store, wake and requeue. *)
Call(k) ==
  \/ \E v \in Values : StoreWord(k, v) \/ \E t \in FutexThreads : FutexWait(t, k, v)
  \/ \E n \in Counts : FutexWake(k, n)
  \/ \E n, m \in Counts, v \in Values, j \in Keys : FutexRequeue(k, n, v, j, m)

FutexNext ==
  \/ \E k \in Keys : Call(k)
  \/ \E t \in FutexThreads : Expire(t) \/ Resume(t)

FutexSpec == FutexInit /\ [][FutexNext]_futexVars

-----------------------------------------------------------------------------
(* The lists are what the assertions of AppendList, RemoveFromHead and      *)
(* FutexWait take for granted: one head per key, all nodes of a list under  *)
(* the head's key, the tail the head knows is the last node, and a node is  *)
(* on a list exactly while its thread is neither returned nor woken; and no *)
(* thread that a FutexWake or FutexRequeue took off its list is left asleep. *)
ListsSound ==
  /\ FutexTypeOK
  /\ \A h \in table :
       /\ \A u \in table : node[u].key = node[h].key => u = h
       /\ \A u \in List(node, h) : node[u].key = node[h].key
       /\ node[h].tail \in List(node, h) /\ node[node[h].tail].next = Null
  /\ \A t \in FutexThreads :
       (state[t] \in {"asleep", "timedout"} /\ node[t].key # NoKey) <=>
         \E h \in table : t \in List(node, h)
  /\ \A t \in FutexThreads : state[t] = "asleep" => node[t].key # NoKey

(* The queue of a key, read off the lists. *)
Chain(k) ==
  LET h == find(node, table, k)
      len == Cardinality(List(node, h))
  IN SubSeq([i \in 1 .. len |-> Link(node, h, i - 1)], 1, len)

FQ == INSTANCE FutexQueue WITH
  Threads <- FutexThreads,
  queue <- [k \in Keys |-> Chain(k)],
  status <- [t \in FutexThreads |-> IF state[t] = "user" THEN "user"
                               ELSE IF node[t].key = NoKey THEN "woken" ELSE "waiting"]

(* The pointer lists, the table, condition variables and timeouts implement *)
(* futexes.  In particular a wait that a FutexWake chose never reports a    *)
(* timeout, "if FutexWake() is called with wake_count=1 and there are       *)
(* waiting threads, then at least one FutexWait() call returns success".    *)
ImplementsFutexQueue == FQ!FQSpec
=============================================================================
