----------------------------- MODULE WaitProofs -----------------------------
(***************************************************************************)
(* Proofs about HandleWait, for any number of threads, handles, objects and *)
(* signals and waits of any length, and about IOPort, for any number of    *)
(* threads and packets.                                                    *)
(***************************************************************************)
EXTENDS HandleWait, IOPort, WellFoundedInduction, TLAPS

-----------------------------------------------------------------------------
(* HandleWait.                                                                *)

Index == 1 .. MaxCount

NextOK ==
  \A t \in Threads :
    /\ next[t] <= Len(list[t]) + 1
    /\ pc[t] = "wait" => next[t] = 1

(* The wait of t has begun its i-th observer, and has not ended it. *)
Begun(t, i) ==
  /\ i <= Len(list[t])
  /\ \/ pc[t] = "begin" /\ i < next[t]
     \/ pc[t] = "wait"
     \/ pc[t] = "end" /\ next[t] <= i

(* Nothing has happened yet that this observer, on o, should have reported. *)
Quiet(o, t, i) ==
  /\ Verdict(satisfied[o], satisfiable[o], watched[t]) = None
  /\ slot[list[t][i]] # "free" /\ object[list[t][i]] = o

TrackersOK ==
  \A o \in Objects, t \in Threads, i \in Index :
    <<t, i>> \in observers[o] => Begun(t, i) /\ (event[t].result = None => Quiet(o, t, i))

IInv == TypeOK /\ NextOK /\ TrackersOK

-----------------------------------------------------------------------------
(* Lists of handles, and the observer of a wait that hears first.            *)

LEMMA IndexFacts == \A i \in Index : i \in Nat /\ 1 <= i /\ i <= MaxCount
  BY HandleWaitAssumption DEF Index

(* What an argument list of handle_wait_many is. *)
LEMMA ListFacts ==
  ASSUME NEW s \in Lists \cup {<<>>}
  PROVE  /\ s \in Seq(Handles) /\ Len(s) \in 0 .. MaxCount
         /\ DOMAIN s = 1 .. Len(s) /\ \A i \in 1 .. Len(s) : s[i] \in Handles
<1>1. CASE s = <<>>
  BY <1>1, HandleWaitAssumption
<1>2. CASE s # <<>>
  <2>1. PICK n \in 1 .. MaxCount : s \in [1 .. n -> Handles]
    BY Zenon, <1>2 DEF Lists
  <2>2. n \in Nat /\ s \in Seq(Handles) /\ Len(s) = n
    BY <2>1, HandleWaitAssumption
  <2> QED
    BY <2>1, <2>2, HandleWaitAssumption
<1> QED
  BY Zenon, <1>1, <1>2

(* The list cut off where the unwinding of sys_handle_wait_many stops. *)
LEMMA SubListFacts ==
  ASSUME NEW s \in Lists \cup {<<>>}, NEW n \in 0 .. Len(s)
  PROVE  /\ SubSeq(s, 1, n) \in Lists \cup {<<>>}
         /\ Len(SubSeq(s, 1, n)) = n
         /\ \A i \in 1 .. n : SubSeq(s, 1, n)[i] = s[i]
<1> DEFINE r == SubSeq(s, 1, n)
<1>1. s \in Seq(Handles) /\ Len(s) \in 0 .. MaxCount /\ n \in Nat
  BY ListFacts, HandleWaitAssumption
<1>2. Len(r) = n /\ DOMAIN r = 1 .. n /\ \A i \in 1 .. n : r[i] = s[i] /\ r[i] \in Handles
  BY <1>1
<1>3. r \in Seq(Handles)
  BY <1>1
<1> HIDE DEF r
<1>4. CASE n = 0
  BY <1>2, <1>3, <1>4
<1>5. CASE n # 0
  <2>1. n \in 1 .. MaxCount
    BY <1>1, <1>5, HandleWaitAssumption
  <2>2. r \in [1 .. n -> Handles]
    BY <1>2, <1>3
  <2> QED
    BY Zenon, <1>2, <2>1, <2>2 DEF Lists, r
<1> QED
  BY Zenon, <1>2, <1>4, <1>5 DEF r

(* A set of indices has a greatest one: Latest and Cancel choose it. *)
LEMMA GreatestIndex ==
  ASSUME NEW m \in SUBSET Index, m # {}
  PROVE  \E i \in m : \A j \in m : j <= i
<1> DEFINE below == {n \in Nat : MaxCount - n \in m}
<1>1. PICK i \in m : TRUE
  BY Zenon
<1>2. i \in Nat /\ MaxCount \in Nat /\ i <= MaxCount
  BY <1>1, HandleWaitAssumption DEF Index
<1>3. MaxCount - i \in below
  BY <1>1, <1>2
<1>4. \E x \in below : \A y \in below : ~(<<y, x>> \in OpToRel(<, Nat))
  BY Zenon, <1>3, NatLessThanWellFounded, WFMin
<1>5. PICK x \in below : \A y \in below : ~(<<y, x>> \in OpToRel(<, Nat))
  BY Zenon, <1>4
<1>6. \A y \in below : x <= y
  <2>1. \A y \in below : ~(y < x)
    BY <1>5, Zenon DEF OpToRel
  <2> QED
    BY <2>1
<1>7. ASSUME NEW j \in m PROVE j <= MaxCount - x
  <2>1. MaxCount - j \in below
    BY <1>2, <1>7 DEF Index
  <2> QED
    BY <1>2, <1>6, <2>1 DEF Index
<1> QED
  BY Zenon, <1>5, <1>7

LEMMA LatestFacts ==
  ASSUME NEW o, NEW t, Observes(t, o)
  PROVE  Latest(o, t) \in Index /\ <<t, Latest(o, t)>> \in observers[o]
<1> DEFINE m == {i \in Index : <<t, i>> \in observers[o]}
<1>1. \E i \in m : \A j \in m : j <= i
  BY Zenon, GreatestIndex DEF Observes, Index
<1>2. \E i \in Index : /\ <<t, i>> \in observers[o]
                       /\ \A j \in Index : <<t, j>> \in observers[o] => j <= i
  BY Zenon, <1>1
<1> QED
  BY <1>2, Zenon DEF Latest, Index

(* What WaitEvent::Signal makes of an event. *)
Event == [result : Result \cup {None}, context : 0 .. MaxCount]

LEMMA SignaledFacts ==
  ASSUME NEW e \in Event, NEW r \in Result, NEW i \in Index
  PROVE  /\ Signaled(e, r, i) \in Event
         /\ Signaled(e, r, i).result # None
         /\ e.result # None => Signaled(e, r, i) = e
         /\ e.result = None => Signaled(e, r, i) = [result |-> r, context |-> i]
  BY HandleWaitAssumption DEF Signaled, Event, Result, None, Index

LEMMA VerdictFacts ==
  ASSUME NEW sat, NEW able, NEW watch
  PROVE  /\ Verdict(sat, able, watch) \in Result \cup {None}
         /\ Verdict(sat, able, watch) \in {"satisfied", "unsatisfiable", None}
  BY Zenon DEF Verdict, Result, None

-----------------------------------------------------------------------------
LEMMA InitIInv == Init => IInv
  BY HandleWaitAssumption, NoneAssumption
     DEF Init, IInv, TypeOK, NextOK, TrackersOK, Unsignaled, None, Result, Lists

(* What the invariant says of one observer. *)
LEMMA ObserverFacts ==
  ASSUME IInv, NEW o \in Objects, NEW t \in Threads, NEW i \in Index, <<t, i>> \in observers[o]
  PROVE  /\ Begun(t, i) /\ list[t][i] \in Handles
         /\ event[t].result = None => Quiet(o, t, i)
<1>1. Begun(t, i) /\ (event[t].result = None => Quiet(o, t, i))
  BY Zenon DEF IInv, TrackersOK
<1>2. list[t] \in Lists \cup {<<>>}
  BY Zenon DEF IInv, TypeOK
<1> QED
  BY <1>1, <1>2, ListFacts DEF Begun, Index

(* The handle a wait is about to begin or to end an observer for. *)
LEMMA NextFacts ==
  ASSUME IInv, NEW t \in Threads, ~Done(t)
  PROVE  next[t] \in Index /\ next[t] <= Len(list[t]) /\ list[t][next[t]] \in Handles
<1>1. list[t] \in Lists \cup {<<>>} /\ next[t] \in Nat /\ 1 <= next[t]
  BY HandleWaitAssumption DEF IInv, TypeOK
<1>2. Len(list[t]) \in Nat /\ Len(list[t]) <= MaxCount /\ next[t] <= Len(list[t])
  <2>1. Len(list[t]) \in 0 .. MaxCount
    BY Zenon, <1>1, ListFacts
  <2> QED
    BY <1>1, <2>1, HandleWaitAssumption DEF Done
<1>3. next[t] \in 1 .. Len(list[t]) /\ next[t] \in Index
  BY <1>1, <1>2, HandleWaitAssumption DEF Index
<1> QED
  BY Zenon, <1>1, <1>2, <1>3, ListFacts

(* A free slot is that of no observer whose event is not signaled. *)
LEMMA AddHandleIInv ==
  ASSUME IInv, NEW h \in Handles, NEW o \in Objects, AddHandle(h, o)
  PROVE  IInv'
<1> USE DEF AddHandle, tracker, args
<1>1. TypeOK'
  BY Zenon DEF IInv, TypeOK
<1>2. NextOK'
  BY Zenon DEF IInv, NextOK
<1>3. TrackersOK'
  <2> SUFFICES ASSUME NEW p \in Objects, NEW u \in Threads, NEW i \in Index, <<u, i>> \in observers'[p]
               PROVE  Begun(u, i)' /\ (event'[u].result = None => Quiet(p, u, i)')
    BY Zenon DEF TrackersOK
  <2> QED
    BY ObserverFacts DEF Begun, Quiet, IInv, TypeOK
<1> QED
  BY Zenon, <1>1, <1>2, <1>3 DEF IInv

LEMMA RemoveHandleIInv ==
  ASSUME IInv, NEW h \in Handles, RemoveHandle(h)
  PROVE  IInv'
<1> USE DEF RemoveHandle, tracker, args
<1>1. TypeOK'
  BY Zenon DEF IInv, TypeOK
<1>2. NextOK'
  BY Zenon DEF IInv, NextOK
<1>3. TrackersOK'
  <2> SUFFICES ASSUME NEW p \in Objects, NEW u \in Threads, NEW i \in Index, <<u, i>> \in observers'[p]
               PROVE  Begun(u, i)' /\ (event'[u].result = None => Quiet(p, u, i)')
    BY Zenon DEF TrackersOK
  <2> QED
    BY ObserverFacts DEF Begun, Quiet, IInv, TypeOK
<1> QED
  BY Zenon, <1>1, <1>2, <1>3 DEF IInv

(* StateTracker::Cancel signals the event of every wait that has an observer *)
(* for the handle, with the index of one of them, and no other event.        *)
LEMMA CancelFacts ==
  ASSUME TypeOK, NEW h \in Handles, NEW t \in Threads
  PROVE  LET e == Cancel(object[h], h)[t] IN
         /\ e \in Event
         /\ \/ e = event[t] /\ (event[t].result # None \/ Matching(t, object[h], h) = {})
            \/ /\ event[t].result = None /\ e.result = "cancelled"
               /\ e.context \in Matching(t, object[h], h)
<1> DEFINE m == Matching(t, object[h], h)
           top == CHOOSE i \in m : \A j \in m : j <= i
<1>1. event[t] \in Event
  BY Zenon DEF TypeOK, Event
<1>2. CASE m = {}
  BY Zenon, <1>1, <1>2 DEF Cancel
<1>3. CASE m # {}
  <2>1. m \in SUBSET Index
    BY Zenon DEF Matching, Index
  <2> HIDE DEF m
  <2>2. top \in m
    BY Zenon, <1>3, <2>1, GreatestIndex
  <2> HIDE DEF top
  <2>3. Cancel(object[h], h)[t] = Signaled(event[t], "cancelled", top)
    BY <1>3, Zenon DEF Cancel, m, top
  <2>4. "cancelled" \in Result /\ top \in Index
    BY Zenon, <2>1, <2>2 DEF Result
  <2>5. CASE event[t].result = None
    <3>1. Cancel(object[h], h)[t] = [result |-> "cancelled", context |-> top]
      BY Zenon, <1>1, <2>3, <2>4, <2>5, SignaledFacts
    <3> QED
      BY <1>1, <2>2, <2>3, <2>4, <2>5, <3>1, SignaledFacts DEF m
  <2>6. CASE event[t].result # None
    BY Zenon, <1>1, <2>3, <2>4, <2>6, SignaledFacts
  <2> QED
    BY Zenon, <2>5, <2>6
<1> QED
  BY Zenon, <1>2, <1>3

(* When a slot is freed, the events of all its observers are signaled. *)
LEMMA DeleteHandleIInv ==
  ASSUME IInv, NEW h \in Handles, DeleteHandle(h)
  PROVE  IInv'
<1> USE DEF DeleteHandle, tracker, args
<1>0. \A t \in Threads : event'[t] = Cancel(object[h], h)[t]
  BY Zenon DEF Cancel
<1>1. TypeOK'
  <2>1. event' \in [Threads -> Event]
    <3>1. \A t \in Threads : event'[t] \in Event
      BY Zenon, <1>0, CancelFacts DEF IInv
    <3> QED
      BY Zenon, <3>1 DEF Cancel
  <2> QED
    BY Zenon, <2>1 DEF IInv, TypeOK, Event
<1>2. NextOK'
  BY Zenon DEF IInv, NextOK
<1>3. TrackersOK'
  <2> SUFFICES ASSUME NEW p \in Objects, NEW u \in Threads, NEW i \in Index, <<u, i>> \in observers'[p]
               PROVE  Begun(u, i)' /\ (event'[u].result = None => Quiet(p, u, i)')
    BY Zenon DEF TrackersOK
  <2>1. <<u, i>> \in observers[p] /\ Begun(u, i) /\ list[u][i] \in Handles
    BY Zenon, ObserverFacts
  <2>2. Begun(u, i)'
    BY Zenon, <2>1 DEF Begun
  <2>3. ASSUME event'[u].result = None PROVE Quiet(p, u, i)'
    <3>1. event[u].result = None /\ Matching(u, object[h], h) = {}
      BY Zenon, <1>0, <2>3, CancelFacts DEF IInv, None
    <3>2. Quiet(p, u, i)
      BY Zenon, <2>1, <3>1, ObserverFacts
    <3>3. list[u][i] # h
      BY Zenon, <2>1, <3>1, <3>2 DEF Matching, Quiet, Index
    <3> QED
      BY Zenon, <2>1, <3>2, <3>3 DEF Quiet, IInv, TypeOK
  <2> QED
    BY Zenon, <2>2, <2>3
<1> QED
  BY Zenon, <1>1, <1>2, <1>3 DEF IInv

(* A change of state signals the events of the waits it is of interest to. *)
LEMMA UpdateStateIInv ==
  ASSUME IInv, NEW o \in Objects, NEW sat \in SUBSET Signals, NEW able \in SUBSET Signals,
         UpdateState(o, sat, able)
  PROVE  IInv'
<1> USE DEF UpdateState, table, args
<1> DEFINE v(t) == Verdict(sat, able, watched[t])
<1>0. \A t \in Threads :
        /\ event'[t] \in Event
        /\ Observes(t, o) /\ v(t) # None => event'[t].result # None
        /\ ~(Observes(t, o) /\ v(t) # None) => event'[t] = event[t]
  <2> TAKE t \in Threads
  <2>1. event'[t] = IF Observes(t, o) /\ v(t) # None
                     THEN Signaled(event[t], v(t), Latest(o, t)) ELSE event[t]
    BY Zenon
  <2>2. event[t] \in Event
    BY Zenon DEF IInv, TypeOK, Event
  <2>3. ASSUME Observes(t, o), v(t) # None
        PROVE  /\ Signaled(event[t], v(t), Latest(o, t)) \in Event
               /\ Signaled(event[t], v(t), Latest(o, t)).result # None
    <3>1. v(t) \in Result
      BY Zenon, <2>3, VerdictFacts
    <3>2. Latest(o, t) \in Index
      BY Zenon, <2>3, LatestFacts
    <3> HIDE DEF v
    <3> QED
      BY Zenon, <2>2, <3>1, <3>2, SignaledFacts
  <2> QED
    BY Zenon, <2>1, <2>2, <2>3
<1>1. TypeOK'
  <2>1. event' \in [Threads -> Event]
    BY Zenon, <1>0
  <2> QED
    BY Zenon, <2>1 DEF IInv, TypeOK, Event
<1>2. NextOK'
  BY Zenon DEF IInv, NextOK
<1>3. TrackersOK'
  <2> SUFFICES ASSUME NEW p \in Objects, NEW u \in Threads, NEW i \in Index, <<u, i>> \in observers'[p]
               PROVE  Begun(u, i)' /\ (event'[u].result = None => Quiet(p, u, i)')
    BY Zenon DEF TrackersOK
  <2>1. <<u, i>> \in observers[p] /\ Begun(u, i) /\ list[u][i] \in Handles
    BY Zenon, ObserverFacts
  <2>2. Begun(u, i)'
    BY Zenon, <2>1 DEF Begun
  <2>3. ASSUME event'[u].result = None PROVE Quiet(p, u, i)'
    <3>1. ~(Observes(u, o) /\ v(u) # None)
      BY Zenon, <1>0, <2>3
    <3>2. event'[u] = event[u]
      BY Zenon, <1>0, <3>1
    <3>3. Quiet(p, u, i)
      BY Zenon, <2>1, <2>3, <3>2, ObserverFacts
    <3>4. p = o => v(u) = None
      BY Zenon, <2>1, <3>1 DEF Observes, Index
    <3> QED
      BY Zenon, <2>1, <3>3, <3>4 DEF Quiet, IInv, TypeOK
  <2> QED
    BY Zenon, <2>2, <2>3
<1> QED
  BY Zenon, <1>1, <1>2, <1>3 DEF IInv

-----------------------------------------------------------------------------
(* A new wait has no observers yet. *)
LEMMA HandleWaitIInv ==
  ASSUME IInv, NEW t \in Threads, NEW hs \in Lists, NEW watch \in SUBSET Signals,
         handle_wait(t, hs, watch)
  PROVE  IInv'
<1> USE DEF handle_wait, table, tracker
<1>1. TypeOK'
  BY HandleWaitAssumption DEF IInv, TypeOK, Unsignaled
<1>2. NextOK'
  BY ListFacts DEF IInv, TypeOK, NextOK
<1>3. TrackersOK'
  <2> SUFFICES ASSUME NEW p \in Objects, NEW u \in Threads, NEW i \in Index, <<u, i>> \in observers'[p]
               PROVE  Begun(u, i)' /\ (event'[u].result = None => Quiet(p, u, i)')
    BY Zenon DEF TrackersOK
  <2>1. u # t
    BY Zenon, ObserverFacts DEF Begun
  <2> QED
    BY <2>1, ObserverFacts DEF Begun, Quiet, IInv, TypeOK
<1> QED
  BY Zenon, <1>1, <1>2, <1>3 DEF IInv

(* Begin puts one more observer on the tracker of an object, and signals the *)
(* event at once when the object has the signals already.                    *)
LEMMA BeginIInv ==
  ASSUME IInv, NEW t \in Threads, Begin(t)
  PROVE  IInv'
<1> DEFINE n == next[t]
           o == object[list[t][n]]
           v == Verdict(satisfied[o], satisfiable[o], watched[t])
<1>1. /\ pc[t] = "begin" /\ ~(n > Len(list[t])) /\ slot[list[t][n]] = "open"
      /\ observers' = [observers EXCEPT ![o] = observers[o] \cup {<<t, n>>}]
      /\ event' = IF v = None THEN event ELSE [event EXCEPT ![t] = Signaled(event[t], v, n)]
      /\ next' = [next EXCEPT ![t] = n + 1]
      /\ UNCHANGED <<slot, object, lock, satisfied, satisfiable, pc, list, watched, ret>>
  BY Zenon DEF Begin, Done, table, args
<1>2. /\ list[t] \in Lists \cup {<<>>} /\ n \in Index /\ n <= Len(list[t])
      /\ list[t][n] \in Handles /\ o \in Objects
  <2>1. n \in Index /\ n <= Len(list[t]) /\ list[t][n] \in Handles
    BY Zenon, <1>1, NextFacts DEF Done
  <2> QED
    BY Zenon, <2>1 DEF IInv, TypeOK
<1>3. /\ event' \in [Threads -> Event]
      /\ \A u \in Threads \ {t} : event'[u] = event[u]
      /\ event'[t].result = None => event[t].result = None /\ v = None
  <2>0. event \in [Threads -> Event]
    BY Zenon DEF IInv, TypeOK, Event
  <2> HIDE DEF n
  <2>1. v \in Result \cup {None}
    BY Zenon, VerdictFacts
  <2> HIDE DEF v
  <2>2. CASE v = None
    BY Zenon, <1>1, <2>0, <2>2
  <2>3. CASE v # None
    <3>1. Signaled(event[t], v, n) \in Event /\ Signaled(event[t], v, n).result # None
      BY Zenon, <1>2, <2>0, <2>1, <2>3, SignaledFacts
    <3> QED
      BY Zenon, <1>1, <2>0, <2>3, <3>1
  <2> QED
    BY Zenon, <2>2, <2>3
<1> HIDE DEF n, o, v
<1>4. TypeOK'
  <2>1. observers' \in [Objects -> SUBSET (Threads \X Index)]
    BY <1>1, <1>2 DEF IInv, TypeOK, Index
  <2>2. next' \in [Threads -> 1 .. MaxCount + 1]
    BY <1>1, <1>2, HandleWaitAssumption DEF IInv, TypeOK, Index
  <2> QED
    BY Zenon, <1>1, <1>3, <2>1, <2>2 DEF IInv, TypeOK, Event, Index
<1>5. NextOK'
  <2>1. Len(list[t]) \in Nat /\ n \in Nat /\ next \in [Threads -> 1 .. MaxCount + 1]
    BY <1>2, ListFacts, HandleWaitAssumption DEF IInv, TypeOK, Index
  <2> QED
    BY <1>1, <1>2, <2>1 DEF IInv, NextOK
<1>6. TrackersOK'
  <2> SUFFICES ASSUME NEW p \in Objects, NEW u \in Threads, NEW i \in Index, <<u, i>> \in observers'[p]
               PROVE  Begun(u, i)' /\ (event'[u].result = None => Quiet(p, u, i)')
    BY Zenon DEF TrackersOK
  <2>0. /\ i \in Nat /\ n \in Nat /\ next \in [Threads -> 1 .. MaxCount + 1]
        /\ observers \in [Objects -> SUBSET (Threads \X (1 .. MaxCount))]
    BY <1>2, HandleWaitAssumption DEF IInv, TypeOK, Index
  <2>1. Quiet(p, u, i)' <=> Quiet(p, u, i)
    BY Zenon, <1>1 DEF Quiet
  <2>2. CASE <<u, i>> \in observers[p]
    <3>1. Begun(u, i) /\ (event[u].result = None => Quiet(p, u, i))
      BY Zenon, <2>2, ObserverFacts
    <3>2. Begun(u, i)'
      BY <1>1, <2>0, <3>1 DEF Begun, n
    <3> QED
      BY Zenon, <1>3, <2>1, <3>1, <3>2
  <2>3. CASE <<u, i>> \notin observers[p]
    <3>1. p = o /\ <<u, i>> = <<t, n>>
      BY Zenon, <1>1, <1>2, <2>0, <2>3
    <3>2. Begun(u, i)'
      <4>1. u = t /\ i = n /\ next'[t] = n + 1 /\ pc'[t] = "begin" /\ list'[t] = list[t]
        BY Zenon, <1>1, <2>0, <3>1
      <4> QED
        BY <1>2, <2>0, <4>1 DEF Begun
    <3>3. v = None => Quiet(p, u, i)
      BY Zenon, <1>1, <3>1 DEF Quiet, v, o
    <3> QED
      BY Zenon, <1>3, <2>1, <3>1, <3>2, <3>3
  <2> QED
    BY Zenon, <2>2, <2>3
<1> QED
  BY Zenon, <1>4, <1>5, <1>6 DEF IInv

(* The unwinding keeps the observers that have begun. *)
LEMMA UnwindIInv ==
  ASSUME IInv, NEW t \in Threads, Unwind(t)
  PROVE  IInv'
<1> USE DEF Unwind, table, tracker
<1> DEFINE s == SubSeq(list[t], 1, next[t] - 1)
<1>1. list[t] \in Lists \cup {<<>>} /\ next[t] - 1 \in 0 .. Len(list[t]) /\ next[t] \in Nat
  <2>1. list[t] \in Lists \cup {<<>>} /\ Len(list[t]) \in Nat
    BY ListFacts DEF IInv, TypeOK
  <2> QED
    BY <2>1, NextFacts DEF Index
<1>2. /\ s \in Lists \cup {<<>>} /\ Len(s) = next[t] - 1
      /\ \A i \in 1 .. next[t] - 1 : s[i] = list[t][i]
  BY Zenon, <1>1, SubListFacts
<1>3. list' = [list EXCEPT ![t] = s]
  BY Zenon
<1> HIDE DEF s
<1>4. TypeOK'
  <2>1. list' \in [Threads -> Lists \cup {<<>>}]
    BY Zenon, <1>2, <1>3 DEF IInv, TypeOK
  <2>2. next' \in [Threads -> 1 .. MaxCount + 1]
    BY HandleWaitAssumption DEF IInv, TypeOK
  <2>3. /\ lock' \in Threads \cup {None}
        /\ pc' \in [Threads -> {"idle", "begin", "wait", "end"}]
        /\ ret' \in [Threads -> Result \cup {None, "badhandle", "timedout"}]
    BY Zenon DEF IInv, TypeOK
  <2> QED
    BY Zenon, <2>1, <2>2, <2>3 DEF IInv, TypeOK
<1>5. NextOK'
  BY <1>1, <1>2, <1>3 DEF IInv, TypeOK, NextOK
<1>6. TrackersOK'
  <2> SUFFICES ASSUME NEW p \in Objects, NEW u \in Threads, NEW i \in Index, <<u, i>> \in observers'[p]
               PROVE  Begun(u, i)' /\ (event'[u].result = None => Quiet(p, u, i)')
    BY Zenon DEF TrackersOK
  <2>1. CASE u = t
    <3>0. Begun(t, i) /\ pc[t] = "begin" /\ (event[t].result = None => Quiet(p, t, i))
      BY Zenon, <2>1, ObserverFacts
    <3>1. i \in 1 .. next[t] - 1
      BY <1>1, <3>0, HandleWaitAssumption DEF Begun, Index
    <3>2. list'[u][i] = list[u][i]
      BY Zenon, <1>2, <1>3, <2>1, <3>1 DEF IInv, TypeOK
    <3>3. Begun(u, i)'
      <4>1. list'[t] = s /\ pc'[t] = "end" /\ next'[t] = 1
        BY Zenon, <1>3 DEF IInv, TypeOK
      <4> QED
        BY <1>1, <1>2, <2>1, <3>1, <4>1 DEF Begun
    <3> QED
      BY Zenon, <2>1, <3>0, <3>2, <3>3 DEF Quiet
  <2>2. CASE u # t
    <3>1. list'[u] = list[u] /\ pc'[u] = pc[u] /\ next'[u] = next[u]
      BY Zenon, <1>3, <2>2 DEF IInv, TypeOK
    <3>2. Begun(u, i) /\ (event[u].result = None => Quiet(p, u, i))
      BY Zenon, ObserverFacts
    <3> QED
      BY Zenon, <3>1, <3>2 DEF Begun, Quiet
  <2> QED
    BY Zenon, <2>1, <2>2
<1> QED
  BY Zenon, <1>4, <1>5, <1>6 DEF IInv

(* Going to sleep, waking and giving up change no observer. *)
LEMMA WaitIInv ==
  ASSUME IInv, NEW t \in Threads, Sleep(t) \/ Wake(t) \/ GiveUp(t)
  PROVE  IInv'
<1> USE DEF Sleep, Wake, GiveUp, table, tracker, args
<1>1. TypeOK'
  <2>1. CASE Sleep(t)
    BY <2>1, HandleWaitAssumption DEF IInv, TypeOK
  <2>2. CASE Wake(t)
    BY Zenon, <2>2 DEF IInv, TypeOK
  <2>3. CASE GiveUp(t)
    BY Zenon, <2>3 DEF IInv, TypeOK
  <2> QED
    BY Zenon, <2>1, <2>2, <2>3
<1>2. NextOK'
  BY ListFacts DEF IInv, TypeOK, NextOK
<1>3. TrackersOK'
  <2> SUFFICES ASSUME NEW p \in Objects, NEW u \in Threads, NEW i \in Index, <<u, i>> \in observers'[p]
               PROVE  Begun(u, i)' /\ (event'[u].result = None => Quiet(p, u, i)')
    BY Zenon DEF TrackersOK
  <2>1. Begun(u, i) /\ (event[u].result = None => Quiet(p, u, i))
    BY Zenon, ObserverFacts
  <2>2. i \in Nat /\ 1 <= i
    BY Zenon, IndexFacts
  <2>3. Begun(u, i)'
    BY Zenon, <2>1, <2>2 DEF Begun, IInv, TypeOK, NextOK
  <2> QED
    BY Zenon, <2>1, <2>3 DEF Quiet
<1> QED
  BY Zenon, <1>1, <1>2, <1>3 DEF IInv

(* End takes the next observer off the tracker it is on. *)
LEMMA EndIInv ==
  ASSUME IInv, NEW t \in Threads, End(t)
  PROVE  IInv'
<1> USE DEF End, table, args
<1>0. next[t] \in 1 .. MaxCount /\ next[t] <= Len(list[t]) /\ Len(list[t]) \in 0 .. MaxCount
  BY Zenon, NextFacts, ListFacts DEF IInv, TypeOK, Index
<1>1. TypeOK'
  BY <1>0, HandleWaitAssumption DEF IInv, TypeOK
<1>2. NextOK'
  BY <1>0 DEF IInv, TypeOK, NextOK
<1>3. TrackersOK'
  <2> SUFFICES ASSUME NEW p \in Objects, NEW u \in Threads, NEW i \in Index, <<u, i>> \in observers'[p]
               PROVE  Begun(u, i)' /\ (event'[u].result = None => Quiet(p, u, i)')
    BY Zenon DEF TrackersOK
  <2>1. <<u, i>> \in observers[p] /\ <<u, i>> # <<t, next[t]>>
    BY Zenon
  <2>2. Begun(u, i) /\ (event[u].result = None => Quiet(p, u, i))
    BY Zenon, <2>1, ObserverFacts
  <2>3. Begun(u, i)'
    BY <1>0, <2>1, <2>2, HandleWaitAssumption DEF Begun, IInv, TypeOK, Index
  <2> QED
    BY Zenon, <2>2, <2>3 DEF Quiet
<1> QED
  BY Zenon, <1>1, <1>2, <1>3 DEF IInv

(* A wait that returns has ended all its observers. *)
LEMMA ReturnIInv ==
  ASSUME IInv, NEW t \in Threads, Return(t)
  PROVE  IInv'
<1>0. ASSUME NEW i \in Index PROVE ~Begun(t, i)
  <2>1. Len(list[t]) \in Nat /\ next[t] \in Nat /\ i \in Nat
    BY ListFacts, HandleWaitAssumption DEF IInv, TypeOK, Index
  <2>2. pc[t] = "end" /\ next[t] > Len(list[t])
    BY Zenon DEF Return, Done
  <2>3. ~(next[t] <= i /\ i <= Len(list[t]))
    BY <2>1, <2>2
  <2> QED
    BY Zenon, <2>2, <2>3 DEF Begun
<1> USE DEF Return, table, tracker
<1>1. TypeOK'
  <2>1. event' \in [Threads -> Event]
    BY HandleWaitAssumption DEF IInv, TypeOK, Event, Unsignaled
  <2>2. next' \in [Threads -> 1 .. MaxCount + 1]
    BY HandleWaitAssumption DEF IInv, TypeOK
  <2> QED
    BY Zenon, <2>1, <2>2 DEF IInv, TypeOK, Event
<1>2. NextOK'
  BY DEF IInv, TypeOK, NextOK
<1>3. TrackersOK'
  <2> SUFFICES ASSUME NEW p \in Objects, NEW u \in Threads, NEW i \in Index, <<u, i>> \in observers'[p]
               PROVE  Begun(u, i)' /\ (event'[u].result = None => Quiet(p, u, i)')
    BY Zenon DEF TrackersOK
  <2>1. u # t
    BY Zenon, <1>0, ObserverFacts
  <2>2. /\ list'[u] = list[u] /\ pc'[u] = pc[u] /\ next'[u] = next[u]
        /\ watched'[u] = watched[u] /\ event'[u] = event[u]
    BY Zenon, <2>1 DEF IInv, TypeOK
  <2>3. Begun(u, i) /\ (event[u].result = None => Quiet(p, u, i))
    BY Zenon, ObserverFacts
  <2> QED
    BY Zenon, <2>2, <2>3 DEF Begun, Quiet
<1> QED
  BY Zenon, <1>1, <1>2, <1>3 DEF IInv

-----------------------------------------------------------------------------
LEMMA NextIInv == IInv /\ [Next]_vars => IInv'
<1> SUFFICES ASSUME IInv, [Next]_vars PROVE IInv'
  BY Zenon
<1>1. CASE \E h \in Handles : RemoveHandle(h) \/ DeleteHandle(h) \/ \E o \in Objects : AddHandle(h, o)
  BY Zenon, <1>1, AddHandleIInv, RemoveHandleIInv, DeleteHandleIInv
<1>2. CASE \E o \in Objects, sat, able \in SUBSET Signals : UpdateState(o, sat, able)
  BY Zenon, <1>2, UpdateStateIInv
<1>3. CASE \E t \in Threads : Step(t) \/ GiveUp(t)
  BY Zenon, <1>3, BeginIInv, UnwindIInv, WaitIInv, EndIInv, ReturnIInv DEF Step
<1>4. CASE \E t \in Threads : \E hs \in Lists, w \in SUBSET Signals : handle_wait(t, hs, w)
  BY Zenon, <1>4, HandleWaitIInv
<1>5. CASE UNCHANGED vars
  <2>1. TypeOK' /\ NextOK'
    BY Zenon, <1>5 DEF vars, IInv, TypeOK, NextOK
  <2>2. TrackersOK'
    BY <1>5 DEF vars, IInv, TrackersOK, Begun, Quiet
  <2> QED
    BY Zenon, <2>1, <2>2 DEF IInv
<1> QED
  BY <1>1, <1>2, <1>3, <1>4, <1>5, Zenon DEF Next

(* In every execution of any number of waits, closes and changes of state,   *)
(* no change and no close is missed by an observer of a wait whose event is  *)
(* not signaled, and no state tracker knows an observer of a wait that has   *)
(* returned (state_tracker.cpp, wait_state_observer.cpp).                    *)
THEOREM ObserversSoundAlways == Spec => []ObserversSound
<1>1. ASSUME IInv PROVE ObserversSound
  <2> SUFFICES ASSUME NEW o \in Objects, NEW ob \in observers[o]
               PROVE  /\ event[ob[1]].result = None =>
                           /\ Verdict(satisfied[o], satisfiable[o], watched[ob[1]]) = None
                           /\ slot[list[ob[1]][ob[2]]] # "free"
                           /\ object[list[ob[1]][ob[2]]] = o
                      /\ pc[ob[1]] # "idle"
                      /\ pc[ob[1]] = "end" => next[ob[1]] <= ob[2]
    BY <1>1, Zenon DEF IInv, ObserversSound, NoMissedEvent, ObserversValid
  <2>1. ob[1] \in Threads /\ ob[2] \in Index /\ ob = <<ob[1], ob[2]>>
    <3>1. observers[o] \subseteq Threads \X (1 .. MaxCount)
      BY Zenon, <1>1 DEF IInv, TypeOK
    <3> QED
      BY <3>1 DEF Index
  <2> QED
    BY <1>1, <2>1, ObserverFacts DEF Begun, Quiet
<1> QED
  BY <1>1, InitIInv, NextIInv, PTL DEF Spec

(* Only DeleteHandle cancels a wait, and the index it leaves in the event is *)
(* that of the handle it deletes: WaitStateObserver::OnCancel.               *)
THEOREM CancelNamesHandleAlways == Spec => CancelNamesHandle
<1> DEFINE P == \A t \in Threads :
                  event[t].result = None /\ event'[t].result = "cancelled" =>
                    LET h == list[t][event'[t].context] IN slot[h] = "removed" /\ slot'[h] = "free"
<1>1. ASSUME IInv, [Next]_vars PROVE [P]_vars
  <2> SUFFICES ASSUME NEW t \in Threads, Next,
                      event[t].result = None, event'[t].result = "cancelled"
               PROVE  LET h == list[t][event'[t].context] IN slot[h] = "removed" /\ slot'[h] = "free"
    BY <1>1, Zenon
  <2>0. event \in [Threads -> Event] /\ event[t] \in Event /\ event'[t] # event[t]
    BY Zenon, <1>1 DEF IInv, TypeOK, Event, None
  <2>1. ASSUME NEW h \in Handles, DeleteHandle(h)
        PROVE  LET g == list[t][event'[t].context] IN slot[g] = "removed" /\ slot'[g] = "free"
    <3>1. event'[t] = Cancel(object[h], h)[t]
      BY <2>1, Zenon DEF DeleteHandle
    <3>2. event'[t].context \in Matching(t, object[h], h)
      BY Zenon, <1>1, <2>0, <3>1, CancelFacts DEF IInv
    <3> QED
      BY Zenon, <1>1, <2>1, <3>2 DEF DeleteHandle, Matching, IInv, TypeOK
  <2>2. ASSUME NEW o \in Objects, NEW sat \in SUBSET Signals, NEW able \in SUBSET Signals,
               UpdateState(o, sat, able)
        PROVE  FALSE
    <3> DEFINE v == Verdict(sat, able, watched[t])
    <3>1. event'[t] = Signaled(event[t], v, Latest(o, t)) /\ v # None /\ Observes(t, o)
      BY Zenon, <2>0, <2>2 DEF UpdateState
    <3>2. v \in {"satisfied", "unsatisfiable"} /\ Latest(o, t) \in Index
      BY Zenon, <3>1, VerdictFacts, LatestFacts
    <3> HIDE DEF v
    <3> QED
      BY <2>0, <3>1, <3>2, SignaledFacts DEF Result
  <2>3. ASSUME NEW u \in Threads, Begin(u)
        PROVE  FALSE
    <3> DEFINE n == next[u]
               o == object[list[u][n]]
               v == Verdict(satisfied[o], satisfiable[o], watched[u])
    <3>0. event' = IF v = None THEN event ELSE [event EXCEPT ![u] = Signaled(event[u], v, n)]
      BY Zenon, <2>3 DEF Begin
    <3>1. u = t /\ v # None /\ event'[t] = Signaled(event[t], v, n)
      <4> HIDE DEF v, n
      <4> QED
        BY Zenon, <2>0, <3>0
    <3>2. v \in {"satisfied", "unsatisfiable", None}
      BY VerdictFacts, Zenon
    <3>3. n \in Index
      BY Zenon, <1>1, <2>3, NextFacts DEF Begin
    <3> HIDE DEF v, n
    <3> QED
      BY <2>0, <3>1, <3>2, <3>3, SignaledFacts DEF Result
  <2>4. ASSUME NEW u \in Threads, Return(u) \/ \E hs \in Lists, w \in SUBSET Signals : handle_wait(u, hs, w)
        PROVE  FALSE
    BY <2>0, <2>4 DEF Return, handle_wait, Unsignaled, None
  <2> QED
    BY Zenon, <2>0, <2>1, <2>2, <2>3, <2>4
       DEF Next, Step, AddHandle, RemoveHandle, Unwind, Sleep, Wake, GiveUp, End
<1>2. CancelNamesHandle <=> [][P]_vars
  BY Zenon DEF CancelNamesHandle
<1> QED
  BY <1>1, <1>2, InitIInv, NextIInv, PTL DEF Spec

-----------------------------------------------------------------------------
(* IOPort.                                                                    *)

(* The queue is in the order the packets were made, and holds none that was  *)
(* not made yet; needed because a new packet must not be in it already.      *)
Ordered ==
  /\ \A i, j \in DOMAIN packets : i < j => packets[i] < packets[j]
  /\ \A p, q \in Packet : fate[p] = "unmade" /\ p < q => fate[q] = "unmade"

(* A thread holds a packet exactly while it is copying it. *)
HoldingAtCopy == \A t \in Waiters : holding[t] # 0 <=> wait_pc[t] = "copy"

(* The threads in the wait queue are blocked, and each is in it once. *)
QueuedBlocked ==
  /\ \A i \in DOMAIN waitq : wait_pc[waitq[i]] = "blocked"
  /\ \A i, j \in DOMAIN waitq : waitq[i] = waitq[j] => i = j

PortInv == IopTypeOK /\ NotAllAsleep /\ PacketsAccounted /\ Ordered /\ HoldingAtCopy /\ QueuedBlocked

(* The initial state satisfies the invariant. *)
LEMMA PortInit == IopInit => PortInv
<1> SUFFICES ASSUME IopInit PROVE PortInv
  BY Zenon
<1> USE MaxPacketsAssumption DEF IopInit
<1>1. IopTypeOK
  <2>1. packets \in Seq(Packet) /\ waitq \in Seq(Waiters)
    OBVIOUS
  <2>2. no_clients \in BOOLEAN /\ signalled \in BOOLEAN
    BY Zenon
  <2>3. holding \in [Waiters -> 0 .. MaxPackets] /\ received \in [Waiters -> 0 .. MaxPackets]
    OBVIOUS
  <2>4. /\ wait_pc \in [Waiters -> {"user", "check", "sleep", "blocked", "copy", "dead"}]
        /\ killed \in SUBSET Mortal /\ wait_result \in [Waiters -> Status]
        /\ fate \in [Packet -> Fate]
    BY Zenon DEF Status, Fate
  <2> QED
    BY Zenon, <2>1, <2>2, <2>3, <2>4 DEF IopTypeOK
<1>2. NotAllAsleep
  BY Zenon DEF NotAllAsleep
<1>3. PacketsAccounted
  BY DEF PacketsAccounted, Packet
<1>4. Ordered /\ HoldingAtCopy /\ QueuedBlocked
  BY DEF Ordered, HoldingAtCopy, QueuedBlocked
<1> QED
  BY Zenon, <1>1, <1>2, <1>3, <1>4 DEF PortInv

(* Signalling the event keeps the threads and the wait queue in step, and never *)
(* leaves every thread asleep without a pending signal.                         *)
LEMMA SignalStep ==
  ASSUME IopTypeOK, HoldingAtCopy, QueuedBlocked, SignalEvent
  PROVE  /\ signalled' \in BOOLEAN
         /\ waitq' \in Seq(Waiters)
         /\ wait_pc' \in [Waiters -> {"user", "check", "sleep", "blocked", "copy", "dead"}]
         /\ \A t \in Waiters : wait_pc'[t] = "copy" <=> wait_pc[t] = "copy"
         /\ QueuedBlocked'
         /\ signalled' \/ \E t \in Waiters : wait_pc'[t] = "check"
<1>1. CASE signalled
  BY Zenon, <1>1 DEF SignalEvent, event_, IopTypeOK, QueuedBlocked
<1>2. CASE ~signalled /\ waitq = <<>>
  BY Zenon, <1>2 DEF SignalEvent, IopTypeOK, QueuedBlocked
<1>3. CASE ~signalled /\ waitq # <<>>
  <2>1. /\ waitq' = Tail(waitq) /\ wait_pc' = [wait_pc EXCEPT ![Head(waitq)] = "check"]
        /\ signalled' = signalled
    BY Zenon, <1>3 DEF SignalEvent
  <2>2. /\ Len(waitq) \in Nat \ {0} /\ Head(waitq) = waitq[1] /\ waitq[1] \in Waiters
        /\ DOMAIN waitq = 1 .. Len(waitq) /\ waitq' \in Seq(Waiters)
        /\ Len(waitq') = Len(waitq) - 1 /\ DOMAIN waitq' = 1 .. Len(waitq')
        /\ \A i \in 1 .. Len(waitq') : waitq'[i] = waitq[i + 1]
    BY <1>3, <2>1 DEF IopTypeOK
  <2>3. wait_pc[waitq[1]] = "blocked"
    BY <2>2 DEF QueuedBlocked
  <2>4. QueuedBlocked'
    <3>1. \A i \in DOMAIN waitq' : i + 1 \in DOMAIN waitq /\ i + 1 # 1 /\ waitq'[i] \in Waiters
      BY <2>2
    <3>2. \A i \in DOMAIN waitq' : waitq'[i] # waitq[1]
      BY <2>2, <3>1 DEF QueuedBlocked
    <3>3. \A i \in DOMAIN waitq' : wait_pc'[waitq'[i]] = "blocked"
      BY <2>1, <2>2, <3>1, <3>2 DEF QueuedBlocked, IopTypeOK
    <3>4. \A i, j \in DOMAIN waitq' : waitq'[i] = waitq'[j] => i = j
      BY <2>2, <3>1 DEF QueuedBlocked
    <3> QED
      BY Zenon, <3>3, <3>4 DEF QueuedBlocked
  <2> QED
    BY Zenon, <2>1, <2>2, <2>3, <2>4 DEF IopTypeOK
<1> QED
  BY Zenon, <1>1, <1>2, <1>3

(* Queueing a packet keeps the invariant. *)
LEMMA QueueStep ==
  ASSUME PortInv, NEW p \in Packet, Queue(p)
  PROVE  PortInv'
<1>1. IopTypeOK /\ NotAllAsleep /\ PacketsAccounted /\ Ordered /\ HoldingAtCopy /\ QueuedBlocked
  BY Zenon DEF PortInv
<1>2. /\ fate[p] = "unmade" /\ \A q \in 1 .. p - 1 : fate[q] # "unmade"
      /\ no_clients' = no_clients /\ holding' = holding /\ killed' = killed
      /\ wait_result' = wait_result /\ received' = received
  BY Zenon DEF Queue, call
<1>3. \A i \in DOMAIN packets : packets[i] \in Packet /\ packets[i] # p /\ packets[i] < p
  <2>1. ASSUME NEW i \in DOMAIN packets
        PROVE  packets[i] \in Packet /\ fate[packets[i]] = "queued"
    BY <1>1 DEF IopTypeOK, PacketsAccounted
  <2>2. \A q \in Packet : fate[q] = "queued" => q # p /\ ~(p < q)
    BY Zenon, <1>1, <1>2 DEF Ordered
  <2> QED
    BY <2>1, <2>2, MaxPacketsAssumption DEF Packet
<1>4. ASSUME NEW f \in Fate, f # "unmade", f # "taken", fate' = [fate EXCEPT ![p] = f]
      PROVE  /\ fate' \in [Packet -> Fate]
             /\ \A q, r \in Packet : fate'[q] = "unmade" /\ q < r => fate'[r] = "unmade"
             /\ \A q \in Packet : fate'[q] = "taken" <=> \E t \in Waiters : holding'[t] = q
  <2>1. fate' \in [Packet -> Fate]
    BY Zenon, <1>1, <1>4 DEF IopTypeOK
  <2>2. \A q, r \in Packet : fate'[q] = "unmade" /\ q < r => fate'[r] = "unmade"
    <3> SUFFICES ASSUME NEW q \in Packet, NEW r \in Packet, fate'[q] = "unmade", q < r
                 PROVE  fate'[r] = "unmade"
      BY Zenon
    <3>1. q # p /\ fate[q] = "unmade"
      BY Zenon, <1>1, <1>4 DEF IopTypeOK
    <3>2. ~(q < p)
      BY <1>2, <3>1, MaxPacketsAssumption DEF Packet
    <3>3. r # p
      BY Zenon, <3>2
    <3> QED
      BY Zenon, <1>1, <1>4, <3>1, <3>3 DEF Ordered, IopTypeOK
  <2>3. \A q \in Packet : fate'[q] = "taken" <=> fate[q] = "taken"
    BY Zenon, <1>1, <1>2, <1>4 DEF IopTypeOK
  <2> QED
    BY <1>1, <1>2, <2>1, <2>2, <2>3 DEF PacketsAccounted
<1>5. CASE no_clients
  <2>1. fate' = [fate EXCEPT ![p] = "deleted"] /\ UNCHANGED <<packets, signalled, waitq, wait_pc>>
    BY Zenon, <1>5 DEF Queue, event_
  <2>2. /\ fate' \in [Packet -> Fate]
        /\ \A q, r \in Packet : fate'[q] = "unmade" /\ q < r => fate'[r] = "unmade"
        /\ \A q \in Packet : fate'[q] = "taken" <=> \E t \in Waiters : holding'[t] = q
    BY Zenon, <1>4, <2>1 DEF Fate
  <2>3. IopTypeOK'
    BY Zenon, <1>1, <1>2, <2>1, <2>2 DEF IopTypeOK
  <2>4. \A q \in Packet : fate'[q] = "queued" <=> fate[q] = "queued"
    BY Zenon, <1>1, <1>2, <2>1 DEF IopTypeOK
  <2>5. PacketsAccounted'
    BY <1>1, <1>2, <2>1, <2>2, <2>4 DEF PacketsAccounted
  <2>6. Ordered'
    BY Zenon, <1>1, <2>1, <2>2 DEF Ordered
  <2>7. NotAllAsleep' /\ HoldingAtCopy' /\ QueuedBlocked'
    BY Zenon, <1>1, <1>2, <2>1 DEF NotAllAsleep, Asleep, HoldingAtCopy, QueuedBlocked
  <2> QED
    BY Zenon, <2>3, <2>5, <2>6, <2>7 DEF PortInv
<1>6. CASE ~no_clients
  <2>1. fate' = [fate EXCEPT ![p] = "queued"] /\ packets' = Append(packets, p) /\ SignalEvent
    BY Zenon, <1>6 DEF Queue
  <2>2. /\ fate' \in [Packet -> Fate]
        /\ \A q, r \in Packet : fate'[q] = "unmade" /\ q < r => fate'[r] = "unmade"
        /\ \A q \in Packet : fate'[q] = "taken" <=> \E t \in Waiters : holding'[t] = q
    BY Zenon, <1>4, <2>1 DEF Fate
  <2>3. /\ signalled' \in BOOLEAN
        /\ waitq' \in Seq(Waiters)
        /\ wait_pc' \in [Waiters -> {"user", "check", "sleep", "blocked", "copy", "dead"}]
        /\ \A t \in Waiters : wait_pc'[t] = "copy" <=> wait_pc[t] = "copy"
        /\ QueuedBlocked'
        /\ signalled' \/ \E t \in Waiters : wait_pc'[t] = "check"
    BY Zenon, <1>1, <2>1, SignalStep
  <2>4. /\ packets' \in Seq(Packet) /\ Len(packets) \in Nat /\ DOMAIN packets = 1 .. Len(packets)
        /\ DOMAIN packets' = 1 .. Len(packets) + 1 /\ packets'[Len(packets) + 1] = p
        /\ \A i \in DOMAIN packets : packets'[i] = packets[i]
    BY <1>1, <2>1 DEF IopTypeOK
  <2>5. IopTypeOK'
    BY Zenon, <1>1, <1>2, <2>2, <2>3, <2>4 DEF IopTypeOK
  <2>6. \A i, j \in DOMAIN packets' : i < j => packets'[i] < packets'[j]
    BY <1>1, <1>3, <2>4 DEF Ordered
  <2>7. \A i, j \in DOMAIN packets' : packets'[i] = packets'[j] => i = j
    BY <1>1, <1>3, <2>4 DEF PacketsAccounted
  <2>8. \A q \in Packet : fate'[q] = "queued" <=> \E i \in DOMAIN packets' : packets'[i] = q
    <3> SUFFICES ASSUME NEW q \in Packet
                 PROVE  fate'[q] = "queued" <=> \E i \in DOMAIN packets' : packets'[i] = q
      BY Zenon
    <3>1. CASE q = p
      <4>1. fate'[p] = "queued"
        BY Zenon, <1>1, <2>1 DEF IopTypeOK
      <4>2. Len(packets) + 1 \in DOMAIN packets'
        BY <2>4
      <4> QED
        BY Zenon, <2>4, <3>1, <4>1, <4>2
    <3>2. CASE q # p
      <4>1. fate'[q] = fate[q]
        BY Zenon, <1>1, <2>1, <3>2 DEF IopTypeOK
      <4>2. (\E i \in DOMAIN packets' : packets'[i] = q) <=> (\E i \in DOMAIN packets : packets[i] = q)
        BY <2>4, <3>2
      <4> QED
        BY Zenon, <1>1, <4>1, <4>2 DEF PacketsAccounted
    <3> QED
      BY Zenon, <3>1, <3>2
  <2>9. PacketsAccounted' /\ Ordered'
    BY <1>1, <1>2, <1>6, <2>2, <2>6, <2>7, <2>8 DEF PacketsAccounted, Ordered
  <2>10. NotAllAsleep'
    BY Zenon, <2>3 DEF NotAllAsleep, Asleep
  <2>11. HoldingAtCopy'
    BY Zenon, <1>1, <1>2, <2>3 DEF HoldingAtCopy
  <2> QED
    BY Zenon, <2>3, <2>5, <2>9, <2>10, <2>11 DEF PortInv
<1> QED
  BY Zenon, <1>5, <1>6

(* A step that leaves the packets alone and keeps copying threads copying. *)
LEMMA ThreadStep ==
  ASSUME PortInv, UNCHANGED <<packets, no_clients, holding, fate>>,
         signalled' \in BOOLEAN, waitq' \in Seq(Waiters),
         wait_pc' \in [Waiters -> {"user", "check", "sleep", "blocked", "copy", "dead"}],
         killed' \in SUBSET Mortal,
         wait_result' \in [Waiters -> Status], received' \in [Waiters -> 0 .. MaxPackets],
         \A t \in Waiters : wait_pc'[t] = "copy" <=> wait_pc[t] = "copy",
         QueuedBlocked', NotAllAsleep'
  PROVE  PortInv'
<1>1. IopTypeOK /\ PacketsAccounted /\ Ordered /\ HoldingAtCopy
  BY Zenon DEF PortInv
<1>2. IopTypeOK'
  BY Zenon, <1>1 DEF IopTypeOK
<1>3. PacketsAccounted' /\ Ordered'
  BY <1>1 DEF PacketsAccounted, Ordered
<1>4. HoldingAtCopy'
  BY Zenon, <1>1 DEF HoldingAtCopy
<1> QED
  BY Zenon, <1>2, <1>3, <1>4 DEF PortInv

(* Calling io_port_wait, and exiting, keep it. *)
LEMMA CallExitStep ==
  ASSUME PortInv, NEW t \in Waiters, CallWait(t) \/ Exit(t)
  PROVE  PortInv'
<1>1. IopTypeOK /\ NotAllAsleep /\ QueuedBlocked
  BY Zenon DEF PortInv
<1>2. /\ UNCHANGED <<packets, no_clients, holding, fate, signalled, waitq, killed>>
      /\ wait_pc[t] = "user"
  BY Zenon DEF CallWait, Exit, event_
<1>3. PICK s \in {"check", "dead"} : wait_pc' = [wait_pc EXCEPT ![t] = s]
  BY Zenon DEF CallWait, Exit
<1>4. wait_result' \in [Waiters -> Status] /\ received' \in [Waiters -> 0 .. MaxPackets]
  <2>1. 0 \in 0 .. MaxPackets /\ "none" \in Status
    BY MaxPacketsAssumption DEF Status
  <2>2. CASE CallWait(t)
    BY Zenon, <1>1, <2>1, <2>2 DEF CallWait, IopTypeOK
  <2>3. CASE Exit(t)
    BY Zenon, <1>1, <2>3 DEF Exit, IopTypeOK, call
  <2> QED
    BY Zenon, <2>2, <2>3
<1>5. QueuedBlocked'
  BY <1>1, <1>2, <1>3 DEF QueuedBlocked, IopTypeOK
<1>6. NotAllAsleep'
  BY Zenon, <1>1, <1>3 DEF NotAllAsleep, Asleep, IopTypeOK
<1>7. /\ wait_pc' \in [Waiters -> {"user", "check", "sleep", "blocked", "copy", "dead"}]
      /\ \A u \in Waiters : wait_pc'[u] = "copy" <=> wait_pc[u] = "copy"
      /\ signalled' \in BOOLEAN /\ waitq' \in Seq(Waiters) /\ killed' \in SUBSET Mortal
  BY Zenon, <1>1, <1>2, <1>3 DEF IopTypeOK
<1> QED
  BY Zenon, <1>2, <1>4, <1>5, <1>6, <1>7, ThreadStep

(* Sleeping on the event keeps it. *)
LEMMA EventWaitStep ==
  ASSUME PortInv, NEW t \in Waiters, EventWait(t)
  PROVE  PortInv'
<1>1. IopTypeOK /\ NotAllAsleep /\ QueuedBlocked
  BY Zenon DEF PortInv
<1>2. wait_pc[t] = "sleep" /\ UNCHANGED <<packets, no_clients, holding, killed, received, fate>>
  BY Zenon DEF EventWait
<1>3. CASE waitq' = waitq
  <2>1. PICK s \in {"user", "check"} : wait_pc' = [wait_pc EXCEPT ![t] = s]
    <3>1. waitq # Append(waitq, t)
      BY <1>1 DEF IopTypeOK
    <3> QED
      BY Zenon, <1>3, <3>1 DEF EventWait
  <2>2. wait_result' \in [Waiters -> Status] /\ received' \in [Waiters -> 0 .. MaxPackets]
    BY Zenon, <1>1, <1>2 DEF EventWait, IopTypeOK, Status
  <2>3. signalled' \in BOOLEAN
    BY Zenon, <1>1 DEF EventWait, IopTypeOK, event_
  <2>4. QueuedBlocked'
    BY <1>1, <1>2, <1>3, <2>1 DEF QueuedBlocked, IopTypeOK
  <2>5. NotAllAsleep'
    BY Zenon, <1>1, <2>1 DEF NotAllAsleep, Asleep, IopTypeOK
  <2>6. /\ wait_pc' \in [Waiters -> {"user", "check", "sleep", "blocked", "copy", "dead"}]
        /\ \A u \in Waiters : wait_pc'[u] = "copy" <=> wait_pc[u] = "copy"
        /\ waitq' \in Seq(Waiters) /\ killed' \in SUBSET Mortal
    BY Zenon, <1>1, <1>2, <1>3, <2>1 DEF IopTypeOK
  <2> QED
    BY Zenon, <1>2, <2>2, <2>3, <2>4, <2>5, <2>6, ThreadStep
<1>4. CASE waitq' # waitq
  <2>1. /\ waitq' = Append(waitq, t) /\ wait_pc' = [wait_pc EXCEPT ![t] = "blocked"] /\ ~signalled
        /\ signalled' = signalled /\ wait_result' = wait_result
    BY Zenon, <1>4 DEF EventWait, event_
  <2>2. /\ waitq' \in Seq(Waiters) /\ Len(waitq) \in Nat /\ DOMAIN waitq = 1 .. Len(waitq)
        /\ DOMAIN waitq' = 1 .. Len(waitq) + 1 /\ waitq'[Len(waitq) + 1] = t
        /\ \A i \in DOMAIN waitq : waitq'[i] = waitq[i] /\ waitq[i] \in Waiters
    BY <1>1, <2>1 DEF IopTypeOK
  <2>3. \A i \in DOMAIN waitq : waitq[i] # t
    BY Zenon, <1>1, <1>2 DEF QueuedBlocked
  <2>4. QueuedBlocked'
    <3>1. \A i \in DOMAIN waitq' : i \in DOMAIN waitq \/ i = Len(waitq) + 1
      BY <2>2
    <3>2. \A i \in DOMAIN waitq' : wait_pc'[waitq'[i]] = "blocked"
      BY <1>1, <2>1, <2>2, <2>3, <3>1 DEF QueuedBlocked, IopTypeOK
    <3>3. \A i, j \in DOMAIN waitq' : waitq'[i] = waitq'[j] => i = j
      BY Zenon, <1>1, <2>2, <2>3, <3>1 DEF QueuedBlocked
    <3> QED
      BY Zenon, <3>2, <3>3 DEF QueuedBlocked
  <2>5. NotAllAsleep'
    BY Zenon, <1>1, <1>2, <2>1 DEF NotAllAsleep, Asleep, IopTypeOK
  <2>6. /\ wait_pc' \in [Waiters -> {"user", "check", "sleep", "blocked", "copy", "dead"}]
        /\ \A u \in Waiters : wait_pc'[u] = "copy" <=> wait_pc[u] = "copy"
        /\ signalled' \in BOOLEAN /\ killed' \in SUBSET Mortal
        /\ wait_result' \in [Waiters -> Status] /\ received' \in [Waiters -> 0 .. MaxPackets]
    BY Zenon, <1>1, <1>2, <2>1 DEF IopTypeOK
  <2> QED
    BY Zenon, <1>2, <2>2, <2>4, <2>5, <2>6, ThreadStep
<1> QED
  BY Zenon, <1>3, <1>4

(* Killing a thread keeps it. *)
LEMMA KillStep ==
  ASSUME PortInv, NEW t \in Waiters, Kill(t)
  PROVE  PortInv'
<1>1. IopTypeOK /\ NotAllAsleep /\ QueuedBlocked
  BY DEF PortInv
<1>2. /\ UNCHANGED <<packets, no_clients, holding, received, fate, signalled>>
      /\ killed' \in SUBSET Mortal
  BY Zenon, <1>1 DEF Kill, IopTypeOK
<1>3. CASE wait_pc[t] = "blocked"
  <2>1. PICK i \in DOMAIN waitq : waitq[i] = t /\ waitq' = Without(waitq, i)
    BY Zenon, <1>3 DEF Kill
  <2>2. wait_pc' = [wait_pc EXCEPT ![t] = "user"] /\ wait_result' = [wait_result EXCEPT ![t] = "ERR_INTERRUPTED"]
    BY Zenon, <1>3 DEF Kill
  <2>3. Len(waitq) \in Nat \ {0} /\ DOMAIN waitq = 1 .. Len(waitq) /\ waitq \in [1 .. Len(waitq) -> Waiters]
    BY <1>1, <2>1 DEF IopTypeOK
  <2>4. /\ DOMAIN waitq' = 1 .. Len(waitq) - 1
        /\ \A j \in DOMAIN waitq' : waitq'[j] = IF j < i THEN waitq[j] ELSE waitq[j + 1]
    BY Zenon, <2>1 DEF Without
  <2>5. \A j \in 1 .. Len(waitq) - 1 : j \in DOMAIN waitq /\ j + 1 \in DOMAIN waitq
    BY <2>3
  <2>6. waitq' \in [1 .. Len(waitq) - 1 -> Waiters]
    BY Zenon, <2>1, <2>3, <2>5 DEF Without
  <2>7. waitq' \in Seq(Waiters)
    <3>1. Len(waitq) - 1 \in Nat
      BY <2>3
    <3> QED
      BY <2>6, <3>1
  <2>8. QueuedBlocked'
    <3> DEFINE from(j) == IF j < i THEN j ELSE j + 1
    <3>1. ASSUME NEW j \in DOMAIN waitq'
          PROVE  from(j) \in DOMAIN waitq /\ waitq'[j] = waitq[from(j)] /\ from(j) # i
      BY <2>1, <2>3, <2>4
    <3>2. \A j, k \in DOMAIN waitq' : from(j) = from(k) => j = k
      BY <2>1, <2>3, <2>4
    <3> HIDE DEF from
    <3>3. \A j \in DOMAIN waitq' : waitq'[j] # t
      BY Zenon, <1>1, <2>1, <3>1 DEF QueuedBlocked
    <3>4. \A j \in DOMAIN waitq' : wait_pc'[waitq'[j]] = "blocked"
      BY <1>1, <2>2, <2>3, <3>1, <3>3 DEF QueuedBlocked, IopTypeOK
    <3>5. \A j, k \in DOMAIN waitq' : waitq'[j] = waitq'[k] => j = k
      BY <1>1, <3>1, <3>2 DEF QueuedBlocked
    <3> QED
      BY Zenon, <3>4, <3>5 DEF QueuedBlocked
  <2>9. NotAllAsleep'
    BY Zenon, <1>1, <2>2 DEF NotAllAsleep, Asleep, IopTypeOK
  <2>10. /\ wait_pc' \in [Waiters -> {"user", "check", "sleep", "blocked", "copy", "dead"}]
         /\ \A u \in Waiters : wait_pc'[u] = "copy" <=> wait_pc[u] = "copy"
         /\ signalled' \in BOOLEAN
         /\ wait_result' \in [Waiters -> Status] /\ received' \in [Waiters -> 0 .. MaxPackets]
    BY Zenon, <1>1, <1>2, <1>3, <2>2 DEF IopTypeOK, Status
  <2> QED
    BY Zenon, <1>2, <2>7, <2>8, <2>9, <2>10, ThreadStep
<1>4. CASE wait_pc[t] # "blocked"
  <2>1. UNCHANGED <<waitq, wait_pc, wait_result>>
    BY Zenon, <1>4 DEF Kill
  <2>2. QueuedBlocked' /\ NotAllAsleep'
    BY Zenon, <1>1, <1>2, <2>1 DEF QueuedBlocked, NotAllAsleep, Asleep
  <2> QED
    BY Zenon, <1>1, <1>2, <2>1, <2>2, ThreadStep DEF IopTypeOK
<1> QED
  BY Zenon, <1>3, <1>4

(* Copying a packet out keeps it. *)
LEMMA CopyStep ==
  ASSUME PortInv, NEW t \in Waiters, CopyToUser(t)
  PROVE  PortInv'
<1>1. IopTypeOK /\ NotAllAsleep /\ PacketsAccounted /\ Ordered /\ HoldingAtCopy /\ QueuedBlocked
  BY Zenon DEF PortInv
<1>2. /\ wait_pc[t] = "copy" /\ UNCHANGED <<packets, no_clients, signalled, waitq, killed>>
      /\ holding' = [holding EXCEPT ![t] = 0] /\ wait_pc' = [wait_pc EXCEPT ![t] = "user"]
  BY Zenon DEF CopyToUser, event_
<1>3. PICK f \in {"deleted", "leaked"} : fate' = [fate EXCEPT ![holding[t]] = f]
  BY Zenon DEF CopyToUser
<1>4. wait_result' \in [Waiters -> Status] /\ received' \in [Waiters -> 0 .. MaxPackets]
  BY Zenon, <1>1 DEF CopyToUser, IopTypeOK, Status
<1>5. holding[t] \in Packet /\ fate[holding[t]] = "taken"
  <2>1. holding[t] \in 0 .. MaxPackets /\ holding[t] # 0
    BY Zenon, <1>1, <1>2 DEF HoldingAtCopy, IopTypeOK
  <2>2. holding[t] \in Packet
    BY <2>1, MaxPacketsAssumption DEF Packet
  <2> QED
    BY Zenon, <1>1, <2>2 DEF PacketsAccounted
<1>6. IopTypeOK'
  <2>1. holding' \in [Waiters -> 0 .. MaxPackets]
    BY <1>1, <1>2, MaxPacketsAssumption DEF IopTypeOK
  <2>2. /\ wait_pc' \in [Waiters -> {"user", "check", "sleep", "blocked", "copy", "dead"}]
        /\ fate' \in [Packet -> Fate]
    BY Zenon, <1>1, <1>2, <1>3 DEF IopTypeOK, Fate
  <2> QED
    BY Zenon, <1>1, <1>2, <1>4, <2>1, <2>2 DEF IopTypeOK
<1>7. PacketsAccounted'
  <2>1. \A q \in Packet : fate'[q] = "queued" <=> fate[q] = "queued"
    BY Zenon, <1>1, <1>3, <1>5 DEF IopTypeOK
  <2>2. \A q \in Packet : fate'[q] = "taken" <=> fate[q] = "taken" /\ q # holding[t]
    BY Zenon, <1>1, <1>3, <1>5 DEF IopTypeOK
  <2>3. \A u \in Waiters : holding'[u] = IF u = t THEN 0 ELSE holding[u]
    BY Zenon, <1>1, <1>2 DEF IopTypeOK
  <2>4. \A q \in Packet : q # 0
    BY DEF Packet
  <2>5. \A q \in Packet : fate'[q] = "taken" <=> \E u \in Waiters : holding'[u] = q
    BY <1>1, <1>5, <2>2, <2>3, <2>4 DEF PacketsAccounted
  <2>6. \A u, v \in Waiters : holding'[u] = holding'[v] /\ holding'[u] # 0 => u = v
    BY <1>1, <2>3 DEF PacketsAccounted
  <2> QED
    BY <1>1, <1>2, <2>1, <2>5, <2>6 DEF PacketsAccounted
<1>8. Ordered'
  BY Zenon, <1>1, <1>2, <1>3, <1>5 DEF Ordered, IopTypeOK
<1>9. HoldingAtCopy'
  BY Zenon, <1>1, <1>2 DEF HoldingAtCopy, IopTypeOK
<1>10. QueuedBlocked' /\ NotAllAsleep'
  BY <1>1, <1>2 DEF QueuedBlocked, NotAllAsleep, Asleep, IopTypeOK
<1> QED
  BY Zenon, <1>6, <1>7, <1>8, <1>9, <1>10 DEF PortInv

(* The head of the queue is the earliest queued packet, and in it only once. *)
LEMMA HeadIsEarliest ==
  ASSUME IopTypeOK, PacketsAccounted, Ordered, packets # <<>>
  PROVE  /\ Head(packets) \in Packet
         /\ Head(packets) = packets[1]
         /\ fate[Head(packets)] = "queued"
         /\ \A p \in Packet : fate[p] = "queued" => Head(packets) <= p
         /\ Tail(packets) \in Seq(Packet)
         /\ DOMAIN Tail(packets) = 1 .. Len(packets) - 1
         /\ \A i \in 1 .. Len(packets) - 1 :
               /\ Tail(packets)[i] = packets[i + 1] /\ i + 1 \in DOMAIN packets
               /\ packets[i + 1] # Head(packets)
         /\ \A i \in DOMAIN packets : i = 1 \/ (i - 1 \in 1 .. Len(packets) - 1 /\ (i - 1) + 1 = i)
<1>1. /\ Len(packets) \in Nat \ {0} /\ DOMAIN packets = 1 .. Len(packets) /\ Head(packets) = packets[1]
      /\ Tail(packets) \in Seq(Packet) /\ DOMAIN Tail(packets) = 1 .. Len(packets) - 1
      /\ \A i \in 1 .. Len(packets) - 1 : Tail(packets)[i] = packets[i + 1]
      /\ \A i \in DOMAIN packets : packets[i] \in Packet
  BY DEF IopTypeOK
<1>2. 1 \in DOMAIN packets
  BY <1>1
<1>3. \A i \in DOMAIN packets : 1 < i => packets[1] < packets[i]
  BY Zenon, <1>2 DEF Ordered
<1>4. \A i \in DOMAIN packets : i = 1 \/ 1 < i
  BY <1>1
<1>5. \A i \in DOMAIN packets : packets[1] <= packets[i]
  BY <1>1, <1>2, <1>3, <1>4, MaxPacketsAssumption DEF Packet
<1>6. \A p \in Packet : fate[p] = "queued" => packets[1] <= p
  BY <1>5 DEF PacketsAccounted
<1>7. \A i \in 1 .. Len(packets) - 1 : i + 1 \in DOMAIN packets /\ i + 1 # 1
  BY <1>1
<1>8. \A i \in 1 .. Len(packets) - 1 : packets[i + 1] # packets[1]
  BY <1>2, <1>7 DEF PacketsAccounted
<1>9. \A i \in DOMAIN packets : i = 1 \/ (i - 1 \in 1 .. Len(packets) - 1 /\ (i - 1) + 1 = i)
  BY <1>1
<1>10. fate[packets[1]] = "queued"
  BY Zenon, <1>1, <1>2 DEF PacketsAccounted
<1> QED
  BY Zenon, <1>1, <1>2, <1>6, <1>7, <1>8, <1>9, <1>10

(* Looking at the queue keeps it. *)
LEMMA CheckStep ==
  ASSUME PortInv, NEW t \in Waiters, CheckQueue(t)
  PROVE  PortInv'
<1>1. IopTypeOK /\ NotAllAsleep /\ PacketsAccounted /\ Ordered /\ HoldingAtCopy /\ QueuedBlocked
  BY DEF PortInv
<1>2. wait_pc[t] = "check" /\ UNCHANGED <<no_clients, signalled, waitq, killed, wait_result, received>>
  BY Zenon DEF CheckQueue, event_, call
<1>3. CASE packets = <<>>
  <2>1. wait_pc' = [wait_pc EXCEPT ![t] = "sleep"] /\ UNCHANGED <<packets, holding, fate>>
    BY Zenon, <1>3 DEF CheckQueue
  <2>2. NotAllAsleep'
    BY Zenon, <1>3, <2>1 DEF NotAllAsleep
  <2>3. QueuedBlocked'
    BY <1>1, <1>2, <2>1 DEF QueuedBlocked, IopTypeOK
  <2>4. /\ wait_pc' \in [Waiters -> {"user", "check", "sleep", "blocked", "copy", "dead"}]
        /\ \A u \in Waiters : wait_pc'[u] = "copy" <=> wait_pc[u] = "copy"
    BY Zenon, <1>1, <1>2, <2>1 DEF IopTypeOK
  <2> QED
    BY Zenon, <1>1, <1>2, <2>1, <2>2, <2>3, <2>4, ThreadStep DEF IopTypeOK
<1>4. CASE packets # <<>>
  <2> DEFINE h == Head(packets)
  <2>1. /\ packets' = Tail(packets) /\ holding' = [holding EXCEPT ![t] = h]
        /\ fate' = [fate EXCEPT ![h] = "taken"] /\ wait_pc' = [wait_pc EXCEPT ![t] = "copy"]
    BY Zenon, <1>4 DEF CheckQueue
  <2>2. /\ h \in Packet /\ fate[h] = "queued"
        /\ packets' \in Seq(Packet) /\ DOMAIN packets' = 1 .. Len(packets) - 1
        /\ \A i \in DOMAIN packets' : /\ packets'[i] = packets[i + 1] /\ i + 1 \in DOMAIN packets
                                      /\ packets[i + 1] # h
        /\ \A i \in DOMAIN packets : i = 1 \/ (i - 1 \in DOMAIN packets' /\ (i - 1) + 1 = i)
        /\ h = packets[1]
    BY Zenon, <1>1, <1>4, <2>1, HeadIsEarliest
  <2>3. holding[t] = 0 /\ h # 0 /\ \A u \in Waiters : holding[u] # h
    <3>1. holding[t] = 0
      BY Zenon, <1>1, <1>2 DEF HoldingAtCopy
    <3>2. h # 0
      BY <2>2 DEF Packet
    <3>3. \A u \in Waiters : holding[u] # h
      BY Zenon, <1>1, <2>2 DEF PacketsAccounted
    <3> QED
      BY Zenon, <3>1, <3>2, <3>3
  <2> HIDE DEF h
  <2>4. IopTypeOK'
    <3>1. h \in 0 .. MaxPackets
      BY <2>2, MaxPacketsAssumption DEF Packet
    <3>2. /\ holding' \in [Waiters -> 0 .. MaxPackets] /\ fate' \in [Packet -> Fate]
          /\ wait_pc' \in [Waiters -> {"user", "check", "sleep", "blocked", "copy", "dead"}]
      BY Zenon, <1>1, <2>1, <3>1 DEF IopTypeOK, Fate
    <3> QED
      BY Zenon, <1>1, <1>2, <2>2, <3>2 DEF IopTypeOK
  <2>5. \A q \in Packet : fate'[q] = IF q = h THEN "taken" ELSE fate[q]
    BY Zenon, <1>1, <2>1 DEF IopTypeOK
  <2>6. \A u \in Waiters : holding'[u] = IF u = t THEN h ELSE holding[u]
    BY Zenon, <1>1, <2>1 DEF IopTypeOK
  <2>7. PacketsAccounted'
    <3>1. \A i, j \in DOMAIN packets' : packets'[i] = packets'[j] => i = j
      <4>1. \A i, j \in DOMAIN packets' : i + 1 = j + 1 => i = j
        BY <2>2
      <4> QED
        BY <1>1, <2>2, <4>1 DEF PacketsAccounted
    <3>2. \A u, v \in Waiters : holding'[u] = holding'[v] /\ holding'[u] # 0 => u = v
      BY <1>1, <2>3, <2>6 DEF PacketsAccounted
    <3>3. ASSUME NEW q \in Packet
          PROVE  fate'[q] = "queued" <=> \E i \in DOMAIN packets' : packets'[i] = q
      <4>1. fate'[q] = "queued" <=> q # h /\ \E i \in DOMAIN packets : packets[i] = q
        BY <1>1, <2>2, <2>5 DEF PacketsAccounted
      <4> QED
        BY <2>2, <4>1
    <3>4. \A q \in Packet : fate'[q] = "taken" <=> \E u \in Waiters : holding'[u] = q
      BY <1>1, <2>2, <2>3, <2>5, <2>6 DEF PacketsAccounted, Packet
    <3>5. no_clients' => packets' = <<>>
      BY Zenon, <1>1, <1>2, <1>4 DEF PacketsAccounted
    <3> QED
      BY Zenon, <3>1, <3>2, <3>3, <3>4, <3>5 DEF PacketsAccounted
  <2>8. Ordered'
    <3>1. \A i, j \in DOMAIN packets' : i < j => i + 1 < j + 1
      BY <2>2
    <3>2. \A i, j \in DOMAIN packets' : i < j => packets'[i] < packets'[j]
      BY <1>1, <2>2, <3>1 DEF Ordered
    <3>3. \A p, q \in Packet : fate'[p] = "unmade" /\ p < q => fate'[q] = "unmade"
      BY <1>1, <2>2, <2>5 DEF Ordered
    <3> QED
      BY Zenon, <3>2, <3>3 DEF Ordered
  <2>9. HoldingAtCopy'
    BY Zenon, <1>1, <2>1, <2>3, <2>6 DEF HoldingAtCopy, IopTypeOK
  <2>10. QueuedBlocked' /\ NotAllAsleep'
    BY <1>1, <1>2, <2>1 DEF QueuedBlocked, NotAllAsleep, Asleep, IopTypeOK
  <2> QED
    BY Zenon, <2>4, <2>7, <2>8, <2>9, <2>10 DEF PortInv
<1> QED
  BY Zenon, <1>3, <1>4

(* Freeing the packets with the last handle keeps it. *)
LEMMA ZeroHandlesStep ==
  ASSUME PortInv, on_zero_handles
  PROVE  PortInv'
<1>1. IopTypeOK /\ NotAllAsleep /\ PacketsAccounted /\ Ordered /\ HoldingAtCopy /\ QueuedBlocked
  BY Zenon DEF PortInv
<1>2. /\ no_clients' = TRUE /\ packets' = <<>>
      /\ fate' = [p \in Packet |-> IF fate[p] = "queued" THEN "deleted" ELSE fate[p]]
      /\ UNCHANGED <<signalled, waitq, wait_pc, holding, killed, wait_result, received>>
  BY Zenon DEF on_zero_handles, event_, call
<1>3. fate' \in [Packet -> Fate] /\ packets' \in Seq(Packet) /\ no_clients' \in BOOLEAN
  BY <1>1, <1>2 DEF IopTypeOK, Fate
<1>4. IopTypeOK'
  BY Zenon, <1>1, <1>2, <1>3 DEF IopTypeOK
<1>5. PacketsAccounted'
  <2>1. \A p \in Packet : fate'[p] # "queued" /\ (fate'[p] = "taken" <=> fate[p] = "taken")
    BY Zenon, <1>2
  <2> QED
    BY <1>1, <1>2, <2>1 DEF PacketsAccounted
<1>6. Ordered'
  BY <1>1, <1>2 DEF Ordered
<1>7. NotAllAsleep' /\ HoldingAtCopy' /\ QueuedBlocked'
  BY Zenon, <1>1, <1>2 DEF NotAllAsleep, HoldingAtCopy, QueuedBlocked
<1> QED
  BY Zenon, <1>4, <1>5, <1>6, <1>7 DEF PortInv

(* Every step keeps the invariant. *)
LEMMA PortStep == PortInv /\ [IopNext]_iopVars => PortInv'
<1> SUFFICES ASSUME PortInv, [IopNext]_iopVars PROVE PortInv'
  OBVIOUS
<1>1. CASE UNCHANGED iopVars
  BY <1>1 DEF iopVars, event_, call, PortInv, IopTypeOK, NotAllAsleep, Asleep, PacketsAccounted, Ordered,
              HoldingAtCopy, QueuedBlocked
<1>2. CASE IopNext
  BY Zenon, <1>2, QueueStep, CallExitStep, CheckStep, EventWaitStep, CopyStep, KillStep, ZeroHandlesStep
     DEF IopNext, InPortWait
<1> QED
  BY Zenon, <1>1, <1>2

(* The invariant holds in every reachable state. *)
LEMMA PortInvAlways == IopSpec => []PortInv
  BY PortInit, PortStep, PTL DEF IopSpec

(* For any number of threads and packets the threads of a port are never all  *)
(* asleep while a packet is queued and no signal is pending.                  *)
THEOREM NeverAllAsleep == IopSpec => []NotAllAsleep
  BY PortInvAlways, PTL DEF PortInv

(* Every packet is queued once, in the hands of one thread, or gone. *)
THEOREM PacketsAlwaysAccounted == IopSpec => []PacketsAccounted
  BY PortInvAlways, PTL DEF PortInv

(* A waiter always takes the earliest packet there is. *)
THEOREM PortIsFIFO == IopSpec => FIFO
<1>1. PortInv /\ [IopNext]_iopVars => [TakesEarliest]_iopVars
  <2> SUFFICES ASSUME PortInv, IopNext, NEW t \in Waiters, holding'[t] # holding[t], holding'[t] # 0,
                      NEW p \in Packet, fate[p] = "queued"
               PROVE  holding'[t] <= p
    BY Zenon DEF TakesEarliest
  <2>1. IopTypeOK /\ PacketsAccounted /\ Ordered
    BY Zenon DEF PortInv
  <2>2. PICK u \in Waiters : CheckQueue(u) /\ packets # <<>>
    BY Zenon, <2>1 DEF IopNext, InPortWait, Queue, CallWait, CheckQueue, EventWait, CopyToUser, Kill, Exit,
                on_zero_handles, IopTypeOK
  <2>3. holding' = [holding EXCEPT ![u] = Head(packets)]
    BY Zenon, <2>2 DEF CheckQueue
  <2>4. holding'[t] = Head(packets)
    BY Zenon, <2>1, <2>3 DEF IopTypeOK
  <2> QED
    BY Zenon, <2>1, <2>2, <2>4, HeadIsEarliest
<1> QED
  BY <1>1, PortInvAlways, PTL DEF IopSpec, FIFO
=============================================================================
