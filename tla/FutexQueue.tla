---------------------------- MODULE FutexQueue ------------------------------
(***************************************************************************)
(* What futexes promise: a queue of sleeping threads per address, joined    *)
(* only while the word there holds the expected value, from which threads   *)
(* are woken or moved in the order in which they came.  A thread that was   *)
(* woken reports success even if its timeout expires as well.               *)
(***************************************************************************)
EXTENDS Naturals, Sequences

CONSTANTS Threads, Keys, Values

VARIABLES word,     \* the futex words, in user memory
          queue,    \* the threads that sleep on each word
          status,   \* "user", "waiting", or "woken" but not yet returned
          result    \* what a thread's last wait returned

fqVars == <<word, queue, status, result>>

FQInit ==
  /\ word \in [Keys -> Values]
  /\ queue = [k \in Keys |-> <<>>]
  /\ status = [t \in Threads |-> "user"]
  /\ result = [t \in Threads |-> "none"]

(* A count is at most the length: larger ones do no more. *)
Counts(s) == 0 .. Len(s)

First(s, n) == SubSeq(s, 1, n)
Rest(s, n) == SubSeq(s, n + 1, Len(s))
Without(s, i) == First(s, i - 1) \o Rest(s, i)

Awake(woken) ==
  status' = [t \in Threads |-> IF \E i \in DOMAIN woken : woken[i] = t THEN "woken" ELSE status[t]]

Store(k, v) ==
  /\ word' = [word EXCEPT ![k] = v]
  /\ UNCHANGED <<result, status, queue>>

Wait(t, k, v) ==
  /\ status[t] = "user"
  /\ word[k] = v
  /\ UNCHANGED word
  /\ result' = [result EXCEPT ![t] = "none"]
  /\ status' = [status EXCEPT ![t] = "waiting"]
  /\ queue' = [queue EXCEPT ![k] = Append(@, t)]

Wake(k, n) ==
  /\ UNCHANGED <<word, result>>
  /\ Awake(First(queue[k], n))
  /\ queue' = [queue EXCEPT ![k] = Rest(@, n)]

(* The caller's expected value is the word's, whatever it is. *)
Requeue(k, n, j, m) ==
  /\ UNCHANGED <<word, result>>
  /\ Awake(First(queue[k], n))
  /\ queue' = [queue EXCEPT ![k] = Rest(@, n + m),
                            ![j] = @ \o First(Rest(queue[k], n), m)]

Succeed(t) ==
  /\ status[t] = "woken"
  /\ result' = [result EXCEPT ![t] = "ok"]
  /\ status' = [status EXCEPT ![t] = "user"]
  /\ UNCHANGED <<word, queue>>

TimeOut(t) ==
  /\ status[t] = "waiting"
  /\ UNCHANGED word
  /\ result' = [result EXCEPT ![t] = "timedout"]
  /\ status' = [status EXCEPT ![t] = "user"]
  /\ \E k \in Keys : \E i \in DOMAIN queue[k] :
       /\ queue[k][i] = t
       /\ queue' = [queue EXCEPT ![k] = Without(@, i)]

Move(k) ==
  \E n \in Counts(queue[k]) :
    \/ Wake(k, n)
    \/ \E j \in Keys \ {k}, m \in Counts(Rest(queue[k], n)) : Requeue(k, n, j, m)

FQNext ==
  \/ \E k \in Keys, v \in Values : Store(k, v)
  \/ \E t \in Threads : \/ Succeed(t)
                        \/ TimeOut(t)
                        \/ \E k \in Keys, v \in Values : Wait(t, k, v)
  \/ \E k \in Keys : Move(k)

FQStep == UNCHANGED fqVars \/ FQNext

FQSpec == FQInit /\ [][FQNext]_fqVars
=============================================================================
