-------------------------- MODULE MessagePipeProofs --------------------------
(***************************************************************************)
(* Proofs about MessagePipe, for any number of threads, handles and        *)
(* messages: that it implements Channel.                                   *)
(***************************************************************************)
EXTENDS MessagePipe, TLAPS

-----------------------------------------------------------------------------
(* Sequences. *)
LEMMA SeqEqual ==
  ASSUME NEW S, NEW q \in Seq(S), NEW r \in Seq(S),
         Len(q) = Len(r), \A i \in 1 .. Len(q) : q[i] = r[i]
  PROVE  q = r
  OBVIOUS

LEMMA ConcatParts ==
  ASSUME NEW S, NEW q \in Seq(S), NEW r \in Seq(S)
  PROVE  /\ q \o r \in Seq(S) /\ Len(q \o r) = Len(q) + Len(r)
         /\ \A i \in 1 .. Len(q) + Len(r) :
               (q \o r)[i] = IF i <= Len(q) THEN q[i] ELSE r[i - Len(q)]
  OBVIOUS

LEMMA ConcatAssociative ==
  ASSUME NEW S, NEW q \in Seq(S), NEW r \in Seq(S), NEW s \in Seq(S)
  PROVE  (q \o r) \o s = q \o (r \o s)
  OBVIOUS

LEMMA ConcatEmpty ==
  ASSUME NEW S, NEW q \in Seq(S)
  PROVE  q \o <<>> = q /\ <<>> \o q = q
  OBVIOUS

(* Lists without repetitions. *)
LEMMA EmptyFacts ==
  ASSUME NEW x
  PROVE  Range(<<>>) = {} /\ IsInjective(<<>>) /\ Range(<<x>>) = {x} /\ IsInjective(<<x>>)
  BY DEF Range, IsInjective

LEMMA AppendFacts ==
  ASSUME NEW S, NEW q \in Seq(S), NEW e \in S
  PROVE  /\ Append(q, e) \in Seq(S) /\ Append(q, e) # <<>>
         /\ Len(Append(q, e)) = Len(q) + 1
         /\ Range(Append(q, e)) = Range(q) \cup {e}
         /\ IsInjective(q) /\ e \notin Range(q) => IsInjective(Append(q, e))
<1>1. /\ Append(q, e) \in Seq(S) /\ Append(q, e) # <<>> /\ Len(Append(q, e)) = Len(q) + 1
      /\ \A i \in 1 .. Len(q) : Append(q, e)[i] = q[i]
      /\ Append(q, e)[Len(q) + 1] = e
  OBVIOUS
<1>2. /\ Len(q) \in Nat /\ DOMAIN q = 1 .. Len(q) /\ DOMAIN Append(q, e) = 1 .. Len(q) + 1
  BY <1>1
<1>3. Range(Append(q, e)) = Range(q) \cup {e}
  BY <1>1, <1>2 DEF Range
<1>4. ASSUME IsInjective(q), e \notin Range(q) PROVE IsInjective(Append(q, e))
  <2>1. ASSUME NEW i \in 1 .. Len(q) + 1, NEW j \in 1 .. Len(q) + 1, Append(q, e)[i] = Append(q, e)[j]
        PROVE  i = j
    <3>1. \A k \in 1 .. Len(q) : Append(q, e)[k] = q[k] /\ q[k] # e
      BY Zenon, <1>1, <1>2, <1>4 DEF Range
    <3>2. CASE i = Len(q) + 1 \/ j = Len(q) + 1
      BY <1>1, <1>2, <2>1, <3>1, <3>2
    <3>3. CASE i \in 1 .. Len(q) /\ j \in 1 .. Len(q)
      BY Zenon, <1>2, <1>4, <2>1, <3>1, <3>3 DEF IsInjective
    <3> QED
      BY <1>2, <3>2, <3>3
  <2> QED
    BY Zenon, <1>2, <2>1 DEF IsInjective
<1> QED
  BY Zenon, <1>1, <1>3, <1>4

LEMMA HeadTailFacts ==
  ASSUME NEW S, NEW q \in Seq(S), q # <<>>
  PROVE  /\ Head(q) \in S /\ Tail(q) \in Seq(S) /\ <<Head(q)>> \o Tail(q) = q
         /\ Range(q) = {Head(q)} \cup Range(Tail(q))
         /\ IsInjective(q) => IsInjective(Tail(q)) /\ Head(q) \notin Range(Tail(q))
<1>1. /\ Head(q) \in S /\ Tail(q) \in Seq(S) /\ Len(Tail(q)) = Len(q) - 1
      /\ \A i \in 1 .. Len(Tail(q)) : Tail(q)[i] = q[i + 1]
  OBVIOUS
<1>2. /\ Len(q) \in Nat \ {0} /\ DOMAIN q = 1 .. Len(q) /\ DOMAIN Tail(q) = 1 .. Len(q) - 1
      /\ Head(q) = q[1]
  BY <1>1
<1>3. Range(q) = {Head(q)} \cup Range(Tail(q))
  <2>1. ASSUME NEW x \in Range(q) PROVE x \in {Head(q)} \cup Range(Tail(q))
    <3>1. PICK i \in 1 .. Len(q) : q[i] = x
      BY Zenon, <1>2 DEF Range
    <3>2. CASE i = 1
      BY Zenon, <1>2, <3>1, <3>2
    <3>3. CASE i # 1
      <4>1. i - 1 \in 1 .. Len(q) - 1 /\ (i - 1) + 1 = i
        BY <1>2, <3>3
      <4>2. Tail(q)[i - 1] = x
        BY Zenon, <1>1, <3>1, <4>1
      <4> QED
        BY Zenon, <1>2, <4>1, <4>2 DEF Range
    <3> QED
      BY Zenon, <3>2, <3>3
  <2>2. ASSUME NEW x \in Range(Tail(q)) PROVE x \in Range(q)
    <3>1. PICK i \in 1 .. Len(q) - 1 : Tail(q)[i] = x
      BY Zenon, <1>2 DEF Range
    <3>2. i + 1 \in 1 .. Len(q) /\ q[i + 1] = x
      BY <1>1, <1>2, <3>1
    <3> QED
      BY Zenon, <1>2, <3>2 DEF Range
  <2>3. Head(q) \in Range(q)
    BY <1>2 DEF Range
  <2> QED
    BY Zenon, <2>1, <2>2, <2>3
<1>4. ASSUME IsInjective(q) PROVE IsInjective(Tail(q)) /\ Head(q) \notin Range(Tail(q))
  <2>1. \A i, j \in 1 .. Len(q) : q[i] = q[j] => i = j
    BY Zenon, <1>2, <1>4 DEF IsInjective
  <2>2. ASSUME NEW i \in 1 .. Len(q) - 1, NEW j \in 1 .. Len(q) - 1, Tail(q)[i] = Tail(q)[j] PROVE i = j
    <3>1. i + 1 \in 1 .. Len(q) /\ j + 1 \in 1 .. Len(q) /\ q[i + 1] = q[j + 1]
      BY <1>1, <1>2, <2>2
    <3>2. i + 1 = j + 1
      BY Zenon, <2>1, <3>1
    <3> QED
      BY <3>2
  <2>3. ASSUME NEW i \in 1 .. Len(q) - 1, Tail(q)[i] = Head(q) PROVE FALSE
    <3>1. i + 1 \in 1 .. Len(q) /\ 1 \in 1 .. Len(q) /\ q[i + 1] = q[1]
      BY <1>1, <1>2, <2>3
    <3>2. i + 1 = 1
      BY Zenon, <2>1, <3>1
    <3> QED
      BY <3>2
  <2> QED
    BY Zenon, <1>2, <2>2, <2>3 DEF IsInjective, Range
<1>5. <<Head(q)>> \o Tail(q) = q
  <2>1. <<Head(q)>> \in Seq(S) /\ Len(<<Head(q)>>) = 1
    BY <1>1
  <2>2. /\ <<Head(q)>> \o Tail(q) \in Seq(S) /\ Len(<<Head(q)>> \o Tail(q)) = 1 + (Len(q) - 1)
        /\ \A i \in 1 .. 1 + (Len(q) - 1) : (<<Head(q)>> \o Tail(q))[i] =
             IF i <= 1 THEN <<Head(q)>>[i] ELSE Tail(q)[i - 1]
    BY <1>1, <2>1, ConcatParts
  <2>3. ASSUME NEW i \in 1 .. Len(q) PROVE (<<Head(q)>> \o Tail(q))[i] = q[i]
    <3>1. CASE i = 1
      BY <1>2, <2>2, <3>1
    <3>2. CASE i # 1
      <4>1. i - 1 \in 1 .. Len(Tail(q)) /\ (i - 1) + 1 = i
        BY <1>1, <1>2, <3>2
      <4> QED
        BY <1>1, <1>2, <2>2, <3>2, <4>1
    <3> QED
      BY Zenon, <3>1, <3>2
  <2>4. Len(<<Head(q)>> \o Tail(q)) = Len(q)
    BY <1>2, <2>2
  <2> QED
    BY Zenon, <2>2, <2>3, <2>4, SeqEqual
<1> QED
  BY Zenon, <1>1, <1>3, <1>4, <1>5

LEMMA ConcatFacts ==
  ASSUME NEW S, NEW q \in Seq(S), NEW r \in Seq(S)
  PROVE  /\ q \o r \in Seq(S) /\ Range(q \o r) = Range(q) \cup Range(r)
         /\ IsInjective(q) /\ IsInjective(r) /\ Range(q) \cap Range(r) = {} => IsInjective(q \o r)
<1>1. /\ q \o r \in Seq(S) /\ Len(q \o r) = Len(q) + Len(r)
      /\ \A i \in 1 .. Len(q) + Len(r) : (q \o r)[i] = IF i <= Len(q) THEN q[i] ELSE r[i - Len(q)]
  BY Zenon, ConcatParts
<1>2. /\ Len(q) \in Nat /\ DOMAIN q = 1 .. Len(q) /\ Len(r) \in Nat /\ DOMAIN r = 1 .. Len(r)
      /\ DOMAIN (q \o r) = 1 .. Len(q) + Len(r)
  BY <1>1
<1>3. ASSUME IsInjective(q), IsInjective(r), Range(q) \cap Range(r) = {},
             NEW i \in 1 .. Len(q) + Len(r), NEW j \in 1 .. Len(q) + Len(r), (q \o r)[i] = (q \o r)[j]
      PROVE  i = j
  <2>1. ASSUME NEW k \in 1 .. Len(q) + Len(r), k <= Len(q) PROVE k \in DOMAIN q /\ (q \o r)[k] = q[k]
    BY <1>1, <1>2, <2>1
  <2>2. ASSUME NEW k \in 1 .. Len(q) + Len(r), ~(k <= Len(q))
        PROVE  k - Len(q) \in DOMAIN r /\ (q \o r)[k] = r[k - Len(q)]
    BY <1>1, <1>2, <2>2
  <2>3. \A x \in DOMAIN q, y \in DOMAIN r : q[x] # r[y]
    BY Zenon, <1>3 DEF Range
  <2>4. CASE i <= Len(q) /\ j <= Len(q)
    BY Zenon, <1>3, <2>1, <2>4 DEF IsInjective
  <2>5. CASE ~(i <= Len(q)) /\ ~(j <= Len(q))
    <3>1. i - Len(q) = j - Len(q)
      BY Zenon, <1>3, <2>2, <2>5 DEF IsInjective
    <3> QED
      BY <1>2, <3>1
  <2>6. CASE (i <= Len(q)) # (j <= Len(q))
    BY <1>3, <2>1, <2>2, <2>3, <2>6
  <2> QED
    BY Zenon, <2>4, <2>5, <2>6
<1>4. Range(q \o r) = Range(q) \cup Range(r)
  <2>1. ASSUME NEW x \in Range(q) PROVE x \in Range(q \o r)
    BY <1>1, <1>2 DEF Range
  <2>2. ASSUME NEW x \in Range(r) PROVE x \in Range(q \o r)
    <3>1. PICK k \in 1 .. Len(r) : r[k] = x
      BY Zenon, <1>2 DEF Range
    <3>2. /\ k + Len(q) \in 1 .. Len(q) + Len(r) /\ ~(k + Len(q) <= Len(q))
          /\ (k + Len(q)) - Len(q) = k
      BY <1>2
    <3>3. (q \o r)[k + Len(q)] = x
      BY Zenon, <1>1, <3>1, <3>2
    <3> QED
      BY Zenon, <1>2, <3>2, <3>3 DEF Range
  <2>3. ASSUME NEW x \in Range(q \o r) PROVE x \in Range(q) \cup Range(r)
    BY <1>1, <1>2 DEF Range
  <2> QED
    BY Zenon, <2>1, <2>2, <2>3
<1> QED
  BY Zenon, <1>1, <1>2, <1>3, <1>4 DEF IsInjective

LEMMA ConcatAppend ==
  ASSUME NEW S, NEW q \in Seq(S), NEW r \in Seq(S), NEW e \in S
  PROVE  q \o Append(r, e) = Append(q \o r, e)
<1>1. <<e>> \in Seq(S) /\ q \o r \in Seq(S)
  BY ConcatParts
<1>2. Append(r, e) = r \o <<e>> /\ Append(q \o r, e) = (q \o r) \o <<e>>
  BY <1>1
<1> QED
  BY <1>1, <1>2, ConcatAssociative

LEMMA AppendConcat ==
  ASSUME NEW S, NEW d \in Seq(S), NEW r \in Seq(S), NEW e \in S
  PROVE  d \o (<<e>> \o r) = Append(d, e) \o r
<1>1. <<e>> \in Seq(S)
  OBVIOUS
<1>2. Append(d, e) = d \o <<e>>
  OBVIOUS
<1> QED
  BY <1>1, <1>2, ConcatAssociative

LEMMA FrontFacts ==
  ASSUME NEW S, NEW r \in Seq(S), NEW e \in S
  PROVE  /\ <<e>> \o r \in Seq(S) /\ <<e>> \o r # <<>>
         /\ Head(<<e>> \o r) = e /\ Tail(<<e>> \o r) = r
<1>1. <<e>> \in Seq(S) /\ Len(<<e>>) = 1
  OBVIOUS
<1>2. PICK l \in Nat : l = Len(r)
  OBVIOUS
<1>3. PICK q : q = <<e>> \o r
  BY Zenon
<1>4. /\ q \in Seq(S) /\ Len(q) = 1 + l
      /\ \A i \in 1 .. 1 + l : q[i] = IF i <= 1 THEN <<e>>[i] ELSE r[i - 1]
  BY <1>1, <1>2, <1>3, ConcatParts
<1>5. q # <<>> /\ q[1] = e
  BY <1>2, <1>4
<1>6. /\ Tail(q) \in Seq(S) /\ Len(Tail(q)) = (1 + l) - 1
      /\ \A i \in 1 .. Len(Tail(q)) : Tail(q)[i] = q[i + 1]
  BY <1>4, <1>5
<1>7. Len(Tail(q)) = Len(r)
  BY <1>2, <1>6
<1>8. ASSUME NEW i \in 1 .. Len(r) PROVE Tail(q)[i] = r[i]
  <2>1. i \in 1 .. l /\ i \in Nat /\ i + 1 \in 1 .. 1 + l /\ ~(i + 1 <= 1) /\ (i + 1) - 1 = i
    BY <1>2
  <2>2. q[i + 1] = r[i]
    BY Zenon, <1>4, <2>1
  <2> QED
    BY Zenon, <1>6, <1>7, <2>2
<1>9. Tail(q) = r
  BY Zenon, <1>6, <1>7, <1>8, SeqEqual
<1>10. Head(q) = q[1]
  BY <1>4, <1>5
<1> QED
  BY Zenon, <1>3, <1>4, <1>5, <1>9, <1>10

-----------------------------------------------------------------------------
(* The queues.  A message is in one place of one side, and the next one is   *)
(* new; an open side is owed what was written to it.                         *)
QueueTypeOK ==
  /\ dispatcher_alive \in [Side -> BOOLEAN]
  /\ messages \in [Side -> Seq(Message)]
  /\ pending \in [Side -> 0 .. MaxMessages]
  /\ doomed \in [Side -> Seq(Message)]
  /\ written \in [Side -> Seq(Message)]
  /\ delivered \in [Side -> Seq(Message)]

Waiting(s) == Range(messages[s]) \cup Range(Parked(s)) \cup Range(doomed[s])

Open(s) == doomed[s] = <<>> /\ written[s] = delivered[s] \o (Parked(s) \o messages[s])
Closed(s) == messages[s] = <<>> /\ pending[s] = 0

QueueInv ==
  \A s \in Side :
    /\ dispatcher_alive[s] => Open(s)
    /\ ~dispatcher_alive[s] => Closed(s)
    /\ IsInjective(messages[s]) /\ IsInjective(doomed[s])
    /\ pending[s] \notin Range(messages[s])
    /\ \A m \in Waiting(s) : m < NextMessage /\ m \notin Waiting(other_side(s))

(* What a step may do to the queues of a side. *)
SendsTo(s) ==
  /\ dispatcher_alive[s] /\ NextMessage \in Message
  /\ messages' = [messages EXCEPT ![s] = Append(@, NextMessage)]
  /\ written' = [written EXCEPT ![s] = Append(@, NextMessage)]
  /\ UNCHANGED <<dispatcher_alive, pending, doomed, delivered>>

Parks(s) ==
  /\ pending[s] = 0 /\ messages[s] # <<>>
  /\ pending' = [pending EXCEPT ![s] = Head(messages[s])]
  /\ messages' = [messages EXCEPT ![s] = Tail(@)]
  /\ UNCHANGED <<dispatcher_alive, doomed, written, delivered>>

Accepts(s) ==
  /\ pending[s] # 0
  /\ pending' = [pending EXCEPT ![s] = 0]
  /\ delivered' = [delivered EXCEPT ![s] = Append(@, pending[s])]
  /\ UNCHANGED <<dispatcher_alive, messages, doomed, written>>

Detaches(s) ==
  /\ dispatcher_alive[s]
  /\ dispatcher_alive' = [dispatcher_alive EXCEPT ![s] = FALSE]
  /\ messages' = [messages EXCEPT ![s] = <<>>]
  /\ pending' = [pending EXCEPT ![s] = 0]
  /\ doomed' = [doomed EXCEPT ![s] = messages[s] \o Parked(s)]
  /\ UNCHANGED <<written, delivered>>

Drops(s) ==
  /\ doomed[s] # <<>>
  /\ doomed' = [doomed EXCEPT ![s] = Tail(@)]
  /\ UNCHANGED <<dispatcher_alive, messages, pending, written, delivered>>

queues == <<dispatcher_alive, messages, pending, doomed, written, delivered>>

LEMMA MessageFacts ==
  /\ Message \subseteq Nat \ {0} /\ Message = (0 .. MaxMessages) \ {0}
  /\ \A s \in Side : other_side(s) \in Side /\ other_side(s) # s /\ other_side(other_side(s)) = s
  BY MessagesAssumption DEF Message, Side, other_side

LEMMA ParkedFacts ==
  ASSUME QueueTypeOK, NEW s \in Side
  PROVE  /\ Parked(s) \in Seq(Message) /\ IsInjective(Parked(s))
         /\ Range(Parked(s)) = {pending[s]} \ {0}
         /\ Waiting(s) = (Range(messages[s]) \cup Range(doomed[s])) \cup ({pending[s]} \ {0})
         /\ Waiting(s) \subseteq Message
<1>1. pending[s] \in 0 .. MaxMessages /\ messages[s] \in Seq(Message) /\ doomed[s] \in Seq(Message)
  BY Zenon DEF QueueTypeOK
<1>2. Parked(s) \in Seq(Message)
  <2>1. CASE pending[s] = 0
    BY <2>1 DEF Parked
  <2>2. CASE pending[s] # 0
    <3>1. pending[s] \in Message
      BY Zenon, <1>1, <2>2, MessageFacts
    <3>2. <<pending[s]>> \in Seq(Message)
      BY <3>1
    <3> QED
      BY Zenon, <2>2, <3>2 DEF Parked
  <2> QED
    BY Zenon, <2>1, <2>2
<1>3. IsInjective(Parked(s)) /\ Range(Parked(s)) = {pending[s]} \ {0}
  BY EmptyFacts DEF Parked
<1>4. Range(messages[s]) \subseteq Message /\ Range(doomed[s]) \subseteq Message
  BY <1>1 DEF Range
<1> QED
  BY Zenon, <1>1, <1>2, <1>3, <1>4, MessageFacts DEF Waiting

LEMMA NextMessageFacts ==
  ASSUME QueueTypeOK
  PROVE  NextMessage \in Nat \ {0}
<1>1. written[0] \in Seq(Message) /\ written[1] \in Seq(Message)
  BY Zenon DEF QueueTypeOK, Side
<1>2. Len(written[0]) \in Nat /\ Len(written[1]) \in Nat
  BY <1>1
<1>3. PICK a \in Nat, b \in Nat : a = Len(written[0]) /\ b = Len(written[1])
  BY Zenon, <1>2
<1>4. NextMessage = 1 + a + b
  BY <1>3, Zenon DEF NextMessage
<1> QED
  BY <1>4

(* One step of a queue, what it does to the messages that wait. *)
LEMMA SendsQueues ==
  ASSUME QueueTypeOK, QueueInv, NEW s \in Side, SendsTo(s)
  PROVE  /\ QueueTypeOK' /\ QueueInv' /\ NextMessage \notin Waiting(s) \cup Waiting(other_side(s))
         /\ Waiting(s)' = Waiting(s) \cup {NextMessage}
         /\ Waiting(other_side(s))' = Waiting(other_side(s))
<1>1. PICK m \in Message : m = NextMessage
  BY Zenon DEF SendsTo
<1>2. PICK o \in Side : o = other_side(s) /\ o # s /\ other_side(o) = s /\ Side = {s, o}
  BY Zenon, MessageFacts DEF Side
<1>3. /\ messages[s] \in Seq(Message) /\ written[s] \in Seq(Message) /\ delivered[s] \in Seq(Message)
      /\ Parked(s) \in Seq(Message) /\ doomed[s] = <<>>
      /\ written[s] = delivered[s] \o (Parked(s) \o messages[s])
  BY Zenon, ParkedFacts DEF QueueTypeOK, QueueInv, SendsTo, Open
<1>4. /\ Append(messages[s], m) \in Seq(Message) /\ Append(written[s], m) \in Seq(Message)
      /\ Range(Append(messages[s], m)) = Range(messages[s]) \cup {m}
      /\ IsInjective(messages[s]) /\ m \notin Range(messages[s]) => IsInjective(Append(messages[s], m))
      /\ Len(Append(written[s], m)) = Len(written[s]) + 1
  BY <1>3, AppendFacts
<1>5. /\ messages'[s] = Append(messages[s], m) /\ messages'[o] = messages[o]
      /\ written'[s] = Append(written[s], m) /\ written'[o] = written[o]
  BY Zenon, <1>1, <1>2 DEF SendsTo, QueueTypeOK
<1>6. QueueTypeOK'
  BY Zenon, <1>1, <1>4 DEF QueueTypeOK, SendsTo
<1>7. /\ Parked(s)' = Parked(s) /\ Parked(o)' = Parked(o) /\ doomed' = doomed /\ pending' = pending
      /\ dispatcher_alive' = dispatcher_alive /\ delivered' = delivered
  BY Zenon DEF SendsTo, Parked
<1>8. m \notin Waiting(s) /\ m \notin Waiting(o)
  BY <1>1, <1>2, MessageFacts DEF QueueInv
<1>9. Waiting(s)' = Waiting(s) \cup {m} /\ Waiting(o)' = Waiting(o)
  BY Zenon, <1>4, <1>5, <1>7 DEF Waiting
<1>10. NextMessage' = m + 1
  <2>1. PICK a \in Nat, b \in Nat : a = Len(written[s]) /\ b = Len(written[o])
    BY <1>2, <1>3 DEF QueueTypeOK
  <2>2. Len(written'[s]) = a + 1 /\ Len(written'[o]) = b
    BY <1>4, <1>5, <2>1, Zenon
  <2>3. CASE s = 0
    <3>1. o = 1
      BY Zenon, <1>2, <2>3 DEF Side
    <3>2. m = 1 + a + b /\ NextMessage' = 1 + (a + 1) + b
      BY <1>1, <2>1, <2>2, <2>3, <3>1, Zenon DEF NextMessage
    <3> QED
      BY <3>2
  <2>4. CASE s = 1
    <3>1. o = 0
      BY Zenon, <1>2, <2>4 DEF Side
    <3>2. m = 1 + b + a /\ NextMessage' = 1 + b + (a + 1)
      BY <1>1, <2>1, <2>2, <2>4, <3>1, Zenon DEF NextMessage
    <3> QED
      BY <3>2
  <2> QED
    BY Zenon, <2>3, <2>4 DEF Side
<1>11. Open(s)'
  <2>1. Parked(s) \o Append(messages[s], m) = Append(Parked(s) \o messages[s], m)
    BY <1>3, ConcatAppend
  <2>2. PICK q \in Seq(Message), d \in Seq(Message) : q = Parked(s) \o messages[s] /\ d = delivered[s]
    BY Zenon, <1>3, ConcatFacts
  <2>3. d \o Append(q, m) = Append(d \o q, m)
    BY ConcatAppend
  <2> QED
    BY <1>3, <1>5, <1>7, <2>1, <2>2, <2>3, Zenon DEF Open
<1>12. (Open(o)' <=> Open(o)) /\ (Closed(o)' <=> Closed(o))
  BY Zenon, <1>5, <1>7 DEF Open, Closed
<1>13. /\ m \notin Range(messages[s]) /\ pending[s] \notin Range(messages[s]) \cup {m}
  BY <1>1, <1>8, MessageFacts, ParkedFacts DEF QueueInv
<1>14. \A k \in Waiting(s) \cup Waiting(o) : k < m /\ k \in Nat
  BY Zenon, <1>1, <1>2, MessageFacts, ParkedFacts DEF QueueInv
<1>15. Waiting(s) \cap Waiting(o) = {}
  BY Zenon, <1>2 DEF QueueInv
<1>16. \A k \in Waiting(s)' \cup Waiting(o)' : k < m + 1
  BY <1>1, <1>9, <1>14, MessageFacts
<1>17. QueueInv'
  <2>1. ASSUME NEW r \in Side
        PROVE  /\ dispatcher_alive'[r] => Open(r)'
               /\ ~dispatcher_alive'[r] => Closed(r)'
               /\ IsInjective(messages'[r]) /\ IsInjective(doomed'[r])
               /\ pending'[r] \notin Range(messages'[r])
               /\ \A k \in Waiting(r)' : k < NextMessage' /\ k \notin Waiting(other_side(r))'
    <3>1. CASE r = s
      <4>1. dispatcher_alive[s]
        BY Zenon DEF SendsTo
      <4>2. IsInjective(messages[s]) /\ IsInjective(doomed[s])
        BY Zenon DEF QueueInv
      <4>3. \A k \in Waiting(s)' : k \notin Waiting(o)'
        BY Zenon, <1>8, <1>9, <1>15
      <4> QED
        BY Zenon, <1>2, <1>4, <1>5, <1>7, <1>10, <1>11, <1>13, <1>16, <3>1, <4>1, <4>2, <4>3
    <3>2. CASE r = o
      <4>1. /\ dispatcher_alive[o] => Open(o)
            /\ ~dispatcher_alive[o] => Closed(o)
            /\ IsInjective(messages[o]) /\ IsInjective(doomed[o])
            /\ pending[o] \notin Range(messages[o])
        BY Zenon DEF QueueInv
      <4>2. \A k \in Waiting(o)' : k \notin Waiting(s)'
        BY Zenon, <1>8, <1>9, <1>15
      <4> QED
        BY Zenon, <1>2, <1>5, <1>7, <1>10, <1>12, <1>16, <3>2, <4>1, <4>2
    <3> QED
      BY Zenon, <1>2, <3>1, <3>2
  <2> QED
    BY Zenon, <2>1 DEF QueueInv
<1> QED
  BY Zenon, <1>1, <1>2, <1>6, <1>8, <1>9, <1>17

(* A step of side s by which no message is new keeps what QueueInv says of the   *)
(* other side.                                                                   *)
LEMMA SmallerQueues ==
  ASSUME QueueTypeOK, QueueInv, written' = written, NEW s \in Side,
         \A r \in Side \ {s} : /\ dispatcher_alive'[r] = dispatcher_alive[r]
                               /\ messages'[r] = messages[r] /\ pending'[r] = pending[r]
                               /\ doomed'[r] = doomed[r] /\ delivered'[r] = delivered[r],
         dispatcher_alive'[s] => Open(s)',
         ~dispatcher_alive'[s] => Closed(s)',
         IsInjective(messages'[s]), IsInjective(doomed'[s]),
         pending'[s] \notin Range(messages'[s]),
         Waiting(s)' \subseteq Waiting(s)
  PROVE  QueueInv' /\ \A r \in Side \ {s} : Waiting(r)' = Waiting(r)
<1>1. NextMessage' = NextMessage
  BY Zenon DEF NextMessage
<1>2. ASSUME NEW r \in Side \ {s}
      PROVE  /\ Waiting(r)' = Waiting(r) /\ (Open(r)' <=> Open(r)) /\ (Closed(r)' <=> Closed(r))
  <2>1. Parked(r)' = Parked(r)
    BY Zenon DEF Parked
  <2> QED
    BY Zenon, <2>1 DEF Waiting, Open, Closed
<1>3. ASSUME NEW r \in Side
      PROVE  \A m \in Waiting(r)' : m < NextMessage' /\ m \notin Waiting(other_side(r))'
  <2>1. Waiting(r)' \subseteq Waiting(r) /\ Waiting(other_side(r))' \subseteq Waiting(other_side(r))
    BY Zenon, <1>2, MessageFacts
  <2>2. \A m \in Waiting(r) : m < NextMessage /\ m \notin Waiting(other_side(r))
    BY Zenon DEF QueueInv
  <2> QED
    BY Zenon, <1>1, <2>1, <2>2
<1>4. ASSUME NEW r \in Side
      PROVE  /\ dispatcher_alive'[r] => Open(r)'
             /\ ~dispatcher_alive'[r] => Closed(r)'
             /\ IsInjective(messages'[r]) /\ IsInjective(doomed'[r])
             /\ pending'[r] \notin Range(messages'[r])
  <2>1. CASE r = s
    BY Zenon, <2>1
  <2>2. CASE r # s
    <3>1. /\ dispatcher_alive[r] => Open(r)
          /\ ~dispatcher_alive[r] => Closed(r)
          /\ IsInjective(messages[r]) /\ IsInjective(doomed[r])
          /\ pending[r] \notin Range(messages[r])
      BY Zenon DEF QueueInv
    <3> QED
      BY Zenon, <1>2, <2>2, <3>1
  <2> QED
    BY Zenon, <2>1, <2>2
<1>5. QueueInv'
  BY <1>3, <1>4, Zenon DEF QueueInv
<1> QED
  BY Zenon, <1>2, <1>5

LEMMA ParksQueues ==
  ASSUME QueueTypeOK, QueueInv, NEW s \in Side, Parks(s)
  PROVE  /\ QueueTypeOK' /\ QueueInv' /\ \A r \in Side : Waiting(r)' = Waiting(r)
         /\ \A r \in Side : Parked(r)' \o messages'[r] = Parked(r) \o messages[r]
<1>1. /\ messages[s] \in Seq(Message) /\ messages[s] # <<>> /\ pending[s] = 0
      /\ IsInjective(messages[s]) /\ IsInjective(doomed[s])
  BY Zenon DEF Parks, QueueTypeOK, QueueInv
<1>2. PICK m, q : m = Head(messages[s]) /\ q = Tail(messages[s])
  BY Zenon
<1>3. /\ m \in Message /\ q \in Seq(Message) /\ <<m>> \o q = messages[s]
      /\ Range(messages[s]) = {m} \cup Range(q) /\ IsInjective(q) /\ m \notin Range(q)
  BY Zenon, <1>1, <1>2, HeadTailFacts
<1>4. m \in 0 .. MaxMessages /\ m # 0
  BY Zenon, <1>3, MessageFacts
<1>5. /\ pending' = [pending EXCEPT ![s] = m] /\ messages' = [messages EXCEPT ![s] = q]
      /\ dispatcher_alive' = dispatcher_alive /\ doomed' = doomed
      /\ written' = written /\ delivered' = delivered
  BY Zenon, <1>2 DEF Parks
<1>6. QueueTypeOK'
  BY Zenon, <1>3, <1>4, <1>5 DEF QueueTypeOK
<1>7. /\ pending'[s] = m /\ messages'[s] = q
      /\ \A r \in Side \ {s} : pending'[r] = pending[r] /\ messages'[r] = messages[r]
  BY Zenon, <1>5 DEF QueueTypeOK
<1>8. Parked(s)' = <<m>> /\ Parked(s) = <<>> /\ \A r \in Side \ {s} : Parked(r)' = Parked(r)
  BY Zenon, <1>1, <1>4, <1>7 DEF Parked
<1>9. Parked(s)' \o messages'[s] = Parked(s) \o messages[s]
  <2>1. <<>> \o messages[s] = messages[s]
    BY Zenon, <1>1, ConcatEmpty
  <2> QED
    BY Zenon, <1>3, <1>7, <1>8, <2>1
<1>10. Waiting(s)' = Waiting(s)
  BY <1>3, <1>5, <1>7, <1>8, EmptyFacts DEF Waiting
<1>11. /\ dispatcher_alive'[s] => Open(s)'
       /\ ~dispatcher_alive'[s] => Closed(s)'
  <2>1. dispatcher_alive[s]
    BY Zenon, <1>1 DEF QueueInv, Closed
  <2>2. Open(s)
    BY Zenon, <2>1 DEF QueueInv
  <2>3. Open(s)'
    BY Zenon, <1>5, <1>9, <2>2 DEF Open
  <2> QED
    BY Zenon, <1>5, <2>1, <2>3
<1>12. QueueInv' /\ \A r \in Side \ {s} : Waiting(r)' = Waiting(r)
  BY Zenon, <1>1, <1>3, <1>5, <1>7, <1>10, <1>11, SmallerQueues
<1> QED
  BY Zenon, <1>6, <1>7, <1>8, <1>9, <1>10, <1>12

LEMMA AcceptsQueues ==
  ASSUME QueueTypeOK, QueueInv, NEW s \in Side, Accepts(s)
  PROVE  /\ QueueTypeOK' /\ QueueInv' /\ pending[s] \in Waiting(s) \cap Message
         /\ Waiting(s)' = Waiting(s) \ {pending[s]}
         /\ \A r \in Side \ {s} : Waiting(r)' = Waiting(r)
<1>1. PICK m : m = pending[s]
  BY Zenon
<1>2. /\ m # 0 /\ m \in Message /\ dispatcher_alive[s] /\ messages[s] \in Seq(Message)
      /\ delivered[s] \in Seq(Message) /\ m \in Waiting(s) /\ Parked(s) = <<m>>
  <2>1. m # 0 /\ m \in 0 .. MaxMessages /\ messages[s] \in Seq(Message) /\ delivered[s] \in Seq(Message)
    BY Zenon, <1>1 DEF Accepts, QueueTypeOK
  <2>2. dispatcher_alive[s]
    BY Zenon, <1>1, <2>1 DEF QueueInv, Closed
  <2> QED
    BY Zenon, <1>1, <2>1, <2>2, MessageFacts, ParkedFacts DEF Parked
<1>3. Open(s) /\ IsInjective(messages[s]) /\ IsInjective(doomed[s]) /\ m \notin Range(messages[s])
  BY Zenon, <1>1, <1>2 DEF QueueInv
<1>4. /\ pending' = [pending EXCEPT ![s] = 0]
      /\ delivered' = [delivered EXCEPT ![s] = Append(delivered[s], m)]
      /\ dispatcher_alive' = dispatcher_alive /\ messages' = messages
      /\ doomed' = doomed /\ written' = written
  BY Zenon, <1>1 DEF Accepts
<1>5. Append(delivered[s], m) \in Seq(Message)
  BY Zenon, <1>2, AppendFacts
<1>6. QueueTypeOK'
  BY <1>4, <1>5, MessagesAssumption DEF QueueTypeOK
<1>7. /\ pending'[s] = 0 /\ delivered'[s] = Append(delivered[s], m)
      /\ \A r \in Side \ {s} : pending'[r] = pending[r] /\ delivered'[r] = delivered[r]
  BY Zenon, <1>4 DEF QueueTypeOK
<1>8. Parked(s)' = <<>>
  BY Zenon, <1>7 DEF Parked
<1>9. Open(s)'
  <2>1. delivered[s] \o (<<m>> \o messages[s]) = Append(delivered[s], m) \o messages[s]
    BY Zenon, <1>2, AppendConcat
  <2>2. <<>> \o messages[s] = messages[s]
    BY Zenon, <1>2, ConcatEmpty
  <2> QED
    BY Zenon, <1>2, <1>3, <1>4, <1>7, <1>8, <2>1, <2>2 DEF Open
<1>10. Waiting(s)' = Waiting(s) \ {m}
  <2>1. doomed[s] = <<>> /\ Range(<<>>) = {} /\ Range(<<m>>) = {m}
    BY Zenon, <1>3, EmptyFacts DEF Open
  <2> QED
    BY Zenon, <1>2, <1>3, <1>4, <1>8, <2>1 DEF Waiting
<1>11. 0 \notin Range(messages[s])
  BY <1>2, MessageFacts DEF Range
<1>12. QueueInv' /\ \A r \in Side \ {s} : Waiting(r)' = Waiting(r)
  BY Zenon, <1>2, <1>3, <1>4, <1>7, <1>9, <1>10, <1>11, SmallerQueues
<1> QED
  BY Zenon, <1>1, <1>2, <1>6, <1>10, <1>12

LEMMA DetachesQueues ==
  ASSUME QueueTypeOK, QueueInv, NEW s \in Side, Detaches(s)
  PROVE  QueueTypeOK' /\ QueueInv' /\ \A r \in Side : Waiting(r)' = Waiting(r)
<1>1. PICK d : d = messages[s] \o Parked(s)
  BY Zenon
<1>2. /\ messages[s] \in Seq(Message) /\ Parked(s) \in Seq(Message) /\ doomed[s] = <<>>
      /\ IsInjective(messages[s]) /\ IsInjective(Parked(s))
      /\ Range(messages[s]) \cap Range(Parked(s)) = {}
  <2>1. messages[s] \in Seq(Message) /\ Parked(s) \in Seq(Message) /\ IsInjective(Parked(s))
    BY Zenon, ParkedFacts DEF QueueTypeOK
  <2>2. doomed[s] = <<>> /\ IsInjective(messages[s]) /\ pending[s] \notin Range(messages[s])
    BY Zenon DEF QueueInv, Detaches, Open
  <2> QED
    BY Zenon, <2>1, <2>2, ParkedFacts
<1>3. d \in Seq(Message) /\ Range(d) = Range(messages[s]) \cup Range(Parked(s)) /\ IsInjective(d)
  BY <1>1, <1>2, ConcatFacts
<1>4. /\ dispatcher_alive' = [dispatcher_alive EXCEPT ![s] = FALSE]
      /\ messages' = [messages EXCEPT ![s] = <<>>]
      /\ pending' = [pending EXCEPT ![s] = 0]
      /\ doomed' = [doomed EXCEPT ![s] = d]
      /\ written' = written /\ delivered' = delivered
  BY Zenon, <1>1 DEF Detaches
<1>5. QueueTypeOK'
  <2>1. dispatcher_alive' \in [Side -> BOOLEAN]
    BY <1>4, Zenon DEF QueueTypeOK
  <2>2. messages' \in [Side -> Seq(Message)] /\ doomed' \in [Side -> Seq(Message)]
    BY <1>3, <1>4 DEF QueueTypeOK
  <2> QED
    BY <1>4, <2>1, <2>2, MessagesAssumption DEF QueueTypeOK
<1>6. /\ ~dispatcher_alive'[s] /\ messages'[s] = <<>> /\ pending'[s] = 0 /\ doomed'[s] = d
      /\ \A r \in Side \ {s} : /\ dispatcher_alive'[r] = dispatcher_alive[r]
                               /\ messages'[r] = messages[r] /\ pending'[r] = pending[r]
                               /\ doomed'[r] = doomed[r]
  BY Zenon, <1>4 DEF QueueTypeOK
<1>7. Parked(s)' = <<>>
  BY Zenon, <1>6 DEF Parked
<1>8. Waiting(s)' = Waiting(s)
  BY Zenon, <1>2, <1>3, <1>6, <1>7, EmptyFacts DEF Waiting
<1>9. Closed(s)'
  BY Zenon, <1>6 DEF Closed
<1>10. QueueInv' /\ \A r \in Side \ {s} : Waiting(r)' = Waiting(r)
  BY Zenon, <1>3, <1>4, <1>6, <1>8, <1>9, EmptyFacts, SmallerQueues
<1> QED
  BY Zenon, <1>5, <1>8, <1>10

LEMMA DropsQueues ==
  ASSUME QueueTypeOK, QueueInv, NEW s \in Side, Drops(s)
  PROVE  /\ QueueTypeOK' /\ QueueInv' /\ Head(doomed[s]) \in Waiting(s) \cap Message
         /\ Waiting(s)' = Waiting(s) \ {Head(doomed[s])}
         /\ \A r \in Side \ {s} : Waiting(r)' = Waiting(r)
<1>1. PICK m, q : m = Head(doomed[s]) /\ q = Tail(doomed[s])
  BY Zenon
<1>2. doomed[s] \in Seq(Message) /\ doomed[s] # <<>> /\ IsInjective(doomed[s])
  BY Zenon DEF Drops, QueueTypeOK, QueueInv
<1>3. /\ m \in Message /\ q \in Seq(Message) /\ Range(doomed[s]) = {m} \cup Range(q)
      /\ IsInjective(q) /\ m \notin Range(q)
  BY Zenon, <1>1, <1>2, HeadTailFacts
<1>4. /\ ~dispatcher_alive[s] /\ messages[s] = <<>> /\ pending[s] = 0
  BY Zenon, <1>2 DEF QueueInv, Open, Closed
<1>5. /\ doomed' = [doomed EXCEPT ![s] = q] /\ dispatcher_alive' = dispatcher_alive
      /\ messages' = messages /\ pending' = pending /\ written' = written /\ delivered' = delivered
  BY Zenon, <1>1 DEF Drops
<1>6. doomed'[s] = q /\ \A r \in Side \ {s} : doomed'[r] = doomed[r]
  BY Zenon, <1>5 DEF QueueTypeOK
<1>7. QueueTypeOK'
  BY Zenon, <1>3, <1>5 DEF QueueTypeOK
<1>8. Parked(s) = <<>> /\ Parked(s)' = <<>>
  BY Zenon, <1>4, <1>5 DEF Parked
<1>9. m \in Waiting(s) /\ Waiting(s)' = Waiting(s) \ {m}
  BY Zenon, <1>3, <1>4, <1>5, <1>6, <1>8, EmptyFacts DEF Waiting
<1>10. Closed(s)' /\ IsInjective(messages'[s]) /\ pending'[s] \notin Range(messages'[s])
  BY Zenon, <1>4, <1>5, EmptyFacts DEF Closed
<1>11. QueueInv' /\ \A r \in Side \ {s} : Waiting(r)' = Waiting(r)
  BY Zenon, <1>3, <1>4, <1>5, <1>6, <1>9, <1>10, SmallerQueues
<1> QED
  BY Zenon, <1>1, <1>3, <1>7, <1>9, <1>11

(* A step that leaves the queues alone. *)
LEMMA SameQueues ==
  ASSUME UNCHANGED queues
  PROVE  /\ QueueTypeOK => QueueTypeOK'
         /\ QueueInv => QueueInv'
         /\ \A s : Waiting(s)' = Waiting(s) /\ Parked(s)' = Parked(s)
<1>1. /\ dispatcher_alive' = dispatcher_alive /\ messages' = messages /\ pending' = pending
      /\ doomed' = doomed /\ written' = written /\ delivered' = delivered
  BY Zenon DEF queues
<1>2. \A s : Parked(s)' = Parked(s)
  BY Zenon, <1>1 DEF Parked
<1>3. \A s : Waiting(s)' = Waiting(s) /\ (Open(s)' <=> Open(s)) /\ (Closed(s)' <=> Closed(s))
  BY Zenon, <1>1, <1>2 DEF Waiting, Open, Closed
<1>4. NextMessage' = NextMessage
  BY Zenon, <1>1 DEF NextMessage
<1>5. QueueTypeOK => QueueTypeOK'
  BY Zenon, <1>1 DEF QueueTypeOK
<1>6. QueueInv => QueueInv'
  BY Zenon, <1>1, <1>3, <1>4 DEF QueueInv
<1> QED
  BY Zenon, <1>2, <1>3, <1>5, <1>6

(* Every step is one of these, for one side at most. *)
LEMMA WriteQueues ==
  ASSUME TypeOK, NEW t \in Threads, Write(t)
  PROVE  \/ SendsTo(other_side(side[t])) /\ Send(t, NextMessage, other_side(side[t]))
         \/ UNCHANGED queues /\ goto(t, "undo") /\ UNCHANGED <<signals, content, handle_list>>
  BY Zenon DEF Write, SendsTo, Send, queues

LEMMA BeginReadQueues ==
  ASSUME TypeOK, NEW t \in Threads, BeginRead(t)
  PROVE  \/ Parks(side[t]) /\ Read(side[t])
         \/ UNCHANGED queues
  BY Zenon DEF BeginRead, Read, Parks, queues, pipe, history

LEMMA AcceptReadQueues ==
  ASSUME TypeOK, NEW t \in Threads, AcceptRead(t)
  PROVE  \/ Accepts(side[t]) /\ handle_list' = [handle_list EXCEPT ![t] = content[pending[side[t]]]]
         \/ UNCHANGED queues /\ UNCHANGED handle_list
<1>1. CASE pending[side[t]] = 0
  <2>1. pending' = [pending EXCEPT ![side[t]] = 0]
    BY Zenon DEF AcceptRead
  <2>2. pending' = pending
    BY Zenon, <1>1, <2>1 DEF TypeOK
  <2> QED
    BY Zenon, <1>1, <2>2 DEF AcceptRead, queues
<1>2. CASE pending[side[t]] # 0
  BY Zenon, <1>2 DEF AcceptRead, Accepts
<1> QED
  BY Zenon, <1>1, <1>2

LEMMA QueueSteps ==
  ASSUME TypeOK, [Next]_vars
  PROVE  \/ UNCHANGED queues
         \/ \E s \in Side : SendsTo(s) \/ Parks(s) \/ Accepts(s) \/ Detaches(s) \/ Drops(s)
<1>1. ASSUME NEW t \in Threads PROVE side[t] \in Side /\ other_side(side[t]) \in Side
  BY Zenon, MessageFacts DEF TypeOK
<1>2. ASSUME NEW t \in Threads, NEW s \in Side, Call(t, s, "take") \/ Call(t, s, "begin")
      PROVE  UNCHANGED queues
  BY Zenon, <1>2 DEF Call, pipe, history, queues
<1>3. ASSUME NEW t \in Threads, InCall(t)
      PROVE  UNCHANGED queues \/ \E s \in Side : SendsTo(s) \/ Parks(s) \/ Accepts(s)
  <2>1. CASE TakeHandles(t)
    BY Zenon, <2>1 DEF TakeHandles, pipe, history, queues
  <2>2. CASE Write(t)
    BY Zenon, <1>1, <2>2, WriteQueues
  <2>3. CASE UndoRemoveHandle(t)
    BY Zenon, <2>3 DEF UndoRemoveHandle, pipe, history, queues
  <2>4. CASE BeginRead(t)
    BY Zenon, <1>1, <2>4, BeginReadQueues
  <2>5. CASE CheckSizes(t)
    BY Zenon, <2>5 DEF CheckSizes, pipe, history, queues
  <2>6. CASE AcceptRead(t)
    BY Zenon, <1>1, <2>6, AcceptReadQueues
  <2>7. CASE Deliver(t)
    BY Zenon, <2>7 DEF Deliver, pipe, history, queues
  <2> QED
    BY Zenon, <1>3, <2>1, <2>2, <2>3, <2>4, <2>5, <2>6, <2>7 DEF InCall
<1>4. ASSUME NEW h \in Handle, handle_close(h) PROVE UNCHANGED queues
  BY Zenon, <1>4 DEF handle_close, pipe, history, queues
<1>5. ASSUME NEW s \in Side, OnDispatcherDestruction(s) PROVE Detaches(s)
  BY Zenon, <1>5 DEF OnDispatcherDestruction, Detach, Detaches, history
<1>6. ASSUME NEW s \in Side, DestroyMessage(s) PROVE Drops(s)
  BY Zenon, <1>6 DEF DestroyMessage, Drops, pipe, history
<1>7. CASE UNCHANGED vars
  BY Zenon, <1>7 DEF vars, pipe, history, queues
<1> QED
  BY Zenon, <1>2, <1>3, <1>4, <1>5, <1>6, <1>7 DEF Next, Destroy

-----------------------------------------------------------------------------
(* The calls.  A call that reported sizes reported those of a message. *)
SizedOK == \A t \in Threads : pc[t] \in {"sizes", "accept", "deliver"} => sized[t] # 0

Label == {"user", "take", "write", "undo", "begin", "sizes", "accept", "deliver", "panic"}

CallTypeOK ==
  /\ reply_pipe \in BOOLEAN
  /\ satisfied \in [Side -> SUBSET Signal]
  /\ satisfiable \in [Side -> SUBSET Signal]
  /\ content \in [Message -> HandleLists]
  /\ table \subseteq Handle /\ deleted \subseteq Handle /\ leaked \subseteq Handle
  /\ pc \in [Threads -> Label]
  /\ side \in [Threads -> Side]
  /\ handle_list \in [Threads -> HandleLists]
  /\ sized \in [Threads -> 0 .. MaxMessages]

LEMMA TypeParts == TypeOK <=> QueueTypeOK /\ CallTypeOK
  BY Zenon DEF TypeOK, QueueTypeOK, CallTypeOK, Label

LEMMA HandleListFacts ==
  ASSUME NEW hs \in HandleLists
  PROVE  /\ hs \in Seq(Handle) /\ Range(hs) \subseteq Handle
         /\ Len(hs) \in Nat /\ DOMAIN hs = 1 .. Len(hs)
<1>1. PICK n \in 0 .. MaxHandles : hs \in [1 .. n -> Handle]
  BY Zenon DEF HandleLists
<1>2. n \in Nat
  BY MessagesAssumption
<1>3. hs \in Seq(Handle)
  BY <1>1, <1>2
<1> QED
  BY <1>3 DEF Range

LEMMA EmptyHandleList == <<>> \in HandleLists
<1>1. 0 \in 0 .. MaxHandles
  BY MessagesAssumption
<1>2. <<>> \in [1 .. 0 -> Handle]
  OBVIOUS
<1> QED
  BY Zenon, <1>1, <1>2 DEF HandleLists

LEMMA SplitList ==
  ASSUME NEW hs \in HandleLists, NEW n \in Nat, n <= Len(hs)
  PROVE  /\ {hs[i] : i \in 1 .. n} \cup {hs[i] : i \in n + 1 .. Len(hs)} = Range(hs)
         /\ IsInjective(hs) => {hs[i] : i \in 1 .. n} \cap {hs[i] : i \in n + 1 .. Len(hs)} = {}
<1>1. PICK l \in Nat : l = Len(hs) /\ DOMAIN hs = 1 .. l /\ n <= l
  BY Zenon, HandleListFacts
<1>2. 1 .. l = (1 .. n) \cup (n + 1 .. l) /\ (1 .. n) \cap (n + 1 .. l) = {}
  BY <1>1
<1>3. {hs[i] : i \in 1 .. n} \cup {hs[i] : i \in n + 1 .. l} = {hs[i] : i \in 1 .. l}
  BY Zenon, <1>2
<1>4. ASSUME IsInjective(hs) PROVE {hs[i] : i \in 1 .. n} \cap {hs[i] : i \in n + 1 .. l} = {}
  BY <1>1, <1>2, <1>4 DEF IsInjective
<1> QED
  BY Zenon, <1>1, <1>3, <1>4 DEF Range

LEMMA SignalTypes ==
  ASSUME satisfied \in [Side -> SUBSET Signal], satisfiable \in [Side -> SUBSET Signal],
         NEW s \in Side, NEW set \in SUBSET Signal, NEW clear, NEW able,
         UpdateState(s, set, clear, able)
  PROVE  satisfied' \in [Side -> SUBSET Signal] /\ satisfiable' \in [Side -> SUBSET Signal]
<1>1. (satisfied[s] \ clear) \cup set \in SUBSET Signal /\ satisfiable[s] \ able \in SUBSET Signal
  BY Zenon
<1>2. /\ satisfied' = [satisfied EXCEPT ![s] = (satisfied[s] \ clear) \cup set]
      /\ satisfiable' = [satisfiable EXCEPT ![s] = satisfiable[s] \ able]
  BY Zenon DEF UpdateState
<1> QED
  BY Zenon, <1>1, <1>2

LEMMA ReturnTypes ==
  ASSUME CallTypeOK, SizedOK, NEW t \in Threads, Return(t)
  PROVE  /\ pc' \in [Threads -> Label] /\ side' \in [Threads -> Side]
         /\ sized' \in [Threads -> 0 .. MaxMessages] /\ SizedOK'
<1>1. 0 \in 0 .. MaxMessages /\ 0 \in Side /\ "user" \in Label
  BY MessagesAssumption DEF Side, Label
<1>2. /\ pc' = [pc EXCEPT ![t] = "user"] /\ side' = [side EXCEPT ![t] = 0]
      /\ sized' = [sized EXCEPT ![t] = 0]
  BY Zenon DEF Return
<1>3. /\ pc' \in [Threads -> Label] /\ side' \in [Threads -> Side]
      /\ sized' \in [Threads -> 0 .. MaxMessages]
  BY Zenon, <1>1, <1>2 DEF CallTypeOK
<1>4. SizedOK'
  BY Zenon, <1>2 DEF CallTypeOK, SizedOK
<1> QED
  BY Zenon, <1>3, <1>4

LEMMA GotoTypes ==
  ASSUME CallTypeOK, SizedOK, NEW t \in Threads, NEW l \in Label, goto(t, l),
         l \in {"sizes", "accept", "deliver"} => sized[t] # 0
  PROVE  /\ pc' \in [Threads -> Label] /\ side' \in [Threads -> Side]
         /\ sized' \in [Threads -> 0 .. MaxMessages] /\ SizedOK'
<1>1. pc' = [pc EXCEPT ![t] = l] /\ side' = side /\ sized' = sized
  BY Zenon DEF goto, locals
<1>2. SizedOK'
  BY Zenon, <1>1 DEF CallTypeOK, SizedOK
<1> QED
  BY Zenon, <1>1, <1>2 DEF CallTypeOK

LEMMA ReadTypes ==
  ASSUME QueueTypeOK, CallTypeOK, NEW t \in Threads, BeginRead(t)
  PROVE  satisfied' \in [Side -> SUBSET Signal] /\ satisfiable' \in [Side -> SUBSET Signal]
<1>1. side[t] \in Side /\ {} \in SUBSET Signal
  BY Zenon DEF CallTypeOK
<1>2. \/ \E able : UpdateState(side[t], {}, {"READABLE"}, able)
      \/ UNCHANGED signals
  BY Zenon DEF BeginRead, Read
<1> QED
  BY Zenon, <1>1, <1>2, SignalTypes DEF CallTypeOK, signals

LEMMA CallTypeStep ==
  ASSUME QueueTypeOK, CallTypeOK, SizedOK, QueueInv, [Next]_vars
  PROVE  CallTypeOK' /\ SizedOK'
<1>1. ASSUME NEW t \in Threads, NEW s \in Side, Call(t, s, "take") \/ Call(t, s, "begin")
      PROVE  CallTypeOK' /\ SizedOK'
  <2>1. PICK l \in Label \ {"sizes", "accept", "deliver"} : pc' = [pc EXCEPT ![t] = l]
    BY Zenon, <1>1 DEF Call, Label
  <2>2. /\ side' = [side EXCEPT ![t] = s] /\ reply_pipe' = reply_pipe
        /\ satisfied' = satisfied /\ satisfiable' = satisfiable /\ content' = content
        /\ table' = table /\ deleted' = deleted /\ leaked' = leaked
        /\ handle_list' = handle_list /\ sized' = sized
    BY Zenon, <1>1 DEF Call, pipe, signals, handles, history
  <2>3. CallTypeOK'
    BY Zenon, <2>1, <2>2 DEF CallTypeOK
  <2>4. SizedOK'
    BY Zenon, <2>1, <2>2 DEF CallTypeOK, SizedOK
  <2> QED
    BY Zenon, <2>3, <2>4
<1>2. ASSUME NEW t \in Threads, TakeHandles(t) PROVE CallTypeOK' /\ SizedOK'
  <2>1. /\ reply_pipe' = reply_pipe /\ satisfied' = satisfied /\ satisfiable' = satisfiable
        /\ content' = content /\ deleted' = deleted /\ leaked' = leaked
    BY Zenon, <1>2 DEF TakeHandles, pipe, signals, history
  <2>2. PICK hs \in HandleLists :
          IF CanSend(side[t], hs)
            THEN /\ table' = table \ Range(hs)
                 /\ handle_list' = [handle_list EXCEPT ![t] = hs]
                 /\ goto(t, "write")
            ELSE Return(t) /\ UNCHANGED <<table, handle_list>>
    BY Zenon, <1>2 DEF TakeHandles
  <2>3. /\ pc' \in [Threads -> Label] /\ side' \in [Threads -> Side]
        /\ sized' \in [Threads -> 0 .. MaxMessages] /\ SizedOK'
    BY Zenon, <2>2, ReturnTypes, GotoTypes DEF Label
  <2>4. table' \subseteq Handle /\ handle_list' \in [Threads -> HandleLists]
    BY Zenon, <2>2 DEF CallTypeOK
  <2> QED
    BY Zenon, <2>1, <2>3, <2>4 DEF CallTypeOK
<1>3. ASSUME NEW t \in Threads, Write(t) PROVE CallTypeOK' /\ SizedOK'
  <2>1. reply_pipe' = reply_pipe /\ table' = table /\ deleted' = deleted /\ leaked' = leaked
    BY Zenon, <1>3 DEF Write, handles
  <2>2. PICK o \in Side : o = other_side(side[t])
    BY Zenon, MessageFacts DEF CallTypeOK
  <2>3. CASE NextMessage \in Message /\ Send(t, NextMessage, o)
    <3>1. PICK m \in Message : m = NextMessage
      BY Zenon, <2>3
    <3>2. /\ content' = [content EXCEPT ![m] = handle_list[t]]
          /\ handle_list' = [handle_list EXCEPT ![t] = <<>>]
          /\ UpdateState(o, {"READABLE"}, {}, {})
          /\ Return(t)
      BY Zenon, <2>3, <3>1 DEF Send
    <3>3. content' \in [Message -> HandleLists] /\ handle_list' \in [Threads -> HandleLists]
      BY Zenon, <3>2, EmptyHandleList DEF CallTypeOK
    <3>4. satisfied' \in [Side -> SUBSET Signal] /\ satisfiable' \in [Side -> SUBSET Signal]
      <4>1. {"READABLE"} \in SUBSET Signal
        BY Zenon DEF Signal
      <4> QED
        BY Zenon, <3>2, <4>1, SignalTypes DEF CallTypeOK
    <3> QED
      BY Zenon, <2>1, <3>2, <3>3, <3>4, ReturnTypes DEF CallTypeOK
  <2>4. CASE goto(t, "undo") /\ UNCHANGED <<signals, content, handle_list>>
    BY Zenon, <2>1, <2>4, GotoTypes DEF CallTypeOK, Label, signals
  <2> QED
    BY Zenon, <1>3, <2>2, <2>3, <2>4 DEF Write
<1>4. ASSUME NEW t \in Threads, UndoRemoveHandle(t) PROVE CallTypeOK' /\ SizedOK'
  <2>1. /\ reply_pipe' = reply_pipe /\ satisfied' = satisfied /\ satisfiable' = satisfiable
        /\ content' = content /\ deleted' = deleted /\ leaked' = leaked
        /\ table' = table \cup Range(handle_list[t])
        /\ handle_list' = [handle_list EXCEPT ![t] = <<>>]
        /\ Return(t)
    BY Zenon, <1>4 DEF UndoRemoveHandle, pipe, signals, history
  <2>2. Range(handle_list[t]) \subseteq Handle
    BY Zenon, HandleListFacts DEF CallTypeOK
  <2>3. table' \subseteq Handle /\ handle_list' \in [Threads -> HandleLists]
    BY Zenon, <2>1, <2>2, EmptyHandleList DEF CallTypeOK
  <2> QED
    BY Zenon, <2>1, <2>3, ReturnTypes DEF CallTypeOK
<1>5. ASSUME NEW t \in Threads, BeginRead(t) PROVE CallTypeOK' /\ SizedOK'
  <2>1. /\ reply_pipe' = reply_pipe /\ content' = content /\ table' = table /\ deleted' = deleted
        /\ leaked' = leaked /\ handle_list' = handle_list
    BY Zenon, <1>5 DEF BeginRead, handles, history
  <2>2. satisfied' \in [Side -> SUBSET Signal] /\ satisfiable' \in [Side -> SUBSET Signal]
    BY Zenon, <1>5, ReadTypes
  <2>3. PICK s \in Side : s = side[t]
    BY Zenon DEF CallTypeOK
  <2>4. CASE sized' = [sized EXCEPT ![t] = pending'[s]] /\ pc' = [pc EXCEPT ![t] = "sizes"]
             /\ side' = side /\ (IF pending[s] # 0 THEN pending' = pending ELSE Read(s))
    <3>1. pending'[s] \in 0 .. MaxMessages /\ pending'[s] # 0
      <4>1. CASE pending[s] # 0
        BY Zenon, <2>4, <4>1 DEF QueueTypeOK
      <4>2. CASE pending[s] = 0
        <5>1. messages[s] # <<>> /\ pending' = [pending EXCEPT ![s] = Head(messages[s])]
          BY Zenon, <2>4, <4>2 DEF Read
        <5>2. Head(messages[s]) \in Message
          BY Zenon, <5>1, HeadTailFacts DEF QueueTypeOK
        <5>3. pending'[s] = Head(messages[s])
          BY Zenon, <5>1 DEF QueueTypeOK
        <5> QED
          BY Zenon, <5>2, <5>3, MessageFacts
      <4> QED
        BY Zenon, <4>1, <4>2
    <3>2. PICK n \in 0 .. MaxMessages : n = pending'[s] /\ n # 0
      BY Zenon, <3>1
    <3>3. sized' = [sized EXCEPT ![t] = n] /\ pc' = [pc EXCEPT ![t] = "sizes"] /\ side' = side
      BY Zenon, <2>4, <3>2
    <3>4. CallTypeOK'
      BY Zenon, <2>1, <2>2, <3>3 DEF CallTypeOK, Label
    <3>5. SizedOK'
      BY Zenon, <3>2, <3>3 DEF CallTypeOK, SizedOK
    <3> QED
      BY Zenon, <3>4, <3>5
  <2>5. CASE Return(t)
    BY Zenon, <2>1, <2>2, <2>5, ReturnTypes DEF CallTypeOK
  <2> QED
    BY Zenon, <1>5, <2>3, <2>4, <2>5 DEF BeginRead
<1>6. ASSUME NEW t \in Threads, CheckSizes(t) PROVE CallTypeOK' /\ SizedOK'
  <2>1. /\ reply_pipe' = reply_pipe /\ satisfied' = satisfied /\ satisfiable' = satisfiable
        /\ content' = content /\ table' = table /\ deleted' = deleted /\ leaked' = leaked
        /\ handle_list' = handle_list
    BY Zenon, <1>6 DEF CheckSizes, pipe, signals, handles, history
  <2>2. sized[t] # 0 /\ (goto(t, "accept") \/ Return(t))
    BY Zenon, <1>6 DEF CheckSizes, SizedOK
  <2>3. /\ pc' \in [Threads -> Label] /\ side' \in [Threads -> Side]
        /\ sized' \in [Threads -> 0 .. MaxMessages] /\ SizedOK'
    BY Zenon, <2>2, ReturnTypes, GotoTypes DEF Label
  <2> QED
    BY Zenon, <2>1, <2>3 DEF CallTypeOK
<1>7. ASSUME NEW t \in Threads, AcceptRead(t) PROVE CallTypeOK' /\ SizedOK'
  <2>1. /\ reply_pipe' = reply_pipe /\ satisfied' = satisfied /\ satisfiable' = satisfiable
        /\ content' = content /\ table' = table /\ deleted' = deleted /\ leaked' = leaked
        /\ side' = side /\ sized' = sized /\ pc' = [pc EXCEPT ![t] = "deliver"] /\ pc[t] = "accept"
    BY Zenon, <1>7 DEF AcceptRead, signals, handles
  <2>2. handle_list' \in [Threads -> HandleLists]
    <3>1. PICK m \in 0 .. MaxMessages : m = pending[side[t]]
      BY Zenon DEF CallTypeOK, QueueTypeOK
    <3>2. CASE m = 0
      BY Zenon, <1>7, <3>1, <3>2 DEF AcceptRead, CallTypeOK
    <3>3. CASE m # 0
      <4>1. content[m] \in HandleLists
        BY Zenon, <3>3, MessageFacts DEF CallTypeOK
      <4>2. handle_list' = [handle_list EXCEPT ![t] = content[m]]
        BY Zenon, <1>7, <3>1, <3>3 DEF AcceptRead
      <4> QED
        BY Zenon, <4>1, <4>2 DEF CallTypeOK
    <3> QED
      BY Zenon, <3>2, <3>3
  <2>3. SizedOK'
    BY Zenon, <2>1 DEF SizedOK, CallTypeOK
  <2> QED
    BY Zenon, <2>1, <2>2, <2>3 DEF CallTypeOK, Label
<1>8. ASSUME NEW t \in Threads, Deliver(t) PROVE CallTypeOK' /\ SizedOK'
  <2>1. /\ reply_pipe' = reply_pipe /\ satisfied' = satisfied /\ satisfiable' = satisfiable
        /\ content' = content /\ deleted' = deleted
        /\ handle_list' = [handle_list EXCEPT ![t] = <<>>] /\ pc[t] = "deliver"
    BY Zenon, <1>8 DEF Deliver, pipe, signals, history
  <2>2. PICK got \in HandleLists : got = handle_list[t]
    BY Zenon DEF CallTypeOK
  <2>3. PICK n \in Nat : n = Len(content[sized[t]])
    <3>1. sized[t] \in Message
      BY Zenon, <2>1, MessageFacts DEF SizedOK, CallTypeOK
    <3> QED
      BY Zenon, <3>1, HandleListFacts DEF CallTypeOK
  <2>4. /\ Len(got) \in Nat /\ Range(got) \subseteq Handle
        /\ \A i \in 1 .. Len(got) : got[i] \in Handle
    BY Zenon, HandleListFacts DEF Range
  <2>5. \/ leaked' = leaked \cup Range(got) /\ Return(t) /\ UNCHANGED table
        \/ /\ n <= Len(got) /\ table' = table \cup {got[i] : i \in 1 .. n}
           /\ leaked' = leaked \cup {got[i] : i \in n + 1 .. Len(got)}
           /\ Return(t)
        \/ leaked' = leaked \cup Range(got) /\ goto(t, "panic") /\ UNCHANGED table
    BY Zenon, <1>8, <2>2, <2>3 DEF Deliver
  <2>6. table' \subseteq Handle /\ leaked' \subseteq Handle
    BY Zenon, <2>4, <2>5, SplitList DEF CallTypeOK
  <2>7. /\ pc' \in [Threads -> Label] /\ side' \in [Threads -> Side]
        /\ sized' \in [Threads -> 0 .. MaxMessages] /\ SizedOK'
    BY Zenon, <2>5, ReturnTypes, GotoTypes DEF Label
  <2>8. handle_list' \in [Threads -> HandleLists]
    BY Zenon, <2>1, EmptyHandleList DEF CallTypeOK
  <2> QED
    BY Zenon, <2>1, <2>6, <2>7, <2>8 DEF CallTypeOK
<1>9. ASSUME NEW h \in Handle, handle_close(h) PROVE CallTypeOK' /\ SizedOK'
  BY Zenon, <1>9 DEF handle_close, pipe, signals, call, history, CallTypeOK, SizedOK
<1>10. ASSUME NEW s \in Side, OnDispatcherDestruction(s) PROVE CallTypeOK' /\ SizedOK'
  <2>1. /\ reply_pipe' = reply_pipe /\ content' = content /\ table' = table /\ deleted' = deleted
        /\ leaked' = leaked /\ pc' = pc /\ side' = side /\ handle_list' = handle_list /\ sized' = sized
    BY Zenon, <1>10 DEF OnDispatcherDestruction, Detach, handles, call, history
  <2>2. \/ \E able : UpdateState(other_side(s), {"PEER_CLOSED"}, {"WRITABLE"}, able)
        \/ UNCHANGED signals
    BY Zenon, <1>10 DEF OnDispatcherDestruction, TellPeer
  <2>3. {"PEER_CLOSED"} \in SUBSET Signal /\ other_side(s) \in Side
    BY Zenon, MessageFacts DEF Signal
  <2>4. satisfied' \in [Side -> SUBSET Signal] /\ satisfiable' \in [Side -> SUBSET Signal]
    BY Zenon, <2>2, <2>3, SignalTypes DEF CallTypeOK, signals
  <2> QED
    BY Zenon, <2>1, <2>4 DEF CallTypeOK, SizedOK
<1>11. ASSUME NEW s \in Side, DestroyMessage(s) PROVE CallTypeOK' /\ SizedOK'
  <2>1. /\ reply_pipe' = reply_pipe /\ satisfied' = satisfied /\ satisfiable' = satisfiable
        /\ content' = content /\ table' = table /\ leaked' = leaked /\ pc' = pc /\ side' = side
        /\ handle_list' = handle_list /\ sized' = sized
    BY Zenon, <1>11 DEF DestroyMessage, pipe, signals, call, history
  <2>2. doomed[s] # <<>> /\ deleted' = deleted \cup Range(content[Head(doomed[s])])
    BY Zenon, <1>11 DEF DestroyMessage
  <2>3. Head(doomed[s]) \in Message
    BY Zenon, <2>2, HeadTailFacts DEF QueueTypeOK
  <2>4. Range(content[Head(doomed[s])]) \subseteq Handle
    <3>1. PICK m \in Message : m = Head(doomed[s])
      BY Zenon, <2>3
    <3>2. content[m] \in HandleLists
      BY Zenon DEF CallTypeOK
    <3> QED
      BY Zenon, <3>1, <3>2, HandleListFacts
  <2>5. deleted' \subseteq Handle
    BY Zenon, <2>2, <2>4 DEF CallTypeOK
  <2> QED
    BY Zenon, <2>1, <2>5 DEF CallTypeOK, SizedOK
<1>12. CASE UNCHANGED vars
  BY Zenon, <1>12 DEF vars, pipe, signals, handles, call, history, CallTypeOK, SizedOK
<1> QED
  BY Zenon, <1>1, <1>2, <1>3, <1>4, <1>5, <1>6, <1>7, <1>8, <1>9, <1>10, <1>11, <1>12
  DEF Next, InCall, Destroy

-----------------------------------------------------------------------------
(* The pipe is a channel. *)
QueueLayer == TypeOK /\ SizedOK /\ QueueInv

LEMMA QueueLayerInit == Init => QueueLayer
<1> SUFFICES ASSUME Init PROVE QueueLayer
  BY Zenon
<1>1. /\ <<>> \in Seq(Message) /\ 0 \in 0 .. MaxMessages /\ Range(<<>>) = {} /\ IsInjective(<<>>)
  BY MessagesAssumption DEF Range, IsInjective
<1>2. QueueTypeOK
  <2>1. dispatcher_alive \in [Side -> BOOLEAN]
    BY Zenon DEF Init
  <2> QED
    BY Zenon, <1>1, <2>1 DEF Init, QueueTypeOK
<1>3. CallTypeOK
  <2>1. reply_pipe \in BOOLEAN
    BY Zenon DEF Init
  <2>2. /\ satisfied \in [Side -> SUBSET Signal] /\ satisfiable \in [Side -> SUBSET Signal]
        /\ table \subseteq Handle /\ deleted \subseteq Handle /\ leaked \subseteq Handle
    BY Zenon DEF Init, Signal
  <2>3. content \in [Message -> HandleLists] /\ handle_list \in [Threads -> HandleLists]
    BY Zenon, EmptyHandleList DEF Init
  <2>4. /\ pc \in [Threads -> Label] /\ side \in [Threads -> Side]
        /\ sized \in [Threads -> 0 .. MaxMessages]
    BY Zenon, <1>1 DEF Init, Label, Side
  <2> QED
    BY Zenon, <2>1, <2>2, <2>3, <2>4 DEF CallTypeOK
<1>4. SizedOK
  BY Zenon DEF Init, SizedOK
<1>5. QueueInv
  <2>1. ASSUME NEW s \in Side
        PROVE  /\ dispatcher_alive[s] /\ messages[s] = <<>> /\ pending[s] = 0 /\ doomed[s] = <<>>
               /\ written[s] = <<>> /\ delivered[s] = <<>>
    BY Zenon DEF Init
  <2>2. ASSUME NEW s \in Side PROVE Parked(s) = <<>> /\ Waiting(s) = {} /\ Open(s)
    <3>1. Parked(s) = <<>>
      BY Zenon, <2>1 DEF Parked
    <3>2. <<>> \o (<<>> \o <<>>) = <<>>
      BY Zenon, <1>1, ConcatEmpty
    <3> QED
      BY Zenon, <1>1, <2>1, <3>1, <3>2 DEF Waiting, Open
  <2> QED
    BY Zenon, <1>1, <2>1, <2>2 DEF QueueInv
<1> QED
  BY Zenon, <1>2, <1>3, <1>4, <1>5, TypeParts DEF QueueLayer

LEMMA QueueLayerNext ==
  ASSUME QueueLayer, [Next]_vars
  PROVE  QueueLayer'
<1>1. QueueTypeOK /\ CallTypeOK /\ SizedOK /\ QueueInv /\ TypeOK
  BY Zenon, TypeParts DEF QueueLayer
<1>2. CallTypeOK' /\ SizedOK'
  BY Zenon, <1>1, CallTypeStep
<1>3. QueueTypeOK' /\ QueueInv'
  BY Zenon, <1>1, QueueSteps, SameQueues, SendsQueues, ParksQueues, AcceptsQueues, DetachesQueues, DropsQueues
<1>4. TypeOK'
  BY Zenon, <1>2, <1>3 DEF TypeOK, QueueTypeOK, CallTypeOK, Label
<1> QED
  BY Zenon, <1>2, <1>3, <1>4 DEF QueueLayer

(* The queue of side s as the channel has it. *)
Backlog == [s \in Side |-> Parked(s) \o messages[s]]

(* The steps that are no step of the channel: a message becomes pending, or is   *)
(* destroyed after the side was closed.                                          *)
LEMMA StutterStep ==
  ASSUME UNCHANGED <<dispatcher_alive, written, delivered>>, Backlog' = Backlog
  PROVE  UNCHANGED Ch!chVars
  BY Zenon DEF Backlog, Ch!chVars, Side

LEMMA SendIsSend ==
  ASSUME QueueLayer, NEW s \in Side, SendsTo(s)
  PROVE  \E m \in Message : Ch!Send(other_side(s), m)
<1>1. PICK m \in Message : m = NextMessage
  BY Zenon DEF SendsTo
<1>2. QueueTypeOK
  BY Zenon, TypeParts DEF QueueLayer
<1>3. Ch!Peer(other_side(s)) = s
  BY DEF Ch!Peer, other_side, Side
<1>4. \A r \in Side : Parked(r)' = Parked(r)
  BY Zenon DEF SendsTo, Parked
<1>5. messages'[s] = Append(messages[s], m) /\ \A r \in Side \ {s} : messages'[r] = messages[r]
  BY Zenon, <1>1, <1>2 DEF SendsTo, QueueTypeOK
<1>6. Parked(s) \o Append(messages[s], m) = Append(Parked(s) \o messages[s], m)
  BY <1>2, ParkedFacts, ConcatAppend DEF QueueTypeOK
<1>7. \A r \in Side : Backlog'[r] = IF r = s THEN Append(Backlog[s], m) ELSE Backlog[r]
  BY Zenon, <1>4, <1>5, <1>6 DEF Backlog
<1>8. Backlog' = [Backlog EXCEPT ![s] = Append(@, m)]
  BY Zenon, <1>7 DEF Backlog
<1>9. /\ dispatcher_alive[s] /\ written' = [written EXCEPT ![s] = Append(@, m)]
      /\ dispatcher_alive' = dispatcher_alive /\ delivered' = delivered
  BY Zenon, <1>1 DEF SendsTo
<1>10. Ch!Send(other_side(s), m)
  BY Zenon, <1>3, <1>8, <1>9 DEF Ch!Send, Backlog
<1> QED
  BY Zenon, <1>10

LEMMA AcceptIsReceive ==
  ASSUME QueueLayer, NEW s \in Side, Accepts(s)
  PROVE  Ch!Receive(s)
<1>1. QueueTypeOK /\ QueueInv
  BY Zenon, TypeParts DEF QueueLayer
<1>2. PICK m \in Message : m = pending[s]
  BY Zenon, <1>1, AcceptsQueues
<1>3. messages[s] \in Seq(Message) /\ messages' = messages /\ m # 0
  BY Zenon, <1>1, <1>2 DEF QueueTypeOK, Accepts
<1>4. pending'[s] = 0 /\ \A r \in Side \ {s} : pending'[r] = pending[r]
  BY Zenon, <1>1 DEF QueueTypeOK, Accepts
<1>5. Parked(s) = <<m>> /\ Parked(s)' = <<>> /\ \A r \in Side \ {s} : Parked(r)' = Parked(r)
  BY Zenon, <1>2, <1>3, <1>4 DEF Parked
<1>6. /\ Backlog[s] # <<>> /\ Head(Backlog[s]) = m /\ Tail(Backlog[s]) = messages[s]
  BY Zenon, <1>3, <1>5, FrontFacts DEF Backlog
<1>7. <<>> \o messages[s] = messages[s]
  BY Zenon, <1>3, ConcatEmpty
<1>8. \A r \in Side : Backlog'[r] = IF r = s THEN Tail(Backlog[s]) ELSE Backlog[r]
  BY Zenon, <1>3, <1>5, <1>6, <1>7 DEF Backlog
<1>9. Backlog' = [Backlog EXCEPT ![s] = Tail(@)]
  BY Zenon, <1>8 DEF Backlog
<1>10. /\ delivered' = [delivered EXCEPT ![s] = Append(@, Head(Backlog[s]))]
       /\ dispatcher_alive' = dispatcher_alive /\ written' = written
  BY Zenon, <1>2, <1>6 DEF Accepts
<1> QED
  BY Zenon, <1>6, <1>9, <1>10 DEF Ch!Receive, Backlog

LEMMA DetachIsClose ==
  ASSUME QueueLayer, NEW s \in Side, Detaches(s)
  PROVE  Ch!Close(s)
<1>1. QueueTypeOK
  BY Zenon, TypeParts DEF QueueLayer
<1>2. /\ messages'[s] = <<>> /\ pending'[s] = 0
      /\ \A r \in Side \ {s} : messages'[r] = messages[r] /\ pending'[r] = pending[r]
  BY Zenon, <1>1 DEF QueueTypeOK, Detaches
<1>3. Parked(s)' = <<>> /\ \A r \in Side \ {s} : Parked(r)' = Parked(r)
  BY Zenon, <1>2 DEF Parked
<1>4. <<>> \o <<>> = <<>>
  OBVIOUS
<1>5. \A r \in Side : Backlog'[r] = IF r = s THEN <<>> ELSE Backlog[r]
  BY Zenon, <1>2, <1>3, <1>4 DEF Backlog
<1>6. Backlog' = [Backlog EXCEPT ![s] = <<>>]
  BY Zenon, <1>5 DEF Backlog
<1> QED
  BY Zenon, <1>6 DEF Ch!Close, Backlog, Detaches

LEMMA ChannelStep ==
  ASSUME QueueLayer, [Next]_vars
  PROVE  [Ch!ChNext]_(Ch!chVars)
<1>1. QueueTypeOK /\ QueueInv /\ TypeOK
  BY Zenon, TypeParts DEF QueueLayer
<1>2. CASE UNCHANGED queues
  <2>1. Backlog' = Backlog
    BY Zenon, <1>2, SameQueues DEF Backlog, queues
  <2> QED
    BY Zenon, <1>2, <2>1, StutterStep DEF queues
<1>3. ASSUME NEW s \in Side, SendsTo(s) PROVE Ch!ChNext
  <2>1. other_side(s) \in Ch!Side
    BY Zenon, MessageFacts DEF Ch!Side, Side
  <2>2. PICK m \in Message : Ch!Send(other_side(s), m)
    BY Zenon, <1>3, SendIsSend
  <2> QED
    BY <2>1, <2>2, Zenon DEF Ch!ChNext
<1>4. ASSUME NEW s \in Side, Parks(s) PROVE UNCHANGED Ch!chVars
  <2>1. Backlog' = Backlog
    BY Zenon, <1>1, <1>4, ParksQueues DEF Backlog
  <2> QED
    BY Zenon, <1>4, <2>1, StutterStep DEF Parks
<1>5. ASSUME NEW s \in Side, Accepts(s) \/ Detaches(s) PROVE Ch!ChNext
  <2>1. s \in Ch!Side
    BY Zenon DEF Ch!Side, Side
  <2> QED
    BY Zenon, <1>5, <2>1, AcceptIsReceive, DetachIsClose DEF Ch!ChNext
<1>6. ASSUME NEW s \in Side, Drops(s) PROVE UNCHANGED Ch!chVars
  <2>1. messages' = messages /\ pending' = pending
    BY Zenon, <1>6 DEF Drops
  <2>2. Backlog' = Backlog
    BY Zenon, <2>1 DEF Backlog, Parked
  <2> QED
    BY Zenon, <1>6, <2>2, StutterStep DEF Drops
<1> QED
  BY Zenon, <1>1, <1>2, <1>3, <1>4, <1>5, <1>6, QueueSteps

(* The pipe implements the channel: whatever the interleaving of reads, reads    *)
(* that end early, writes and closes (MessagePipe::Read and Write, BeginRead and *)
(* AcceptRead), each message is delivered to its side once and in the order of   *)
(* the writes, for any number of threads, messages and handles.                  *)
THEOREM PipeImplementsChannel == Spec => ImplementsChannel
<1>1. Init => Ch!ChInit
  <2> SUFFICES ASSUME Init PROVE Ch!ChInit
    OBVIOUS
  <2>1. Backlog = [s \in Side |-> <<>>]
    <3>1. ASSUME NEW s \in Side PROVE Parked(s) \o messages[s] = <<>>
      BY DEF Init, Parked
    <3> QED
      BY Zenon, <3>1 DEF Backlog
  <2> QED
    BY Zenon, <2>1 DEF Init, Ch!ChInit, Ch!Side, Side, Backlog
<1>2. QueueLayer /\ [Next]_vars => [Ch!ChNext]_(Ch!chVars)
  BY Zenon, ChannelStep
<1>3. QueueLayer /\ [Next]_vars => QueueLayer'
  BY Zenon, QueueLayerNext
<1> QED
  BY <1>1, <1>2, <1>3, QueueLayerInit, PTL DEF Spec, ImplementsChannel, Ch!ChSpec

=============================================================================
