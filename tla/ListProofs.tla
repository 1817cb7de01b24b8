----------------------------- MODULE ListProofs -----------------------------
(***************************************************************************)
(* What the operations of Lists, and Append and Tail, do to a list: the    *)
(* lemmas that the proofs about list_node lists and wait queues share.     *)
(***************************************************************************)
EXTENDS Lists, TLAPS

(* A task at the end of a list. *)
LEMMA AppendIn ==
  ASSUME NEW S, NEW q \in Seq(S), NEW e \in S
  PROVE  /\ Append(q, e) \in Seq(S)
         /\ \A x : InList(Append(q, e), x) <=> InList(q, x) \/ x = e
         /\ NoRepeat(q) /\ ~InList(q, e) => NoRepeat(Append(q, e))
<1>1. /\ Append(q, e) \in Seq(S)
      /\ \A i \in DOMAIN q : i \in DOMAIN Append(q, e) /\ Append(q, e)[i] = q[i]
      /\ \A i \in DOMAIN Append(q, e) : i \in DOMAIN q \/ i = Len(q) + 1
      /\ Len(q) + 1 \in DOMAIN Append(q, e) /\ Append(q, e)[Len(q) + 1] = e
  OBVIOUS
<1>2. \A x : InList(Append(q, e), x) <=> InList(q, x) \/ x = e
  BY <1>1, Zenon DEF InList
<1>3. NoRepeat(q) /\ ~InList(q, e) => NoRepeat(Append(q, e))
  BY <1>1, Zenon DEF InList, NoRepeat
<1> QED
  BY Zenon, <1>1, <1>2, <1>3

(* The first task of a list. *)
LEMMA TailIn ==
  ASSUME NEW S, NEW q \in Seq(S), q # <<>>
  PROVE  /\ Tail(q) \in Seq(S) /\ Head(q) \in S /\ InList(q, Head(q))
         /\ NoRepeat(q) => /\ NoRepeat(Tail(q))
                           /\ \A x : InList(Tail(q), x) <=> InList(q, x) /\ x # Head(q)
<1>1. /\ Tail(q) \in Seq(S) /\ Head(q) = q[1] /\ 1 \in DOMAIN q
      /\ \A i \in DOMAIN Tail(q) : i + 1 \in DOMAIN q /\ Tail(q)[i] = q[i + 1] /\ i \in Nat \ {0}
      /\ \A i \in DOMAIN q : i \in Nat /\ (i # 1 => i - 1 \in DOMAIN Tail(q))
  OBVIOUS
<1>2. Head(q) \in S /\ InList(q, Head(q))
  BY <1>1 DEF InList
<1>3. NoRepeat(q) => NoRepeat(Tail(q))
  BY <1>1 DEF NoRepeat
<1>4. ASSUME NoRepeat(q), NEW x, InList(Tail(q), x) PROVE InList(q, x) /\ x # Head(q)
  BY <1>1, <1>4 DEF InList, NoRepeat
<1>5. ASSUME NEW x, InList(q, x), x # Head(q) PROVE InList(Tail(q), x)
  BY <1>1, <1>5 DEF InList
<1> QED
  BY Zenon, <1>1, <1>2, <1>3, <1>4, <1>5

LEMMA ConcatParts ==
  ASSUME NEW S, NEW s \in Seq(S), NEW t \in Seq(S)
  PROVE  /\ s \o t \in Seq(S) /\ Len(s \o t) = Len(s) + Len(t)
         /\ \A i \in 1 .. Len(s) + Len(t) :
               (s \o t)[i] = IF i <= Len(s) THEN s[i] ELSE t[i - Len(s)]
  OBVIOUS

(* Taking one element out of a list. *)
CutAt(q, n) == SubSeq(q, 1, n - 1) \o SubSeq(q, n + 1, Len(q))

LEMMA CutAtIn ==
  ASSUME NEW S, NEW q \in Seq(S), NEW n \in DOMAIN q
  PROVE  /\ CutAt(q, n) \in Seq(S)
         /\ NoRepeat(q) => /\ NoRepeat(CutAt(q, n))
                           /\ \A x : InList(CutAt(q, n), x) <=> InList(q, x) /\ x # q[n]
<1> DEFINE r == CutAt(q, n)
           lo == SubSeq(q, 1, n - 1)
           hi == SubSeq(q, n + 1, Len(q))
<1>m. PICK m : m = Len(q)
  BY Zenon
<1>0. n \in Nat \ {0} /\ m \in Nat /\ n <= m /\ DOMAIN q = 1 .. m
  BY <1>m
<1>1a. /\ lo \in Seq(S) /\ Len(lo) = n - 1 /\ \A i \in 1 .. n - 1 : lo[i] = q[i]
  BY <1>0, <1>m
<1>1b. /\ hi \in Seq(S) /\ Len(hi) = m - n /\ \A i \in 1 .. m - n : hi[i] = q[n + i]
  BY <1>0, <1>m
<1>1c. r = lo \o hi
  BY Zenon DEF CutAt
<1> HIDE DEF lo, hi, r
<1>1d. /\ r \in Seq(S) /\ Len(r) = Len(lo) + Len(hi)
       /\ \A i \in 1 .. Len(lo) + Len(hi) : r[i] = IF i <= Len(lo) THEN lo[i] ELSE hi[i - Len(lo)]
  BY <1>1a, <1>1b, <1>1c, ConcatParts
<1>1e. /\ DOMAIN r = 1 .. m - 1
       /\ \A i \in 1 .. m - 1 : r[i] = IF i <= n - 1 THEN lo[i] ELSE hi[i - (n - 1)]
  <2>1. Len(lo) + Len(hi) = m - 1
    BY <1>0, <1>1a, <1>1b
  <2> QED
    BY <1>1a, <1>1d, <2>1
<1>a. ASSUME NEW i \in 1 .. m - 1 PROVE r[i] = IF i < n THEN q[i] ELSE q[i + 1]
  <2>1. CASE i < n
    <3>1. i \in 1 .. n - 1
      BY <1>0, <2>1
    <3> QED
      BY <1>1a, <1>1e, <2>1, <3>1
  <2>2. CASE ~(i < n)
    <3>1. PICK k : k = i - (n - 1)
      BY Zenon
    <3>2. k \in 1 .. m - n /\ n + k = i + 1 /\ ~(i <= n - 1)
      BY <1>0, <2>2, <3>1
    <3>3. r[i] = hi[k]
      BY Zenon, <1>1e, <3>1, <3>2
    <3> QED
      BY Zenon, <1>1b, <2>2, <3>2, <3>3
  <2> QED
    BY Zenon, <2>1, <2>2
<1>1. /\ \A i \in DOMAIN r : r[i] = IF i < n THEN q[i] ELSE q[i + 1]
      /\ \A i \in DOMAIN r : i \in Nat /\ i \in DOMAIN q /\ i + 1 \in DOMAIN q
  BY <1>0, <1>1e, <1>a
<1> DEFINE at(i) == IF i < n THEN i ELSE i + 1
<1>b. /\ \A i \in DOMAIN r : r[i] = q[at(i)] /\ at(i) \in DOMAIN q /\ at(i) # n
      /\ \A i, j \in DOMAIN r : at(i) = at(j) => i = j
  BY <1>0, <1>1
<1> HIDE DEF at
<1>2. NoRepeat(q) => NoRepeat(r)
  BY Zenon, <1>b DEF NoRepeat
<1>3. ASSUME NoRepeat(q), NEW x, InList(r, x) PROVE InList(q, x) /\ x # q[n]
  BY Zenon, <1>b, <1>3 DEF InList, NoRepeat
<1>4. ASSUME NEW x, InList(q, x), x # q[n] PROVE InList(r, x)
  <2>1. PICK i \in DOMAIN q : q[i] = x
    BY Zenon, <1>4 DEF InList
  <2>2. CASE i < n
    BY <1>0, <1>1, <1>1e, <2>1, <2>2 DEF InList
  <2>3. CASE i > n
    <3>1. i - 1 \in DOMAIN r /\ r[i - 1] = q[i]
      BY <1>0, <1>1, <1>1e, <2>1, <2>3
    <3> QED
      BY Zenon, <2>1, <3>1 DEF InList
  <2> QED
    BY <1>0, <1>4, <2>1, <2>2, <2>3
<1> QED
  BY Zenon, <1>1d, <1>2, <1>3, <1>4 DEF r

(* A task that is taken out of a list wherever it is. *)
LEMMA DeleteIn ==
  ASSUME NEW S, NEW q \in Seq(S), NEW e
  PROVE  /\ list_delete(q, e) \in Seq(S)
         /\ NoRepeat(q) => /\ NoRepeat(list_delete(q, e))
                           /\ \A x : InList(list_delete(q, e), x) <=> InList(q, x) /\ x # e
<1>1. CASE InList(q, e)
  <2>1. PICK n : n = CHOOSE i \in DOMAIN q : q[i] = e
    BY Zenon
  <2>2. n \in DOMAIN q /\ q[n] = e
    BY Zenon, <1>1, <2>1 DEF InList
  <2>3. list_delete(q, e) = CutAt(q, n)
    BY <1>1, <2>1, Zenon DEF list_delete, CutAt
  <2> QED
    BY <2>2, <2>3, CutAtIn
<1>2. CASE ~InList(q, e)
  <2>1. list_delete(q, e) = q
    BY <1>2, Zenon DEF list_delete
  <2> QED
    BY Zenon, <1>2, <2>1
<1> QED
  BY Zenon, <1>1, <1>2

=============================================================================
