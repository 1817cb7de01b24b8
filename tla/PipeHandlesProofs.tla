------------------------- MODULE PipeHandlesProofs --------------------------
(***************************************************************************)
(* Proofs about the handles and the signals of MessagePipe.                *)
(***************************************************************************)
EXTENDS MessagePipeProofs

-----------------------------------------------------------------------------
(* Who may hold a handle: the table, a call, a message, or nobody any more.  *)
Holders == ({"loose"} \X {"table", "deleted", "leaked"}) \cup ({"call"} \X Threads)
           \cup ({"message"} \X Message)

HoldOf(tab, del, lost, lists, in, wait) ==
  [x \in Holders |->
     IF x[1] = "loose"
       THEN IF x[2] = "table" THEN tab ELSE IF x[2] = "deleted" THEN del ELSE lost
       ELSE IF x[1] = "call" THEN Range(lists[x[2]])
       ELSE IF x[2] \in wait THEN Range(in[x[2]]) ELSE {}]

AllWaiting == Waiting(0) \cup Waiting(1)

Hold == HoldOf(table, deleted, leaked, handle_list, content, AllWaiting)

(* Every handle has one holder. *)
OneHolder(F) ==
  /\ \A x, y \in Holders : x # y => F[x] \cap F[y] = {}
  /\ \A h \in Handle : \E x \in Holders : h \in F[x]

(* A call keeps its side open, holds handles only where it has taken some,   *)
(* and no list of handles names one twice.                                   *)
ThreadOK(t) ==
  /\ pc[t] # "user" => dispatcher_alive[side[t]]
  /\ pc[t] \notin {"write", "undo", "deliver"} => handle_list[t] = <<>>
  /\ IsInjective(handle_list[t])

CallInv ==
  /\ \A s \in Side : dispatcher_alive[s] \/ s \in deleted
  /\ \A m \in Message : IsInjective(content[m])
  /\ \A t \in Threads : ThreadOK(t)

PipeInv == QueueLayer /\ CallInv /\ OneHolder(Hold) /\ SignalsMatchQueue

-----------------------------------------------------------------------------
LEMMA HolderFacts ==
  /\ \A k \in {"table", "deleted", "leaked"} : <<"loose", k>> \in Holders
  /\ \A t \in Threads : <<"call", t>> \in Holders
  /\ \A m \in Message : <<"message", m>> \in Holders
  /\ \A x \in Holders : \/ x \in {<<"loose", "table">>, <<"loose", "deleted">>, <<"loose", "leaked">>}
                        \/ \E t \in Threads : x = <<"call", t>>
                        \/ \E m \in Message : x = <<"message", m>>
  BY DEF Holders

LEMMA HoldOfFacts ==
  ASSUME NEW tab, NEW del, NEW lost, NEW lists, NEW in, NEW wait, NEW F,
         F = HoldOf(tab, del, lost, lists, in, wait)
  PROVE  /\ F[<<"loose", "table">>] = tab /\ F[<<"loose", "deleted">>] = del
         /\ F[<<"loose", "leaked">>] = lost
         /\ \A t \in Threads : F[<<"call", t>>] = Range(lists[t])
         /\ \A m \in Message : F[<<"message", m>>] = IF m \in wait THEN Range(in[m]) ELSE {}
<1>1. /\ F[<<"loose", "table">>] = tab /\ F[<<"loose", "deleted">>] = del
      /\ F[<<"loose", "leaked">>] = lost
  BY Zenon, HolderFacts DEF HoldOf
<1>2. ASSUME NEW t \in Threads PROVE F[<<"call", t>>] = Range(lists[t])
  <2>1. <<"call", t>> \in Holders
    BY Zenon, HolderFacts
  <2> QED
    BY Zenon, <2>1 DEF HoldOf
<1>3. ASSUME NEW m \in Message PROVE F[<<"message", m>>] = IF m \in wait THEN Range(in[m]) ELSE {}
  <2>1. <<"message", m>> \in Holders
    BY Zenon, HolderFacts
  <2> QED
    BY Zenon, <2>1 DEF HoldOf
<1> QED
  BY Zenon, <1>1, <1>2, <1>3

(* Handles that go from one holder to another still have one holder. *)
LEMMA MoveKeepsOneHolder ==
  ASSUME NEW F, NEW G, NEW x \in Holders, NEW y \in Holders, NEW R,
         OneHolder(F), x # y, R \subseteq F[x],
         G[x] = F[x] \ R, G[y] = F[y] \cup R,
         \A z \in Holders \ {x, y} : G[z] = F[z]
  PROVE  OneHolder(G)
<1>1. ASSUME NEW a \in Holders, NEW b \in Holders, a # b PROVE G[a] \cap G[b] = {}
  <2>1. \A z \in Holders \ {x} : F[z] \cap F[x] = {}
    BY Zenon DEF OneHolder
  <2>2. F[a] \cap F[b] = {}
    BY Zenon, <1>1 DEF OneHolder
  <2>3. CASE a = x
    BY Zenon, <1>1, <2>2, <2>3
  <2>4. CASE b = x
    BY Zenon, <1>1, <2>2, <2>4
  <2>5. CASE a # x /\ b # x
    <3>1. F[a] \cap R = {} /\ F[b] \cap R = {}
      BY Zenon, <2>1, <2>5
    <3> QED
      BY Zenon, <1>1, <2>2, <2>5, <3>1
  <2> QED
    BY Zenon, <2>3, <2>4, <2>5
<1>2. ASSUME NEW h \in Handle PROVE \E z \in Holders : h \in G[z]
  <2>1. PICK z \in Holders : h \in F[z]
    BY Zenon DEF OneHolder
  <2>2. CASE h \in R
    BY Zenon, <2>2
  <2>3. CASE h \notin R
    BY Zenon, <2>1, <2>3
  <2> QED
    BY Zenon, <2>2, <2>3
<1> QED
  BY <1>1, <1>2, Zenon DEF OneHolder

(* Nothing moved. *)
LEMMA SameHolders ==
  ASSUME OneHolder(Hold), UNCHANGED <<table, deleted, leaked, handle_list, content>>,
         AllWaiting' = AllWaiting
  PROVE  OneHolder(Hold)'
<1>1. Hold' = Hold
  BY Zenon DEF Hold
<1> QED
  BY Zenon, <1>1 DEF OneHolder

LEMMA AllWaitingFacts ==
  ASSUME QueueTypeOK
  PROVE  /\ \A s \in Side : AllWaiting = Waiting(s) \cup Waiting(other_side(s))
         /\ AllWaiting \subseteq Message
  BY ParkedFacts DEF AllWaiting, Side, other_side

LEMMA WaitingSent ==
  ASSUME QueueTypeOK, QueueInv, NEW s \in Side, SendsTo(s)
  PROVE  NextMessage \in Message \ AllWaiting /\ AllWaiting' = AllWaiting \cup {NextMessage}
<1>1. /\ AllWaiting = Waiting(s) \cup Waiting(other_side(s))
      /\ AllWaiting' = Waiting(s)' \cup Waiting(other_side(s))'
  BY DEF AllWaiting, Side, other_side
<1> QED
  BY Zenon, <1>1, SendsQueues DEF SendsTo

LEMMA WaitingTaken ==
  ASSUME QueueTypeOK, QueueInv, NEW s \in Side, NEW m \in Waiting(s), Waiting(s)' = Waiting(s) \ {m},
         \A r \in Side \ {s} : Waiting(r)' = Waiting(r)
  PROVE  m \in Message \cap AllWaiting /\ AllWaiting' = AllWaiting \ {m}
<1>1. /\ AllWaiting = Waiting(s) \cup Waiting(other_side(s))
      /\ AllWaiting' = Waiting(s)' \cup Waiting(other_side(s))'
  BY DEF AllWaiting, Side, other_side
<1>2. m \notin Waiting(other_side(s)) /\ Waiting(other_side(s))' = Waiting(other_side(s))
  BY Zenon, MessageFacts DEF QueueInv
<1> QED
  BY <1>1, <1>2, ParkedFacts

LEMMA WaitingSame ==
  ASSUME \A r \in Side : Waiting(r)' = Waiting(r)
  PROVE  AllWaiting' = AllWaiting
  BY Zenon DEF AllWaiting, Side

(* What the holders hold, before and after a step. *)
LEMMA HoldNow ==
  ASSUME NEW F, F = Hold
  PROVE  /\ F[<<"loose", "table">>] = table /\ F[<<"loose", "deleted">>] = deleted
         /\ F[<<"loose", "leaked">>] = leaked
         /\ \A t \in Threads : F[<<"call", t>>] = Range(handle_list[t])
         /\ \A m \in Message : F[<<"message", m>>] = IF m \in AllWaiting THEN Range(content[m]) ELSE {}
  BY HoldOfFacts DEF Hold

LEMMA HoldNext ==
  ASSUME NEW F, F = Hold'
  PROVE  /\ F[<<"loose", "table">>] = table' /\ F[<<"loose", "deleted">>] = deleted'
         /\ F[<<"loose", "leaked">>] = leaked'
         /\ \A t \in Threads : F[<<"call", t>>] = Range(handle_list'[t])
         /\ \A m \in Message : F[<<"message", m>>] = IF m \in AllWaiting' THEN Range(content'[m]) ELSE {}
<1>1. F = HoldOf(table', deleted', leaked', handle_list', content', AllWaiting')
  BY Zenon DEF Hold, HoldOf
<1> QED
  BY <1>1, HoldOfFacts

LEMMA TakeHolders ==
  ASSUME CallTypeOK, CallInv, OneHolder(Hold), NEW t \in Threads, pc[t] = "take",
         NEW hs \in HandleLists, CanSend(side[t], hs),
         table' = table \ Range(hs), handle_list' = [handle_list EXCEPT ![t] = hs],
         UNCHANGED <<deleted, leaked, content>>, AllWaiting' = AllWaiting
  PROVE  OneHolder(Hold)'
<1>1. Range(hs) \subseteq table /\ Range(handle_list[t]) = {}
  BY Zenon, EmptyFacts DEF CallInv, ThreadOK, CanSend
<1>2. \A u \in Threads : handle_list'[u] = IF u = t THEN hs ELSE handle_list[u]
  BY Zenon DEF CallTypeOK
<1>3. PICK F, G, R : F = Hold /\ G = Hold' /\ R = Range(hs)
  BY Zenon
<1>4. PICK x \in Holders, y \in Holders : x = <<"loose", "table">> /\ y = <<"call", t>> /\ x # y
  BY Zenon, HolderFacts
<1>5. R \subseteq F[x] /\ G[x] = F[x] \ R
  BY Zenon, <1>1, <1>2, <1>3, <1>4, HoldNow, HoldNext
<1>6. G[y] = F[y] \cup R
  BY <1>1, <1>2, <1>3, <1>4, HoldNow, HoldNext
<1>7. \A z \in Holders \ {x, y} : G[z] = F[z]
  BY <1>1, <1>2, <1>3, <1>4, HoldNow, HoldNext, HolderFacts
<1>8. OneHolder(F) /\ x # y
  BY Zenon, <1>3, <1>4 DEF OneHolder
<1>9. OneHolder(G)
  BY <1>8, <1>5, <1>6, <1>7, MoveKeepsOneHolder, Zenon
<1> QED
  BY Zenon, <1>3, <1>9 DEF OneHolder

LEMMA SendHolders ==
  ASSUME CallTypeOK, QueueTypeOK, QueueInv, OneHolder(Hold), NEW t \in Threads, NEW s \in Side,
         SendsTo(s), Send(t, NextMessage, s), UNCHANGED <<table, deleted, leaked>>
  PROVE  OneHolder(Hold)'
<1>1. Range(<<>>) = {}
  BY DEF Range
<1>2. PICK m \in Message : m = NextMessage /\ m \notin AllWaiting /\ AllWaiting' = AllWaiting \cup {m}
  BY Zenon, WaitingSent
<1>3. handle_list' = [handle_list EXCEPT ![t] = <<>>] /\ content' = [content EXCEPT ![m] = handle_list[t]]
  BY Zenon, <1>2 DEF Send
<1>4. /\ \A u \in Threads : handle_list'[u] = IF u = t THEN <<>> ELSE handle_list[u]
      /\ \A k \in Message : content'[k] = IF k = m THEN handle_list[t] ELSE content[k]
  BY Zenon, <1>3 DEF CallTypeOK
<1>5. PICK F, G, R : F = Hold /\ G = Hold' /\ R = Range(handle_list[t])
  BY Zenon
<1>6. PICK x \in Holders, y \in Holders : x = <<"call", t>> /\ y = <<"message", m>> /\ x # y
  BY Zenon, HolderFacts
<1>7. R \subseteq F[x] /\ G[x] = F[x] \ R
  BY <1>1, <1>2, <1>3, <1>4, <1>5, <1>6, HoldNow, HoldNext
<1>8. G[y] = F[y] \cup R
  BY <1>1, <1>2, <1>3, <1>4, <1>5, <1>6, HoldNow, HoldNext
<1>9. \A z \in Holders \ {x, y} : G[z] = F[z]
  BY <1>1, <1>2, <1>3, <1>4, <1>5, <1>6, HoldNow, HoldNext, HolderFacts
<1>10. OneHolder(F) /\ x # y
  BY Zenon, <1>5, <1>6 DEF OneHolder
<1>11. OneHolder(G)
  BY <1>10, <1>7, <1>8, <1>9, MoveKeepsOneHolder, Zenon
<1> QED
  BY Zenon, <1>5, <1>11 DEF OneHolder

LEMMA UndoHolders ==
  ASSUME CallTypeOK, OneHolder(Hold), NEW t \in Threads,
         table' = table \cup Range(handle_list[t]), handle_list' = [handle_list EXCEPT ![t] = <<>>],
         UNCHANGED <<deleted, leaked, content>>, AllWaiting' = AllWaiting
  PROVE  OneHolder(Hold)'
<1>1. Range(<<>>) = {}
  BY DEF Range
<1>2. \A u \in Threads : handle_list'[u] = IF u = t THEN <<>> ELSE handle_list[u]
  BY Zenon DEF CallTypeOK
<1>3. PICK F, G, R : F = Hold /\ G = Hold' /\ R = Range(handle_list[t])
  BY Zenon
<1>4. PICK x \in Holders, y \in Holders : x = <<"call", t>> /\ y = <<"loose", "table">> /\ x # y
  BY Zenon, HolderFacts
<1>5. R \subseteq F[x] /\ G[x] = F[x] \ R
  BY <1>1, <1>2, <1>3, <1>4, HoldNow, HoldNext
<1>6. G[y] = F[y] \cup R
  BY Zenon, <1>1, <1>2, <1>3, <1>4, HoldNow, HoldNext
<1>7. \A z \in Holders \ {x, y} : G[z] = F[z]
  BY <1>1, <1>2, <1>3, <1>4, HoldNow, HoldNext, HolderFacts
<1>8. OneHolder(F) /\ x # y
  BY Zenon, <1>3, <1>4 DEF OneHolder
<1>9. OneHolder(G)
  BY <1>8, <1>5, <1>6, <1>7, MoveKeepsOneHolder, Zenon
<1> QED
  BY Zenon, <1>3, <1>9 DEF OneHolder

LEMMA AcceptHolders ==
  ASSUME CallTypeOK, CallInv, OneHolder(Hold), NEW t \in Threads, pc[t] = "accept",
         NEW m \in Message, m \in AllWaiting, AllWaiting' = AllWaiting \ {m},
         handle_list' = [handle_list EXCEPT ![t] = content[m]],
         UNCHANGED <<table, deleted, leaked, content>>
  PROVE  OneHolder(Hold)'
<1>1. Range(handle_list[t]) = {}
  BY Zenon, EmptyFacts DEF CallInv, ThreadOK
<1>2. \A u \in Threads : handle_list'[u] = IF u = t THEN content[m] ELSE handle_list[u]
  BY Zenon DEF CallTypeOK
<1>3. PICK F, G, R : F = Hold /\ G = Hold' /\ R = Range(content[m])
  BY Zenon
<1>4. PICK x \in Holders, y \in Holders : x = <<"message", m>> /\ y = <<"call", t>> /\ x # y
  BY Zenon, HolderFacts
<1>5. R \subseteq F[x] /\ G[x] = F[x] \ R
  BY <1>1, <1>2, <1>3, <1>4, HoldNow, HoldNext
<1>6. G[y] = F[y] \cup R
  BY <1>1, <1>2, <1>3, <1>4, HoldNow, HoldNext
<1>7. \A z \in Holders \ {x, y} : G[z] = F[z]
  BY <1>1, <1>2, <1>3, <1>4, HoldNow, HoldNext, HolderFacts
<1>8. OneHolder(F) /\ x # y
  BY Zenon, <1>3, <1>4 DEF OneHolder
<1>9. OneHolder(G)
  BY <1>8, <1>5, <1>6, <1>7, MoveKeepsOneHolder, Zenon
<1> QED
  BY Zenon, <1>3, <1>9 DEF OneHolder

LEMMA CloseHolders ==
  ASSUME OneHolder(Hold), NEW h \in table, table' = table \ {h}, deleted' = deleted \cup {h},
         UNCHANGED <<leaked, handle_list, content>>, AllWaiting' = AllWaiting
  PROVE  OneHolder(Hold)'
<1>1. PICK F, G, R : F = Hold /\ G = Hold' /\ R = {h}
  BY Zenon
<1>2. PICK x \in Holders, y \in Holders : x = <<"loose", "table">> /\ y = <<"loose", "deleted">> /\ x # y
  BY Zenon, HolderFacts
<1>3. R \subseteq F[x] /\ G[x] = F[x] \ R
  BY <1>1, <1>2, HoldNow, HoldNext
<1>4. G[y] = F[y] \cup R
  BY Zenon, <1>1, <1>2, HoldNow, HoldNext
<1>5. \A z \in Holders \ {x, y} : G[z] = F[z]
  BY <1>1, <1>2, HoldNow, HoldNext, HolderFacts
<1>6. OneHolder(F) /\ x # y
  BY Zenon, <1>1, <1>2 DEF OneHolder
<1>7. OneHolder(G)
  BY <1>6, <1>3, <1>4, <1>5, MoveKeepsOneHolder, Zenon
<1> QED
  BY Zenon, <1>1, <1>7 DEF OneHolder

LEMMA DestroyHolders ==
  ASSUME OneHolder(Hold), NEW m \in Message, m \in AllWaiting, AllWaiting' = AllWaiting \ {m},
         deleted' = deleted \cup Range(content[m]),
         UNCHANGED <<table, leaked, handle_list, content>>
  PROVE  OneHolder(Hold)'
<1>1. PICK F, G, R : F = Hold /\ G = Hold' /\ R = Range(content[m])
  BY Zenon
<1>2. PICK x \in Holders, y \in Holders : x = <<"message", m>> /\ y = <<"loose", "deleted">> /\ x # y
  BY Zenon, HolderFacts
<1>3. R \subseteq F[x] /\ G[x] = F[x] \ R
  BY <1>1, <1>2, HoldNow, HoldNext
<1>4. G[y] = F[y] \cup R
  BY Zenon, <1>1, <1>2, HoldNow, HoldNext
<1>5. \A z \in Holders \ {x, y} : G[z] = F[z]
  BY <1>1, <1>2, HoldNow, HoldNext, HolderFacts
<1>6. OneHolder(F) /\ x # y
  BY Zenon, <1>1, <1>2 DEF OneHolder
<1>7. OneHolder(G)
  BY <1>6, <1>3, <1>4, <1>5, MoveKeepsOneHolder, Zenon
<1> QED
  BY Zenon, <1>1, <1>7 DEF OneHolder

(* A call that delivers puts some of its handles in the table and drops the rest. *)
LEMMA DeliverHolders ==
  ASSUME CallTypeOK, OneHolder(Hold), NEW t \in Threads, NEW A, NEW B,
         A \cup B = Range(handle_list[t]), A \cap B = {},
         table' = table \cup A, leaked' = leaked \cup B, handle_list' = [handle_list EXCEPT ![t] = <<>>],
         UNCHANGED <<deleted, content>>, AllWaiting' = AllWaiting
  PROVE  OneHolder(Hold)'
<1>1. Range(<<>>) = {} /\ \A u \in Threads : handle_list'[u] = IF u = t THEN <<>> ELSE handle_list[u]
  BY DEF CallTypeOK, Range
<1>2. PICK F, G : F = Hold /\ G = Hold'
  BY Zenon
<1>3. PICK c \in Holders, x \in Holders, y \in Holders :
         /\ c = <<"call", t>> /\ x = <<"loose", "table">> /\ y = <<"loose", "leaked">>
         /\ c # x /\ c # y /\ x # y
  <2>1. <<"call", t>> \in Holders /\ <<"loose", "table">> \in Holders /\ <<"loose", "leaked">> \in Holders
    BY Zenon, HolderFacts
  <2>2. /\ <<"call", t>> # <<"loose", "table">> /\ <<"call", t>> # <<"loose", "leaked">>
        /\ <<"loose", "table">> # <<"loose", "leaked">>
    BY Zenon
  <2> QED
    BY <2>1, <2>2, Zenon
<1>4. PICK M : M = [z \in Holders |-> IF z = c THEN B ELSE IF z = x THEN F[z] \cup A ELSE F[z]]
  BY Zenon
<1>5. F[c] = A \cup B /\ G[c] = {} /\ G[x] = F[x] \cup A /\ G[y] = F[y] \cup B
  BY <1>1, <1>2, <1>3, HoldNow, HoldNext
<1>6. \A z \in Holders \ {c, x, y} : G[z] = F[z]
  BY <1>1, <1>2, <1>3, HoldNow, HoldNext, HolderFacts
<1>7. /\ M[c] = B /\ M[x] = F[x] \cup A /\ M[y] = F[y]
      /\ \A z \in Holders \ {c, x} : M[z] = F[z]
  BY Zenon, <1>3, <1>4
<1>8. OneHolder(M)
  <2>1. A \subseteq F[c] /\ M[c] = F[c] \ A
    BY Zenon, <1>5, <1>7
  <2>2. OneHolder(F) /\ c # x
    BY Zenon, <1>2, <1>3 DEF OneHolder
  <2> QED
    BY <1>7, <2>1, <2>2, MoveKeepsOneHolder, Zenon
<1>9. OneHolder(G)
  <2>1. B \subseteq M[c] /\ G[c] = M[c] \ B /\ G[y] = M[y] \cup B
    BY Zenon, <1>5, <1>7
  <2>2. \A z \in Holders \ {c, y} : G[z] = M[z]
    BY Zenon, <1>5, <1>6, <1>7
  <2> QED
    BY <1>3, <1>8, <2>1, <2>2, MoveKeepsOneHolder, Zenon
<1> QED
  BY Zenon, <1>2, <1>9 DEF OneHolder

-----------------------------------------------------------------------------
(* The step of one thread leaves the calls of the others alone. *)
LEMMA ReturnThreads ==
  ASSUME CallTypeOK, CallInv, NEW t \in Threads, Return(t), dispatcher_alive' = dispatcher_alive,
         handle_list'[t] = <<>>, \A u \in Threads \ {t} : handle_list'[u] = handle_list[u]
  PROVE  \A u \in Threads : ThreadOK(u)'
<1>1. ASSUME NEW u \in Threads PROVE ThreadOK(u)'
  <2>1. CASE u = t
    <3>1. pc'[t] = "user"
      BY Zenon DEF Return, CallTypeOK
    <3> QED
      BY Zenon, <2>1, <3>1, EmptyFacts DEF ThreadOK
  <2>2. CASE u # t
    <3>1. pc'[u] = pc[u] /\ side'[u] = side[u] /\ handle_list'[u] = handle_list[u]
      BY Zenon, <2>2 DEF Return, CallTypeOK
    <3> QED
      BY Zenon, <3>1 DEF CallInv, ThreadOK
  <2> QED
    BY Zenon, <2>1, <2>2
<1> QED
  BY Zenon, <1>1

LEMMA StepThreads ==
  ASSUME CallTypeOK, CallInv, NEW t \in Threads, NEW l \in Label, pc' = [pc EXCEPT ![t] = l],
         NEW s \in Side, side' = [side EXCEPT ![t] = s], dispatcher_alive[s],
         dispatcher_alive' = dispatcher_alive,
         NEW hs \in HandleLists, handle_list' = [handle_list EXCEPT ![t] = hs], IsInjective(hs),
         l \notin {"write", "undo", "deliver"} => hs = <<>>
  PROVE  \A u \in Threads : ThreadOK(u)'
<1>1. ASSUME NEW u \in Threads PROVE ThreadOK(u)'
  <2>1. CASE u = t
    <3>1. pc'[t] = l /\ side'[t] = s /\ handle_list'[t] = hs
      BY Zenon DEF CallTypeOK
    <3> QED
      BY Zenon, <2>1, <3>1 DEF ThreadOK
  <2>2. CASE u # t
    <3>1. pc'[u] = pc[u] /\ side'[u] = side[u] /\ handle_list'[u] = handle_list[u]
      BY Zenon, <2>2 DEF CallTypeOK
    <3> QED
      BY Zenon, <3>1 DEF CallInv, ThreadOK
  <2> QED
    BY Zenon, <2>1, <2>2
<1> QED
  BY Zenon, <1>1

LEMMA GotoThreads ==
  ASSUME CallTypeOK, CallInv, NEW t \in Threads, NEW l \in Label, pc' = [pc EXCEPT ![t] = l],
         side' = side, pc[t] # "user", dispatcher_alive' = dispatcher_alive,
         NEW hs \in HandleLists, handle_list' = [handle_list EXCEPT ![t] = hs], IsInjective(hs),
         l \notin {"write", "undo", "deliver"} => hs = <<>>
  PROVE  \A u \in Threads : ThreadOK(u)'
<1>1. side[t] \in Side /\ side' = [side EXCEPT ![t] = side[t]] /\ dispatcher_alive[side[t]]
  BY Zenon DEF CallTypeOK, CallInv, ThreadOK
<1> QED
  BY Zenon, <1>1, StepThreads

(* A step that touches neither the handles nor the queues' messages. *)
LEMMA SameHandles ==
  ASSUME CallTypeOK, CallInv, OneHolder(Hold), UNCHANGED <<table, deleted, leaked, handle_list, content>>,
         AllWaiting' = AllWaiting, dispatcher_alive' = dispatcher_alive, \A u \in Threads : ThreadOK(u)'
  PROVE  CallInv' /\ OneHolder(Hold)'
<1>1. OneHolder(Hold)'
  BY Zenon, SameHolders
<1>2. CallInv'
  BY Zenon DEF CallInv
<1> QED
  BY Zenon, <1>1, <1>2

LEMMA CallHandles ==
  ASSUME QueueTypeOK, CallTypeOK, CallInv, OneHolder(Hold), NEW t \in Threads, NEW s \in Side,
         Call(t, s, "take") \/ Call(t, s, "begin")
  PROVE  CallInv' /\ OneHolder(Hold)'
<1>1. PICK l \in Label \ {"write", "undo", "deliver"} :
         Call(t, s, l)
  BY Zenon DEF Label
<1>2. /\ pc[t] = "user" /\ s \in table /\ pc' = [pc EXCEPT ![t] = l] /\ side' = [side EXCEPT ![t] = s]
      /\ UNCHANGED queues /\ UNCHANGED <<table, deleted, leaked, handle_list, content>>
  BY Zenon, <1>1 DEF Call, pipe, handles, history, queues
<1>3. dispatcher_alive[s]
  <2>1. table \cap deleted = {}
    <3>1. PICK F : F = Hold
      BY Zenon
    <3>2. F[<<"loose", "table">>] \cap F[<<"loose", "deleted">>] = {}
      <4>1. /\ <<"loose", "table">> \in Holders /\ <<"loose", "deleted">> \in Holders
            /\ <<"loose", "table">> # <<"loose", "deleted">>
        BY Zenon, HolderFacts
      <4> QED
        BY <3>1, <4>1, Zenon DEF OneHolder
    <3> QED
      BY Zenon, <3>1, <3>2, HoldNow
  <2> QED
    BY Zenon, <1>2, <2>1 DEF CallInv
<1>4. handle_list[t] \in HandleLists /\ handle_list[t] = <<>> /\ IsInjective(handle_list[t])
  BY Zenon, <1>2 DEF CallTypeOK, CallInv, ThreadOK
<1>5. handle_list' = [handle_list EXCEPT ![t] = handle_list[t]] /\ dispatcher_alive' = dispatcher_alive
  BY Zenon, <1>2 DEF CallTypeOK, queues
<1>6. \A u \in Threads : ThreadOK(u)'
  BY Zenon, <1>2, <1>3, <1>4, <1>5, StepThreads
<1>7. AllWaiting' = AllWaiting
  BY Zenon, <1>2, SameQueues, WaitingSame
<1> QED
  BY Zenon, <1>2, <1>5, <1>6, <1>7, SameHandles

LEMMA TakeHandlesHandles ==
  ASSUME QueueTypeOK, CallTypeOK, CallInv, OneHolder(Hold), NEW t \in Threads, TakeHandles(t)
  PROVE  CallInv' /\ OneHolder(Hold)'
<1>1. /\ pc[t] = "take" /\ UNCHANGED queues /\ UNCHANGED <<deleted, leaked, content>>
      /\ dispatcher_alive' = dispatcher_alive
  BY Zenon DEF TakeHandles, pipe, history, queues
<1>2. AllWaiting' = AllWaiting
  BY Zenon, <1>1, SameQueues, WaitingSame
<1>3. PICK hs \in HandleLists :
        IF CanSend(side[t], hs)
          THEN /\ table' = table \ Range(hs)
               /\ handle_list' = [handle_list EXCEPT ![t] = hs]
               /\ goto(t, "write")
          ELSE Return(t) /\ UNCHANGED <<table, handle_list>>
  BY Zenon DEF TakeHandles
<1>4. CASE CanSend(side[t], hs)
  <2>1. /\ table' = table \ Range(hs) /\ handle_list' = [handle_list EXCEPT ![t] = hs]
        /\ pc' = [pc EXCEPT ![t] = "write"] /\ side' = side
    BY Zenon, <1>3, <1>4 DEF goto, locals
  <2>2. OneHolder(Hold)'
    BY Zenon, <1>1, <1>2, <1>4, <2>1, TakeHolders
  <2>3. \A u \in Threads : ThreadOK(u)'
    BY Zenon, <1>1, <1>4, <2>1, GotoThreads DEF Label, CanSend
  <2>4. CallInv'
    BY Zenon, <1>1, <2>3 DEF CallInv
  <2> QED
    BY Zenon, <2>2, <2>4
<1>5. CASE ~CanSend(side[t], hs)
  <2>1. Return(t) /\ UNCHANGED <<table, handle_list>>
    BY Zenon, <1>3, <1>5
  <2>2. handle_list[t] = <<>>
    BY Zenon, <1>1 DEF CallInv, ThreadOK
  <2>3. \A u \in Threads : ThreadOK(u)'
    BY Zenon, <1>1, <2>1, <2>2, ReturnThreads
  <2> QED
    BY Zenon, <1>1, <1>2, <2>1, <2>3, SameHandles
<1> QED
  BY Zenon, <1>4, <1>5

LEMMA WriteHandles ==
  ASSUME QueueTypeOK, QueueInv, CallTypeOK, CallInv, OneHolder(Hold), NEW t \in Threads, Write(t)
  PROVE  CallInv' /\ OneHolder(Hold)'
<1>1. /\ pc[t] = "write" /\ UNCHANGED <<table, deleted, leaked>> /\ dispatcher_alive' = dispatcher_alive
  BY Zenon DEF Write, handles
<1>2. TypeOK
  BY Zenon, TypeParts
<1>3. PICK s \in Side : s = other_side(side[t])
  BY Zenon, MessageFacts DEF CallTypeOK
<1>4. CASE SendsTo(s) /\ Send(t, NextMessage, s)
  <2>1. OneHolder(Hold)'
    BY Zenon, <1>1, <1>4, SendHolders
  <2>2. PICK m \in Message : m = NextMessage
    BY Zenon, <1>4 DEF SendsTo
  <2>3. /\ content' = [content EXCEPT ![m] = handle_list[t]]
        /\ handle_list' = [handle_list EXCEPT ![t] = <<>>] /\ Return(t)
    BY Zenon, <1>4, <2>2 DEF Send
  <2>4. \A u \in Threads : ThreadOK(u)'
    <3>1. handle_list'[t] = <<>> /\ \A u \in Threads \ {t} : handle_list'[u] = handle_list[u]
      BY Zenon, <2>3 DEF CallTypeOK
    <3> QED
      BY Zenon, <1>1, <2>3, <3>1, ReturnThreads
  <2>5. \A k \in Message : IsInjective(content'[k])
    <3>1. \A k \in Message : content'[k] = IF k = m THEN handle_list[t] ELSE content[k]
      BY Zenon, <2>3 DEF CallTypeOK
    <3>2. IsInjective(handle_list[t]) /\ \A k \in Message : IsInjective(content[k])
      BY Zenon DEF CallInv, ThreadOK
    <3> QED
      BY Zenon, <3>1, <3>2
  <2>6. CallInv'
    BY Zenon, <1>1, <2>4, <2>5 DEF CallInv
  <2> QED
    BY Zenon, <2>1, <2>6
<1>5. CASE UNCHANGED queues /\ goto(t, "undo") /\ UNCHANGED <<content, handle_list>>
  <2>1. /\ pc' = [pc EXCEPT ![t] = "undo"] /\ side' = side
        /\ handle_list' = [handle_list EXCEPT ![t] = handle_list[t]]
    BY Zenon, <1>5 DEF goto, locals, CallTypeOK
  <2>2. handle_list[t] \in HandleLists /\ IsInjective(handle_list[t])
    BY Zenon DEF CallTypeOK, CallInv, ThreadOK
  <2>3. \A u \in Threads : ThreadOK(u)'
    BY Zenon, <1>1, <2>1, <2>2, GotoThreads DEF Label
  <2>4. AllWaiting' = AllWaiting
    BY Zenon, <1>5, SameQueues, WaitingSame
  <2> QED
    BY Zenon, <1>1, <1>5, <2>3, <2>4, SameHandles
<1> QED
  BY Zenon, <1>2, <1>3, <1>4, <1>5, WriteQueues

LEMMA UndoHandles ==
  ASSUME QueueTypeOK, CallTypeOK, CallInv, OneHolder(Hold), NEW t \in Threads, UndoRemoveHandle(t)
  PROVE  CallInv' /\ OneHolder(Hold)'
<1>1. /\ UNCHANGED queues /\ UNCHANGED <<deleted, leaked, content>> /\ dispatcher_alive' = dispatcher_alive
      /\ table' = table \cup Range(handle_list[t])
      /\ handle_list' = [handle_list EXCEPT ![t] = <<>>] /\ Return(t)
  BY Zenon DEF UndoRemoveHandle, pipe, history, queues
<1>2. AllWaiting' = AllWaiting
  BY Zenon, <1>1, SameQueues, WaitingSame
<1>3. OneHolder(Hold)'
  BY Zenon, <1>1, <1>2, UndoHolders
<1>4. handle_list'[t] = <<>> /\ \A u \in Threads \ {t} : handle_list'[u] = handle_list[u]
  BY Zenon, <1>1 DEF CallTypeOK
<1>5. \A u \in Threads : ThreadOK(u)'
  BY Zenon, <1>1, <1>4, ReturnThreads
<1> QED
  BY Zenon, <1>1, <1>3, <1>5 DEF CallInv

LEMMA BeginReadHandles ==
  ASSUME QueueTypeOK, QueueInv, CallTypeOK, CallInv, OneHolder(Hold), NEW t \in Threads, BeginRead(t)
  PROVE  CallInv' /\ OneHolder(Hold)'
<1>1. /\ pc[t] = "begin" /\ UNCHANGED <<table, deleted, leaked, handle_list, content>>
      /\ dispatcher_alive' = dispatcher_alive
      /\ (pc' = [pc EXCEPT ![t] = "sizes"] /\ side' = side) \/ Return(t)
  BY Zenon DEF BeginRead, handles, history
<1>2. AllWaiting' = AllWaiting
  <2>1. TypeOK /\ side[t] \in Side
    BY Zenon, TypeParts DEF CallTypeOK
  <2>2. UNCHANGED queues \/ Parks(side[t])
    BY Zenon, <2>1, BeginReadQueues
  <2> QED
    BY Zenon, <2>1, <2>2, SameQueues, ParksQueues, WaitingSame
<1>3. /\ handle_list[t] = <<>> /\ handle_list' = [handle_list EXCEPT ![t] = <<>>] /\ IsInjective(<<>>)
  BY Zenon, <1>1 DEF CallInv, ThreadOK, CallTypeOK
<1>4. handle_list'[t] = <<>> /\ \A u \in Threads \ {t} : handle_list'[u] = handle_list[u]
  BY Zenon, <1>1, <1>3
<1>5. CASE pc' = [pc EXCEPT ![t] = "sizes"] /\ side' = side
  <2>1. \A u \in Threads : ThreadOK(u)'
    BY Zenon, <1>1, <1>3, <1>5, EmptyHandleList, GotoThreads DEF Label
  <2> QED
    BY Zenon, <1>1, <1>2, <2>1, SameHandles
<1>6. CASE Return(t)
  <2>1. \A u \in Threads : ThreadOK(u)'
    BY Zenon, <1>1, <1>4, <1>6, ReturnThreads
  <2> QED
    BY <1>1, <1>2, <2>1, SameHandles
<1> QED
  BY Zenon, <1>1, <1>5, <1>6

LEMMA CheckSizesHandles ==
  ASSUME QueueTypeOK, CallTypeOK, CallInv, OneHolder(Hold), NEW t \in Threads, CheckSizes(t)
  PROVE  CallInv' /\ OneHolder(Hold)'
<1>1. /\ pc[t] = "sizes" /\ UNCHANGED <<table, deleted, leaked, handle_list, content>>
      /\ UNCHANGED queues /\ dispatcher_alive' = dispatcher_alive
      /\ (pc' = [pc EXCEPT ![t] = "accept"] /\ side' = side) \/ Return(t)
  BY Zenon DEF CheckSizes, pipe, handles, history, queues, goto, locals
<1>2. AllWaiting' = AllWaiting
  BY Zenon, <1>1, SameQueues, WaitingSame
<1>3. /\ handle_list[t] = <<>> /\ handle_list' = [handle_list EXCEPT ![t] = <<>>] /\ IsInjective(<<>>)
  BY Zenon, <1>1 DEF CallInv, ThreadOK, CallTypeOK
<1>4. handle_list'[t] = <<>> /\ \A u \in Threads \ {t} : handle_list'[u] = handle_list[u]
  BY Zenon, <1>1, <1>3
<1>5. CASE pc' = [pc EXCEPT ![t] = "accept"] /\ side' = side
  <2>1. \A u \in Threads : ThreadOK(u)'
    BY Zenon, <1>1, <1>3, <1>5, EmptyHandleList, GotoThreads DEF Label
  <2> QED
    BY Zenon, <1>1, <1>2, <2>1, SameHandles
<1>6. CASE Return(t)
  <2>1. \A u \in Threads : ThreadOK(u)'
    BY Zenon, <1>1, <1>4, <1>6, ReturnThreads
  <2> QED
    BY <1>1, <1>2, <2>1, SameHandles
<1> QED
  BY Zenon, <1>1, <1>5, <1>6

LEMMA AcceptReadHandles ==
  ASSUME QueueTypeOK, QueueInv, CallTypeOK, CallInv, OneHolder(Hold), NEW t \in Threads, AcceptRead(t)
  PROVE  CallInv' /\ OneHolder(Hold)'
<1>1. /\ pc[t] = "accept" /\ UNCHANGED <<table, deleted, leaked, content>>
      /\ dispatcher_alive' = dispatcher_alive /\ pc' = [pc EXCEPT ![t] = "deliver"] /\ side' = side
  BY Zenon DEF AcceptRead, handles
<1>2. PICK s \in Side : s = side[t]
  BY Zenon DEF CallTypeOK
<1>3. TypeOK
  BY Zenon, TypeParts
<1>4. handle_list[t] = <<>> /\ handle_list = [handle_list EXCEPT ![t] = <<>>] /\ IsInjective(<<>>)
  BY Zenon, <1>1 DEF CallInv, ThreadOK, CallTypeOK
<1>5. CASE Accepts(s) /\ handle_list' = [handle_list EXCEPT ![t] = content[pending[s]]]
  <2>1. PICK m \in Message : m = pending[s] /\ m \in AllWaiting /\ AllWaiting' = AllWaiting \ {m}
    <3>1. /\ pending[s] \in Waiting(s) /\ Waiting(s)' = Waiting(s) \ {pending[s]}
          /\ \A r \in Side \ {s} : Waiting(r)' = Waiting(r)
      BY Zenon, <1>5, AcceptsQueues
    <3> QED
      BY Zenon, <3>1, WaitingTaken
  <2>2. handle_list' = [handle_list EXCEPT ![t] = content[m]]
    BY Zenon, <1>5, <2>1
  <2>3. OneHolder(Hold)'
    BY Zenon, <1>1, <2>1, <2>2, AcceptHolders
  <2>4. content[m] \in HandleLists /\ IsInjective(content[m])
    BY Zenon DEF CallTypeOK, CallInv
  <2>5. \A u \in Threads : ThreadOK(u)'
    BY Zenon, <1>1, <2>2, <2>4, GotoThreads DEF Label
  <2> QED
    BY Zenon, <1>1, <2>3, <2>5 DEF CallInv
<1>6. CASE UNCHANGED queues /\ UNCHANGED handle_list
  <2>1. handle_list' = [handle_list EXCEPT ![t] = <<>>]
    BY Zenon, <1>4, <1>6
  <2>2. \A u \in Threads : ThreadOK(u)'
    BY Zenon, <1>1, <1>4, <2>1, EmptyHandleList, GotoThreads DEF Label
  <2>3. AllWaiting' = AllWaiting
    BY Zenon, <1>6, SameQueues, WaitingSame
  <2> QED
    BY Zenon, <1>1, <1>6, <2>2, <2>3, SameHandles
<1> QED
  BY Zenon, <1>2, <1>3, <1>5, <1>6, AcceptReadQueues

LEMMA DeliverHandles ==
  ASSUME QueueTypeOK, CallTypeOK, SizedOK, CallInv, OneHolder(Hold), NEW t \in Threads, Deliver(t)
  PROVE  CallInv' /\ OneHolder(Hold)'
<1>1. /\ pc[t] = "deliver" /\ UNCHANGED queues /\ UNCHANGED <<deleted, content>>
      /\ dispatcher_alive' = dispatcher_alive /\ handle_list' = [handle_list EXCEPT ![t] = <<>>]
  BY Zenon DEF Deliver, pipe, history, queues
<1>2. AllWaiting' = AllWaiting
  BY Zenon, <1>1, SameQueues, WaitingSame
<1>3. PICK got \in HandleLists : got = handle_list[t] /\ IsInjective(got)
  BY Zenon DEF CallTypeOK, CallInv, ThreadOK
<1>4. PICK n \in Nat : n = Len(content[sized[t]])
  <2>1. sized[t] \in Message
    BY Zenon, <1>1, MessageFacts DEF SizedOK, CallTypeOK
  <2> QED
    BY Zenon, <2>1, HandleListFacts DEF CallTypeOK
<1>5. \/ leaked' = leaked \cup Range(got) /\ Return(t) /\ UNCHANGED table
      \/ /\ n <= Len(got) /\ table' = table \cup {got[i] : i \in 1 .. n}
         /\ leaked' = leaked \cup {got[i] : i \in n + 1 .. Len(got)}
         /\ Return(t)
      \/ leaked' = leaked \cup Range(got) /\ goto(t, "panic") /\ UNCHANGED table
  BY Zenon, <1>3, <1>4 DEF Deliver
<1>6. \E A, B : /\ A \cup B = Range(got) /\ A \cap B = {}
                /\ table' = table \cup A /\ leaked' = leaked \cup B
  <2>1. CASE leaked' = leaked \cup Range(got) /\ UNCHANGED table
    <3>1. {} \cup Range(got) = Range(got) /\ {} \cap Range(got) = {} /\ table' = table \cup {}
      BY Zenon, <2>1
    <3> QED
      BY <2>1, <3>1, Zenon
  <2>2. CASE /\ n <= Len(got) /\ table' = table \cup {got[i] : i \in 1 .. n}
             /\ leaked' = leaked \cup {got[i] : i \in n + 1 .. Len(got)}
    <3>1. PICK A, B : A = {got[i] : i \in 1 .. n} /\ B = {got[i] : i \in n + 1 .. Len(got)}
      BY Zenon
    <3>2. A \cup B = Range(got) /\ A \cap B = {}
      BY Zenon, <1>3, <2>2, <3>1, SplitList
    <3> QED
      BY Zenon, <2>2, <3>1, <3>2
  <2> QED
    BY Zenon, <1>5, <2>1, <2>2
<1>7. OneHolder(Hold)'
  BY Zenon, <1>1, <1>2, <1>3, <1>6, DeliverHolders
<1>8. \A u \in Threads : ThreadOK(u)'
  <2>1. CASE Return(t)
    <3>1. handle_list'[t] = <<>> /\ \A u \in Threads \ {t} : handle_list'[u] = handle_list[u]
      BY Zenon, <1>1 DEF CallTypeOK
    <3> QED
      BY Zenon, <1>1, <2>1, <3>1, ReturnThreads
  <2>2. CASE goto(t, "panic")
    <3>1. pc' = [pc EXCEPT ![t] = "panic"] /\ side' = side /\ IsInjective(<<>>)
      BY Zenon, <2>2, EmptyFacts DEF goto, locals
    <3> QED
      BY Zenon, <1>1, <3>1, EmptyHandleList, GotoThreads DEF Label
  <2> QED
    BY Zenon, <1>5, <2>1, <2>2
<1> QED
  BY Zenon, <1>1, <1>7, <1>8 DEF CallInv

LEMMA CloseHandles ==
  ASSUME QueueTypeOK, CallTypeOK, CallInv, OneHolder(Hold), NEW h \in Handle, handle_close(h)
  PROVE  CallInv' /\ OneHolder(Hold)'
<1>1. /\ h \in table /\ table' = table \ {h} /\ deleted' = deleted \cup {h}
      /\ UNCHANGED queues /\ UNCHANGED <<leaked, handle_list, content>>
      /\ dispatcher_alive' = dispatcher_alive /\ pc' = pc /\ side' = side /\ handle_list' = handle_list
  BY Zenon DEF handle_close, pipe, call, history, queues
<1>2. AllWaiting' = AllWaiting
  BY Zenon, <1>1, SameQueues, WaitingSame
<1>3. OneHolder(Hold)'
  BY Zenon, <1>1, <1>2, CloseHolders
<1>4. CallInv'
  BY Zenon, <1>1 DEF CallInv, ThreadOK
<1> QED
  BY Zenon, <1>3, <1>4

LEMMA DestructionHandles ==
  ASSUME QueueTypeOK, QueueInv, CallTypeOK, CallInv, OneHolder(Hold), NEW s \in Side,
         OnDispatcherDestruction(s)
  PROVE  CallInv' /\ OneHolder(Hold)'
<1>1. /\ Detaches(s) /\ ~Referenced(s) /\ UNCHANGED <<table, deleted, leaked, handle_list, content>>
      /\ pc' = pc /\ side' = side
      /\ dispatcher_alive' = [dispatcher_alive EXCEPT ![s] = FALSE]
  BY Zenon DEF OnDispatcherDestruction, Detach, Detaches, handles, call, history
<1>2. AllWaiting' = AllWaiting
  BY Zenon, <1>1, DetachesQueues, WaitingSame
<1>3. OneHolder(Hold)'
  BY Zenon, <1>1, <1>2, SameHolders
<1>4. \A r \in Side : dispatcher_alive'[r] \/ r \in deleted'
  BY Zenon, <1>1 DEF QueueTypeOK, CallInv, Referenced
<1>5. ASSUME NEW u \in Threads PROVE ThreadOK(u)'
  <2>1. pc[u] # "user" => side[u] \in Side \ {s}
    BY Zenon, <1>1 DEF Referenced, CallTypeOK
  <2>2. pc[u] # "user" => dispatcher_alive'[side[u]]
    BY Zenon, <1>1, <2>1 DEF QueueTypeOK, CallInv, ThreadOK
  <2> QED
    BY Zenon, <1>1, <2>2 DEF CallInv, ThreadOK
<1> QED
  BY Zenon, <1>1, <1>3, <1>4, <1>5 DEF CallInv

LEMMA DestroyMessageHandles ==
  ASSUME QueueTypeOK, QueueInv, CallTypeOK, CallInv, OneHolder(Hold), NEW s \in Side, DestroyMessage(s)
  PROVE  CallInv' /\ OneHolder(Hold)'
<1>1. /\ Drops(s) /\ deleted' = deleted \cup Range(content[Head(doomed[s])])
      /\ UNCHANGED <<table, leaked, handle_list, content>>
      /\ pc' = pc /\ side' = side /\ dispatcher_alive' = dispatcher_alive
  BY Zenon DEF DestroyMessage, Drops, pipe, call, history
<1>2. PICK m \in Message : /\ m = Head(doomed[s]) /\ m \in AllWaiting
                           /\ AllWaiting' = AllWaiting \ {m}
  <2>1. /\ Head(doomed[s]) \in Waiting(s) /\ Waiting(s)' = Waiting(s) \ {Head(doomed[s])}
        /\ \A r \in Side \ {s} : Waiting(r)' = Waiting(r)
    BY Zenon, <1>1, DropsQueues
  <2> QED
    BY Zenon, <2>1, WaitingTaken
<1>3. OneHolder(Hold)'
  BY Zenon, <1>1, <1>2, DestroyHolders
<1>4. CallInv'
  BY Zenon, <1>1 DEF CallInv, ThreadOK
<1> QED
  BY Zenon, <1>3, <1>4

LEMMA HandlesStep ==
  ASSUME QueueLayer, CallInv, OneHolder(Hold), [Next]_vars
  PROVE  CallInv' /\ OneHolder(Hold)'
<1>1. QueueTypeOK /\ CallTypeOK /\ SizedOK /\ QueueInv
  BY Zenon, TypeParts DEF QueueLayer
<1>2. ASSUME NEW t \in Threads, InCall(t) PROVE CallInv' /\ OneHolder(Hold)'
  BY Zenon, <1>1, <1>2, TakeHandlesHandles, WriteHandles, UndoHandles, BeginReadHandles, CheckSizesHandles,
     AcceptReadHandles, DeliverHandles DEF InCall
<1>3. CASE UNCHANGED vars
  <2>1. /\ UNCHANGED queues /\ UNCHANGED <<table, deleted, leaked, handle_list, content>>
        /\ dispatcher_alive' = dispatcher_alive /\ pc' = pc /\ side' = side /\ handle_list' = handle_list
    BY Zenon, <1>3 DEF vars, pipe, handles, call, history, queues
  <2>2. AllWaiting' = AllWaiting
    BY Zenon, <2>1, SameQueues, WaitingSame
  <2>3. \A u \in Threads : ThreadOK(u)'
    BY Zenon, <2>1 DEF CallInv, ThreadOK
  <2> QED
    BY Zenon, <1>1, <2>1, <2>2, <2>3, SameHandles
<1> QED
  BY Zenon, <1>1, <1>2, <1>3, CallHandles, CloseHandles, DestructionHandles, DestroyMessageHandles
  DEF Next, Destroy

-----------------------------------------------------------------------------
(* The signals. *)
SignalsOf(s) ==
  LET peer == dispatcher_alive[other_side(s)] IN
  /\ "READABLE" \in satisfied[s] <=> messages[s] # <<>>
  /\ "WRITABLE" \in satisfied[s] <=> peer
  /\ "PEER_CLOSED" \in satisfied[s] <=> ~peer
  /\ "READABLE" \in satisfiable[s] <=> peer \/ messages[s] # <<>>
  /\ "WRITABLE" \in satisfiable[s] <=> peer

LEMMA SignalsPerSide == SignalsMatchQueue <=> \A s \in Side : dispatcher_alive[s] => SignalsOf(s)
  BY Zenon DEF SignalsMatchQueue, SignalsOf

LEMMA UpdateFacts ==
  ASSUME CallTypeOK, NEW s \in Side, NEW set, NEW clear, NEW able, UpdateState(s, set, clear, able)
  PROVE  /\ satisfied'[s] = (satisfied[s] \ clear) \cup set /\ satisfiable'[s] = satisfiable[s] \ able
         /\ \A r \in Side \ {s} : satisfied'[r] = satisfied[r] /\ satisfiable'[r] = satisfiable[r]
  BY Zenon DEF UpdateState, CallTypeOK

(* A step that touches the signals and the queue of one side only. *)
LEMMA SignalsOfOne ==
  ASSUME SignalsMatchQueue, NEW s \in Side, dispatcher_alive' = dispatcher_alive,
         \A r \in Side \ {s} : /\ satisfied'[r] = satisfied[r] /\ satisfiable'[r] = satisfiable[r]
                               /\ messages'[r] = messages[r],
         dispatcher_alive[s] => SignalsOf(s)'
  PROVE  SignalsMatchQueue'
<1>1. ASSUME NEW r \in Side, dispatcher_alive'[r] PROVE SignalsOf(r)'
  <2>1. CASE r = s
    BY Zenon, <1>1, <2>1
  <2>2. CASE r # s
    <3>1. SignalsOf(r)
      BY Zenon, <1>1, SignalsPerSide
    <3> QED
      BY Zenon, <2>2, <3>1 DEF SignalsOf
  <2> QED
    BY Zenon, <2>1, <2>2
<1> QED
  BY Zenon, <1>1 DEF SignalsMatchQueue, SignalsOf

LEMMA SameSignals ==
  ASSUME SignalsMatchQueue, UNCHANGED <<dispatcher_alive, messages, satisfied, satisfiable>>
  PROVE  SignalsMatchQueue'
  BY Zenon DEF SignalsMatchQueue

LEMMA WriteSignals ==
  ASSUME QueueTypeOK, CallTypeOK, CallInv, SignalsMatchQueue, NEW t \in Threads, Write(t)
  PROVE  SignalsMatchQueue'
<1>1. pc[t] = "write" /\ dispatcher_alive' = dispatcher_alive /\ dispatcher_alive[side[t]]
  BY Zenon DEF Write, CallInv, ThreadOK
<1>2. PICK s \in Side : s = other_side(side[t]) /\ other_side(s) = side[t]
  BY Zenon, MessageFacts DEF CallTypeOK
<1>3. CASE SendsTo(s) /\ Send(t, NextMessage, s)
  <2>1. /\ messages' = [messages EXCEPT ![s] = Append(messages[s], NextMessage)]
        /\ UpdateState(s, {"READABLE"}, {}, {}) /\ dispatcher_alive[s] /\ NextMessage \in Message
    BY Zenon, <1>3 DEF Send, SendsTo
  <2>2. /\ messages'[s] = Append(messages[s], NextMessage)
        /\ \A r \in Side \ {s} : messages'[r] = messages[r]
    BY Zenon, <2>1 DEF QueueTypeOK
  <2>3. messages'[s] # <<>>
    <3>1. PICK m \in Message, q \in Seq(Message) : m = NextMessage /\ q = messages[s]
      BY Zenon, <2>1 DEF QueueTypeOK
    <3>2. Append(q, m) # <<>>
      BY AppendFacts
    <3> QED
      BY Zenon, <2>2, <3>1, <3>2
  <2>4. /\ satisfied'[s] = (satisfied[s] \ {}) \cup {"READABLE"} /\ satisfiable'[s] = satisfiable[s] \ {}
        /\ \A r \in Side \ {s} : satisfied'[r] = satisfied[r] /\ satisfiable'[r] = satisfiable[r]
    BY Zenon, <2>1, UpdateFacts
  <2>5. SignalsOf(s) /\ dispatcher_alive[other_side(s)]
    BY Zenon, <1>1, <1>2, <2>1, SignalsPerSide
  <2>6. SignalsOf(s)'
    BY Zenon, <1>1, <2>3, <2>4, <2>5 DEF SignalsOf
  <2> QED
    BY Zenon, <1>1, <2>2, <2>4, <2>6, SignalsOfOne
<1>4. CASE UNCHANGED queues /\ UNCHANGED signals
  BY Zenon, <1>4, SameSignals DEF queues, signals
<1>5. TypeOK
  BY Zenon, TypeParts
<1> QED
  BY Zenon, <1>2, <1>3, <1>4, <1>5, WriteQueues

LEMMA BeginReadSignals ==
  ASSUME QueueTypeOK, CallTypeOK, CallInv, SignalsMatchQueue, NEW t \in Threads, BeginRead(t)
  PROVE  SignalsMatchQueue'
<1>1. pc[t] = "begin" /\ dispatcher_alive' = dispatcher_alive /\ dispatcher_alive[side[t]]
  BY Zenon DEF BeginRead, CallInv, ThreadOK
<1>2. PICK s \in Side : s = side[t] /\ dispatcher_alive[s] /\ SignalsOf(s)
  BY Zenon, <1>1, SignalsPerSide DEF CallTypeOK
<1>3. PICK able : able = IF dispatcher_alive[other_side(s)] THEN {} ELSE {"READABLE"}
  BY Zenon
<1>4. CASE messages' = messages /\ UNCHANGED signals
  BY Zenon, <1>1, <1>4, SameSignals DEF signals
<1>5. ASSUME UpdateState(s, {}, {"READABLE"}, able), messages'[s] = <<>>,
             \A r \in Side \ {s} : messages'[r] = messages[r]
      PROVE  SignalsMatchQueue'
  <2>1. /\ satisfied'[s] = (satisfied[s] \ {"READABLE"}) \cup {} /\ satisfiable'[s] = satisfiable[s] \ able
        /\ \A r \in Side \ {s} : satisfied'[r] = satisfied[r] /\ satisfiable'[r] = satisfiable[r]
    BY Zenon, <1>5, UpdateFacts
  <2>2. SignalsOf(s)'
    BY Zenon, <1>1, <1>2, <1>3, <1>5, <2>1 DEF SignalsOf
  <2> QED
    BY Zenon, <1>1, <1>5, <2>1, <2>2, SignalsOfOne
<1>6. CASE Read(s)
  <2>1. messages' = [messages EXCEPT ![s] = Tail(messages[s])] /\ messages[s] # <<>>
    BY Zenon, <1>6 DEF Read
  <2>2. messages'[s] = Tail(messages[s]) /\ \A r \in Side \ {s} : messages'[r] = messages[r]
    BY Zenon, <2>1 DEF QueueTypeOK
  <2>3. CASE Tail(messages[s]) = <<>>
    <3>1. UpdateState(s, {}, {"READABLE"}, able)
      BY Zenon, <1>3, <1>6, <2>3 DEF Read
    <3> QED
      BY Zenon, <1>5, <2>2, <2>3, <3>1
  <2>4. CASE Tail(messages[s]) # <<>>
    <3>1. satisfied' = satisfied /\ satisfiable' = satisfiable
      BY Zenon, <1>6, <2>4 DEF Read, signals
    <3>2. SignalsOf(s)'
      BY Zenon, <1>1, <1>2, <2>1, <2>2, <2>4, <3>1 DEF SignalsOf
    <3> QED
      BY Zenon, <1>1, <2>2, <3>1, <3>2, SignalsOfOne
  <2> QED
    BY Zenon, <2>3, <2>4
<1>7. CASE messages[s] = <<>> /\ messages' = messages /\ UpdateState(s, {}, {"READABLE"}, able)
  BY Zenon, <1>5, <1>7
<1> QED
  BY Zenon, <1>2, <1>3, <1>4, <1>6, <1>7 DEF BeginRead

LEMMA DestructionSignals ==
  ASSUME QueueTypeOK, CallTypeOK, SignalsMatchQueue, NEW s \in Side, OnDispatcherDestruction(s)
  PROVE  SignalsMatchQueue'
<1>1. PICK o \in Side : o = other_side(s) /\ other_side(o) = s /\ o # s /\ Side = {s, o}
  BY Zenon, MessageFacts DEF Side
<1>2. /\ dispatcher_alive' = [dispatcher_alive EXCEPT ![s] = FALSE] /\ dispatcher_alive[s]
      /\ messages' = [messages EXCEPT ![s] = <<>>]
  BY Zenon DEF OnDispatcherDestruction, Detach
<1>3. ~dispatcher_alive'[s] /\ dispatcher_alive'[o] = dispatcher_alive[o] /\ messages'[o] = messages[o]
  BY Zenon, <1>1, <1>2 DEF QueueTypeOK
<1>4. PICK able : able = {"WRITABLE"} \cup (IF messages[o] = <<>> THEN {"READABLE"} ELSE {})
  BY Zenon
<1>5. ASSUME dispatcher_alive[o] PROVE SignalsOf(o)'
  <2>1. UpdateState(o, {"PEER_CLOSED"}, {"WRITABLE"}, able)
    BY Zenon, <1>1, <1>4, <1>5 DEF OnDispatcherDestruction, TellPeer
  <2>2. /\ satisfied'[o] = (satisfied[o] \ {"WRITABLE"}) \cup {"PEER_CLOSED"}
        /\ satisfiable'[o] = satisfiable[o] \ able
    BY <2>1, UpdateFacts
  <2>3. SignalsOf(o)
    BY Zenon, <1>5, SignalsPerSide
  <2>4. other_side(o)' = s
    BY Zenon, <1>1 DEF other_side
  <2> QED
    BY Zenon, <1>1, <1>2, <1>3, <1>4, <2>2, <2>3, <2>4 DEF SignalsOf
<1>6. ASSUME NEW r \in Side, dispatcher_alive'[r] PROVE SignalsOf(r)'
  BY Zenon, <1>1, <1>3, <1>5, <1>6
<1> QED
  BY Zenon, <1>6 DEF SignalsMatchQueue, SignalsOf

LEMMA SignalsStep ==
  ASSUME QueueLayer, CallInv, SignalsMatchQueue, [Next]_vars
  PROVE  SignalsMatchQueue'
<1>1. QueueTypeOK /\ CallTypeOK
  BY Zenon, TypeParts DEF QueueLayer
<1>2. CASE UNCHANGED <<dispatcher_alive, messages, satisfied, satisfiable>>
  BY Zenon, <1>2, SameSignals
<1>3. ASSUME NEW t \in Threads, InCall(t) PROVE SignalsMatchQueue'
  <2>1. \/ Write(t) \/ BeginRead(t) \/ UNCHANGED <<dispatcher_alive, messages, satisfied, satisfiable>>
    BY Zenon, <1>3 DEF InCall, TakeHandles, UndoRemoveHandle, CheckSizes, AcceptRead, Deliver, pipe, signals
  <2> QED
    BY Zenon, <1>1, <1>2, <2>1, WriteSignals, BeginReadSignals
<1>4. \/ UNCHANGED <<dispatcher_alive, messages, satisfied, satisfiable>>
      \/ \E t \in Threads : InCall(t)
      \/ \E s \in Side : OnDispatcherDestruction(s)
  <2>1. ASSUME NEW t \in Threads, NEW s \in Side, Call(t, s, "take") \/ Call(t, s, "begin")
        PROVE  UNCHANGED <<dispatcher_alive, messages, satisfied, satisfiable>>
    BY Zenon, <2>1 DEF Call, pipe, signals
  <2>2. ASSUME NEW h \in Handle, handle_close(h)
        PROVE  UNCHANGED <<dispatcher_alive, messages, satisfied, satisfiable>>
    BY Zenon, <2>2 DEF handle_close, pipe, signals
  <2>3. ASSUME NEW s \in Side, DestroyMessage(s)
        PROVE  UNCHANGED <<dispatcher_alive, messages, satisfied, satisfiable>>
    BY Zenon, <2>3 DEF DestroyMessage, pipe, signals
  <2>4. ASSUME UNCHANGED vars
        PROVE  UNCHANGED <<dispatcher_alive, messages, satisfied, satisfiable>>
    BY Zenon, <2>4 DEF vars, pipe, signals
  <2> QED
    BY <2>1, <2>2, <2>3, <2>4, Zenon DEF Next, Destroy
<1> QED
  BY Zenon, <1>1, <1>2, <1>3, <1>4, DestructionSignals

-----------------------------------------------------------------------------
(* Each handle is in one place. *)
LEMMA StoredFacts ==
  ASSUME QueueTypeOK, QueueInv, NEW s \in Side
  PROVE  Range(Stored(s)) = Waiting(s) /\ IsInjective(Stored(s))
<1>1. PICK q \in Seq(Message), p \in Seq(Message), d \in Seq(Message) :
         q = messages[s] /\ p = Parked(s) /\ d = doomed[s]
  BY Zenon, ParkedFacts DEF QueueTypeOK
<1>2. /\ IsInjective(q) /\ IsInjective(p) /\ IsInjective(d) /\ Range(q) \cap Range(p) = {}
  BY Zenon, <1>1, ParkedFacts DEF QueueInv
<1>3. q \o p \in Seq(Message) /\ Range(q \o p) = Range(q) \cup Range(p) /\ IsInjective(q \o p)
  BY <1>2, ConcatFacts
<1>4. Range(q \o p) \cap Range(d) = {}
  <2>1. CASE dispatcher_alive[s]
    <3>1. Range(d) = {}
      BY Zenon, <1>1, <2>1, EmptyFacts DEF QueueInv, Open
    <3> QED
      BY Zenon, <3>1
  <2>2. CASE ~dispatcher_alive[s]
    <3>1. q = <<>> /\ pending[s] = 0
      BY Zenon, <1>1, <2>2 DEF QueueInv, Closed
    <3>2. Range(q) = {} /\ Range(p) = {}
      BY Zenon, <1>1, <3>1, ParkedFacts, EmptyFacts
    <3> QED
      BY Zenon, <1>3, <3>2
  <2> QED
    BY Zenon, <2>1, <2>2
<1>5. PICK r \in Seq(Message) : r = q \o p /\ IsInjective(r) /\ Range(r) \cap Range(d) = {}
  BY Zenon, <1>3, <1>4
<1>6. Range(r \o d) = Range(r) \cup Range(d) /\ IsInjective(r \o d)
  <2>1. IsInjective(r) /\ IsInjective(d) /\ Range(r) \cap Range(d) = {}
    BY Zenon, <1>2, <1>5
  <2> QED
    BY <2>1, ConcatFacts
<1>7. Stored(s) = r \o d
  BY Zenon, <1>1, <1>5 DEF Stored
<1> QED
  BY Zenon, <1>1, <1>3, <1>5, <1>6, <1>7 DEF Waiting

(* A message that waits is at one position of one side. *)
LEMMA OnePosition ==
  ASSUME QueueTypeOK, QueueInv, NEW m \in AllWaiting
  PROVE  \E s \in Side : \E i \in DOMAIN Stored(s) :
           /\ Stored(s)[i] = m
           /\ \A r \in Side : \A j \in DOMAIN Stored(r) : Stored(r)[j] = m => r = s /\ j = i
<1>1. PICK s \in Side : m \in Waiting(s) /\ m \notin Waiting(other_side(s))
  BY Zenon DEF AllWaiting, Side, QueueInv
<1>2. PICK i \in DOMAIN Stored(s) : Stored(s)[i] = m
  BY <1>1, StoredFacts DEF Range
<1>3. ASSUME NEW r \in Side, NEW j \in DOMAIN Stored(r), Stored(r)[j] = m PROVE r = s /\ j = i
  <2>1. m \in Waiting(r)
    BY Zenon, <1>3, StoredFacts DEF Range
  <2>2. r = s
    BY <1>1, <2>1 DEF Side, other_side
  <2> QED
    BY Zenon, <1>2, <1>3, <2>2, StoredFacts DEF IsInjective
<1> QED
  BY Zenon, <1>2, <1>3

LEMMA PlaceOfHandle ==
  ASSUME QueueTypeOK, QueueInv, CallTypeOK, OneHolder(Hold), NEW h \in Handle
  PROVE  \E p : Places(h) = {p}
<1>1. PICK F : F = Hold
  BY Zenon
<1>2. PICK x \in Holders : h \in F[x] /\ \A y \in Holders \ {x} : h \notin F[y]
  BY Zenon, <1>1 DEF OneHolder
<1>3. AllWaiting \subseteq Message
  BY Zenon, AllWaitingFacts
<1>4. /\ h \in table <=> x = <<"loose", "table">>
      /\ h \in deleted <=> x = <<"loose", "deleted">>
      /\ h \in leaked <=> x = <<"loose", "leaked">>
  <2>1. /\ <<"loose", "table">> \in Holders /\ <<"loose", "deleted">> \in Holders
        /\ <<"loose", "leaked">> \in Holders
    BY Zenon, HolderFacts
  <2> QED
    BY Zenon, <1>1, <1>2, <2>1, HoldNow
<1>5. ASSUME NEW t \in Threads PROVE h \in Range(handle_list[t]) <=> x = <<"call", t>>
  <2>1. <<"call", t>> \in Holders
    BY Zenon, HolderFacts
  <2> QED
    BY <1>1, <1>2, <2>1, HoldNow
<1>6. ASSUME NEW m \in AllWaiting PROVE h \in Range(content[m]) <=> x = <<"message", m>>
  <2>1. <<"message", m>> \in Holders /\ m \in Message
    BY Zenon, <1>3, HolderFacts
  <2> QED
    BY Zenon, <1>1, <1>2, <1>6, <2>1, HoldNow
<1>7. ASSUME NEW m \in Message, x = <<"message", m>> PROVE m \in AllWaiting
  BY Zenon, <1>1, <1>2, <1>7, HoldNow
<1>8. ASSUME NEW s \in Side, NEW j \in DOMAIN Stored(s) PROVE Stored(s)[j] \in AllWaiting
  BY Zenon, StoredFacts DEF Range, AllWaiting, Side
<1>9. PICK Told, Calls, Mail :
         /\ Told = {<<"table">> : y \in table \cap {h}} \cup {<<"deleted">> : y \in deleted \cap {h}}
                     \cup {<<"leaked">> : y \in leaked \cap {h}}
         /\ Calls = {<<"call", t>> : t \in {u \in Threads : h \in Range(handle_list[u])}}
         /\ Mail = UNION {{<<"message", s, i>> :
                             i \in {j \in DOMAIN Stored(s) : h \in Range(content[Stored(s)[j]])}} : s \in Side}
  BY Zenon
<1>10. Places(h) = Told \cup Calls \cup Mail
  BY <1>9, Zenon DEF Places
<1>11. ASSUME \A m \in Message : x # <<"message", m>> PROVE Mail = {}
  <2>1. \A s \in Side : \A j \in DOMAIN Stored(s) : h \notin Range(content[Stored(s)[j]])
    BY Zenon, <1>3, <1>6, <1>8, <1>11
  <2> QED
    BY Zenon, <1>9, <2>1
<1>12. ASSUME \A t \in Threads : x # <<"call", t>> PROVE Calls = {}
  BY Zenon, <1>5, <1>9, <1>12
<1>13. ASSUME x \notin {<<"loose", "table">>, <<"loose", "deleted">>, <<"loose", "leaked">>} PROVE Told = {}
  BY Zenon, <1>4, <1>9, <1>13
<1>14. CASE x \in {<<"loose", "table">>, <<"loose", "deleted">>, <<"loose", "leaked">>}
  <2>1. Mail = {} /\ Calls = {}
    <3>1. \A m \in Message : x # <<"message", m>>
      BY <1>14
    <3>2. \A t \in Threads : x # <<"call", t>>
      BY <1>14
    <3> QED
      BY Zenon, <1>11, <1>12, <3>1, <3>2
  <2>2. CASE x = <<"loose", "table">>
    <3>1. h \in table /\ h \notin deleted /\ h \notin leaked
      BY Zenon, <1>4, <2>2
    <3>2. Told = {<<"table">>}
      BY Zenon, <1>9, <3>1
    <3> QED
      BY Zenon, <1>10, <2>1, <3>2
  <2>3. CASE x = <<"loose", "deleted">>
    <3>1. h \notin table /\ h \in deleted /\ h \notin leaked
      BY Zenon, <1>4, <2>3
    <3>2. Told = {<<"deleted">>}
      BY Zenon, <1>9, <3>1
    <3> QED
      BY Zenon, <1>10, <2>1, <3>2
  <2>4. CASE x = <<"loose", "leaked">>
    <3>1. h \notin table /\ h \notin deleted /\ h \in leaked
      BY Zenon, <1>4, <2>4
    <3>2. Told = {<<"leaked">>}
      BY Zenon, <1>9, <3>1
    <3> QED
      BY Zenon, <1>10, <2>1, <3>2
  <2> QED
    BY Zenon, <1>14, <2>2, <2>3, <2>4
<1>15. ASSUME NEW t \in Threads, x = <<"call", t>> PROVE Places(h) = {<<"call", t>>}
  <2>1. \A m \in Message : x # <<"message", m>>
    BY Zenon, <1>15
  <2>2. x \notin {<<"loose", "table">>, <<"loose", "deleted">>, <<"loose", "leaked">>}
    BY Zenon, <1>15
  <2>3. \A u \in Threads : h \in Range(handle_list[u]) <=> u = t
    BY Zenon, <1>5, <1>15
  <2>4. Calls = {<<"call", t>>}
    BY Zenon, <1>9, <2>3
  <2> QED
    BY <1>10, <1>11, <1>13, <2>1, <2>2, <2>4
<1>16. ASSUME NEW m \in Message, x = <<"message", m>> PROVE \E p : Places(h) = {p}
  <2>1. \A t \in Threads : x # <<"call", t>>
    BY Zenon, <1>16
  <2>2. x \notin {<<"loose", "table">>, <<"loose", "deleted">>, <<"loose", "leaked">>}
    BY Zenon, <1>16
  <2>3. PICK s \in Side : \E i \in DOMAIN Stored(s) :
           /\ Stored(s)[i] = m
           /\ \A r \in Side : \A j \in DOMAIN Stored(r) : Stored(r)[j] = m => r = s /\ j = i
    BY Zenon, <1>7, <1>16, OnePosition
  <2>4. PICK i \in DOMAIN Stored(s) :
           /\ Stored(s)[i] = m
           /\ \A r \in Side : \A j \in DOMAIN Stored(r) : Stored(r)[j] = m => r = s /\ j = i
    BY Zenon, <2>3
  <2>5. ASSUME NEW r \in Side, NEW j \in DOMAIN Stored(r)
        PROVE  h \in Range(content[Stored(r)[j]]) <=> r = s /\ j = i
    <3>1. h \in Range(content[Stored(r)[j]]) <=> Stored(r)[j] = m
      BY <1>3, <1>6, <1>8, <1>16
    <3> QED
      BY Zenon, <2>4, <2>5, <3>1
  <2>6. Mail = {<<"message", s, i>>}
    BY <1>9, <2>5
  <2> QED
    BY Zenon, <1>10, <1>12, <1>13, <2>1, <2>2, <2>6
<1> QED
  BY Zenon, <1>14, <1>15, <1>16, HolderFacts

LEMMA PipeInvImpliesPipeSound ==
  ASSUME PipeInv
  PROVE  PipeSound
<1>1. QueueTypeOK /\ CallTypeOK /\ QueueInv /\ TypeOK /\ OneHolder(Hold) /\ SignalsMatchQueue
  BY Zenon, TypeParts DEF PipeInv, QueueLayer
<1>2. ASSUME NEW h \in Handle PROVE \E p \in Places(h) : Places(h) = {p}
  <2>1. PICK p : Places(h) = {p}
    BY Zenon, <1>1, PlaceOfHandle
  <2> QED
    BY Zenon, <2>1
<1>3. HandlesAccounted
  BY Zenon, <1>1, <1>2 DEF HandlesAccounted, QueueInv, Closed
<1>4. Ch!ExactlyOnceInOrder
  <2>1. ASSUME NEW s \in Side, dispatcher_alive[s]
        PROVE  written[s] = delivered[s] \o (Parked(s) \o messages[s])
    BY Zenon, <1>1, <2>1 DEF QueueInv, Open
  <2> QED
    BY Zenon, <2>1 DEF Ch!ExactlyOnceInOrder, Ch!Side, Side
<1> QED
  BY Zenon, <1>1, <1>3, <1>4 DEF PipeSound

LEMMA PipeInvInit == Init => PipeInv
<1> SUFFICES ASSUME Init PROVE PipeInv
  BY Zenon
<1>1. QueueLayer /\ QueueTypeOK /\ CallTypeOK
  BY Zenon, QueueLayerInit, TypeParts DEF QueueLayer
<1>2. CallInv
  BY Zenon, EmptyFacts DEF Init, CallInv, ThreadOK
<1>3. AllWaiting = {}
  <2>1. ASSUME NEW s \in Side PROVE Waiting(s) = {}
    <3>1. messages[s] = <<>> /\ pending[s] = 0 /\ doomed[s] = <<>>
      BY Zenon DEF Init
    <3> QED
      BY Zenon, <1>1, <3>1, ParkedFacts, EmptyFacts
  <2> QED
    BY Zenon, <2>1 DEF AllWaiting, Side
<1>4. OneHolder(Hold)
  <2>1. PICK F, x : F = Hold /\ x = <<"loose", "table">>
    BY Zenon
  <2>2. F[x] = Handle /\ x \in Holders
    BY Zenon, <2>1, HoldNow, HolderFacts DEF Init
  <2>3. ASSUME NEW y \in Holders, y # x PROVE F[y] = {}
    <3>1. CASE y \in {<<"loose", "deleted">>, <<"loose", "leaked">>}
      BY Zenon, <2>1, <3>1, HoldNow DEF Init
    <3>2. ASSUME NEW t \in Threads, y = <<"call", t>> PROVE F[y] = {}
      <4>1. Range(handle_list[t]) = {}
        BY Zenon, EmptyFacts DEF Init
      <4> QED
        BY Zenon, <2>1, <3>2, <4>1, HoldNow
    <3>3. ASSUME NEW m \in Message, y = <<"message", m>> PROVE F[y] = {}
      BY Zenon, <1>3, <2>1, <3>3, HoldNow
    <3> QED
      BY Zenon, <2>1, <2>3, <3>1, <3>2, <3>3, HolderFacts
  <2>4. \A y, z \in Holders : y # z => F[y] \cap F[z] = {}
    BY Zenon, <2>3
  <2>5. \A h \in Handle : \E y \in Holders : h \in F[y]
    BY Zenon, <2>2
  <2> QED
    BY Zenon, <2>1, <2>4, <2>5 DEF OneHolder
<1>5. SignalsMatchQueue
  BY Zenon, MessageFacts DEF Init, SignalsMatchQueue, Signal
<1> QED
  BY Zenon, <1>1, <1>2, <1>4, <1>5 DEF PipeInv

(* Whatever the interleaving of writes, failed writes, reads, reads that end     *)
(* early, closes and destructions (message_write, message_read, handle_close,    *)
(* ~MessagePipeDispatcher, ~MessagePacket), every handle is in exactly one       *)
(* place, the signals of a live side match its queue and its peer, and an open   *)
(* side is owed what was written to it: PipeSound, for any number of threads,    *)
(* handles and messages.                                                         *)
THEOREM PipeSoundAlways == Spec => []PipeSound
<1>1. PipeInv /\ [Next]_vars => PipeInv'
  <2> SUFFICES ASSUME PipeInv, [Next]_vars PROVE PipeInv'
    BY Zenon
  <2>1. QueueLayer /\ CallInv /\ OneHolder(Hold) /\ SignalsMatchQueue
    BY Zenon DEF PipeInv
  <2>2. QueueLayer'
    BY Zenon, <2>1, QueueLayerNext
  <2>3. CallInv' /\ OneHolder(Hold)'
    BY Zenon, <2>1, HandlesStep
  <2>4. SignalsMatchQueue'
    BY Zenon, <2>1, SignalsStep
  <2> QED
    BY Zenon, <2>2, <2>3, <2>4 DEF PipeInv
<1>2. PipeInv => PipeSound
  BY Zenon, PipeInvImpliesPipeSound
<1> QED
  BY <1>1, <1>2, PipeInvInit, PTL DEF Spec

=============================================================================
