----------------------------- MODULE IpcProofs ------------------------------
(***************************************************************************)
(* Proofs about DataPipe, for every buffer size, and PortBinding, for any  *)
(* number of handles, processes, threads and observers.                    *)
(***************************************************************************)
EXTENDS DataPipe, PortBinding, TLAPS

-----------------------------------------------------------------------------
(* DataPipe.                                                                  *)

(* m holds the n bytes that follow byte k in a window at p that does not wrap. *)
Filled(m, p, n, k) == \A i \in Slot : i < n => m[p + i] = k + 1 + i

(* The ring part of the inductive invariant, as a relation between the two       *)
(* cursors p and c, the free space f, the sizes ep and ec of the lent windows,   *)
(* the memory m and the bytes nw written and nr read.  Beyond the properties it  *)
(* says that a lent producer window already holds the next bytes of the stream.  *)
Ring(p, c, f, ep, ec, m, nw, nr) ==
  /\ p \in Slot /\ c \in Slot
  /\ f \in 0 .. Size /\ ep \in 0 .. Size /\ ec \in 0 .. Size
  /\ m \in [Slot -> Nat]
  /\ nw \in Nat /\ nr \in Nat /\ nw = nr + (Size - f) /\ nw + ep <= MaxBytes
  /\ p = Wrap(c + (Size - f))
  /\ ep <= f /\ p + ep <= Size
  /\ ec <= Size - f /\ c + ec <= Size
  /\ Holds(m, c, Size - f, nr)
  /\ Filled(m, p, ep, nw)

RingInv == Ring(cursor["producer"], cursor["consumer"], free_space,
                expected["producer"], expected["consumer"], mem, nwritten, nread)

(* The region an endpoint knows of exists in the address space it knows of. *)
RegionKnown ==
  \A e \in EndPoint : aspace[e] # NoAspace => regions[e][aspace[e]] > 0

IInv == TypeOK /\ RingInv /\ RegionKnown /\ VmoKeptWhileNeeded /\ SignalsMatchState

-----------------------------------------------------------------------------
(* ComputeSize returns a positive size that stays inside the buffer and, when  *)
(* the other cursor is ahead, does not pass it.                                *)
LEMMA ComputeSizeBounds ==
  ASSUME NEW from \in Slot, NEW to \in Slot, NEW r \in 1 .. Size
  PROVE  /\ ComputeSize(from, to, r) \in 1 .. Size
         /\ ComputeSize(from, to, r) <= r
         /\ from + ComputeSize(from, to, r) <= Size
         /\ from < to => ComputeSize(from, to, r) <= to - from
BY SizeAssumption DEF ComputeSize, Slot

(* The initial state satisfies the inductive invariant. *)
LEMMA InitIInv == Init => IInv
<1> SUFFICES ASSUME Init PROVE IInv
  BY Zenon
<1> USE SizeAssumption, MaxBytesAssumption, MaxRegionsAssumption, AspaceAssumption DEF Init
<1>1. TypeOK
  BY DEF TypeOK, EndPoint, Slot, Signal
<1>2. RingInv
  BY DEF RingInv, Ring, Holds, Filled, Wrap, EndPoint, Slot
<1>3. RegionKnown
  BY Zenon DEF RegionKnown
<1>4. VmoKeptWhileNeeded
  BY Zenon DEF VmoKeptWhileNeeded, used, EndPoint
<1>5. SignalsMatchState
  BY DEF SignalsMatchState, used, EndPoint
<1> QED
  BY Zenon, <1>1, <1>2, <1>3, <1>4, <1>5 DEF IInv

(* Mapping and unmapping the vmo keep the regions counted. *)
LEMMA MappingsPreserved ==
  ASSUME TypeOK, RegionKnown, NEW e \in EndPoint, NEW a \in Aspaces,
         MapVMOIfNeeded(e, a) \/ MapVMOFails(e, a) \/ Unmap(e)
  PROVE  /\ aspace' \in [EndPoint -> Aspaces \cup {NoAspace}]
         /\ regions' \in [EndPoint -> [Aspaces -> 0 .. MaxRegions]]
         /\ RegionKnown'
<1> USE MaxRegionsAssumption, AspaceAssumption
<1>1. Unmapped(e) \in [EndPoint -> [Aspaces -> 0 .. MaxRegions]]
  BY DEF Unmapped, TypeOK, RegionKnown
<1>2. \A f \in EndPoint \ {e} : Unmapped(e)[f] = regions[f]
  BY Zenon DEF Unmapped, TypeOK
<1>3. CASE MapVMOIfNeeded(e, a)
  <2>1. BeforeMap(e, a) \in [EndPoint -> [Aspaces -> 0 .. MaxRegions]]
    BY Zenon, <1>1 DEF BeforeMap, TypeOK
  <2>2. \A f \in EndPoint \ {e} : BeforeMap(e, a)[f] = regions[f]
    BY Zenon, <1>2 DEF BeforeMap
  <2> QED
    BY <1>3, <2>1, <2>2 DEF MapVMOIfNeeded, RegionKnown, TypeOK
<1>4. CASE MapVMOFails(e, a)
  BY Zenon, <1>1, <1>2, <1>4 DEF MapVMOFails, RegionKnown, TypeOK
<1>5. CASE Unmap(e)
  BY Zenon, <1>1, <1>2, <1>5 DEF Unmap, RegionKnown, TypeOK
<1> QED
  BY Zenon, <1>3, <1>4, <1>5

(* A window of free space behind the producer's cursor and a window of used    *)
(* space behind the consumer's have no slot in common.                         *)
LEMMA WindowsApart ==
  ASSUME NEW p \in Slot, NEW c \in Slot, NEW u \in 0 .. Size,
         NEW ep \in 0 .. Size, NEW ec \in 0 .. Size,
         p = Wrap(c + u), ep <= Size - u, ec <= u, p + ep <= Size, c + ec <= Size,
         NEW s \in Slot
  PROVE  ~(p <= s /\ s < p + ep /\ c <= s /\ s < c + ec)
BY SizeAssumption DEF Slot, Wrap

-----------------------------------------------------------------------------
(* The arithmetic of the ring, apart from the state: p and c are the producer's  *)
(* and the consumer's cursor, u the space in use, n the size of a transfer.      *)

(* A write fits in the free space. *)
LEMMA WriteFits ==
  ASSUME NEW p \in Slot, NEW c \in Slot, NEW u \in 0 .. Size, p = Wrap(c + u), u # Size,
         NEW r \in 1 .. Size
  PROVE  /\ ComputeSize(p, c, r) \in 1 .. Size
         /\ ComputeSize(p, c, r) <= Size - u
         /\ p + ComputeSize(p, c, r) <= Size
<1> DEFINE n == ComputeSize(p, c, r)
<1>1. n \in 1 .. Size /\ p + n <= Size /\ (p < c => n <= c - p)
  BY Zenon, ComputeSizeBounds
<1> HIDE DEF n
<1>2. n <= Size - u
  BY <1>1, SizeAssumption DEF Wrap, Slot
<1> QED
  BY Zenon, <1>1, <1>2 DEF n

(* A read takes bytes that are there. *)
LEMMA ReadFits ==
  ASSUME NEW p \in Slot, NEW c \in Slot, NEW u \in 0 .. Size, p = Wrap(c + u), u # 0,
         NEW r \in 1 .. Size
  PROVE  /\ ComputeSize(c, p, r) \in 1 .. Size
         /\ ComputeSize(c, p, r) <= u
         /\ c + ComputeSize(c, p, r) <= Size
<1> DEFINE n == ComputeSize(c, p, r)
<1>1. n \in 1 .. Size /\ c + n <= Size /\ (c < p => n <= p - c)
  BY Zenon, ComputeSizeBounds
<1> HIDE DEF n
<1>2. n <= u
  BY <1>1, SizeAssumption DEF Wrap, Slot
<1> QED
  BY Zenon, <1>1, <1>2 DEF n

(* The cursors keep their distance to each other when either of them moves. *)
LEMMA AdvanceWraps ==
  ASSUME NEW p \in Slot, NEW c \in Slot, NEW u \in 0 .. Size, p = Wrap(c + u),
         NEW n \in 0 .. Size
  PROVE  /\ p + n <= Size => Advance(p, n) \in Slot
         /\ p + n <= Size /\ n <= Size - u => Advance(p, n) = Wrap(c + (u + n))
         /\ c + n <= Size => Advance(c, n) \in Slot
         /\ c + n <= Size /\ n <= u => p = Wrap(Advance(c, n) + (u - n))
BY SizeAssumption DEF Advance, Wrap, Slot

(* Part of a filled window is filled. *)
LEMMA FilledPrefix ==
  ASSUME NEW m, NEW p, NEW n \in 0 .. Size, NEW w \in 0 .. Size, w <= n, NEW k,
         Filled(m, p, n, k)
  PROVE  Filled(m, p, w, k)
BY SizeAssumption DEF Filled, Slot

(* The i-th slot of a window of n at p is inside the buffer. *)
LEMMA InWindow ==
  ASSUME NEW p \in Slot, NEW n \in 0 .. Size, p + n <= Size, NEW i \in Slot, i < n
  PROVE  p + i \in Slot /\ p <= p + i /\ p + i < p + n /\ (p + i) - p = i
BY SizeAssumption DEF Slot

(* Committing part of a window of size n out of f free slots. *)
LEMMA CommitBounds ==
  ASSUME NEW p \in Slot, NEW f \in 0 .. Size, NEW n \in 0 .. Size, NEW w \in 0 .. Size,
         w <= n, n <= f, p + n <= Size
  PROVE  /\ Size - f \in 0 .. Size /\ w <= Size - (Size - f) /\ p + w <= Size
         /\ Size - (f - w) = (Size - f) + w
BY SizeAssumption DEF Slot

(* Consuming part of a window of size n out of the used slots. *)
LEMMA ConsumeBounds ==
  ASSUME NEW c \in Slot, NEW f \in 0 .. Size, NEW n \in 0 .. Size, NEW w \in 0 .. Size,
         w <= n, n <= Size - f, c + n <= Size
  PROVE  /\ Size - f \in 0 .. Size /\ w <= Size - f /\ c + w <= Size
         /\ (Size - f) - w = Size - (f + w) /\ f + w \in 0 .. Size
BY SizeAssumption DEF Slot

(* A window filled behind the unread bytes extends them when it is committed. *)
LEMMA CommitExtends ==
  ASSUME NEW p \in Slot, NEW c \in Slot, NEW u \in 0 .. Size, p = Wrap(c + u),
         NEW n \in 0 .. Size, n <= Size - u, p + n <= Size,
         NEW m, NEW k \in Nat, Holds(m, c, u, k), Filled(m, p, n, k + u)
  PROVE  Holds(m, c, u + n, k)
<1> SUFFICES ASSUME NEW i \in Slot, i < u + n PROVE m[Wrap(c + i)] = k + 1 + i
  BY Zenon DEF Holds
<1>1. CASE i < u
  BY Zenon, <1>1 DEF Holds
<1>2. CASE ~(i < u)
  <2>1. i - u \in Slot /\ i - u < n /\ Wrap(c + i) = p + (i - u)
    BY <1>2, SizeAssumption DEF Wrap, Slot
  <2>2. m[p + (i - u)] = (k + u) + 1 + (i - u)
    BY Zenon, <2>1 DEF Filled
  <2>3. (k + u) + 1 + (i - u) = k + 1 + i
    BY SizeAssumption DEF Slot
  <2> QED
    BY Zenon, <2>1, <2>2, <2>3
<1> QED
  BY Zenon, <1>1, <1>2

(* Reading n bytes leaves the ones after them. *)
LEMMA ConsumeShortens ==
  ASSUME NEW c \in Slot, NEW u \in 0 .. Size, NEW n \in 0 .. Size, n <= u, c + n <= Size,
         NEW m, NEW k \in Nat, Holds(m, c, u, k)
  PROVE  Holds(m, Advance(c, n), u - n, k + n)
<1> SUFFICES ASSUME NEW i \in Slot, i < u - n
             PROVE  m[Wrap(Advance(c, n) + i)] = (k + n) + 1 + i
  BY Zenon DEF Holds
<1>1. i + n \in Slot /\ i + n < u /\ Wrap(Advance(c, n) + i) = Wrap(c + (i + n))
  BY SizeAssumption DEF Wrap, Advance, Slot
<1>2. m[Wrap(c + (i + n))] = k + 1 + (i + n)
  BY Zenon, <1>1 DEF Holds
<1>3. k + 1 + (i + n) = (k + n) + 1 + i
  BY SizeAssumption DEF Slot
<1> QED
  BY Zenon, <1>1, <1>2, <1>3

(* What is stored in free space does not touch the unread bytes. *)
LEMMA StoresApart ==
  ASSUME NEW p \in Slot, NEW c \in Slot, NEW u \in 0 .. Size, p = Wrap(c + u),
         NEW n \in 0 .. Size, n <= Size - u, p + n <= Size,
         NEW m, NEW m2, NEW k \in Nat, Holds(m, c, u, k),
         \A s \in Slot : ~(p <= s /\ s < p + n) => m2[s] = m[s]
  PROVE  Holds(m2, c, u, k)
<1> SUFFICES ASSUME NEW i \in Slot, i < u PROVE m2[Wrap(c + i)] = k + 1 + i
  BY Zenon DEF Holds
<1>1. Wrap(c + i) \in Slot /\ ~(p <= Wrap(c + i) /\ Wrap(c + i) < p + n)
  BY SizeAssumption DEF Wrap, Slot
<1> QED
  BY Zenon, <1>1 DEF Holds

-----------------------------------------------------------------------------
(* What the operations do to the ring. *)

(* The ring relation bounds what it relates. *)
LEMMA RingBounds ==
  ASSUME NEW p, NEW c, NEW f, NEW ep, NEW ec, NEW m, NEW nw, NEW nr,
         Ring(p, c, f, ep, ec, m, nw, nr)
  PROVE  /\ p \in Slot /\ c \in Slot /\ f \in 0 .. Size /\ m \in [Slot -> Nat]
         /\ nw \in 0 .. MaxBytes /\ nr \in 0 .. MaxBytes
<1>1. /\ f \in 0 .. Size /\ ep \in 0 .. Size /\ nw \in Nat /\ nr \in Nat
      /\ nw = nr + (Size - f) /\ nw + ep <= MaxBytes
  BY Zenon DEF Ring
<1>2. nw \in 0 .. MaxBytes /\ nr \in 0 .. MaxBytes
  BY <1>1, SizeAssumption, MaxBytesAssumption
<1> QED
  BY Zenon, <1>2 DEF Ring

(* Lending a window to the producer, which fills it. *)
LEMMA RingLendProducer ==
  ASSUME NEW p, NEW c, NEW f, NEW ec, NEW m, NEW nw, NEW nr,
         Ring(p, c, f, 0, ec, m, nw, nr), f # 0,
         NEW r \in 1 .. Size, NEW n, n = ComputeSize(p, c, r), nw + n <= MaxBytes,
         NEW m2, m2 = [s \in Slot |-> IF p <= s /\ s < p + n THEN nw + 1 + (s - p) ELSE m[s]]
  PROVE  Ring(p, c, f, n, ec, m2, nw, nr) /\ n \in 1 .. Size
<1> USE SizeAssumption, MaxBytesAssumption
<1>1. p \in Slot /\ c \in Slot /\ f \in 0 .. Size /\ nw \in Nat /\ nr \in Nat
      /\ m \in [Slot -> Nat] /\ p = Wrap(c + (Size - f)) /\ Holds(m, c, Size - f, nr)
  BY Zenon DEF Ring
<1>2. Size - f \in 0 .. Size /\ Size - f # Size /\ Size - (Size - f) = f
  BY <1>1
<1>3. n \in 1 .. Size /\ n <= f /\ p + n <= Size
  BY <1>1, <1>2, WriteFits
<1>4. m2 \in [Slot -> Nat]
  <2>1. p \in Int /\ Slot \subseteq Int
    BY <1>1 DEF Slot
  <2>2. \A s \in Slot : p <= s => nw + 1 + (s - p) \in Nat
    BY <1>1, <2>1
  <2> QED
    BY Zenon, <1>1, <2>2
<1>5. Filled(m2, p, n, nw)
  <2> SUFFICES ASSUME NEW i \in Slot, i < n PROVE m2[p + i] = nw + 1 + i
    BY Zenon DEF Filled
  <2>1. p + i \in Slot /\ p <= p + i /\ p + i < p + n /\ (p + i) - p = i
    BY <1>1, <1>3, InWindow
  <2> QED
    BY Zenon, <2>1
<1>6. Holds(m2, c, Size - f, nr)
  BY <1>1, <1>2, <1>3, StoresApart
<1> QED
  BY <1>3, <1>4, <1>5, <1>6 DEF Ring

(* A write that fails half way spoils only free space. *)
LEMMA RingSpoil ==
  ASSUME NEW p, NEW c, NEW f, NEW ec, NEW m, NEW nw, NEW nr,
         Ring(p, c, f, 0, ec, m, nw, nr), f # 0,
         NEW r \in 1 .. Size, NEW n, n = ComputeSize(p, c, r),
         NEW m2, m2 = [s \in Slot |-> IF p <= s /\ s < p + n THEN 0 ELSE m[s]]
  PROVE  Ring(p, c, f, 0, ec, m2, nw, nr)
<1> USE SizeAssumption, MaxBytesAssumption
<1>1. p \in Slot /\ c \in Slot /\ f \in 0 .. Size /\ nw \in Nat /\ nr \in Nat
      /\ m \in [Slot -> Nat] /\ p = Wrap(c + (Size - f)) /\ Holds(m, c, Size - f, nr)
  BY Zenon DEF Ring
<1>2. Size - f \in 0 .. Size /\ Size - f # Size /\ Size - (Size - f) = f
  BY <1>1
<1>3. n \in 1 .. Size /\ n <= f /\ p + n <= Size
  BY <1>1, <1>2, WriteFits
<1>4. m2 \in [Slot -> Nat]
  BY Zenon, <1>1
<1>5. Holds(m2, c, Size - f, nr)
  BY <1>1, <1>2, <1>3, StoresApart
<1>6. Filled(m2, p, 0, nw)
  BY DEF Filled, Slot
<1> QED
  BY Zenon, <1>4, <1>5, <1>6 DEF Ring

(* Committing some of the bytes in the producer's window. *)
LEMMA RingCommit ==
  ASSUME NEW p, NEW c, NEW f, NEW ep, NEW ec, NEW m, NEW nw, NEW nr,
         Ring(p, c, f, ep, ec, m, nw, nr), NEW w \in 0 .. Size, w <= ep
  PROVE  Ring(Advance(p, w), c, f - w, 0, ec, m, nw + w, nr)
<1> USE SizeAssumption, MaxBytesAssumption
<1>1. p \in Slot /\ c \in Slot /\ f \in 0 .. Size /\ nw \in Nat /\ nr \in Nat
      /\ ep \in 0 .. Size /\ ec \in 0 .. Size /\ nw = nr + (Size - f)
      /\ ep <= f /\ p + ep <= Size /\ ec <= Size - f /\ c + ec <= Size /\ nw + ep <= MaxBytes
      /\ m \in [Slot -> Nat] /\ p = Wrap(c + (Size - f))
      /\ Holds(m, c, Size - f, nr) /\ Filled(m, p, ep, nw)
  BY Zenon DEF Ring
<1>2. /\ Size - f \in 0 .. Size /\ w <= Size - (Size - f) /\ p + w <= Size
      /\ Size - (f - w) = (Size - f) + w
  BY <1>1, CommitBounds
<1>3. Advance(p, w) \in Slot /\ Advance(p, w) = Wrap(c + (Size - (f - w)))
  BY <1>1, <1>2, AdvanceWraps
<1>4. Filled(m, p, w, nr + (Size - f))
  BY Zenon, <1>1, FilledPrefix
<1>5. Holds(m, c, Size - (f - w), nr)
  BY Zenon, <1>1, <1>2, <1>4, CommitExtends
<1>6. Filled(m, Advance(p, w), 0, nw + w)
  BY DEF Filled, Slot
<1>7. /\ f - w \in 0 .. Size /\ nw + w \in Nat /\ nw + w = nr + (Size - (f - w))
      /\ nw + w + 0 <= MaxBytes /\ 0 <= f - w /\ ec <= Size - (f - w) /\ 0 \in 0 .. Size
  BY <1>1
<1>8. Advance(p, w) + 0 <= Size
  BY <1>3 DEF Slot
<1> QED
  BY Zenon, <1>1, <1>3, <1>5, <1>6, <1>7, <1>8 DEF Ring

(* Lending written bytes to the consumer. *)
LEMMA RingLendConsumer ==
  ASSUME NEW p, NEW c, NEW f, NEW ep, NEW m, NEW nw, NEW nr,
         Ring(p, c, f, ep, 0, m, nw, nr), f # Size,
         NEW r \in 1 .. Size, NEW n, n = ComputeSize(c, p, r)
  PROVE  Ring(p, c, f, ep, n, m, nw, nr) /\ n \in 1 .. Size
<1>1. p \in Slot /\ c \in Slot /\ f \in 0 .. Size /\ p = Wrap(c + (Size - f))
  BY Zenon DEF Ring
<1>2. Size - f \in 0 .. Size /\ Size - f # 0
  BY <1>1, SizeAssumption
<1>3. n \in 1 .. Size /\ n <= Size - f /\ c + n <= Size
  BY Zenon, <1>1, <1>2, ReadFits
<1> QED
  BY <1>3 DEF Ring

(* Consuming some of the bytes in the consumer's window. *)
LEMMA RingConsume ==
  ASSUME NEW p, NEW c, NEW f, NEW ep, NEW ec, NEW m, NEW nw, NEW nr,
         Ring(p, c, f, ep, ec, m, nw, nr), NEW w \in 0 .. Size, w <= ec
  PROVE  Ring(p, Advance(c, w), f + w, ep, 0, m, nw, nr + w)
<1> USE SizeAssumption, MaxBytesAssumption
<1>1. p \in Slot /\ c \in Slot /\ f \in 0 .. Size /\ nw \in Nat /\ nr \in Nat
      /\ ep \in 0 .. Size /\ ec \in 0 .. Size /\ nw = nr + (Size - f)
      /\ ep <= f /\ ec <= Size - f /\ c + ec <= Size
      /\ m \in [Slot -> Nat] /\ p = Wrap(c + (Size - f)) /\ Holds(m, c, Size - f, nr)
  BY Zenon DEF Ring
<1>2. /\ Size - f \in 0 .. Size /\ w <= Size - f /\ c + w <= Size
      /\ (Size - f) - w = Size - (f + w) /\ f + w \in 0 .. Size
  BY Zenon, <1>1, ConsumeBounds
<1>3. Advance(c, w) \in Slot /\ p = Wrap(Advance(c, w) + (Size - (f + w)))
  BY <1>1, <1>2, AdvanceWraps
<1>4. Holds(m, Advance(c, w), Size - (f + w), nr + w)
  BY Zenon, <1>1, <1>2, ConsumeShortens
<1>5. /\ nr + w \in Nat /\ nw = (nr + w) + (Size - (f + w))
      /\ ep <= f + w /\ 0 <= Size - (f + w) /\ 0 \in 0 .. Size
  BY <1>1, <1>2
<1>6. Advance(c, w) + 0 <= Size
  BY <1>3 DEF Slot
<1> QED
  BY Zenon, <1>1, <1>2, <1>3, <1>4, <1>5, <1>6 DEF Ring

(* The ring part of the invariant gives the three ring properties. *)
LEMMA RingProperties ==
  ASSUME TypeOK, RingInv
  PROVE  RingConsistent /\ WindowsDisjoint /\ StreamIntegrity
<1> DEFINE p == cursor["producer"]
           c == cursor["consumer"]
           ep == expected["producer"]
           ec == expected["consumer"]
<1>1. /\ p \in Slot /\ c \in Slot /\ ep \in 0 .. Size /\ ec \in 0 .. Size
      /\ free_space \in 0 .. Size /\ nwritten = nread + used /\ p = Wrap(c + used)
      /\ ep <= free_space /\ p + ep <= Size /\ ec <= used /\ c + ec <= Size
      /\ Holds(mem, c, used, nread)
  BY Zenon DEF RingInv, Ring, used
<1> HIDE DEF p, c, ep, ec
<1>2. used \in 0 .. Size /\ Size - used = free_space
  BY <1>1, SizeAssumption DEF used
<1>3. \A s \in Slot : ~(p <= s /\ s < p + ep /\ c <= s /\ s < c + ec)
  BY Zenon, <1>1, <1>2, WindowsApart
<1>4. Window("producer") \cap Window("consumer") = {}
  BY Zenon, <1>3 DEF Window, p, c, ep, ec
<1> QED
  BY Zenon, <1>1, <1>4 DEF RingConsistent, WindowsDisjoint, StreamIntegrity, EndPoint, p, c, ep, ec

-----------------------------------------------------------------------------
(* Space in use and free space, before (g) and after (f) a change. *)
LEMMA SpaceCases ==
  ASSUME NEW f \in 0 .. Size, NEW g \in 0 .. Size
  PROVE  /\ Size - f > 0 <=> f # Size
         /\ f > 0 <=> f # 0
         /\ g <= f /\ Size - f > 0 => Size - g > 0
BY SizeAssumption

(* The signals agree with the ring after UpdateSignals. *)
LEMMA SignalsUpdated ==
  ASSUME TypeOK, SignalsMatchState, "consumer" \in alive, UNCHANGED alive,
         free_space' \in 0 .. Size, UpdateSignals(free_space'),
         "producer" \in alive \/ free_space <= free_space'
  PROVE  /\ satisfied' \in [EndPoint -> SUBSET Signal]
         /\ satisfiable' \in [EndPoint -> SUBSET Signal]
         /\ SignalsMatchState'
<1>1. /\ satisfied' \in [EndPoint -> SUBSET Signal]
      /\ satisfiable' \in [EndPoint -> SUBSET Signal]
  BY Zenon DEF UpdateSignals, TypeOK, EndPoint, Signal
<1>2. SignalsMatchState'
  <2>1. /\ "READABLE" \in satisfied'["consumer"] <=> free_space' # Size
        /\ "WRITABLE" \in satisfied'["producer"] <=> free_space' # 0
    BY Zenon DEF UpdateSignals, TypeOK, EndPoint
  <2>2. /\ "PEER_CLOSED" \in satisfied'["consumer"] <=> "PEER_CLOSED" \in satisfied["consumer"]
        /\ "PEER_CLOSED" \in satisfied'["producer"] <=> "PEER_CLOSED" \in satisfied["producer"]
        /\ satisfiable'["producer"] = satisfiable["producer"]
    BY Zenon DEF UpdateSignals, TypeOK, EndPoint
  <2>3. "producer" \in alive => satisfiable'["consumer"] = satisfiable["consumer"]
    BY Zenon DEF UpdateSignals, TypeOK, EndPoint
  <2>4. "producer" \notin alive =>
          ("READABLE" \in satisfiable'["consumer"] <=>
             free_space' # Size /\ "READABLE" \in satisfiable["consumer"])
    BY Zenon DEF UpdateSignals, TypeOK, EndPoint
  <2>5. /\ used' > 0 <=> free_space' # Size
        /\ free_space' > 0 <=> free_space' # 0
        /\ "producer" \notin alive /\ used' > 0 => used > 0
    <3>1. free_space \in 0 .. Size
      BY Zenon DEF TypeOK
    <3> QED
      BY Zenon, <3>1, SpaceCases DEF used
  <2> QED
    BY <2>1, <2>2, <2>3, <2>4, <2>5, Zenon DEF SignalsMatchState
<1> QED
  BY Zenon, <1>1, <1>2

(* The types of the variables of the ring. *)
RingTypeOK ==
  /\ cursor \in [EndPoint -> Slot]
  /\ expected \in [EndPoint -> 0 .. Size]
  /\ free_space \in 0 .. Size
  /\ mem \in [Slot -> Nat]
  /\ nwritten \in 0 .. MaxBytes
  /\ nread \in 0 .. MaxBytes

(* An operation that moves bytes and ends in UpdateSignals. *)
LEMMA TransferStep ==
  ASSUME IInv, RingTypeOK', RingInv', vmo = "live", UpdateSignals(free_space'),
         "producer" \in alive \/ free_space <= free_space',
         UNCHANGED <<alive, mappings, vmo, fault>>
  PROVE  IInv'
<1>1. TypeOK /\ RegionKnown /\ VmoKeptWhileNeeded /\ SignalsMatchState
  BY Zenon DEF IInv
<1>2. "consumer" \in alive
  BY Zenon, <1>1 DEF VmoKeptWhileNeeded
<1>3. free_space' \in 0 .. Size /\ alive' = alive
  BY Zenon DEF RingTypeOK
<1>4. /\ satisfied' \in [EndPoint -> SUBSET Signal]
      /\ satisfiable' \in [EndPoint -> SUBSET Signal]
      /\ SignalsMatchState'
  BY Zenon, <1>1, <1>2, <1>3, SignalsUpdated
<1>5. TypeOK'
  BY Zenon, <1>1, <1>4 DEF TypeOK, RingTypeOK, mappings
<1>6. RegionKnown'
  BY Zenon, <1>1 DEF RegionKnown, mappings
<1>7. VmoKeptWhileNeeded'
  BY Zenon, <1>1, <1>2 DEF VmoKeptWhileNeeded
<1> QED
  BY Zenon, <1>4, <1>5, <1>6, <1>7 DEF IInv

(* An operation that changes the mappings, the windows or the free part of the *)
(* memory.                                                                     *)
LEMMA LendStep ==
  ASSUME IInv, RingTypeOK', RingInv', RegionKnown',
         aspace' \in [EndPoint -> Aspaces \cup {NoAspace}],
         regions' \in [EndPoint -> [Aspaces -> 0 .. MaxRegions]],
         UNCHANGED <<alive, free_space, vmo, signals, fault>>
  PROVE  IInv'
<1>1. TypeOK /\ VmoKeptWhileNeeded /\ SignalsMatchState
  BY Zenon DEF IInv
<1>2. TypeOK'
  BY Zenon, <1>1 DEF TypeOK, RingTypeOK, signals
<1>3. VmoKeptWhileNeeded'
  BY Zenon, <1>1 DEF VmoKeptWhileNeeded, used
<1>4. SignalsMatchState'
  BY Zenon, <1>1 DEF SignalsMatchState, used, signals
<1> QED
  BY Zenon, <1>2, <1>3, <1>4 DEF IInv

(* A one-phase write keeps the invariant. *)
LEMMA WriteFromUserStep ==
  ASSUME IInv, NEW r \in 1 .. Size, ProducerWriteFromUser(r)
  PROVE  IInv'
<1> DEFINE p == cursor["producer"]
           c == cursor["consumer"]
           n == ComputeSize(p, c, r)
<1>1. TypeOK /\ RingInv /\ VmoKeptWhileNeeded
  BY Zenon DEF IInv
<1>2. /\ Ring(p, c, free_space, 0, expected["consumer"], mem, nwritten, nread)
      /\ free_space # 0 /\ nwritten + n <= MaxBytes
      /\ mem' = [s \in Slot |-> IF p <= s /\ s < p + n THEN nwritten + 1 + (s - p) ELSE mem[s]]
  BY Zenon, <1>1 DEF ProducerWriteFromUser, CanWrite, Store, RingInv
<1>3. /\ Ring(p, c, free_space, n, expected["consumer"], mem', nwritten, nread)
      /\ n \in 1 .. Size
  BY <1>2, RingLendProducer
<1>4. Ring(Advance(p, n), c, free_space - n, 0, expected["consumer"], mem', nwritten + n, nread)
  BY <1>3, RingCommit
<1>5. /\ Advance(p, n) \in Slot /\ free_space - n \in 0 .. Size /\ mem' \in [Slot -> Nat]
      /\ nwritten + n \in 0 .. MaxBytes
  BY <1>2, <1>4, MaxBytesAssumption DEF Ring
<1>6. /\ free_space' = free_space - n /\ cursor' = [cursor EXCEPT !["producer"] = Advance(p, n)]
      /\ nwritten' = nwritten + n /\ UpdateSignals(free_space - n)
      /\ expected["producer"] = 0
      /\ UNCHANGED <<alive, expected, nread, mappings, vmo, fault>>
      /\ "producer" \in alive /\ "consumer" \in alive
  BY Zenon DEF ProducerWriteFromUser, Commit, CanWrite, Usable
<1> HIDE DEF n
<1>7. cursor'["producer"] = Advance(p, n) /\ cursor'["consumer"] = c
  BY Zenon, <1>1, <1>6 DEF TypeOK, EndPoint
<1>8. RingInv'
  BY Zenon, <1>4, <1>6, <1>7 DEF RingInv
<1>9. RingTypeOK'
  BY Zenon, <1>1, <1>5, <1>6 DEF TypeOK, RingTypeOK
<1>10. vmo = "live"
  BY Zenon, <1>1, <1>6 DEF VmoKeptWhileNeeded
<1> QED
  BY Zenon, <1>6, <1>8, <1>9, <1>10, TransferStep

(* A write that fails half way keeps it. *)
LEMMA WriteFailsStep ==
  ASSUME IInv, NEW r \in 1 .. Size, ProducerWriteFails(r)
  PROVE  IInv'
<1> DEFINE p == cursor["producer"]
           c == cursor["consumer"]
           n == ComputeSize(p, c, r)
<1>1. TypeOK /\ RingInv /\ RegionKnown
  BY Zenon DEF IInv
<1>2. /\ Ring(p, c, free_space, 0, expected["consumer"], mem, nwritten, nread)
      /\ free_space # 0 /\ expected["producer"] = 0
      /\ mem' = [s \in Slot |-> IF p <= s /\ s < p + n THEN 0 ELSE mem[s]]
      /\ UNCHANGED <<alive, cursor, expected, free_space, nwritten, nread, aspace, regions,
                     vmo, signals, fault>>
  BY Zenon, <1>1 DEF ProducerWriteFails, CanWrite, RingInv, mappings
<1>3. Ring(p, c, free_space, 0, expected["consumer"], mem', nwritten, nread)
  BY Zenon, <1>2, RingSpoil
<1>4. RingInv' /\ mem' \in [Slot -> Nat]
  BY Zenon, <1>2, <1>3 DEF RingInv, Ring
<1>5. RingTypeOK'
  BY Zenon, <1>1, <1>2, <1>4 DEF TypeOK, RingTypeOK
<1>6. RegionKnown'
  BY Zenon, <1>1, <1>2 DEF RegionKnown
<1> QED
  BY Zenon, <1>1, <1>2, <1>4, <1>5, <1>6, LendStep DEF TypeOK

(* Beginning a two-phase write keeps it. *)
LEMMA WriteBeginStep ==
  ASSUME IInv, NEW a \in Aspaces, NEW r \in 1 .. Size, ProducerWriteBegin(a, r)
  PROVE  IInv'
<1> DEFINE p == cursor["producer"]
           c == cursor["consumer"]
           n == ComputeSize(p, c, r)
<1>1. TypeOK /\ RingInv /\ RegionKnown
  BY Zenon DEF IInv
<1>2. /\ Ring(p, c, free_space, 0, expected["consumer"], mem, nwritten, nread)
      /\ free_space # 0 /\ nwritten + n <= MaxBytes
      /\ mem' = [s \in Slot |-> IF p <= s /\ s < p + n THEN nwritten + 1 + (s - p) ELSE mem[s]]
  BY Zenon, <1>1 DEF ProducerWriteBegin, CanWrite, Store, RingInv
<1>3. /\ Ring(p, c, free_space, n, expected["consumer"], mem', nwritten, nread)
      /\ n \in 1 .. Size
  BY <1>2, RingLendProducer
<1>4. /\ expected' = [expected EXCEPT !["producer"] = n] /\ MapVMOIfNeeded("producer", a)
      /\ UNCHANGED <<alive, cursor, free_space, nwritten, nread, vmo, signals, fault>>
  BY Zenon DEF ProducerWriteBegin
<1> HIDE DEF n
<1>5. expected'["producer"] = n /\ expected'["consumer"] = expected["consumer"]
  BY Zenon, <1>1, <1>4 DEF TypeOK, EndPoint
<1>6. RingInv' /\ mem' \in [Slot -> Nat] /\ n \in 0 .. Size
  BY Zenon, <1>3, <1>4, <1>5, SizeAssumption DEF RingInv, Ring
<1>7. RingTypeOK'
  BY Zenon, <1>1, <1>3, <1>4, <1>6 DEF TypeOK, RingTypeOK
<1>8. /\ aspace' \in [EndPoint -> Aspaces \cup {NoAspace}]
      /\ regions' \in [EndPoint -> [Aspaces -> 0 .. MaxRegions]]
      /\ RegionKnown'
  BY Zenon, <1>1, <1>4, MappingsPreserved DEF EndPoint
<1> QED
  BY Zenon, <1>4, <1>6, <1>7, <1>8, LendStep

(* A mapping that fails keeps it. *)
LEMMA MapFailsStep ==
  ASSUME IInv, NEW a \in Aspaces, ProducerWriteBeginFails(a) \/ ConsumerReadBeginFails(a)
  PROVE  IInv'
<1>1. TypeOK /\ RingInv /\ RegionKnown
  BY Zenon DEF IInv
<1>2. PICK e \in EndPoint : MapVMOFails(e, a)
  BY Zenon DEF ProducerWriteBeginFails, ConsumerReadBeginFails, EndPoint
<1>3. UNCHANGED <<alive, cursor, expected, free_space, mem, nwritten, nread, vmo, signals, fault>>
  BY Zenon DEF ProducerWriteBeginFails, ConsumerReadBeginFails, ring
<1>4. RingInv' /\ RingTypeOK'
  BY Zenon, <1>1, <1>3 DEF RingInv, TypeOK, RingTypeOK
<1>5. /\ aspace' \in [EndPoint -> Aspaces \cup {NoAspace}]
      /\ regions' \in [EndPoint -> [Aspaces -> 0 .. MaxRegions]]
      /\ RegionKnown'
  BY Zenon, <1>1, <1>2, MappingsPreserved
<1> QED
  BY Zenon, <1>3, <1>4, <1>5, LendStep

(* Reaching through a null vmo_ changes nothing that is modelled. *)
LEMMA NullVmoStep ==
  ASSUME IInv, NEW op \in {"ProducerWriteEnd", "ConsumerReadFromUser", "ConsumerReadBegin"},
         NullVmo(op)
  PROVE  IInv'
<1>1. TypeOK /\ RingInv /\ RegionKnown /\ VmoKeptWhileNeeded /\ SignalsMatchState
  BY Zenon DEF IInv
<1>2. /\ UNCHANGED <<alive, cursor, expected, free_space, mem, nwritten, nread, aspace, regions,
                     vmo, satisfied, satisfiable>>
      /\ fault' = op
  BY Zenon DEF NullVmo, ring, mappings, signals
<1>3. TypeOK'
  BY Zenon, <1>1, <1>2 DEF TypeOK
<1>4. RingInv' /\ RegionKnown' /\ VmoKeptWhileNeeded' /\ SignalsMatchState'
  BY Zenon, <1>1, <1>2 DEF RingInv, RegionKnown, VmoKeptWhileNeeded, SignalsMatchState, used
<1> QED
  BY Zenon, <1>3, <1>4 DEF IInv

(* Ending a two-phase write keeps it. *)
LEMMA WriteEndStep ==
  ASSUME IInv, NEW w \in 0 .. Size, ProducerWriteEnd(w)
  PROVE  IInv'
<1> DEFINE p == cursor["producer"]
           c == cursor["consumer"]
<1>1. CASE NullVmo("ProducerWriteEnd")
  BY Zenon, <1>1, NullVmoStep
<1>2. CASE ~NullVmo("ProducerWriteEnd")
  <2>1. TypeOK /\ RingInv
    BY Zenon DEF IInv
  <2>2. /\ vmo = "live" /\ w <= expected["producer"] /\ "producer" \in alive
        /\ free_space' = free_space - w /\ cursor' = [cursor EXCEPT !["producer"] = Advance(p, w)]
        /\ nwritten' = nwritten + w /\ UpdateSignals(free_space - w)
        /\ expected' = [expected EXCEPT !["producer"] = 0]
        /\ UNCHANGED <<alive, mem, nread, mappings, vmo, fault>>
    BY Zenon, <1>2 DEF ProducerWriteEnd, Commit, Usable
  <2>3. Ring(p, c, free_space, expected["producer"], expected["consumer"], mem, nwritten, nread)
    BY Zenon, <2>1 DEF RingInv
  <2>4. Ring(Advance(p, w), c, free_space - w, 0, expected["consumer"], mem, nwritten + w, nread)
    BY Zenon, <2>2, <2>3, RingCommit
  <2>5. /\ Advance(p, w) \in Slot /\ free_space - w \in 0 .. Size
        /\ nwritten + w \in 0 .. MaxBytes /\ 0 \in 0 .. Size
    BY <2>4, MaxBytesAssumption DEF Ring
  <2>6. /\ cursor'["producer"] = Advance(p, w) /\ cursor'["consumer"] = c
        /\ expected'["producer"] = 0 /\ expected'["consumer"] = expected["consumer"]
    BY Zenon, <2>1, <2>2 DEF TypeOK, EndPoint
  <2>7. RingInv'
    BY Zenon, <2>2, <2>4, <2>6 DEF RingInv
  <2>8. RingTypeOK'
    BY Zenon, <2>1, <2>2, <2>5 DEF TypeOK, RingTypeOK
  <2> QED
    BY Zenon, <2>2, <2>7, <2>8, TransferStep
<1> QED
  BY Zenon, <1>1, <1>2

(* A one-phase read keeps it. *)
LEMMA ReadFromUserStep ==
  ASSUME IInv, NEW r \in 1 .. Size, ConsumerReadFromUser(r)
  PROVE  IInv'
<1> DEFINE p == cursor["producer"]
           c == cursor["consumer"]
           n == ComputeSize(c, p, r)
<1>1. CASE NullVmo("ConsumerReadFromUser")
  BY Zenon, <1>1, NullVmoStep
<1>2. CASE ~NullVmo("ConsumerReadFromUser")
  <2>1. TypeOK /\ RingInv
    BY Zenon DEF IInv
  <2>2. /\ vmo = "live" /\ free_space # Size /\ expected["consumer"] = 0
        /\ free_space' = free_space + n /\ cursor' = [cursor EXCEPT !["consumer"] = Advance(c, n)]
        /\ nread' = nread + n /\ UpdateSignals(free_space + n)
        /\ UNCHANGED <<alive, expected, mem, nwritten, mappings, vmo, fault>>
    BY Zenon, <1>2 DEF ConsumerReadFromUser, Consume, CanRead, CanAskSize
  <2>3. Ring(p, c, free_space, expected["producer"], 0, mem, nwritten, nread)
    BY Zenon, <2>1, <2>2 DEF RingInv
  <2>4. Ring(p, c, free_space, expected["producer"], n, mem, nwritten, nread) /\ n \in 1 .. Size
    BY Zenon, <2>2, <2>3, RingLendConsumer
  <2> HIDE DEF n
  <2>5. Ring(p, Advance(c, n), free_space + n, expected["producer"], 0, mem, nwritten, nread + n)
    BY <2>4, RingConsume
  <2>6. /\ Advance(c, n) \in Slot /\ free_space + n \in 0 .. Size /\ nread + n \in 0 .. MaxBytes
        /\ free_space <= free_space + n
    <3>1. free_space \in Int
      BY <2>1 DEF TypeOK
    <3> QED
      BY <2>4, <2>5, <3>1, RingBounds
  <2>7. cursor'["producer"] = p /\ cursor'["consumer"] = Advance(c, n)
    BY Zenon, <2>1, <2>2 DEF TypeOK, EndPoint
  <2>8. RingInv'
    BY Zenon, <2>2, <2>5, <2>7 DEF RingInv
  <2>9. RingTypeOK'
    BY Zenon, <2>1, <2>2, <2>6 DEF TypeOK, RingTypeOK
  <2> QED
    BY Zenon, <2>2, <2>6, <2>8, <2>9, TransferStep
<1> QED
  BY Zenon, <1>1, <1>2

(* Beginning a two-phase read keeps it. *)
LEMMA ReadBeginStep ==
  ASSUME IInv, NEW a \in Aspaces, NEW r \in 1 .. Size, ConsumerReadBegin(a, r)
  PROVE  IInv'
<1> DEFINE p == cursor["producer"]
           c == cursor["consumer"]
           n == ComputeSize(c, p, r)
<1>1. CASE NullVmo("ConsumerReadBegin")
  BY Zenon, <1>1, NullVmoStep
<1>2. CASE ~NullVmo("ConsumerReadBegin")
  <2>1. TypeOK /\ RingInv /\ RegionKnown
    BY DEF IInv
  <2>2. /\ free_space # Size /\ expected["consumer"] = 0
        /\ expected' = [expected EXCEPT !["consumer"] = n] /\ MapVMOIfNeeded("consumer", a)
        /\ UNCHANGED <<alive, cursor, free_space, mem, nwritten, nread, vmo, signals, fault>>
    BY Zenon, <1>2 DEF ConsumerReadBegin, CanRead, CanAskSize
  <2>3. Ring(p, c, free_space, expected["producer"], 0, mem, nwritten, nread)
    BY Zenon, <2>1, <2>2 DEF RingInv
  <2>4. Ring(p, c, free_space, expected["producer"], n, mem, nwritten, nread) /\ n \in 1 .. Size
    BY Zenon, <2>2, <2>3, RingLendConsumer
  <2> HIDE DEF n
  <2>5. expected'["producer"] = expected["producer"] /\ expected'["consumer"] = n /\ n \in 0 .. Size
    BY <2>1, <2>2, <2>4, SizeAssumption DEF TypeOK, EndPoint
  <2>6. RingInv'
    BY Zenon, <2>2, <2>4, <2>5 DEF RingInv
  <2>7. RingTypeOK'
    BY Zenon, <2>1, <2>2, <2>5 DEF TypeOK, RingTypeOK
  <2>8. /\ aspace' \in [EndPoint -> Aspaces \cup {NoAspace}]
        /\ regions' \in [EndPoint -> [Aspaces -> 0 .. MaxRegions]]
        /\ RegionKnown'
    BY Zenon, <2>1, <2>2, MappingsPreserved DEF EndPoint
  <2> QED
    BY Zenon, <2>2, <2>6, <2>7, <2>8, LendStep
<1> QED
  BY Zenon, <1>1, <1>2

(* Ending a two-phase read keeps it: the vmo is there while a read is pending. *)
LEMMA ReadEndStep ==
  ASSUME IInv, NEW w \in 0 .. Size, ConsumerReadEnd(w)
  PROVE  IInv'
<1> DEFINE p == cursor["producer"]
           c == cursor["consumer"]
<1>1. TypeOK /\ RingInv /\ VmoKeptWhileNeeded
  BY Zenon DEF IInv
<1>2. /\ w <= expected["consumer"] /\ expected["consumer"] # 0 /\ "consumer" \in alive
      /\ free_space' = free_space + w /\ cursor' = [cursor EXCEPT !["consumer"] = Advance(c, w)]
      /\ nread' = nread + w /\ UpdateSignals(free_space + w)
      /\ expected' = [expected EXCEPT !["consumer"] = 0]
      /\ UNCHANGED <<alive, mem, nwritten, mappings, vmo, fault>>
  BY Zenon DEF ConsumerReadEnd, Consume, Usable
<1>3. Ring(p, c, free_space, expected["producer"], expected["consumer"], mem, nwritten, nread)
  BY Zenon, <1>1 DEF RingInv
<1>4. Ring(p, Advance(c, w), free_space + w, expected["producer"], 0, mem, nwritten, nread + w)
  BY Zenon, <1>2, <1>3, RingConsume
<1>5. /\ Advance(c, w) \in Slot /\ free_space + w \in 0 .. Size /\ nread + w \in 0 .. MaxBytes
      /\ free_space <= free_space + w /\ 0 \in 0 .. Size
  <2>1. free_space \in Int
    BY <1>1 DEF TypeOK
  <2> QED
    BY <1>4, <2>1, RingBounds, SizeAssumption
<1>6. used > 0
  BY <1>2, <1>3, SizeAssumption DEF Ring, used
<1>7. vmo = "live"
  BY Zenon, <1>1, <1>2, <1>6 DEF VmoKeptWhileNeeded
<1>8. /\ cursor'["producer"] = p /\ cursor'["consumer"] = Advance(c, w)
      /\ expected'["producer"] = expected["producer"] /\ expected'["consumer"] = 0
  BY Zenon, <1>1, <1>2 DEF TypeOK, EndPoint
<1>9. RingInv'
  BY Zenon, <1>2, <1>4, <1>8 DEF RingInv
<1>10. RingTypeOK'
  BY Zenon, <1>1, <1>2, <1>5 DEF TypeOK, RingTypeOK
<1> QED
  BY Zenon, <1>2, <1>5, <1>7, <1>9, <1>10, TransferStep

(* Destroying an endpoint keeps it. *)
LEMMA DestructionStep ==
  ASSUME IInv, OnProducerDestruction \/ OnConsumerDestruction
  PROVE  IInv'
<1>1. TypeOK /\ RingInv /\ RegionKnown /\ VmoKeptWhileNeeded /\ SignalsMatchState
  BY Zenon DEF IInv
<1>2. PICK e \in EndPoint : Unmap(e)
  BY Zenon DEF OnProducerDestruction, OnConsumerDestruction, EndPoint
<1>3. UNCHANGED <<cursor, expected, free_space, mem, nwritten, nread, fault>>
  BY Zenon DEF OnProducerDestruction, OnConsumerDestruction, ring
<1>4. RingInv' /\ RingTypeOK' /\ used' = used
  BY Zenon, <1>1, <1>3 DEF RingInv, TypeOK, RingTypeOK, used
<1>5. /\ aspace' \in [EndPoint -> Aspaces \cup {NoAspace}]
      /\ regions' \in [EndPoint -> [Aspaces -> 0 .. MaxRegions]]
      /\ RegionKnown'
  <2>1. CASE Aspaces = {}
    BY Zenon, <1>1, <1>2, <2>1 DEF Unmap, Unmapped, TypeOK, RegionKnown
  <2>2. CASE Aspaces # {}
    BY Zenon, <1>1, <1>2, <2>2, MappingsPreserved
  <2> QED
    BY Zenon, <2>1, <2>2
<1>6. (used > 0 <=> free_space # Size) /\ (free_space > 0 <=> free_space # 0)
  BY Zenon, <1>1, SpaceCases DEF TypeOK, used
<1>7. CASE OnProducerDestruction
  <2>1. TypeOK'
    BY <1>1, <1>3, <1>4, <1>5, <1>7 DEF OnProducerDestruction, TypeOK, RingTypeOK, EndPoint, Signal, signals
  <2>2. VmoKeptWhileNeeded'
    BY Zenon, <1>1, <1>4, <1>6, <1>7 DEF OnProducerDestruction, VmoKeptWhileNeeded
  <2>3. SignalsMatchState'
    BY <1>1, <1>3, <1>4, <1>6, <1>7 DEF OnProducerDestruction, SignalsMatchState, TypeOK, EndPoint, signals
  <2> QED
    BY Zenon, <1>4, <1>5, <2>1, <2>2, <2>3 DEF IInv
<1>8. CASE OnConsumerDestruction
  <2>1. TypeOK'
    BY <1>1, <1>3, <1>4, <1>5, <1>8 DEF OnConsumerDestruction, TypeOK, RingTypeOK, EndPoint, Signal, signals
  <2>2. VmoKeptWhileNeeded'
    BY Zenon, <1>8 DEF OnConsumerDestruction, VmoKeptWhileNeeded
  <2>3. SignalsMatchState'
    BY <1>1, <1>3, <1>4, <1>6, <1>8 DEF OnConsumerDestruction, SignalsMatchState, TypeOK, EndPoint, signals
  <2> QED
    BY <1>4, <1>5, <2>1, <2>2, <2>3 DEF IInv
<1> QED
  BY Zenon, <1>7, <1>8

(* Every step of the pipe keeps the inductive invariant. *)
LEMMA NextIInv == IInv /\ [Next]_vars => IInv'
<1> SUFFICES ASSUME IInv, [Next]_vars PROVE IInv'
  BY Zenon
<1>1. CASE UNCHANGED vars
  BY Zenon, <1>1 DEF vars, ring, mappings, signals, IInv, TypeOK, RingInv, RegionKnown,
              VmoKeptWhileNeeded, SignalsMatchState, used
<1>2. CASE Next
  BY Zenon, <1>2, WriteFromUserStep, WriteFailsStep, WriteBeginStep, MapFailsStep, WriteEndStep,
     ReadFromUserStep, ReadBeginStep, ReadEndStep, DestructionStep DEF Next
<1> QED
  BY Zenon, <1>1, <1>2

(* The inductive invariant holds in every reachable state. *)
LEMMA IInvAlways == Spec => []IInv
  BY InitIInv, NextIInv, PTL DEF Spec

(* The variables keep their types; in particular the unsigned sizes never wrap  *)
(* below zero and the cursors stay inside the buffer.                           *)
THEOREM TypeCorrect == Spec => []TypeOK
  BY IInvAlways, PTL DEF IInv

(* Cursors, free space and the counts of bytes agree, and a window lent to the *)
(* producer never overlaps one lent to the consumer, for every buffer size.     *)
THEOREM RingAlwaysSound == Spec => []RingSound
<1>1. IInv => RingSound
  BY Zenon, RingProperties DEF IInv, RingSound
<1> QED
  BY IInvAlways, <1>1, PTL

(* The consumer reads exactly the bytes the producer wrote, in order. *)
THEOREM StreamAlwaysIntact == Spec => []StreamIntegrity
<1>1. IInv => StreamIntegrity
  BY Zenon, RingProperties DEF IInv
<1> QED
  BY IInvAlways, <1>1, PTL

(* The vmo is held exactly as long as bytes can still pass. *)
THEOREM VmoAlwaysKept == Spec => []VmoKeptWhileNeeded
  BY IInvAlways, PTL DEF IInv

(* The signals of both endpoints always describe the pipe. *)
THEOREM SignalsAlwaysMatch == Spec => []SignalsMatchState
  BY IInvAlways, PTL DEF IInv

-----------------------------------------------------------------------------
(* PortBinding.                                                               *)

Call ==
  [at : {"out", "found"}]
    \cup [at : {"bind", "unbind"}, o : Observers, p : BindProcesses]
    \cup [at : {"cancel"}, h : BindSlots, then : BindProcesses \cup {"free"}]
    \cup [at : {"write"}, h : BindSlots, p : BindProcesses]
    \cup [at : {"done"}, h : BindSlots, then : BindProcesses \cup {"free"}, did_cancel : SUBSET Observers]

Binding == [handle : BindSlots \cup {Nobody}, key : Keys \cup {Nobody},
            state : {"none", "NEW", "UNBOUND", "CANCELLED"}, by : BindProcesses \cup {Nobody}]

BindTypeOK ==
  /\ owner \in [BindSlots -> BindProcesses \cup Held]
  /\ observer \in [Observers -> Binding]
  /\ bound \subseteq Observers /\ tracked \subseteq Observers
  /\ table_lock \in [BindProcesses -> BOOLEAN]
  /\ bind_call \in [BindThreads -> Call]

(* The calls that hold the lock of a table, and those that have a handle of  *)
(* the kernel.                                                               *)
Locks(t) == bind_call[t].at \in {"bind", "unbind"}
Keeps(t) == bind_call[t].at \in {"cancel", "write", "done"}

CallsOK ==
  \A t \in BindThreads :
    /\ Locks(t) => table_lock[bind_call[t].p]
                   /\ \A u \in BindThreads : Locks(u) /\ bind_call[u].p = bind_call[t].p => u = t
    /\ Keeps(t) => owner[bind_call[t].h] = "kernel"
                   /\ \A u \in BindThreads : Keeps(u) /\ bind_call[u].h = bind_call[t].h => u = t

(* What a call in charge of an observer knows of it. *)
BoundNow(o, p) ==
  observer[o].handle \in BindSlots /\ owner[observer[o].handle] = p /\ observer[o].by = p

ChargeOf(t) ==
  /\ bind_call[t].at = "bind" =>
       /\ bind_call[t].o \in bound \ tracked /\ observer[bind_call[t].o].state = "NEW"
       /\ BoundNow(bind_call[t].o, bind_call[t].p)
  /\ bind_call[t].at = "unbind" =>
       /\ bind_call[t].o \in tracked \ bound /\ observer[bind_call[t].o].state = "UNBOUND"
       /\ BoundNow(bind_call[t].o, bind_call[t].p)
  /\ bind_call[t].at = "done" =>
       \A o \in bind_call[t].did_cancel :
         o \in bound \ tracked /\ observer[o].state = "CANCELLED" /\ observer[o].handle = Nobody

ChargeOK ==
  /\ \A t \in BindThreads : ChargeOf(t)
  /\ \A o \in Observers : \A t, u \in InCharge(o) : t = u
  /\ \A o \in Live : InCharge(o) = {} =>
       o \in bound \cap tracked /\ observer[o].state = "NEW" /\ observer[o].handle # Nobody

(* The bindings of a handle that is on its way. *)
OnItsWay ==
  \A t \in BindThreads, o \in Live :
    /\ bind_call[t].at = "done" => observer[o].handle # bind_call[t].h
    /\ bind_call[t].at = "write" /\ observer[o].handle = bind_call[t].h => observer[o].by = bind_call[t].p

BindingsInv ==
  /\ BindTypeOK /\ CallsOK /\ ChargeOK /\ OnItsWay /\ BindingsFollowHandles
  /\ bound \cup tracked \subseteq Live

-----------------------------------------------------------------------------
LEMMA CallFacts ==
  ASSUME BindTypeOK, NEW t \in BindThreads
  PROVE  /\ Locks(t) => bind_call[t].o \in Observers /\ bind_call[t].p \in BindProcesses
         /\ Keeps(t) => bind_call[t].h \in BindSlots
         /\ bind_call[t].at \in {"cancel", "done"} => bind_call[t].then \in BindProcesses \cup {"free"}
         /\ bind_call[t].at = "write" => bind_call[t].p \in BindProcesses
         /\ bind_call[t].at = "done" => bind_call[t].did_cancel \subseteq Observers
<1> bind_call[t] \in Call
  BY Zenon DEF BindTypeOK
<1> QED
  BY Zenon DEF Call, Locks, Keeps

LEMMA BindInitInv == BindInit => BindingsInv
<1> SUFFICES ASSUME BindInit PROVE BindingsInv
  OBVIOUS
<1>0. PICK h \in BindSlots, p \in BindProcesses :
        owner = [s \in BindSlots |-> IF s = h THEN p ELSE "free"]
  BY Zenon DEF BindInit
<1>1. /\ bound = {} /\ tracked = {} /\ observer = [o \in Observers |-> NoObserver]
      /\ bind_call = [t \in BindThreads |-> Out]
      /\ table_lock = [q \in BindProcesses |-> FALSE]
  BY Zenon DEF BindInit
<1>2. Live = {}
  BY Zenon, <1>1 DEF Live, NoObserver
<1>3. BindTypeOK
  <2>1. NoObserver \in Binding
    BY Zenon DEF NoObserver, Binding
  <2>2. Out \in Call
    BY Zenon DEF Out, Call
  <2> QED
    BY Zenon, <1>0, <1>1, <2>1, <2>2 DEF BindTypeOK, Held
<1>4. CallsOK /\ ChargeOK
  BY Zenon, <1>1, <1>2 DEF CallsOK, ChargeOK, ChargeOf, Locks, Keeps, Out, InCharge
<1> QED
  BY Zenon, <1>1, <1>2, <1>3, <1>4 DEF BindingsInv, OnItsWay, BindingsFollowHandles

(* A step of a call that is in charge of no observer, before or after, and   *)
(* that takes no handle from under a table's lock.                           *)
LEMMA OtherCallsCharge ==
  ASSUME BindTypeOK, CallsOK, ChargeOK, NEW t \in BindThreads, NEW c,
         bind_call' = [bind_call EXCEPT ![t] = c],
         UNCHANGED <<bound, tracked, observer>>,
         ~Locks(t), bind_call[t].at = "done" => bind_call[t].did_cancel = {},
         c.at \notin {"bind", "unbind"}, c.at = "done" => c.did_cancel = {},
         \A h \in BindSlots : owner[h] \in BindProcesses /\ table_lock[owner[h]] => owner'[h] = owner[h]
  PROVE  ChargeOK'
<1>1. /\ bind_call'[t] = c
      /\ \A u \in BindThreads : u # t => bind_call'[u] = bind_call[u]
  BY Zenon DEF BindTypeOK
<1>2. \A o : InCharge(o)' = InCharge(o)
  BY <1>1 DEF InCharge, Locks
<1>3. ASSUME NEW u \in BindThreads, Locks(u)
      PROVE  BoundNow(bind_call[u].o, bind_call[u].p) => BoundNow(bind_call[u].o, bind_call[u].p)'
  <2>1. u # t /\ bind_call'[u] = bind_call[u] /\ table_lock[bind_call[u].p]
        /\ bind_call[u].p \in BindProcesses
    BY Zenon, <1>1, <1>3, CallFacts DEF CallsOK
  <2> QED
    BY Zenon, <2>1 DEF BoundNow
<1>4. Live' = Live
  BY Zenon DEF Live
<1>5. ASSUME NEW u \in BindThreads, bind_call'[u].at \in {"bind", "unbind"}
      PROVE  u # t /\ bind_call'[u] = bind_call[u] /\ Locks(u)
  BY Zenon, <1>1, <1>5 DEF Locks
<1>6. ASSUME NEW u \in BindThreads, bind_call'[u].at = "done", NEW o \in bind_call'[u].did_cancel
      PROVE  u # t /\ bind_call'[u] = bind_call[u]
  BY Zenon, <1>1, <1>6
<1> QED
  BY <1>2, <1>3, <1>4, <1>5, <1>6 DEF ChargeOK, ChargeOf, Locks

LEMMA UnlockedHandle ==
  ASSUME BindTypeOK, NEW h \in BindSlots, NEW w \in BindProcesses \cup Held,
         owner[h] \in BindProcesses => ~table_lock[owner[h]], owner' = [owner EXCEPT ![h] = w]
  PROVE  /\ owner' \in [BindSlots -> BindProcesses \cup Held]
         /\ owner'[h] = w /\ \A s \in BindSlots : s # h => owner'[s] = owner[s]
         /\ \A s \in BindSlots : owner[s] \in BindProcesses /\ table_lock[owner[s]] => owner'[s] = owner[s]
<1>1. owner \in [BindSlots -> BindProcesses \cup Held]
  BY Zenon DEF BindTypeOK
<1> QED
  BY Zenon, <1>1

(* A call that has a handle puts it in a message, a table, or the arena.     *)
LEMMA ReleaseKeepsBindings ==
  ASSUME BindingsInv, NEW t \in BindThreads, NEW w \in BindProcesses \cup Held, Keeps(t),
         bind_call[t].at = "done" => bind_call[t].did_cancel = {},
         owner' = [owner EXCEPT ![bind_call[t].h] = w], bind_call' = [bind_call EXCEPT ![t] = Out],
         UNCHANGED <<bound, tracked, observer, table_lock>>,
         \A o \in Live : observer[o].handle = bind_call[t].h =>
                           w # "free" /\ (w \in BindProcesses => w = observer[o].by)
  PROVE  BindingsInv'
<1>0. /\ BindTypeOK /\ CallsOK /\ ChargeOK /\ OnItsWay /\ BindingsFollowHandles
      /\ bound \cup tracked \subseteq Live
  BY Zenon DEF BindingsInv
<1>1. PICK h \in BindSlots : h = bind_call[t].h
  BY Zenon, <1>0, CallFacts
<1>2. owner[h] = "kernel" /\ owner[h] \notin BindProcesses
  BY Zenon, <1>0, <1>1, BindAssumption DEF CallsOK, Held
<1>3. /\ owner' \in [BindSlots -> BindProcesses \cup Held]
      /\ owner'[h] = w /\ \A s \in BindSlots : s # h => owner'[s] = owner[s]
      /\ \A s \in BindSlots : owner[s] \in BindProcesses /\ table_lock[owner[s]] => owner'[s] = owner[s]
  <2>1. owner' = [owner EXCEPT ![h] = w]
    BY Zenon, <1>1
  <2> QED
    BY Zenon, <1>0, <1>2, <2>1, UnlockedHandle
<1>4. /\ bind_call'[t] = Out
      /\ \A u \in BindThreads : u # t => bind_call'[u] = bind_call[u]
  BY Zenon, <1>0 DEF BindTypeOK
<1>5. BindTypeOK'
  <2>1. Out \in Call
    BY Zenon DEF Out, Call
  <2> QED
    BY Zenon, <1>0, <1>3, <2>1 DEF BindTypeOK
<1>6. CallsOK'
  <2>1. ASSUME NEW u \in BindThreads, Locks(u)' \/ Keeps(u)' PROVE u # t /\ bind_call'[u] = bind_call[u]
    BY <1>4, <2>1 DEF Locks, Keeps, Out
  <2>2. ASSUME NEW u \in BindThreads, u # t, Keeps(u) PROVE owner'[bind_call[u].h] = "kernel"
    <3>1. bind_call[u].h \in BindSlots /\ bind_call[u].h # h /\ owner[bind_call[u].h] = "kernel"
      BY Zenon, <1>0, <1>1, <2>2, CallFacts DEF CallsOK
    <3> QED
      BY Zenon, <1>3, <3>1
  <2> QED
    BY <1>0, <2>1, <2>2 DEF CallsOK, Locks, Keeps
<1>7. ChargeOK'
  BY Zenon, <1>0, <1>3, OtherCallsCharge DEF Keeps, Locks, Out
<1>8. Live' = Live
  BY Zenon DEF Live
<1>9. OnItsWay'
  BY <1>0, <1>4, <1>8 DEF OnItsWay, Out
<1>10. BindingsFollowHandles'
  <2>1. ASSUME NEW o \in Live, observer[o].handle # Nobody
        PROVE  /\ owner'[observer[o].handle] # "free"
               /\ owner'[observer[o].handle] \in BindProcesses => owner'[observer[o].handle] = observer[o].by
    <3>1. observer[o].handle \in BindSlots
      BY Zenon, <1>0, <2>1 DEF BindTypeOK, Binding, Live
    <3>2. CASE observer[o].handle = h
      BY Zenon, <1>1, <1>3, <3>2
    <3>3. CASE observer[o].handle # h
      BY Zenon, <1>0, <1>3, <2>1, <3>1, <3>3 DEF BindingsFollowHandles
    <3> QED
      BY Zenon, <3>2, <3>3
  <2> QED
    BY Zenon, <1>8, <2>1 DEF BindingsFollowHandles
<1> QED
  BY Zenon, <1>0, <1>5, <1>6, <1>7, <1>8, <1>9, <1>10 DEF BindingsInv

(* A call takes a handle out of a table that is not locked, out of a message *)
(* or from the free ones.                                                    *)
LEMMA TakeKeepsBindings ==
  ASSUME BindingsInv, NEW t \in BindThreads, NEW h \in BindSlots, NEW c \in Call,
         bind_call[t].at = "out", owner[h] # "kernel",
         owner[h] \in BindProcesses => ~table_lock[owner[h]],
         c.at \in {"cancel", "write", "done"}, c.h = h,
         c.at = "done" => c.did_cancel = {} /\ owner[h] = "free",
         c.at = "write" => owner[h] = c.p /\ c.p \in BindProcesses,
         owner' = [owner EXCEPT ![h] = "kernel"], bind_call' = [bind_call EXCEPT ![t] = c],
         UNCHANGED <<bound, tracked, observer, table_lock>>
  PROVE  BindingsInv'
<1>0. /\ BindTypeOK /\ CallsOK /\ ChargeOK /\ OnItsWay /\ BindingsFollowHandles
      /\ bound \cup tracked \subseteq Live
  BY Zenon DEF BindingsInv
<1>3. /\ owner' \in [BindSlots -> BindProcesses \cup Held]
      /\ owner'[h] = "kernel" /\ \A s \in BindSlots : s # h => owner'[s] = owner[s]
      /\ \A s \in BindSlots : owner[s] \in BindProcesses /\ table_lock[owner[s]] => owner'[s] = owner[s]
  <2>1. "kernel" \in BindProcesses \cup Held
    BY Zenon DEF Held
  <2> QED
    BY Zenon, <1>0, <2>1, UnlockedHandle
<1>4. /\ bind_call'[t] = c
      /\ \A u \in BindThreads : u # t => bind_call'[u] = bind_call[u]
  BY Zenon, <1>0 DEF BindTypeOK
<1>5. BindTypeOK'
  BY Zenon, <1>0, <1>3 DEF BindTypeOK
<1>6. CallsOK'
  <2>1. ASSUME NEW u \in BindThreads, u # t, Keeps(u)
        PROVE  bind_call[u].h # h /\ owner'[bind_call[u].h] = "kernel"
    BY <1>0, <1>3, <2>1, CallFacts DEF CallsOK
  <2>2. ASSUME NEW u \in BindThreads, Locks(u)' PROVE u # t /\ bind_call'[u] = bind_call[u] /\ Locks(u)
    BY Zenon, <1>4, <2>2 DEF Locks
  <2>3. ASSUME NEW u \in BindThreads, Keeps(u)', u # t PROVE bind_call'[u] = bind_call[u] /\ Keeps(u)
    BY Zenon, <1>4, <2>3 DEF Keeps
  <2>4. ASSUME NEW u \in BindThreads, Keeps(u)'
        PROVE  /\ owner'[bind_call'[u].h] = "kernel"
               /\ \A v \in BindThreads : Keeps(v)' /\ bind_call'[v].h = bind_call'[u].h => v = u
    BY <1>0, <1>3, <1>4, <2>1, <2>3, <2>4 DEF CallsOK
  <2> QED
    BY <1>0, <2>2, <2>4 DEF CallsOK
<1>7. ChargeOK'
  BY Zenon, <1>0, <1>3, OtherCallsCharge DEF Locks
<1>8. Live' = Live
  BY Zenon DEF Live
<1>9. OnItsWay'
  <2>1. ASSUME NEW o \in Live
        PROVE  /\ c.at = "done" => observer[o].handle # h
               /\ c.at = "write" /\ observer[o].handle = h => observer[o].by = c.p
    BY Zenon, <1>0, BindAssumption DEF BindingsFollowHandles
  <2> QED
    BY <1>0, <1>4, <1>8, <2>1 DEF OnItsWay
<1>10. BindingsFollowHandles'
  <2>1. ASSUME NEW o \in Live, observer[o].handle # Nobody
        PROVE  /\ owner'[observer[o].handle] # "free"
               /\ owner'[observer[o].handle] \in BindProcesses => owner'[observer[o].handle] = observer[o].by
    <3>1. observer[o].handle \in BindSlots
      BY Zenon, <1>0, <2>1 DEF BindTypeOK, Binding, Live
    <3>2. CASE observer[o].handle = h
      BY Zenon, <1>3, <3>2, BindAssumption DEF Held
    <3>3. CASE observer[o].handle # h
      BY Zenon, <1>0, <1>3, <2>1, <3>1, <3>3 DEF BindingsFollowHandles
    <3> QED
      BY Zenon, <3>2, <3>3
  <2> QED
    BY Zenon, <1>8, <2>1 DEF BindingsFollowHandles
<1> QED
  BY Zenon, <1>0, <1>5, <1>6, <1>7, <1>8, <1>9, <1>10 DEF BindingsInv

LEMMA HandlesMoveKeepsBindings ==
  ASSUME BindingsInv, NEW t \in BindThreads,
         \/ \E p \in BindProcesses, h \in BindSlots :
              CloseHandle(t, p, h) \/ SendHandle(t, p, h) \/ DuplicateHandle(t, p, h)
         \/ \E h \in BindSlots : \E p \in BindProcesses \cup {"free"} : ReceiveHandle(t, p, h)
         \/ WriteMessage(t) \/ WriteFails(t) \/ Cancelled(t)
  PROVE  BindingsInv'
<1>0. BindTypeOK /\ CallsOK /\ OnItsWay
  BY Zenon DEF BindingsInv
<1>1. ASSUME NEW p \in BindProcesses, NEW h \in BindSlots, CloseHandle(t, p, h) PROVE BindingsInv'
  <2>1. [at |-> "cancel", h |-> h, then |-> "free"] \in Call
    BY Zenon DEF Call
  <2>2. owner[h] # "kernel"
    BY Zenon, <1>1, BindAssumption DEF CloseHandle, Held
  <2> QED
    BY Zenon, <1>1, <2>1, <2>2, TakeKeepsBindings DEF CloseHandle, Goes
<1>2. ASSUME NEW p \in BindProcesses, NEW h \in BindSlots, SendHandle(t, p, h) PROVE BindingsInv'
  <2>1. [at |-> "write", h |-> h, p |-> p] \in Call
    BY Zenon DEF Call
  <2>2. owner[h] # "kernel"
    BY Zenon, <1>2, BindAssumption DEF SendHandle, Held
  <2> QED
    BY Zenon, <1>2, <2>1, <2>2, TakeKeepsBindings DEF SendHandle, Goes
<1>3. ASSUME NEW p \in BindProcesses, NEW h \in BindSlots, DuplicateHandle(t, p, h) PROVE BindingsInv'
  <2>1. PICK new \in BindSlots :
          /\ owner[new] = "free" /\ owner' = [owner EXCEPT ![new] = "kernel"]
          /\ Goes(t, [at |-> "done", h |-> new, then |-> p, did_cancel |-> {}])
    BY Zenon, <1>3 DEF DuplicateHandle
  <2>2. [at |-> "done", h |-> new, then |-> p, did_cancel |-> {}] \in Call
    BY Zenon DEF Call
  <2>3. owner[new] # "kernel" /\ owner[new] \notin BindProcesses
    BY Zenon, <2>1, BindAssumption DEF Held
  <2> QED
    BY Zenon, <1>3, <2>1, <2>2, <2>3, TakeKeepsBindings DEF DuplicateHandle, Goes
<1>4. ASSUME NEW h \in BindSlots, NEW p \in BindProcesses \cup {"free"}, ReceiveHandle(t, p, h)
      PROVE  BindingsInv'
  <2>1. [at |-> "cancel", h |-> h, then |-> p] \in Call
    BY Zenon DEF Call
  <2>2. owner[h] # "kernel" /\ owner[h] \notin BindProcesses
    BY Zenon, <1>4, BindAssumption DEF ReceiveHandle, Held
  <2> QED
    BY Zenon, <1>4, <2>1, <2>2, TakeKeepsBindings DEF ReceiveHandle, Goes
<1>5. CASE WriteMessage(t)
  <2>1. "message" \in Held /\ "message" \notin BindProcesses
    BY Zenon, BindAssumption DEF Held
  <2> QED
    BY Zenon, <1>5, <2>1, ReleaseKeepsBindings DEF WriteMessage, Goes, Keeps
<1>6. CASE WriteFails(t)
  <2>1. bind_call[t].p \in BindProcesses /\ bind_call[t].p # "free"
    BY Zenon, <1>0, <1>6, CallFacts, BindAssumption DEF WriteFails, Held
  <2>2. \A o \in Live : observer[o].handle = bind_call[t].h => bind_call[t].p = observer[o].by
    BY Zenon, <1>0, <1>6 DEF OnItsWay, WriteFails
  <2>3. /\ Keeps(t) /\ bind_call[t].at # "done"
        /\ owner' = [owner EXCEPT ![bind_call[t].h] = bind_call[t].p]
        /\ bind_call' = [bind_call EXCEPT ![t] = Out]
        /\ UNCHANGED <<bound, tracked, observer, table_lock>>
    BY Zenon, <1>6 DEF WriteFails, Goes, Keeps
  <2> QED
    BY Zenon, <2>1, <2>2, <2>3, ReleaseKeepsBindings
<1>7. CASE Cancelled(t)
  <2>1. bind_call[t].then \in BindProcesses \cup Held
    BY Zenon, <1>0, <1>7, CallFacts DEF Cancelled, Held
  <2>2. \A o \in Live : observer[o].handle # bind_call[t].h
    BY Zenon, <1>0, <1>7 DEF OnItsWay, Cancelled
  <2>3. /\ Keeps(t) /\ bind_call[t].did_cancel = {}
        /\ owner' = [owner EXCEPT ![bind_call[t].h] = bind_call[t].then]
        /\ bind_call' = [bind_call EXCEPT ![t] = Out]
        /\ UNCHANGED <<bound, tracked, observer, table_lock>>
    BY Zenon, <1>7 DEF Cancelled, Goes, Keeps
  <2> QED
    BY Zenon, <2>1, <2>2, <2>3, ReleaseKeepsBindings
<1> QED
  BY <1>1, <1>2, <1>3, <1>4, <1>5, <1>6, <1>7, Zenon

(* A call looks the port up, or fails. *)
LEMMA LookupKeepsBindings ==
  ASSUME BindingsInv, NEW t \in BindThreads, FindPort(t) \/ BindFails(t)
  PROVE  BindingsInv'
<1>0. /\ BindTypeOK /\ CallsOK /\ ChargeOK /\ OnItsWay /\ BindingsFollowHandles
      /\ bound \cup tracked \subseteq Live
  BY Zenon DEF BindingsInv
<1>1. PICK c \in [at : {"out", "found"}] :
        /\ bind_call[t].at \in {"out", "found"} /\ bind_call' = [bind_call EXCEPT ![t] = c]
        /\ UNCHANGED <<owner, bound, tracked, observer, table_lock>>
  BY Zenon DEF FindPort, BindFails, Goes, Out
<1>2. /\ bind_call'[t] = c
      /\ \A u \in BindThreads : u # t => bind_call'[u] = bind_call[u]
  BY Zenon, <1>0, <1>1 DEF BindTypeOK
<1>3. c \in Call /\ c.at \in {"out", "found"}
  BY Zenon DEF Call
<1>4. BindTypeOK'
  BY Zenon, <1>0, <1>1, <1>3 DEF BindTypeOK
<1>5. \A u \in BindThreads : (Locks(u)' <=> Locks(u)) /\ (Keeps(u)' <=> Keeps(u))
  BY Zenon, <1>1, <1>2, <1>3 DEF Locks, Keeps
<1>6. \A u \in BindThreads : Locks(u) \/ Keeps(u) => bind_call'[u] = bind_call[u]
  BY Zenon, <1>1, <1>2 DEF Locks, Keeps
<1>7. CallsOK'
  BY <1>0, <1>1, <1>5, <1>6 DEF CallsOK
<1>8. ChargeOK'
  BY Zenon, <1>0, <1>1, <1>3, OtherCallsCharge DEF Locks
<1>9. Live' = Live
  BY Zenon, <1>1 DEF Live
<1>10. OnItsWay'
  BY <1>0, <1>1, <1>2, <1>3, <1>9 DEF OnItsWay
<1>11. BindingsFollowHandles'
  BY Zenon, <1>0, <1>1, <1>9 DEF BindingsFollowHandles
<1> QED
  BY Zenon, <1>0, <1>1, <1>4, <1>7, <1>8, <1>9, <1>10, <1>11 DEF BindingsInv

(* Nobody is in charge of an observer that has been deleted; and a call in   *)
(* charge is one of three.                                                   *)
LEMMA ChargeFacts ==
  ASSUME BindingsInv, NEW o \in Observers, NEW u \in InCharge(o)
  PROVE  /\ u \in BindThreads /\ o \in Live
         /\ \/ /\ bind_call[u].at = "bind" /\ o = bind_call[u].o /\ o \in bound \ tracked
               /\ observer[o].state = "NEW" /\ BoundNow(o, bind_call[u].p)
            \/ /\ bind_call[u].at = "unbind" /\ o = bind_call[u].o /\ o \in tracked \ bound
               /\ observer[o].state = "UNBOUND" /\ BoundNow(o, bind_call[u].p)
            \/ /\ bind_call[u].at = "done" /\ o \in bind_call[u].did_cancel /\ o \in bound \ tracked
               /\ observer[o].state = "CANCELLED" /\ observer[o].handle = Nobody
         /\ Locks(u) => /\ bind_call[u].p \in BindProcesses /\ table_lock[bind_call[u].p]
                        /\ observer[o].handle \in BindSlots /\ owner[observer[o].handle] = bind_call[u].p
<1>0. BindTypeOK /\ CallsOK /\ ChargeOK /\ bound \cup tracked \subseteq Live
  BY Zenon DEF BindingsInv
<1>1. u \in BindThreads
  BY Zenon DEF InCharge
<1>2. CASE bind_call[u].at = "bind" /\ o = bind_call[u].o
  BY Zenon, <1>0, <1>1, <1>2, CallFacts DEF ChargeOK, ChargeOf, CallsOK, Locks, BoundNow
<1>3. CASE bind_call[u].at = "unbind" /\ o = bind_call[u].o
  BY Zenon, <1>0, <1>1, <1>3, CallFacts DEF ChargeOK, ChargeOf, CallsOK, Locks, BoundNow
<1>4. CASE bind_call[u].at = "done" /\ o \in bind_call[u].did_cancel
  BY Zenon, <1>0, <1>1, <1>4 DEF ChargeOK, ChargeOf, Locks
<1> QED
  BY Zenon, <1>2, <1>3, <1>4 DEF InCharge

(* A step that does not touch the observers u is in charge of. *)
LEMMA OtherCharge ==
  ASSUME BindTypeOK, NEW u \in BindThreads, ChargeOf(u), bind_call'[u] = bind_call[u], owner' = owner,
         \A x \in Observers : u \in InCharge(x) =>
           /\ observer'[x] = observer[x]
           /\ x \in bound' <=> x \in bound
           /\ x \in tracked' <=> x \in tracked
  PROVE  ChargeOf(u)'
<1>1. Locks(u) => bind_call[u].o \in Observers /\ u \in InCharge(bind_call[u].o)
  BY Zenon, CallFacts DEF InCharge, Locks
<1>2. bind_call[u].at = "done" =>
        \A x \in bind_call[u].did_cancel : x \in Observers /\ u \in InCharge(x)
  BY Zenon, CallFacts DEF InCharge
<1>3. CASE Locks(u)
  BY Zenon, <1>1, <1>3 DEF Locks, ChargeOf, BoundNow
<1>4. CASE bind_call[u].at = "done"
  BY Zenon, <1>2, <1>4 DEF ChargeOf
<1> QED
  BY Zenon, <1>3, <1>4 DEF Locks, ChargeOf

(* A call takes charge of an observer nobody was in charge of. *)
LEMMA ChargeTaken ==
  ASSUME NEW t \in BindThreads, NEW o \in Observers, InCharge(o) = {},
         bind_call[t].at = "found", bind_call'[t].at \in {"bind", "unbind"}, bind_call'[t].o = o,
         \A u \in BindThreads : u # t => bind_call'[u] = bind_call[u]
  PROVE  InCharge(o)' = {t} /\ \A x \in Observers : x # o => InCharge(x)' = InCharge(x)
<1>1. ASSUME NEW u \in BindThreads, NEW x \in Observers, u # t
      PROVE  u \in InCharge(x)' <=> u \in InCharge(x)
  BY Zenon, <1>1 DEF InCharge
<1>2. \A x \in Observers : t \notin InCharge(x) /\ (t \in InCharge(x)' <=> x = o)
  BY Zenon DEF InCharge
<1>3. \A x \in Observers : InCharge(x) \subseteq BindThreads /\ InCharge(x)' \subseteq BindThreads
  BY Zenon DEF InCharge
<1>4. InCharge(o)' = {t}
  BY Zenon, <1>1, <1>2, <1>3
<1>5. ASSUME NEW x \in Observers, x # o PROVE InCharge(x)' = InCharge(x)
  <2>1. \A u \in BindThreads : u \in InCharge(x)' <=> u \in InCharge(x)
    BY Zenon, <1>1, <1>2, <1>5
  <2> QED
    BY Zenon, <1>3, <2>1
<1> QED
  BY Zenon, <1>4, <1>5

(* The table's lock is taken, and released. *)
LEMMA LockTaken ==
  ASSUME BindTypeOK, CallsOK, NEW t \in BindThreads, NEW p \in BindProcesses, NEW c,
         bind_call[t].at = "found", ~table_lock[p], c.at \in {"bind", "unbind"}, c.p = p,
         bind_call' = [bind_call EXCEPT ![t] = c], table_lock' = [table_lock EXCEPT ![p] = TRUE],
         owner' = owner
  PROVE  CallsOK'
<1>1. /\ bind_call'[t] = c /\ \A u \in BindThreads : u # t => bind_call'[u] = bind_call[u]
      /\ table_lock'[p] /\ \A q \in BindProcesses : q # p => table_lock'[q] = table_lock[q]
  BY Zenon DEF BindTypeOK
<1>2. ASSUME NEW u \in BindThreads, u # t
      PROVE  (Locks(u)' <=> Locks(u)) /\ (Keeps(u)' <=> Keeps(u)) /\ bind_call'[u] = bind_call[u]
  BY Zenon, <1>1, <1>2 DEF Locks, Keeps
<1>3. Locks(t)' /\ ~Keeps(t)' /\ bind_call'[t].p = p
  BY Zenon, <1>1 DEF Locks, Keeps
<1>4. \A u \in BindThreads : Locks(u) => bind_call[u].p # p /\ bind_call[u].p \in BindProcesses
  BY Zenon, CallFacts DEF CallsOK
<1>5. ASSUME NEW u \in BindThreads, Locks(u)'
      PROVE  table_lock'[bind_call'[u].p]
             /\ \A v \in BindThreads : Locks(v)' /\ bind_call'[v].p = bind_call'[u].p => v = u
  BY <1>1, <1>2, <1>3, <1>4, <1>5 DEF CallsOK
<1>6. ASSUME NEW u \in BindThreads, Keeps(u)'
      PROVE  owner'[bind_call'[u].h] = "kernel"
             /\ \A v \in BindThreads : Keeps(v)' /\ bind_call'[v].h = bind_call'[u].h => v = u
  BY <1>2, <1>3, <1>6 DEF CallsOK
<1> QED
  BY Zenon, <1>5, <1>6 DEF CallsOK

LEMMA LockReleased ==
  ASSUME BindTypeOK, CallsOK, NEW t \in BindThreads, Locks(t),
         bind_call' = [bind_call EXCEPT ![t] = Out],
         table_lock' = [table_lock EXCEPT ![bind_call[t].p] = FALSE], owner' = owner
  PROVE  CallsOK'
<1>0. PICK p \in BindProcesses : p = bind_call[t].p
  BY Zenon, CallFacts
<1>1. /\ bind_call'[t] = Out /\ \A u \in BindThreads : u # t => bind_call'[u] = bind_call[u]
      /\ \A q \in BindProcesses : q # p => table_lock'[q] = table_lock[q]
  BY Zenon, <1>0 DEF BindTypeOK
<1>2. ASSUME NEW u \in BindThreads, u # t
      PROVE  (Locks(u)' <=> Locks(u)) /\ (Keeps(u)' <=> Keeps(u)) /\ bind_call'[u] = bind_call[u]
  BY Zenon, <1>1, <1>2 DEF Locks, Keeps
<1>3. ~Locks(t)' /\ ~Keeps(t)'
  BY <1>1 DEF Locks, Keeps, Out
<1>4. \A u \in BindThreads : Locks(u) /\ u # t => bind_call[u].p # p /\ bind_call[u].p \in BindProcesses
  BY Zenon, <1>0, CallFacts DEF CallsOK
<1>5. ASSUME NEW u \in BindThreads, Locks(u)'
      PROVE  table_lock'[bind_call'[u].p]
             /\ \A v \in BindThreads : Locks(v)' /\ bind_call'[v].p = bind_call'[u].p => v = u
  BY <1>1, <1>2, <1>3, <1>4, <1>5 DEF CallsOK
<1>6. ASSUME NEW u \in BindThreads, Keeps(u)'
      PROVE  owner'[bind_call'[u].h] = "kernel"
             /\ \A v \in BindThreads : Keeps(v)' /\ bind_call'[v].h = bind_call'[u].h => v = u
  BY <1>2, <1>3, <1>6 DEF CallsOK
<1> QED
  BY Zenon, <1>5, <1>6 DEF CallsOK

LEMMA BindKeepsBindings ==
  ASSUME BindingsInv, NEW t \in BindThreads, NEW p \in BindProcesses, NEW h \in BindSlots,
         NEW key \in Keys, Bind(t, p, h, key)
  PROVE  BindingsInv'
<1>0. /\ BindTypeOK /\ CallsOK /\ ChargeOK /\ OnItsWay /\ BindingsFollowHandles
      /\ bound \cup tracked \subseteq Live
  BY Zenon DEF BindingsInv
<1>1. PICK o \in Observers :
        /\ observer[o] = NoObserver
        /\ observer' = [observer EXCEPT ![o] = [handle |-> h, key |-> key, state |-> "NEW", by |-> p]]
        /\ bound' = bound \cup {o}
        /\ bind_call' = [bind_call EXCEPT ![t] = [at |-> "bind", o |-> o, p |-> p]]
  BY Zenon DEF Bind, Goes
<1>2. /\ bind_call[t].at = "found" /\ ~table_lock[p] /\ owner[h] = p
      /\ table_lock' = [table_lock EXCEPT ![p] = TRUE] /\ UNCHANGED <<owner, tracked>>
  BY Zenon DEF Bind, HoldsHandle
<1>3. /\ bind_call'[t] = [at |-> "bind", o |-> o, p |-> p]
      /\ \A u \in BindThreads : u # t => bind_call'[u] = bind_call[u]
      /\ observer'[o] = [handle |-> h, key |-> key, state |-> "NEW", by |-> p]
      /\ \A x \in Observers : x # o => observer'[x] = observer[x]
      /\ table_lock'[p] /\ \A q \in BindProcesses : q # p => table_lock'[q] = table_lock[q]
  BY Zenon, <1>0, <1>1, <1>2 DEF BindTypeOK
<1>4. o \notin Live /\ Live' = Live \cup {o} /\ InCharge(o) = {}
  <2>1. o \notin Live
    BY <1>1 DEF Live, NoObserver
  <2>2. Live' = Live \cup {o}
    BY <1>3 DEF Live
  <2>3. \A u \in InCharge(o) : FALSE
    BY <2>1, ChargeFacts, Zenon
  <2> QED
    BY Zenon, <2>1, <2>2, <2>3
<1>13. /\ bind_call'[t].at = "bind" /\ bind_call'[t].o = o /\ bind_call'[t].p = p
       /\ observer'[o].state = "NEW" /\ observer'[o].handle = h /\ observer'[o].by = p
  BY <1>3
<1>5. BindTypeOK'
  <2>1. [handle |-> h, key |-> key, state |-> "NEW", by |-> p] \in Binding
    BY Zenon DEF Binding
  <2>2. [at |-> "bind", o |-> o, p |-> p] \in Call
    BY Zenon DEF Call
  <2> QED
    BY Zenon, <1>0, <1>1, <1>2, <2>1, <2>2 DEF BindTypeOK
<1>6. CallsOK'
  BY Zenon, <1>0, <1>1, <1>2, LockTaken
<1>7. /\ InCharge(o)' = {t}
      /\ \A x \in Observers : x # o => InCharge(x)' = InCharge(x)
  BY Zenon, <1>2, <1>3, <1>4, <1>13, ChargeTaken
<1>9. ASSUME NEW u \in BindThreads PROVE ChargeOf(u)'
  <2>1. CASE u = t
    <3>1. o \in bound' \ tracked'
      BY Zenon, <1>0, <1>1, <1>2, <1>4
    <3> QED
      BY Zenon, <1>2, <1>13, <2>1, <3>1 DEF BoundNow, ChargeOf
  <2>2. CASE u # t
    <3>1. \A x \in Observers : u \in InCharge(x) =>
            /\ observer'[x] = observer[x]
            /\ x \in bound' <=> x \in bound
            /\ x \in tracked' <=> x \in tracked
      BY Zenon, <1>1, <1>2, <1>3, <1>4
    <3>2. ChargeOf(u) /\ bind_call'[u] = bind_call[u] /\ owner' = owner
      BY Zenon, <1>0, <1>2, <1>3, <2>2 DEF ChargeOK
    <3> QED
      BY Zenon, <1>0, <3>1, <3>2, OtherCharge
  <2> QED
    BY Zenon, <2>1, <2>2
<1>10. ChargeOK'
  <2>1. \A x \in Observers : \A u, v \in InCharge(x)' : u = v
    BY <1>0, <1>7 DEF ChargeOK
  <2>2. ASSUME NEW x \in Live', InCharge(x)' = {}
        PROVE  x \in bound' \cap tracked' /\ observer'[x].state = "NEW" /\ observer'[x].handle # Nobody
    <3>1. x \in Live /\ x # o /\ x \in Observers
      BY Zenon, <1>4, <1>7, <2>2 DEF Live
    <3> QED
      BY <1>0, <1>1, <1>2, <1>3, <1>7, <2>2, <3>1 DEF ChargeOK
  <2> QED
    BY Zenon, <1>9, <2>1, <2>2 DEF ChargeOK
<1>11. OnItsWay'
  <2>1. \A u \in BindThreads : Keeps(u) => bind_call[u].h # h
    BY Zenon, <1>0, <1>2, BindAssumption DEF CallsOK, Held
  <2>2. \A u \in BindThreads : Keeps(u)' => bind_call'[u] = bind_call[u] /\ Keeps(u)
    BY Zenon, <1>3, <1>13 DEF Keeps
  <2>3. \A x \in Live' : x = o \/ (x \in Live /\ observer'[x] = observer[x])
    BY Zenon, <1>3, <1>4 DEF Live
  <2> QED
    <3>1. ASSUME NEW u \in BindThreads, NEW x \in Live', Keeps(u)'
          PROVE  /\ bind_call'[u] = bind_call[u] /\ Keeps(u)
                 /\ x # o => x \in Live /\ observer'[x] = observer[x]
                 /\ x = o => observer'[x].handle # bind_call[u].h
      BY Zenon, <1>13, <2>1, <2>2, <2>3, <3>1
    <3> QED
      BY <1>0, <3>1 DEF OnItsWay, Keeps
<1>12. BindingsFollowHandles'
  <2>1. \A x \in Live' : x = o \/ (x \in Live /\ observer'[x] = observer[x])
    BY Zenon, <1>3, <1>4 DEF Live
  <2>2. owner'[observer'[o].handle] = observer'[o].by /\ observer'[o].by # "free"
    BY Zenon, <1>2, <1>13, BindAssumption DEF Held
  <2> QED
    BY Zenon, <1>0, <1>2, <2>1, <2>2 DEF BindingsFollowHandles
<1> QED
  BY Zenon, <1>0, <1>1, <1>2, <1>4, <1>5, <1>6, <1>10, <1>11, <1>12 DEF BindingsInv

LEMMA AddObserverKeepsBindings ==
  ASSUME BindingsInv, NEW t \in BindThreads, AddObserver(t)
  PROVE  BindingsInv'
<1>0. /\ BindTypeOK /\ CallsOK /\ ChargeOK /\ OnItsWay /\ BindingsFollowHandles
      /\ bound \cup tracked \subseteq Live
  BY Zenon DEF BindingsInv
<1>1. PICK o \in Observers : o = bind_call[t].o
  BY Zenon, <1>0, CallFacts DEF AddObserver, Locks
<1>2. /\ bind_call[t].at = "bind" /\ tracked' = tracked \cup {o}
      /\ table_lock' = [table_lock EXCEPT ![bind_call[t].p] = FALSE]
      /\ bind_call' = [bind_call EXCEPT ![t] = Out] /\ UNCHANGED <<owner, bound, observer>>
  BY Zenon, <1>1 DEF AddObserver, Goes
<1>3. bind_call'[t] = Out /\ \A u \in BindThreads : u # t => bind_call'[u] = bind_call[u]
  BY Zenon, <1>0, <1>2 DEF BindTypeOK
<1>4. /\ Live' = Live /\ o \in bound \ tracked /\ o \in Live /\ InCharge(o) = {t}
      /\ observer[o].state = "NEW" /\ observer[o].handle \in BindSlots
  <2>1. t \in InCharge(o)
    BY Zenon, <1>1, <1>2 DEF InCharge
  <2> QED
    <3>1. /\ o \in Live /\ o \in bound \ tracked /\ observer[o].state = "NEW"
          /\ observer[o].handle \in BindSlots
      BY Zenon, <1>2, <2>1, ChargeFacts DEF BoundNow
    <3>2. InCharge(o) = {t}
      BY <1>0, <2>1 DEF ChargeOK
    <3>3. Live' = Live
      BY Zenon, <1>2 DEF Live
    <3> QED
      BY Zenon, <3>1, <3>2, <3>3
<1>5. BindTypeOK'
  <2>1. Out \in Call
    BY Zenon DEF Out, Call
  <2> QED
    BY Zenon, <1>0, <1>2, <2>1 DEF BindTypeOK
<1>6. CallsOK'
  BY Zenon, <1>0, <1>2, LockReleased DEF Locks
<1>7. InCharge(o)' = {} /\ \A x \in Observers : x # o => InCharge(x)' = InCharge(x)
  BY <1>1, <1>2, <1>3, <1>4 DEF InCharge, Out
<1>8. ASSUME NEW u \in BindThreads PROVE ChargeOf(u)'
  <2>1. CASE u = t
    BY <1>3, <2>1 DEF ChargeOf, Out
  <2>2. CASE u # t
    <3>1. \A x \in Observers : u \in InCharge(x) =>
            /\ observer'[x] = observer[x]
            /\ x \in bound' <=> x \in bound
            /\ x \in tracked' <=> x \in tracked
      BY Zenon, <1>2, <1>4, <2>2
    <3>2. ChargeOf(u) /\ bind_call'[u] = bind_call[u] /\ owner' = owner
      BY Zenon, <1>0, <1>2, <1>3, <2>2 DEF ChargeOK
    <3> QED
      BY Zenon, <1>0, <3>1, <3>2, OtherCharge
  <2> QED
    BY Zenon, <2>1, <2>2
<1>9. ChargeOK'
  <2>1. \A x \in Observers : \A u, v \in InCharge(x)' : u = v
    BY <1>0, <1>7 DEF ChargeOK
  <2>2. ASSUME NEW x \in Live', InCharge(x)' = {}
        PROVE  x \in bound' \cap tracked' /\ observer'[x].state = "NEW" /\ observer'[x].handle # Nobody
    <3>1. CASE x = o
      BY Zenon, <1>2, <1>4, <3>1, BindAssumption
    <3>2. CASE x # o
      BY Zenon, <1>0, <1>2, <1>4, <1>7, <2>2, <3>2 DEF ChargeOK, Live
    <3> QED
      BY Zenon, <3>1, <3>2
  <2> QED
    BY Zenon, <1>8, <2>1, <2>2 DEF ChargeOK
<1>10. OnItsWay'
  BY <1>0, <1>2, <1>3, <1>4 DEF OnItsWay, Out
<1>11. BindingsFollowHandles'
  BY Zenon, <1>0, <1>2, <1>4 DEF BindingsFollowHandles
<1> QED
  BY Zenon, <1>0, <1>2, <1>4, <1>5, <1>6, <1>9, <1>10, <1>11 DEF BindingsInv

(* An observer that has been taken off both lists is deleted. *)
LEMMA DeletedObserver ==
  ASSUME BindingsInv, NEW o \in Observers, NEW t \in BindThreads, t \in InCharge(o), NEW c \in Call,
         c.at \in {"out", "done"},
         c.at = "done" => /\ bind_call[t].at = "done" /\ c.h = bind_call[t].h
                          /\ c.did_cancel = bind_call[t].did_cancel \ {o},
         c.at = "out" => Locks(t),
         CallsOK', table_lock' \in [BindProcesses -> BOOLEAN], owner' = owner,
         observer' = [observer EXCEPT ![o] = NoObserver], bind_call' = [bind_call EXCEPT ![t] = c],
         bound' = bound \ {o}, tracked' = tracked \ {o}
  PROVE  BindingsInv'
<1>0. /\ BindTypeOK /\ CallsOK /\ ChargeOK /\ OnItsWay /\ BindingsFollowHandles
      /\ bound \cup tracked \subseteq Live
  BY Zenon DEF BindingsInv
<1>1. bind_call'[t] = c /\ \A u \in BindThreads : u # t => bind_call'[u] = bind_call[u]
  BY Zenon, <1>0 DEF BindTypeOK
<1>2. observer'[o] = NoObserver /\ \A x \in Observers : x # o => observer'[x] = observer[x]
  BY Zenon, <1>0 DEF BindTypeOK
<1>3. Live' = Live \ {o} /\ InCharge(o) = {t}
  <2>1. Live' = Live \ {o}
    BY <1>2 DEF Live, NoObserver
  <2>2. InCharge(o) = {t}
    BY <1>0 DEF Live, ChargeOK
  <2> QED
    BY Zenon, <2>1, <2>2
<1>4. BindTypeOK'
  <2>1. NoObserver \in Binding
    BY Zenon DEF NoObserver, Binding
  <2> QED
    BY Zenon, <1>0, <2>1 DEF BindTypeOK
<1>5. InCharge(o)' = {} /\ \A x \in Observers : x # o => InCharge(x)' = InCharge(x)
  <2>1. ASSUME NEW u \in BindThreads, NEW x \in Observers, u # t
        PROVE  u \in InCharge(x)' <=> u \in InCharge(x)
    BY Zenon, <1>1, <2>1 DEF InCharge
  <2>2. ASSUME NEW x \in Observers PROVE t \in InCharge(x)' <=> t \in InCharge(x) /\ x # o
    <3>1. CASE c.at = "out"
      <4>1. t \notin InCharge(x)'
        BY Zenon, <1>1, <3>1 DEF InCharge
      <4>2. t \in InCharge(x) => x = o
        BY Zenon, <3>1 DEF InCharge, Locks
      <4> QED
        BY Zenon, <4>1, <4>2
    <3>2. CASE c.at = "done"
      BY Zenon, <1>1, <3>2 DEF InCharge
    <3> QED
      BY Zenon, <3>1, <3>2
  <2>3. \A x \in Observers : InCharge(x) \subseteq BindThreads /\ InCharge(x)' \subseteq BindThreads
    BY Zenon DEF InCharge
  <2>4. InCharge(o)' = {}
    BY Zenon, <1>3, <2>1, <2>2, <2>3
  <2>5. ASSUME NEW x \in Observers, x # o PROVE InCharge(x)' = InCharge(x)
    <3>1. \A u \in BindThreads : u \in InCharge(x)' <=> u \in InCharge(x)
      BY Zenon, <2>1, <2>2, <2>5
    <3> QED
      BY Zenon, <2>3, <3>1
  <2> QED
    BY Zenon, <2>4, <2>5
<1>6. ASSUME NEW u \in BindThreads PROVE ChargeOf(u)'
  <2>1. CASE u = t
    <3>1. ChargeOf(t)
      BY Zenon, <1>0 DEF ChargeOK
    <3>2. CASE c.at = "out"
      BY Zenon, <1>1, <2>1, <3>2 DEF ChargeOf
    <3>3. CASE c.at = "done"
      <4>1. \A x \in c.did_cancel : x \in Observers /\ x # o
        BY Zenon, <1>0, <3>3, CallFacts
      <4>2. \A x \in c.did_cancel : x \in bound' \ tracked' /\ observer'[x] = observer[x]
                                   /\ observer[x].state = "CANCELLED" /\ observer[x].handle = Nobody
        BY Zenon, <1>2, <3>1, <3>3, <4>1 DEF ChargeOf
      <4> QED
        BY <1>1, <2>1, <3>3, <4>2 DEF ChargeOf
    <3> QED
      BY Zenon, <3>2, <3>3
  <2>2. CASE u # t
    <3>1. \A x \in Observers : u \in InCharge(x) =>
            /\ observer'[x] = observer[x]
            /\ x \in bound' <=> x \in bound
            /\ x \in tracked' <=> x \in tracked
      BY Zenon, <1>2, <1>3, <2>2
    <3>2. ChargeOf(u) /\ bind_call'[u] = bind_call[u]
      BY Zenon, <1>0, <1>1, <2>2 DEF ChargeOK
    <3> QED
      BY Zenon, <1>0, <3>1, <3>2, OtherCharge
  <2> QED
    BY Zenon, <2>1, <2>2
<1>7. ChargeOK'
  <2>1. ASSUME NEW x \in Observers PROVE \A u, v \in InCharge(x)' : u = v
    <3>1. CASE x = o
      BY Zenon, <1>5, <3>1
    <3>2. CASE x # o
      <4>1. InCharge(x)' = InCharge(x)
        BY Zenon, <1>5, <3>2
      <4> QED
        BY <1>0, <4>1 DEF ChargeOK
    <3> QED
      BY Zenon, <3>1, <3>2
  <2>2. ASSUME NEW x \in Live', InCharge(x)' = {}
        PROVE  x \in bound' \cap tracked' /\ observer'[x].state = "NEW" /\ observer'[x].handle # Nobody
    <3>1. x \in Live /\ x # o /\ x \in Observers
      BY Zenon, <1>3 DEF Live
    <3> QED
      BY Zenon, <1>0, <1>2, <1>5, <2>2, <3>1 DEF ChargeOK
  <2> QED
    BY Zenon, <1>6, <2>1, <2>2 DEF ChargeOK
<1>8. OnItsWay'
  <2>1. \A x \in Live' : x \in Live /\ observer'[x] = observer[x]
    BY Zenon, <1>2, <1>3 DEF Live
  <2> QED
    BY <1>0, <1>1, <2>1 DEF OnItsWay
<1>9. BindingsFollowHandles'
  BY <1>0, <1>2, <1>3 DEF BindingsFollowHandles, Live
<1> QED
  BY Zenon, <1>0, <1>3, <1>4, <1>7, <1>8, <1>9 DEF BindingsInv

LEMMA RemoveObserverKeepsBindings ==
  ASSUME BindingsInv, NEW t \in BindThreads, RemoveObserver(t)
  PROVE  BindingsInv'
<1>0. BindTypeOK /\ CallsOK
  BY Zenon DEF BindingsInv
<1>1. PICK o \in Observers : o = bind_call[t].o
  BY Zenon, <1>0, CallFacts DEF RemoveObserver, Locks
<1>2. /\ bind_call[t].at = "unbind" /\ tracked' = tracked \ {o}
      /\ observer' = [observer EXCEPT ![o] = NoObserver]
      /\ table_lock' = [table_lock EXCEPT ![bind_call[t].p] = FALSE]
      /\ bind_call' = [bind_call EXCEPT ![t] = Out] /\ UNCHANGED <<owner, bound>>
  BY Zenon, <1>1 DEF RemoveObserver, Goes
<1>3. t \in InCharge(o)
  BY Zenon, <1>1, <1>2 DEF InCharge
<1>4. bound' = bound \ {o}
  BY Zenon, <1>2, <1>3, ChargeFacts
<1>5. Out \in Call /\ Out.at = "out" /\ Locks(t)
  BY Zenon, <1>2 DEF Call, Out, Locks
<1>6. CallsOK'
  BY Zenon, <1>0, <1>2, <1>5, LockReleased
<1>7. table_lock' \in [BindProcesses -> BOOLEAN]
  BY Zenon, <1>0, <1>2 DEF BindTypeOK
<1> QED
  BY Zenon, <1>2, <1>3, <1>4, <1>5, <1>6, <1>7, DeletedObserver

LEMMA CancelObserverKeepsBindings ==
  ASSUME BindingsInv, NEW t \in BindThreads, CancelObserver(t)
  PROVE  BindingsInv'
<1>0. BindTypeOK /\ CallsOK
  BY DEF BindingsInv
<1>1. PICK o \in bind_call[t].did_cancel :
        /\ bound' = bound \ {o} /\ observer' = [observer EXCEPT ![o] = NoObserver]
        /\ bind_call' = [bind_call EXCEPT ![t] = [bind_call[t] EXCEPT !.did_cancel = @ \ {o}]]
  BY Zenon DEF CancelObserver, Goes
<1>2. bind_call[t].at = "done" /\ UNCHANGED <<owner, tracked, table_lock>>
  BY Zenon DEF CancelObserver
<1>3. o \in Observers /\ t \in InCharge(o)
  BY Zenon, <1>0, <1>1, <1>2, CallFacts DEF InCharge
<1>4. tracked' = tracked \ {o}
  BY Zenon, <1>2, <1>3, ChargeFacts
<1>5. PICK c \in Call : /\ c = [bind_call[t] EXCEPT !.did_cancel = @ \ {o}]
                        /\ c.at = "done" /\ c.h = bind_call[t].h
                        /\ c.did_cancel = bind_call[t].did_cancel \ {o}
  <2>1. bind_call[t] \in [at : {"done"}, h : BindSlots, then : BindProcesses \cup {"free"},
                          did_cancel : SUBSET Observers]
    BY Zenon, <1>0, <1>2 DEF BindTypeOK, Call
  <2>2. [bind_call[t] EXCEPT !.did_cancel = @ \ {o}] \in
          [at : {"done"}, h : BindSlots, then : BindProcesses \cup {"free"}, did_cancel : SUBSET Observers]
    BY Zenon, <2>1
  <2>3. [bind_call[t] EXCEPT !.did_cancel = @ \ {o}] \in Call
    BY Zenon, <2>2 DEF Call
  <2> QED
    BY Zenon, <1>2, <2>1, <2>3
<1>6. bind_call' = [bind_call EXCEPT ![t] = c]
  BY Zenon, <1>1, <1>5
<1>7. CallsOK'
  <2>1. bind_call'[t] = c /\ \A u \in BindThreads : u # t => bind_call'[u] = bind_call[u]
    BY Zenon, <1>0, <1>6 DEF BindTypeOK
  <2>2. \A u \in BindThreads : /\ bind_call'[u].at = bind_call[u].at
                               /\ Locks(u) => bind_call'[u].p = bind_call[u].p
                               /\ Keeps(u) => bind_call'[u].h = bind_call[u].h
    BY Zenon, <1>2, <1>5, <2>1 DEF Locks, Keeps
  <2> QED
    BY <1>0, <1>2, <2>2 DEF CallsOK, Locks, Keeps
<1>8. table_lock' \in [BindProcesses -> BOOLEAN]
  BY Zenon, <1>0, <1>2 DEF BindTypeOK
<1> QED
  BY Zenon, <1>1, <1>2, <1>3, <1>4, <1>5, <1>6, <1>7, <1>8, DeletedObserver

LEMMA UnbindKeepsBindings ==
  ASSUME BindingsInv, NEW t \in BindThreads, NEW p \in BindProcesses, NEW h \in BindSlots,
         NEW key \in Keys, Unbind(t, p, h, key)
  PROVE  BindingsInv'
<1>0. /\ BindTypeOK /\ CallsOK /\ ChargeOK /\ OnItsWay /\ BindingsFollowHandles
      /\ bound \cup tracked \subseteq Live
  BY DEF BindingsInv
<1>1. PICK o \in bound :
        /\ observer[o].handle = h
        /\ observer' = [observer EXCEPT ![o].state = "UNBOUND"]
        /\ observer[o].state = "NEW" =>
             /\ bound' = bound \ {o}
             /\ table_lock' = [table_lock EXCEPT ![p] = TRUE]
             /\ bind_call' = [bind_call EXCEPT ![t] = [at |-> "unbind", o |-> o, p |-> p]]
  BY Zenon DEF Unbind, Goes
<1>2. /\ bind_call[t].at = "found" /\ ~table_lock[p] /\ owner[h] = p /\ UNCHANGED <<owner, tracked>>
      /\ o \in Observers /\ o \in Live
  BY Zenon, <1>0 DEF Unbind, HoldsHandle, BindTypeOK
<1>3. InCharge(o) = {}
  <2>1. \A u \in InCharge(o) : FALSE
    BY Zenon, <1>1, <1>2, ChargeFacts, BindAssumption DEF Locks
  <2> QED
    BY Zenon, <2>1
<1>4. /\ observer[o].state = "NEW" /\ bound' = bound \ {o} /\ o \in tracked
      /\ table_lock' = [table_lock EXCEPT ![p] = TRUE]
      /\ bind_call' = [bind_call EXCEPT ![t] = [at |-> "unbind", o |-> o, p |-> p]]
  BY Zenon, <1>0, <1>1, <1>2, <1>3 DEF ChargeOK
<1>5. bind_call'[t] = [at |-> "unbind", o |-> o, p |-> p]
      /\ \A u \in BindThreads : u # t => bind_call'[u] = bind_call[u]
  BY Zenon, <1>0, <1>4 DEF BindTypeOK
<1>6. /\ observer'[o].state = "UNBOUND" /\ observer'[o].handle = h /\ observer'[o].by = observer[o].by
      /\ \A x \in Observers : x # o => observer'[x] = observer[x]
  BY <1>0, <1>1, <1>2 DEF BindTypeOK, Binding
<1>7. Live' = Live /\ observer[o].by = p
  BY <1>0, <1>1, <1>2, <1>6, BindAssumption DEF Live, BindingsFollowHandles
<1>8. BindTypeOK'
  <2>1. [at |-> "unbind", o |-> o, p |-> p] \in Call
    BY Zenon, <1>2 DEF Call
  <2>2. observer' \in [Observers -> Binding]
    BY <1>0, <1>1, <1>2 DEF BindTypeOK, Binding
  <2> QED
    BY Zenon, <1>0, <1>2, <1>4, <2>1, <2>2 DEF BindTypeOK
<1>9. CallsOK'
  <2>1. CallsOK /\ BindTypeOK /\ bind_call[t].at = "found" /\ ~table_lock[p] /\ owner' = owner
    BY Zenon, <1>0, <1>2
  <2> QED
    BY Zenon, <1>4, <2>1, LockTaken
<1>10. InCharge(o)' = {t} /\ \A x \in Observers : x # o => InCharge(x)' = InCharge(x)
  <2>1. /\ bind_call'[t].at \in {"bind", "unbind"} /\ bind_call'[t].o = o
        /\ \A u \in BindThreads : u # t => bind_call'[u] = bind_call[u]
    BY <1>5
  <2> QED
    BY Zenon, <1>2, <1>3, <2>1, ChargeTaken
<1>11. ASSUME NEW u \in BindThreads PROVE ChargeOf(u)'
  <2>1. CASE u = t
    <3>1. bind_call'[t].at = "unbind" /\ bind_call'[t].o = o /\ bind_call'[t].p = p
      BY <1>5
    <3>2. o \in tracked' \ bound'
      BY Zenon, <1>2, <1>4
    <3> QED
      BY Zenon, <1>2, <1>6, <1>7, <2>1, <3>1, <3>2 DEF ChargeOf, BoundNow
  <2>2. CASE u # t
    <3>1. \A x \in Observers : u \in InCharge(x) =>
            /\ observer'[x] = observer[x]
            /\ x \in bound' <=> x \in bound
            /\ x \in tracked' <=> x \in tracked
      BY Zenon, <1>2, <1>3, <1>4, <1>6
    <3>2. ChargeOf(u) /\ bind_call'[u] = bind_call[u] /\ owner' = owner
      BY Zenon, <1>0, <1>2, <1>5, <2>2 DEF ChargeOK
    <3> QED
      BY Zenon, <1>0, <3>1, <3>2, OtherCharge
  <2> QED
    BY Zenon, <2>1, <2>2
<1>12. ChargeOK'
  <2>1. \A x \in Observers : \A u, v \in InCharge(x)' : u = v
    BY <1>0, <1>10 DEF ChargeOK
  <2>2. ASSUME NEW x \in Live', InCharge(x)' = {}
        PROVE  x \in bound' \cap tracked' /\ observer'[x].state = "NEW" /\ observer'[x].handle # Nobody
    <3>1. x \in Live /\ x # o /\ x \in Observers
      BY Zenon, <1>7, <1>10, <2>2 DEF Live
    <3> QED
      BY Zenon, <1>0, <1>2, <1>4, <1>6, <1>10, <2>2, <3>1 DEF ChargeOK
  <2> QED
    BY Zenon, <1>11, <2>1, <2>2 DEF ChargeOK
<1>13. \A x \in Observers : observer'[x].handle = observer[x].handle /\ observer'[x].by = observer[x].by
  BY Zenon, <1>1, <1>6
<1>14. OnItsWay'
  <2>1. ASSUME NEW u \in BindThreads, NEW x \in Live', bind_call'[u].at \in {"write", "done"}
        PROVE  /\ bind_call'[u] = bind_call[u] /\ x \in Live
               /\ observer'[x].handle = observer[x].handle /\ observer'[x].by = observer[x].by
    BY <1>5, <1>7, <1>13, <2>1 DEF Live
  <2> QED
    BY <1>0, <2>1 DEF OnItsWay
<1>15. BindingsFollowHandles'
  BY Zenon, <1>0, <1>2, <1>7, <1>13 DEF BindingsFollowHandles, Live
<1> QED
  BY Zenon, <1>0, <1>2, <1>4, <1>7, <1>8, <1>9, <1>12, <1>14, <1>15 DEF BindingsInv

LEMMA CancelKeepsBindings ==
  ASSUME BindingsInv, NEW t \in BindThreads, Cancel(t)
  PROVE  BindingsInv'
<1>0. /\ BindTypeOK /\ CallsOK /\ ChargeOK /\ OnItsWay /\ BindingsFollowHandles
      /\ bound \cup tracked \subseteq Live
  BY DEF BindingsInv
<1>1. PICK h \in BindSlots, then \in BindProcesses \cup {"free"}, removed \in SUBSET Observers :
        /\ h = bind_call[t].h
        /\ removed = {o \in tracked : observer[o].handle = h /\ observer[o].state = "NEW"}
        /\ observer' = [o \in Observers |-> IF o \in tracked THEN OnCancel(o, h) ELSE observer[o]]
        /\ tracked' = tracked \ removed
        /\ bind_call' = [bind_call EXCEPT ![t] =
                           [at |-> "done", h |-> h, then |-> then, did_cancel |-> removed]]
  <2>1. bind_call[t].h \in BindSlots /\ bind_call[t].then \in BindProcesses \cup {"free"}
    BY Zenon, <1>0, CallFacts DEF Cancel, Keeps
  <2>2. {o \in tracked : observer[o].handle = bind_call[t].h /\ observer[o].state = "NEW"} \in SUBSET Observers
    BY Zenon, <1>0 DEF BindTypeOK
  <2> QED
    BY Zenon, <2>1, <2>2 DEF Cancel, Goes
<1>2. bind_call[t].at = "cancel" /\ owner[h] = "kernel" /\ UNCHANGED <<owner, bound, table_lock>>
  BY Zenon, <1>0, <1>1 DEF Cancel, CallsOK, Keeps
<1>3. ASSUME NEW o \in Observers, observer[o].handle = h
      PROVE  InCharge(o) = {}
  <2>1. \A u \in InCharge(o) : FALSE
    BY <1>1, <1>2, <1>3, ChargeFacts, BindAssumption DEF Locks, Held
  <2> QED
    BY Zenon, <2>1
<1>4. ASSUME NEW o \in Live, observer[o].handle = h
      PROVE  o \in removed
  BY Zenon, <1>0, <1>1, <1>3, <1>4 DEF ChargeOK, Live
<1>5. ASSUME NEW o \in removed
      PROVE  /\ o \in Observers /\ o \in Live /\ o \in bound /\ o \in tracked /\ InCharge(o) = {}
             /\ observer'[o] = [observer[o] EXCEPT !.handle = Nobody, !.state = "CANCELLED"]
             /\ observer'[o].state = "CANCELLED" /\ observer'[o].handle = Nobody
  <2>1. o \in Observers /\ o \in tracked /\ o \in Live /\ observer[o].handle = h /\ observer[o].state = "NEW"
    BY Zenon, <1>0, <1>1
  <2>2. observer[o] \in Binding
    BY Zenon, <1>0, <2>1 DEF BindTypeOK
  <2>3. observer'[o] = [observer[o] EXCEPT !.handle = Nobody, !.state = "CANCELLED"]
    BY Zenon, <1>1, <2>1, <2>2 DEF OnCancel, Binding
  <2> QED
    BY Zenon, <1>0, <1>3, <2>1, <2>2, <2>3 DEF ChargeOK, Binding
<1>6. ASSUME NEW o \in Observers, o \notin removed
      PROVE  observer'[o] = observer[o]
  BY Zenon, <1>0, <1>1, <1>4, <1>6 DEF OnCancel
<1>7. Live' = Live
  <2>1. \A o \in Observers : observer'[o].state # "none" <=> observer[o].state # "none"
    BY Zenon, <1>5, <1>6 DEF Live
  <2> QED
    BY Zenon, <2>1 DEF Live
<1>8. BindTypeOK'
  <2>1. ASSUME NEW o \in Observers PROVE observer'[o] \in Binding
    <3>1. observer[o] \in Binding
      BY Zenon, <1>0 DEF BindTypeOK
    <3>2. [observer[o] EXCEPT !.handle = Nobody, !.state = "CANCELLED"] \in Binding
      BY Zenon, <3>1 DEF Binding
    <3> QED
      BY Zenon, <1>5, <1>6, <3>1, <3>2
  <2>2. observer' \in [Observers -> Binding]
    BY Zenon, <1>1, <2>1
  <2>3. [at |-> "done", h |-> h, then |-> then, did_cancel |-> removed] \in Call
    BY Zenon DEF Call
  <2> QED
    BY Zenon, <1>0, <1>1, <1>2, <2>2, <2>3 DEF BindTypeOK
<1>9. /\ bind_call'[t] = [at |-> "done", h |-> h, then |-> then, did_cancel |-> removed]
      /\ \A u \in BindThreads : u # t => bind_call'[u] = bind_call[u]
  BY Zenon, <1>0, <1>1 DEF BindTypeOK
<1>10. CallsOK'
  <2>1. \A u \in BindThreads : /\ Locks(u)' <=> Locks(u)
                               /\ Keeps(u)' <=> Keeps(u)
                               /\ Locks(u) => bind_call'[u].p = bind_call[u].p
                               /\ Keeps(u) => bind_call'[u].h = bind_call[u].h
    BY <1>1, <1>2, <1>9 DEF Locks, Keeps
  <2>2. ASSUME NEW u \in BindThreads, Locks(u)'
        PROVE  table_lock'[bind_call'[u].p]
               /\ \A v \in BindThreads : Locks(v)' /\ bind_call'[v].p = bind_call'[u].p => v = u
    BY <1>0, <1>2, <2>1, <2>2 DEF CallsOK
  <2>3. ASSUME NEW u \in BindThreads, Keeps(u)'
        PROVE  owner'[bind_call'[u].h] = "kernel"
               /\ \A v \in BindThreads : Keeps(v)' /\ bind_call'[v].h = bind_call'[u].h => v = u
    BY <1>0, <1>2, <2>1, <2>3 DEF CallsOK
  <2> QED
    BY Zenon, <2>2, <2>3 DEF CallsOK
<1>11. \A o \in Observers : InCharge(o)' = IF o \in removed THEN {t} ELSE InCharge(o)
  <2>1. ASSUME NEW o \in Observers, NEW u \in BindThreads, u # t PROVE u \in InCharge(o)' <=> u \in InCharge(o)
    BY Zenon, <1>9, <2>1 DEF InCharge
  <2>2. \A o \in Observers : t \notin InCharge(o) /\ (t \in InCharge(o)' <=> o \in removed)
    <3>1. /\ bind_call'[t].at = "done" /\ bind_call'[t].did_cancel = removed
          /\ bind_call[t].at = "cancel"
      BY <1>2, <1>9
    <3> QED
      BY Zenon, <3>1 DEF InCharge
  <2>3. \A o \in Observers : InCharge(o) \subseteq BindThreads /\ InCharge(o)' \subseteq BindThreads
    BY Zenon DEF InCharge
  <2>4. ASSUME NEW o \in Observers, o \in removed PROVE InCharge(o)' = {t}
    BY Zenon, <1>5, <2>1, <2>2, <2>3, <2>4
  <2>5. ASSUME NEW o \in Observers, o \notin removed PROVE InCharge(o)' = InCharge(o)
    <3>1. \A u \in BindThreads : u \in InCharge(o)' <=> u \in InCharge(o)
      BY Zenon, <2>1, <2>2, <2>5
    <3> QED
      BY Zenon, <2>3, <3>1
  <2> QED
    BY Zenon, <2>4, <2>5
<1>12. ASSUME NEW u \in BindThreads PROVE ChargeOf(u)'
  <2>1. CASE u = t
    <3>1. \A x \in removed : x \in bound' \ tracked'
      BY Zenon, <1>1, <1>2, <1>5
    <3>2. bind_call'[t].at = "done" /\ bind_call'[t].did_cancel = removed
      BY <1>9
    <3> QED
      BY Zenon, <1>5, <2>1, <3>1, <3>2 DEF ChargeOf
  <2>2. CASE u # t
    <3>1. \A x \in Observers : u \in InCharge(x) =>
            /\ observer'[x] = observer[x]
            /\ x \in bound' <=> x \in bound
            /\ x \in tracked' <=> x \in tracked
      BY Zenon, <1>1, <1>2, <1>5, <1>6
    <3>2. ChargeOf(u) /\ bind_call'[u] = bind_call[u] /\ owner' = owner
      BY Zenon, <1>0, <1>2, <1>9, <2>2 DEF ChargeOK
    <3> QED
      BY Zenon, <1>0, <3>1, <3>2, OtherCharge
  <2> QED
    BY Zenon, <2>1, <2>2
<1>13. ChargeOK'
  <2>1. \A x \in Observers : \A u, v \in InCharge(x)' : u = v
    BY Zenon, <1>0, <1>11 DEF ChargeOK
  <2>2. ASSUME NEW x \in Live', InCharge(x)' = {}
        PROVE  x \in bound' \cap tracked' /\ observer'[x].state = "NEW" /\ observer'[x].handle # Nobody
    <3>1. x \in Live /\ x \notin removed /\ x \in Observers
      BY Zenon, <1>7, <1>11, <2>2 DEF Live
    <3> QED
      BY <1>0, <1>1, <1>2, <1>6, <1>11, <2>2, <3>1 DEF ChargeOK
  <2> QED
    BY Zenon, <1>12, <2>1, <2>2 DEF ChargeOK
<1>14. \A x \in Live : \/ observer'[x].handle = observer[x].handle /\ observer'[x].by = observer[x].by
                       \/ observer'[x].handle = Nobody
  BY Zenon, <1>5, <1>6 DEF Live
<1>15. OnItsWay'
  <2>1. \A x \in Live : observer'[x].handle # h
    BY Zenon, <1>4, <1>5, <1>6, BindAssumption DEF Live
  <2>2. \A u \in BindThreads : Keeps(u)' => bind_call'[u].h # Nobody
    <3>1. ASSUME NEW u \in BindThreads, Keeps(u)' PROVE bind_call'[u].h # Nobody
      <4>1. bind_call'[u] \in Call
        BY Zenon, <1>8 DEF BindTypeOK
      <4>2. bind_call'[u].h \in BindSlots
        BY Zenon, <3>1, <4>1 DEF Call, Keeps
      <4> QED
        BY Zenon, <4>2, BindAssumption
    <3> QED
      BY Zenon, <3>1
  <2>3. ASSUME NEW u \in BindThreads, NEW x \in Live', bind_call'[u].at \in {"write", "done"}
        PROVE  /\ bind_call'[u].at = "done" => observer'[x].handle # bind_call'[u].h
               /\ bind_call'[u].at = "write" /\ observer'[x].handle = bind_call'[u].h
                    => observer'[x].by = bind_call'[u].p
    <3>1. CASE u = t
      BY <1>7, <1>9, <2>1, <3>1
    <3>2. CASE u # t
      <4>1. bind_call'[u] = bind_call[u] /\ bind_call[u].h # Nobody /\ x \in Live
        BY Zenon, <1>7, <1>9, <2>2, <2>3, <3>2 DEF Keeps
      <4> QED
        BY Zenon, <1>0, <1>14, <4>1 DEF OnItsWay
    <3> QED
      BY Zenon, <3>1, <3>2
  <2> QED
    BY Zenon, <2>3 DEF OnItsWay
<1>16. BindingsFollowHandles'
  BY Zenon, <1>0, <1>2, <1>7, <1>14 DEF BindingsFollowHandles
<1>17. (bound \cup tracked \subseteq Live)'
  BY Zenon, <1>0, <1>1, <1>2, <1>7
<1> QED
  BY Zenon, <1>8, <1>10, <1>13, <1>15, <1>16, <1>17 DEF BindingsInv

LEMMA BindingsStep == BindingsInv /\ [BindNext]_bindVars => BindingsInv'
<1> SUFFICES ASSUME BindingsInv, [BindNext]_bindVars PROVE BindingsInv'
  OBVIOUS
<1>1. CASE UNCHANGED bindVars \/ ClosePort
  <2>1. UNCHANGED <<owner, bound, tracked, observer, bind_call, table_lock>>
    BY Zenon, <1>1 DEF bindVars, ClosePort
  <2>2. BindTypeOK' /\ CallsOK'
    BY Zenon, <2>1 DEF BindingsInv, BindTypeOK, CallsOK, Locks, Keeps
  <2>3. Live' = Live /\ \A o : InCharge(o)' = InCharge(o)
    BY Zenon, <2>1 DEF Live, InCharge
  <2>4. \A t \in BindThreads : ChargeOf(t) => ChargeOf(t)'
    BY Zenon, <2>1 DEF ChargeOf, BoundNow
  <2>5. ChargeOK'
    BY Zenon, <2>1, <2>3, <2>4 DEF BindingsInv, ChargeOK
  <2>6. OnItsWay' /\ BindingsFollowHandles'
    BY Zenon, <2>1, <2>3 DEF BindingsInv, OnItsWay, BindingsFollowHandles
  <2> QED
    BY Zenon, <2>1, <2>2, <2>3, <2>5, <2>6 DEF BindingsInv
<1>2. CASE BindNext /\ ~ClosePort
  <2>1. PICK t \in BindThreads :
          \/ \E p \in BindProcesses, h \in BindSlots :
               \/ \E key \in Keys : Bind(t, p, h, key) \/ Unbind(t, p, h, key)
               \/ CloseHandle(t, p, h) \/ SendHandle(t, p, h) \/ DuplicateHandle(t, p, h)
          \/ \E h \in BindSlots : \E p \in BindProcesses \cup {"free"} : ReceiveHandle(t, p, h)
          \/ FindPort(t) \/ BindFails(t) \/ AddObserver(t) \/ RemoveObserver(t)
          \/ WriteMessage(t) \/ WriteFails(t)
          \/ Cancel(t) \/ CancelObserver(t) \/ Cancelled(t)
    BY <1>2, Zenon DEF BindNext
  <2> QED
    BY Zenon, <2>1, BindKeepsBindings, UnbindKeepsBindings, HandlesMoveKeepsBindings, LookupKeepsBindings,
       AddObserverKeepsBindings, RemoveObserverKeepsBindings, CancelKeepsBindings,
       CancelObserverKeepsBindings, Zenon
<1> QED
  BY Zenon, <1>1, <1>2

(* However binding, unbinding, closing, sending and receiving of any number  *)
(* of threads and processes overlap, an observer is on both lists or in the  *)
(* charge of one call, and no binding outlives its handle or follows it to   *)
(* another process (IOPortObserver, IOPortDispatcher::Bind and Unbind,       *)
(* StateTracker::Cancel).                                                    *)
THEOREM BindingsSoundAlways == BindSpec => []BindingsSound
<1>1. BindingsInv => BindingsSound
  <2> SUFFICES ASSUME BindingsInv PROVE BindingsSound
    BY Zenon
  <2>0. ChargeOK /\ BindingsFollowHandles /\ bound \cup tracked \subseteq Live
    BY Zenon DEF BindingsInv
  <2>1. ASSUME NEW o \in Live
        PROVE  IF InCharge(o) = {} THEN o \in bound \cap tracked
               ELSE o \in (bound \cup tracked) \ (bound \cap tracked)
    BY Zenon, <2>0, ChargeFacts DEF ChargeOK, Live
  <2>2. \A o \in Observers : \A t, u \in InCharge(o) : t = u /\ o \in Live
    BY Zenon, <2>0, ChargeFacts DEF ChargeOK
  <2> QED
    BY Zenon, <2>0, <2>1, <2>2 DEF BindingsSound, ObserversListed
<1> QED
  BY BindInitInv, BindingsStep, <1>1, PTL DEF BindSpec
=============================================================================
