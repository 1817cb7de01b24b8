--------------------------------- MODULE Vm ---------------------------------
(***************************************************************************)
(* Virtual memory (kernel/vm): address spaces with their sorted list of    *)
(* regions, VM objects with the pages committed to them, and the mappings  *)
(* the MMU holds.  Addresses and offsets count pages.                      *)
(*                                                                         *)
(* Everything on an address space happens under its lock_; a VM object has *)
(* a lock_ of its own, taken for one page at a time, so that faults and    *)
(* maps of other address spaces fall between the pages of a MapRange.      *)
(* Taking a region out of the list and dropping its object are two steps.  *)
(* A VM object lives while a handle, a region or a call refers to it.      *)
(***************************************************************************)
EXTENDS Naturals, Sequences, FiniteSets, FiniteSetsExt, SequencesExt

CONSTANTS VmThreads, Aspaces, VmObjects, Pages,
          AspaceSize,    \* pages of each address space
          MaxObjectSize, \* pages of a VM object
          MaxReserved    \* pages ReserveSpace is asked for

NoPage == "nopage"
NoObject == "noobject"
Device == "device"       \* physical memory that is not of the PMM
VAddrs(a) == 0 .. AspaceSize[a] - 1

VARIABLES regions,   \* regions_ of each address space: base, size, object and offset
          mmu,       \* what each page of each address space maps to
          vmo,       \* size and page_array_ of each VM object; size 0 when there is none
          vmo_held,      \* VM objects to which there is a handle
          free_pages,
          vm_call       \* of each thread: the call it is in, its address space and region

vmVars == <<regions, mmu, vmo, vmo_held, free_pages, vm_call>>

NoRegion == [base |-> 0, size |-> 0, object |-> NoObject, offset |-> 0]
NotBusy == [pc |-> "idle", aspace |-> NoObject, region |-> NoRegion, at |-> 0]
NoVmo == [size |-> 0, page |-> [i \in 0 .. MaxObjectSize - 1 |-> NoPage]]

VmInit ==
  /\ regions = [a \in Aspaces |-> <<>>]
  /\ mmu = [a \in Aspaces |-> [v \in VAddrs(a) |-> NoPage]]
  /\ vmo = [o \in VmObjects |-> NoVmo]
  /\ vmo_held = {}
  /\ free_pages = Pages
  /\ vm_call = [t \in VmThreads |-> NotBusy]

-----------------------------------------------------------------------------
(* The list of regions.                                                    *)

End(r) == r.base + r.size

(* AddRegion at a given base: the first place in front of a region that    *)
(* begins after it, if no region before that place reaches into it.        *)
AddPlaces(rs, r) ==
  {i \in 1 .. Len(rs) + 1 :
     /\ i = Len(rs) + 1 \/ End(r) <= rs[i].base
     /\ \A j \in 1 .. i - 1 : r.base >= End(rs[j])}

is_inside(a, r) == r.base < AspaceSize[a] /\ End(r) <= AspaceSize[a]

AddRegion(a, r) ==
  LET places == AddPlaces(regions[a], r)
  IN {InsertAt(regions[a], i, r) :
        i \in {j \in places : is_inside(a, r) /\ \A k \in places : j <= k}}

(* CheckGap: whether the gap in front of the i-th region will do.          *)
GapBegin(a, i) == IF i = 1 THEN 0 ELSE End(regions[a][i - 1])
GapEnd(a, i) == IF i = Len(regions[a]) + 1 THEN AspaceSize[a] ELSE regions[a][i].base
ALIGN(v, align) == ((v + align - 1) \div align) * align

CheckGapEdge(a, i, size, align) ==
  LET spot == ALIGN(GapBegin(a, i), align)
  IN spot < GapEnd(a, i) /\ GapEnd(a, i) - spot + 1 >= size

CheckGap(a, i, size, align) ==
  LET spot == ALIGN(GapBegin(a, i), align)
  IN spot < GapEnd(a, i) /\ GapEnd(a, i) - spot >= size

(* AllocSpot and the insertion behind it: the first gap that will do.      *)
AllocSpot(a, r, align) ==
  LET gaps == {i \in 1 .. Len(regions[a]) + 1 : CheckGap(a, i, r.size, align)}
  IN {InsertAt(regions[a], i, [r EXCEPT !.base = ALIGN(GapBegin(a, i), align)]) :
        i \in {j \in gaps : \A k \in gaps : j <= k}}

(* AllocRegion: the lists it may leave, none if there is no room.          *)
AllocRegion(a, r, specific, align) ==
  IF specific THEN AddRegion(a, r) ELSE AllocSpot(a, r, align)

(* The region AllocRegion has put in the list.                             *)
Added(a, placed) == placed[CHOOSE i \in DOMAIN placed :
                         i > Len(regions[a]) \/ placed[i] # regions[a][i]]

Covers(r, v) == r.base <= v /\ v < End(r)
FindRegionLocked(a, v) == {i \in DOMAIN regions[a] : Covers(regions[a][i], v)}

-----------------------------------------------------------------------------
(* VM objects.                                                             *)

Locked(a) == \E t \in VmThreads : vm_call[t].pc \in {"map", "commit"} /\ vm_call[t].aspace = a
Enter(t, a) == vm_call[t].pc = "idle" /\ ~Locked(a)

(* GetPage: no page either where none was committed or past the end.       *)
GetPage(o, i) == IF i < vmo[o].size THEN vmo[o].page[i] ELSE NoPage

(* FaultPageLocked: the page that is there, or a new one if there is one.  *)
FaultPage(o, i) ==
  IF i >= vmo[o].size THEN {}
  ELSE IF vmo[o].page[i] # NoPage THEN {vmo[o].page[i]} ELSE free_pages

AddPage(o, i, p) ==
  /\ vmo' = [vmo EXCEPT ![o].page[i] = p]
  /\ free_pages' = free_pages \ {p}

PagesOf(o) == {vmo[o].page[i] : i \in DOMAIN vmo[o].page} \ {NoPage}

(* ~VmObject, when the last reference goes: all pages are freed.           *)
Release(o, rs, bs, hs) ==
  IF \/ o \notin VmObjects
     \/ o \in hs
     \/ \E a \in Aspaces : \E i \in DOMAIN rs[a] : rs[a][i].object = o
     \/ \E t \in VmThreads : bs[t].region.object = o
  THEN UNCHANGED <<vmo, free_pages>>
  ELSE /\ vmo' = [vmo EXCEPT ![o] = NoVmo]
       /\ free_pages' = free_pages \cup PagesOf(o)

CreateVmObject(o, size) ==
  /\ vmo[o].size = 0
  /\ vmo' = [vmo EXCEPT ![o].size = size]
  /\ vmo_held' = vmo_held \cup {o}
  /\ UNCHANGED <<regions, mmu, free_pages, vm_call>>

CloseVmObject(o) ==
  /\ o \in vmo_held
  /\ vmo_held' = vmo_held \ {o}
  /\ Release(o, regions, vm_call, vmo_held')
  /\ UNCHANGED <<regions, mmu, vm_call>>

(* ReadWriteInternal faults in each page it copies to or from; a longer    *)
(* copy is a run of these.                                                 *)
ReadWriteInternal(o, i) ==
  /\ o \in vmo_held
  /\ \E p \in FaultPage(o, i) : AddPage(o, i, p)
  /\ UNCHANGED <<regions, mmu, vmo_held, vm_call>>

-----------------------------------------------------------------------------
(* Calls on an address space.                                              *)

(* MapObject: the region is there from now on, also if the mapping of its  *)
(* pages up front, with VMM_FLAG_COMMIT, should fail.                      *)
MapObject(t, a, r, specific, align, commit) ==
  /\ Enter(t, a) /\ r.object \in vmo_held
  /\ \E placed \in AllocRegion(a, r, specific, align) :
       /\ regions' = [regions EXCEPT ![a] = placed]
       /\ vm_call' = IF ~commit THEN vm_call
                  ELSE [vm_call EXCEPT ![t] = [pc |-> "map", aspace |-> a,
                                            region |-> Added(a, placed), at |-> 0]]
  /\ UNCHANGED <<mmu, vmo, vmo_held, free_pages>>

(* Alloc: a new object, with VMM_FLAG_COMMIT all of it committed at once   *)
(* by CommitRange, mapped like any other.  If there are too few pages, or  *)
(* no room, the object goes with the call and nothing has changed.         *)
Alloc(t, a, r, specific, align, commit) ==
  /\ Enter(t, a) /\ vmo[r.object].size = 0
  /\ \E pages \in kSubset(IF commit THEN r.size ELSE 0, free_pages) :
     \E placed \in AllocRegion(a, r, specific, align) :
       LET page == SetToSeq(pages)
       IN /\ vmo' = [vmo EXCEPT ![r.object] = [size |-> r.size,
                       page |-> [i \in DOMAIN NoVmo.page |-> IF i < Len(page) THEN page[i + 1] ELSE NoPage]]]
          /\ free_pages' = free_pages \ pages
          /\ regions' = [regions EXCEPT ![a] = placed]
          /\ vm_call' = IF ~commit THEN vm_call
                     ELSE [vm_call EXCEPT ![t] = [pc |-> "map", aspace |-> a,
                                               region |-> Added(a, placed), at |-> 0]]
  /\ UNCHANGED <<mmu, vmo_held>>

(* One round of MapRange: a page that is committed already is mapped.      *)
Map(t, p) ==
  LET b == vm_call[t]
  IN /\ mmu' = [mmu EXCEPT ![b.aspace][b.region.base + b.at] = p]
     /\ vm_call' = [vm_call EXCEPT ![t] = IF b.at + 1 = b.region.size THEN NotBusy
                                    ELSE [b EXCEPT !.pc = "map", !.at = @ + 1]]

MapRange(t) ==
  LET b == vm_call[t]
      p == GetPage(b.region.object, b.region.offset + b.at)
  IN /\ b.pc = "map"
     /\ \/ p # NoPage /\ Map(t, p)
        \/ p = NoPage /\ vm_call' = [vm_call EXCEPT ![t].pc = "commit"] /\ UNCHANGED mmu
     /\ UNCHANGED <<regions, vmo, vmo_held, free_pages>>

(* The rest of the round, after GetPage found no page.  CommitRange gives  *)
(* 0 past the end, or if the page has been committed by now: MapRange ends *)
(* there, as it does without memory, and the rest is left to page faults.  *)
CommitRange(t) ==
  LET b == vm_call[t]
      o == b.region.object
      i == b.region.offset + b.at
  IN /\ b.pc = "commit"
     /\ IF i < vmo[o].size /\ GetPage(o, i) = NoPage /\ free_pages # {}
        THEN \E p \in free_pages : AddPage(o, i, p) /\ Map(t, p)
        ELSE /\ vm_call' = [vm_call EXCEPT ![t] = NotBusy]
             /\ UNCHANGED <<mmu, vmo, free_pages>>
     /\ UNCHANGED <<regions, vmo_held>>

(* ReserveSpace: a region without an object, cut off at the end of the     *)
(* address space.                                                          *)
trim_to_aspace(a, v, size) == IF v + size > AspaceSize[a] THEN AspaceSize[a] - v ELSE size

ReserveSpace(a, v, size) ==
  /\ ~Locked(a)
  /\ \E placed \in AddRegion(a, [NoRegion EXCEPT !.base = v, !.size = trim_to_aspace(a, v, size)]) :
       regions' = [regions EXCEPT ![a] = placed]
  /\ UNCHANGED <<mmu, vmo, vmo_held, free_pages, vm_call>>

(* AllocPhysical: a region without an object that maps device memory.      *)
AllocPhysical(a, r, specific, align) ==
  /\ ~Locked(a)
  /\ \E placed \in AllocRegion(a, r, specific, align) :
       /\ regions' = [regions EXCEPT ![a] = placed]
       /\ mmu' = [mmu EXCEPT ![a] = [v \in VAddrs(a) |->
                    IF Covers(Added(a, placed), v) THEN Device ELSE @[v]]]
  /\ UNCHANGED <<vmo, vmo_held, free_pages, vm_call>>

(* A page fault holds the lock of the address space all the way.  Another  *)
(* thread may have mapped the page in the meantime.  A different page      *)
(* there is an error, and stays; the object keeps the new one.             *)
PageFault(a, v) ==
  /\ ~Locked(a)
  /\ \E n \in FindRegionLocked(a, v) :
       LET r == regions[a][n]
           i == v - r.base + r.offset
       IN /\ r.object # NoObject
          /\ \E p \in FaultPage(r.object, i) :
               /\ AddPage(r.object, i, p)
               /\ mmu' = [mmu EXCEPT ![a][v] = IF @ = NoPage THEN p ELSE @]
  /\ UNCHANGED <<regions, vmo_held, vm_call>>

(* FreeRegion: the region is erased and unmapped under the lock ...        *)
FreeRegionMapped(t, a, v) ==
  /\ Enter(t, a)
  /\ \E n \in FindRegionLocked(a, v) :
       /\ regions' = [regions EXCEPT ![a] = RemoveAt(@, n)]
       /\ vm_call' = [vm_call EXCEPT ![t] = [NotBusy EXCEPT !.pc = "drop", !.region = regions[a][n]]]
  /\ UNCHANGED <<mmu, vmo, vmo_held, free_pages>>

FreeRegion(t, a, v) ==
  /\ Enter(t, a)
  /\ \E n \in FindRegionLocked(a, v) :
       /\ regions' = [regions EXCEPT ![a] = RemoveAt(@, n)]
       /\ mmu' = [mmu EXCEPT ![a] = [w \in VAddrs(a) |-> IF Covers(regions[a][n], w) THEN NoPage ELSE @[w]]]
       /\ vm_call' = [vm_call EXCEPT ![t] = [NotBusy EXCEPT !.pc = "drop", !.region = regions[a][n]]]
  /\ UNCHANGED <<vmo, vmo_held, free_pages>>

(* One round of VmAspace::Destroy does so for the first region ...         *)
Destroy(t, a) == regions[a] # <<>> /\ FreeRegion(t, a, Head(regions[a]).base)

(* ... and each lets go of the region's object without the lock.           *)
DestroyRegion(t) ==
  /\ vm_call[t].pc = "drop"
  /\ vm_call' = [vm_call EXCEPT ![t] = NotBusy]
  /\ Release(vm_call[t].region.object, regions, vm_call', vmo_held)
  /\ UNCHANGED <<regions, mmu, vmo_held>>

VmNext ==
  \/ \E o \in VmObjects :
       \/ \E n \in 1 .. MaxObjectSize : CreateVmObject(o, n)
       \/ CloseVmObject(o)
       \/ \E i \in 0 .. MaxObjectSize - 1 : ReadWriteInternal(o, i)
  \/ \E a \in Aspaces, n \in 1 .. MaxObjectSize :
       \/ \E t \in VmThreads, o \in VmObjects, b \in VAddrs(a), i \in 0 .. MaxObjectSize - n, align \in {1, 2}, commit \in BOOLEAN :
            \/ MapObject(t, a, [base |-> b, size |-> n, object |-> o, offset |-> i], TRUE, 1, commit)
            \/ MapObject(t, a, [base |-> 0, size |-> n, object |-> o, offset |-> i], FALSE, align, commit)
       \/ \E t \in VmThreads, o \in VmObjects, b \in VAddrs(a), align \in {1, 2}, commit \in BOOLEAN :
            \/ Alloc(t, a, [base |-> b, size |-> n, object |-> o, offset |-> 0], TRUE, 1, commit)
            \/ Alloc(t, a, [base |-> 0, size |-> n, object |-> o, offset |-> 0], FALSE, align, commit)
  \/ \E a \in Aspaces : \E v \in VAddrs(a) :
       \/ \E n \in 1 .. MaxReserved : ReserveSpace(a, v, n)
       \/ AllocPhysical(a, [NoRegion EXCEPT !.base = v, !.size = 1], TRUE, 1)
       \/ AllocPhysical(a, [NoRegion EXCEPT !.size = 1], FALSE, 1)
       \/ PageFault(a, v)
       \/ \E t \in VmThreads : FreeRegion(t, a, v)
  \/ \E a \in Aspaces, t \in VmThreads : Destroy(t, a)
  \/ \E t \in VmThreads : MapRange(t) \/ CommitRange(t) \/ DestroyRegion(t)

VmSpec == VmInit /\ [][VmNext]_vmVars

-----------------------------------------------------------------------------
(* Regions are sorted and disjoint, and lie inside the address space, in   *)
(* whatever order they come and go (AddRegion relies on the order, and     *)
(* FindRegionLocked on there being one region for an address).             *)
RegionsDisjoint ==
  \A a \in Aspaces :
    /\ \A i \in DOMAIN regions[a] : End(regions[a][i]) <= AspaceSize[a]
    /\ \A i, j \in DOMAIN regions[a] : i < j => End(regions[a][i]) <= regions[a][j].base

(* What the MMU maps belongs to a region that is still in the list, and is *)
(* the page its object has there: never a page that was freed.  A page is  *)
(* free or committed once to one object, which someone refers to: faults,  *)
(* maps of a shared object, unmaps and closes do not leak or share a page. *)
MappingsBacked ==
  /\ \A a \in Aspaces : \A v \in VAddrs(a) :
       mmu[a][v] # NoPage =>
         \E n \in FindRegionLocked(a, v) :
           LET r == regions[a][n]
           IN mmu[a][v] = IF r.object = NoObject THEN Device
                          ELSE GetPage(r.object, r.offset + v - r.base)
  /\ \A p \in Pages :
       Cardinality({<<o, i>> \in VmObjects \X (0 .. MaxObjectSize - 1) : vmo[o].page[i] = p})
         = IF p \in free_pages THEN 0 ELSE 1
=============================================================================
