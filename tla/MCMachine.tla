------------------------------ MODULE MCMachine ------------------------------
(***************************************************************************)
(* Instances of Process, Mp, Vm and Pmm in one state graph, each running   *)
(* alone as in MCKernel: the variables of the others stay idle.            *)
(***************************************************************************)
EXTENDS Process, Mp, Vm, Pmm

CONSTANTS as1

VARIABLE component

\* One address space with room for several regions, and one that is full at once.
MCAspaceSize == [a \in Aspaces |-> IF a = as1 THEN 3 ELSE 1]

\* An arena that begins between two boundaries, and one for the kernel in front of it.
MCArenas == {[base |-> 1, size |-> 5, kmap |-> FALSE, priority |-> 1],
             [base |-> 6, size |-> 3, kmap |-> TRUE, priority |-> 0]}

NoProcess == Init /\ ~bad_handle_exit
NoVm == regions = 0 /\ mmu = 0 /\ vmo = 0 /\ vmo_held = 0 /\ free_pages = 0 /\ vm_call = 0
NoPmm == arena_list = 0 /\ free_list = 0 /\ free_count = 0 /\ page_alloc = 0 /\ page_lists = 0

MachineInit ==
  \/ component = "process" /\ Init /\ MpInit /\ NoVm /\ NoPmm
  \/ component = "mp" /\ MpInit /\ NoProcess /\ NoVm /\ NoPmm
  \/ component = "vm" /\ VmInit /\ NoProcess /\ MpInit /\ NoPmm
  \/ component = "pmm" /\ PmmInit /\ NoProcess /\ MpInit /\ NoVm

MachineNext ==
  /\ UNCHANGED component
  /\ \/ component = "process" /\ Next /\ UNCHANGED <<mpVars, vmVars, pmmVars>>
     \/ component = "mp" /\ MpNext /\ UNCHANGED <<vars, vmVars, pmmVars>>
     \/ component = "vm" /\ VmNext /\ UNCHANGED <<vars, mpVars, pmmVars>>
     \/ component = "pmm" /\ PmmNext /\ UNCHANGED <<vars, mpVars, vmVars>>

MachineSpec == MachineInit /\ [][MachineNext]_<<component, vars, mpVars, vmVars, pmmVars>>

\* The threads but the main one, the callers of mp.c and the pages share values.
Symmetry == Permutations(Pages)

-----------------------------------------------------------------------------
\* kernel/vm: regions are sorted and disjoint, and what the MMU maps is the
\* page that the region's object has there, never one that was freed.
\* pmm.cpp: a page is on one free list or in one caller's list, and the search
\* for a run of pages finds one that is free and aligned whenever there is one.
MemorySound ==
  /\ component = "vm" => RegionsDisjoint /\ MappingsBacked
  /\ component = "pmm" => PagesAccounted /\ RunsFound
=============================================================================
