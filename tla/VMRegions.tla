----------------------------- MODULE VMRegions -----------------------------
(***************************************************************************)
(* The virtual memory area of one process, src/src/mm-vm.c: the symbol     *)
(* table, the list of free regions and the two limits sbrk and vm_end that *)
(* __alloc (with get_free_vmrg_area and inc_vma_limit) and __free keep.    *)
(* Only the CPU that runs the process touches them.                        *)
(*                                                                         *)
(* The search of the free list is modelled one iteration of its loop per   *)
(* step.  Which frame a page gets is left to pg_getpage: here growing the  *)
(* area succeeds or fails, and a failure ends the program (cpu.c, run).    *)
(***************************************************************************)
EXTENDS Integers, Sequences

CONSTANTS
    Ids,                  \* indices of the symbol table a program uses
    Sizes,                \* the sizes a program asks for
    PAGING_PAGESZ,
    PAGING_MAX_PGN,       \* the pages of a bus of PAGING_CPU_BUS_WIDTH bits
    MaxBrk                \* bound: an alloc that could push sbrk beyond is not made

\* An allocation of no bytes is left out: get_free_vmrg_area never returns
\* from it once a region is free.
ASSUME SizesAssumption == Sizes \subseteq Nat \ {0}
ASSUME PageAssumption == PAGING_PAGESZ \in Nat \ {0}
ASSUME BusAssumption == PAGING_MAX_PGN \in Nat \ {0}
ASSUME MaxBrkAssumption == MaxBrk \in Nat

VARIABLES
    vm_freerg_list,       \* the free regions, first of the list first
    symrgtbl,             \* the region of each symbol
    sbrk, vm_end,         \* the end of the regions, the end of the mapped pages
    pc,                   \* where __alloc is, "idle" between instructions
    rgid, size,           \* the arguments of __alloc
    rgit,                 \* position of the loop in vm_freerg_list
    newrg,                \* the region get_free_vmrg_area has found
    mapped,               \* the pages vmap_page_range got a frame for
    taken,                \* history: pieces this __alloc cut from free regions
    aborted               \* an instruction returned -1: exit(0)

limits == <<sbrk, vm_end, mapped>>
args == <<rgid, size>>
vars == <<vm_freerg_list, symrgtbl, limits, pc, args, rgit, newrg, taken, aborted>>

Region(start, end) == [rg_start |-> start, rg_end |-> end]

\* What a symbol without memory holds.
NoRegion == Region(-1, -1)

\* Fault: rounded down.
PageAlignDown(sz) == (sz \div PAGING_PAGESZ) * PAGING_PAGESZ

\* PAGING_PAGE_ALIGNSZ
PageAlign(sz) == ((sz + PAGING_PAGESZ - 1) \div PAGING_PAGESZ) * PAGING_PAGESZ

\* The page number and the offset are bit fields of an address: what is beyond
\* the width of the bus is cut off.
PAGING_PGN(addr) == (addr \div PAGING_PAGESZ) % PAGING_MAX_PGN
PAGING_OFFST(addr) == addr % PAGING_PAGESZ

\* init_mm(): an empty area and one empty free region.
Init ==
    /\ vm_freerg_list = <<Region(0, 0)>>
    /\ symrgtbl = [i \in Ids |-> NoRegion]
    /\ sbrk = 0
    /\ vm_end = 0
    /\ pc = "idle"
    /\ rgid \in Ids
    /\ size \in Sizes
    /\ rgit = 1
    /\ newrg = NoRegion
    /\ mapped = {}
    /\ taken = 0
    /\ aborted = FALSE

-----------------------------------------------------------------------------
(* __alloc                                                                 *)

CallAlloc(i, sz) ==
    /\ ~aborted
    /\ pc = "idle"
    /\ sbrk + sz <= MaxBrk
    /\ pc' = "search"
    /\ rgid' = i
    /\ size' = sz
    /\ rgit' = 1
    /\ newrg' = NoRegion
    /\ taken' = 0
    /\ UNCHANGED <<vm_freerg_list, symrgtbl, limits, aborted>>

\* One iteration of the loop of get_free_vmrg_area at region rg.  The loop
\* does not end when a region fits, and looks at the same node again.
Searching == pc = "search" /\ rgit \in 1..Len(vm_freerg_list)

\* Fault: the symbol gets the whole free region.
FoundWhole == newrg' = vm_freerg_list[rgit]

Found == newrg' = Region(vm_freerg_list[rgit].rg_start, vm_freerg_list[rgit].rg_start + size)

TakePart ==
    /\ Searching
    /\ vm_freerg_list[rgit].rg_start + size < vm_freerg_list[rgit].rg_end
    /\ Found
    /\ vm_freerg_list' = [vm_freerg_list EXCEPT ![rgit].rg_start = @ + size]
    /\ taken' = taken + 1
    /\ UNCHANGED <<symrgtbl, limits, pc, args, rgit, aborted>>

\* The list without its i-th node: the code moves the next node into it.
Without(list, i) == [j \in 1..Len(list) - 1 |-> IF j < i THEN list[j] ELSE list[j + 1]]

\* The last node stays in the list, as an empty region.
TakeAll ==
    /\ Searching
    /\ vm_freerg_list[rgit].rg_start + size = vm_freerg_list[rgit].rg_end
    /\ Found
    /\ vm_freerg_list' =
          IF rgit < Len(vm_freerg_list)
          THEN Without(vm_freerg_list, rgit)
          ELSE [vm_freerg_list EXCEPT ![rgit].rg_start = vm_freerg_list[rgit].rg_end]
    /\ taken' = taken + 1
    /\ UNCHANGED <<symrgtbl, limits, pc, args, rgit, aborted>>

\* Fault: the loop looks at the same region again.
SkipNothing ==
    /\ Searching
    /\ vm_freerg_list[rgit].rg_start + size > vm_freerg_list[rgit].rg_end
    /\ UNCHANGED vars

SkipRegion ==
    /\ Searching
    /\ vm_freerg_list[rgit].rg_start + size > vm_freerg_list[rgit].rg_end
    /\ rgit' = rgit + 1
    /\ UNCHANGED <<vm_freerg_list, symrgtbl, limits, pc, args, newrg, taken, aborted>>

SearchDone == ~aborted /\ pc = "search" /\ rgit > Len(vm_freerg_list)

Return == pc' = "idle" /\ rgit' = 1 /\ newrg' = NoRegion /\ taken' = 0

\* A free region was found: the symbol gets it.
AllocFree ==
    /\ SearchDone
    /\ newrg # NoRegion
    /\ symrgtbl' = [symrgtbl EXCEPT ![rgid] = newrg]
    /\ Return
    /\ UNCHANGED <<vm_freerg_list, limits, args, aborted>>

Gap == vm_end - sbrk

AllocAtBrk ==
    /\ symrgtbl' = [symrgtbl EXCEPT ![rgid] = Region(sbrk, sbrk + size)]
    /\ sbrk' = sbrk + size

\* The space between sbrk and vm_end is large enough.
AllocGap ==
    /\ SearchDone
    /\ newrg = NoRegion
    /\ Gap >= size
    /\ AllocAtBrk
    /\ Return
    /\ UNCHANGED <<vm_freerg_list, vm_end, mapped, args, aborted>>

\* Fault: the first of the new pages is left out.
NewPagesButFirst == {pgn \in 0..(vm_end + PageAlign(size - Gap)) \div PAGING_PAGESZ - 1 :
                        pgn > vm_end \div PAGING_PAGESZ}

\* inc_vma_limit: vm_end grows by whole pages, and each new page is mapped.
NewPages == {pgn \in 0..(vm_end + PageAlign(size - Gap)) \div PAGING_PAGESZ - 1 :
                pgn >= vm_end \div PAGING_PAGESZ}

AllocGrow ==
    /\ SearchDone
    /\ newrg = NoRegion
    /\ Gap < size
    /\ vm_end' = vm_end + PageAlign(size - Gap)
    /\ mapped' = mapped \cup NewPages
    /\ AllocAtBrk
    /\ Return
    /\ UNCHANGED <<vm_freerg_list, args, aborted>>

\* vm_end is raised before the pages are mapped; without a frame for one of
\* them __alloc returns -1, and the pages before it stay mapped.
GrowFails ==
    /\ SearchDone
    /\ newrg = NoRegion
    /\ Gap < size
    /\ vm_end' = vm_end + PageAlign(size - Gap)
    /\ \E failing \in NewPages : mapped' = mapped \cup {pgn \in NewPages : pgn < failing}
    /\ aborted' = TRUE
    /\ UNCHANGED <<vm_freerg_list, symrgtbl, sbrk, pc, args, rgit, newrg, taken>>

-----------------------------------------------------------------------------
(* __free                                                                  *)

\* get_symrg_byid finds nothing where start and end are the same.
Resolves(i) == symrgtbl[i].rg_start # symrgtbl[i].rg_end

\* Fault: the symbol keeps the freed region.
FreeKeepsSymbol(i) ==
    /\ ~aborted
    /\ pc = "idle"
    /\ Resolves(i)
    /\ vm_freerg_list' = <<symrgtbl[i]>> \o vm_freerg_list
    /\ UNCHANGED <<symrgtbl, limits, pc, args, rgit, newrg, taken, aborted>>

\* The region goes to the front of the free list; neighbours are not merged.
Free(i) ==
    /\ ~aborted
    /\ pc = "idle"
    /\ Resolves(i)
    /\ vm_freerg_list' = <<symrgtbl[i]>> \o vm_freerg_list
    /\ symrgtbl' = [symrgtbl EXCEPT ![i] = NoRegion]
    /\ UNCHANGED <<limits, pc, args, rgit, newrg, taken, aborted>>

\* A symbol without memory: the instruction returns -1.
FreeFails(i) ==
    /\ ~aborted
    /\ pc = "idle"
    /\ ~Resolves(i)
    /\ aborted' = TRUE
    /\ UNCHANGED <<vm_freerg_list, symrgtbl, limits, pc, args, rgit, newrg, taken>>

\* READ and WRITE leave the area alone; one that returns -1 ends the program.
AccessFails ==
    /\ ~aborted
    /\ pc = "idle"
    /\ aborted' = TRUE
    /\ UNCHANGED <<vm_freerg_list, symrgtbl, limits, pc, args, rgit, newrg, taken>>

-----------------------------------------------------------------------------
AllocStep ==
    \/ TakePart
    \/ TakeAll
    \/ SkipRegion
    \/ AllocFree
    \/ AllocGap
    \/ AllocGrow
    \/ GrowFails

Terminated == aborted /\ UNCHANGED vars

Next ==
    \/ \E i \in Ids, sz \in Sizes : CallAlloc(i, sz)
    \/ AllocStep
    \/ \E i \in Ids : Free(i) \/ FreeFails(i)
    \/ AccessFails
    \/ Terminated

Safety == Init /\ [][Next]_vars

-----------------------------------------------------------------------------
(* Properties.                                                             *)

Regions == [rg_start : Int, rg_end : Int]

\* Types of the area's fields.
TypeOK ==
    /\ vm_freerg_list \in Seq(Regions)
    /\ symrgtbl \in [Ids -> Regions]
    /\ sbrk \in Nat
    /\ vm_end \in Nat
    /\ pc \in {"idle", "search"}
    /\ rgid \in Ids
    /\ size \in Sizes
    /\ rgit \in Nat \ {0}
    /\ newrg \in Regions
    /\ mapped \in SUBSET Nat
    /\ taken \in Nat
    /\ aborted \in BOOLEAN

\* Nothing of the one region lies in the other.
Apart(r, s) == r.rg_end <= s.rg_start \/ s.rg_end <= r.rg_start

\* No byte belongs to two symbols, to a symbol and the free list, twice to
\* the free list, or to the region just cut out and any of them: however
\* often regions are freed, split, reused and cut again.
NoOverlap ==
    /\ \A i, j \in Ids : i # j => Apart(symrgtbl[i], symrgtbl[j])
    /\ \A i \in Ids, k \in 1..Len(vm_freerg_list) : Apart(symrgtbl[i], vm_freerg_list[k])
    /\ \A k, l \in 1..Len(vm_freerg_list) : k # l => Apart(vm_freerg_list[k], vm_freerg_list[l])
    /\ \A i \in Ids : Apart(newrg, symrgtbl[i])
    /\ \A k \in 1..Len(vm_freerg_list) : Apart(newrg, vm_freerg_list[k])

Inside(r) == 0 <= r.rg_start /\ r.rg_start <= r.rg_end /\ r.rg_end <= sbrk

\* Every region lies below sbrk, and sbrk below vm_end.
BelowBrk ==
    /\ \A i \in Ids : symrgtbl[i] = NoRegion \/ Inside(symrgtbl[i])
    /\ \A k \in 1..Len(vm_freerg_list) : Inside(vm_freerg_list[k])
    /\ newrg = NoRegion \/ Inside(newrg)
    /\ sbrk <= vm_end

\* Every byte of a symbol lies in a page that was mapped when the area grew.
MemoryMapped ==
    \A i \in Ids : symrgtbl[i] # NoRegion =>
        \A b \in symrgtbl[i].rg_start..symrgtbl[i].rg_end - 1 : b \div PAGING_PAGESZ \in mapped

\* A symbol has as many bytes as its program asked for, never fewer.
AllocGivesSize ==
    [][\A i \in Ids : symrgtbl'[i] # symrgtbl[i] /\ symrgtbl'[i] # NoRegion =>
          symrgtbl'[i].rg_end - symrgtbl'[i].rg_start = size]_vars

\* First fit: an allocation takes one piece of one free region.
FirstFit == taken <= 1

=============================================================================
