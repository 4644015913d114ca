----------------------------- MODULE ProcMemory -----------------------------
(***************************************************************************)
(* The memory instructions of one process: run() of src/src/cpu.c, the     *)
(* pg functions of src/src/mm-vm.c below it, and the two parts they join:  *)
(* the virtual memory area (VMRegions.tla) and demand paging (Paging.tla). *)
(* ALLOC grows the area and gets each new page through pg_getpage(); READ  *)
(* and WRITE look up a symbol, test the offset, and turn the address into  *)
(* a page.  One process on one CPU: RAM and swap are its own.              *)
(***************************************************************************)
EXTENDS VMRegions, FiniteSets

CONSTANTS
    Cpu, Caller,          \* the one CPU, and the one process
    PAGING_MAX_SYMTBL_SZ,
    Offsets,              \* the offsets a program uses
    RamFrames, SwpFrames, Junk

\* The symbols are the entries of the table; the pages are those of the bus.
ASSUME MemoryAssumption ==
    /\ PAGING_MAX_SYMTBL_SZ \in Nat
    /\ Ids = 0..PAGING_MAX_SYMTBL_SZ - 1
    /\ Offsets \subseteq Nat

VARIABLES
    pgd, lru, dangling, head, freed, storage, cpu, ended, usedAfter, given,  \* Paging
    pgit,                 \* the pages vmap_page_range has asked for
    doomed                \* __read has failed, pgwrite goes on

paging == <<pgd, lru, dangling, head, freed, storage, cpu, ended, usedAfter, given>>
memVars == <<vars, paging, pgit, doomed>>

P == INSTANCE Paging WITH
        Cpus <- {Cpu}, Procs <- {Caller}, Pages <- 0..PAGING_MAX_PGN - 1

MemInit ==
    /\ Init
    /\ P!Init
    /\ pgit = 0
    /\ doomed = FALSE

\* The program runs, and no page access is under way.
Ready == ended = "no" /\ ~aborted /\ cpu[Cpu].pc = "idle"
Between == Ready /\ pc = "idle" /\ ~doomed

-----------------------------------------------------------------------------
(* ALLOC and FREE                                                          *)

AllocOrFree ==
    /\ Ready
    /\ ~doomed
    /\ \/ \E i \in Ids, sz \in Sizes : CallAlloc(i, sz)
       \/ TakePart \/ TakeAll \/ SkipRegion \/ AllocFree \/ AllocGap
       \/ \E i \in Ids : Free(i) \/ FreeFails(i)
    /\ UNCHANGED <<paging, pgit, doomed>>

MustGrow == SearchDone /\ newrg = NoRegion /\ Gap < size

\* Fault: the pages are counted from the end of the last region.
MapStartAtBrk == sbrk

\* vm_map_ram() maps from old_end on.
MapStart == vm_end

\* vmap_page_range(): the pages of the growth, one pg_getpage() after the other.
MapPage ==
    /\ Ready
    /\ MustGrow
    /\ pgit < Cardinality(NewPages)
    /\ P!Run(Cpu, Caller, <<P!Step("map", PAGING_PGN(MapStart + pgit * PAGING_PAGESZ))>>)
    /\ pgit' = pgit + 1
    /\ UNCHANGED <<vars, doomed>>

GrowDone ==
    /\ Ready
    /\ pgit = Cardinality(NewPages)
    /\ AllocGrow
    /\ pgit' = 0
    /\ UNCHANGED <<paging, doomed>>

\* pg_getpage() failed for the last page asked for, and run() calls exit(0).
GrowStops ==
    /\ ended = "exit"
    /\ pgit > 0
    /\ GrowFails
    /\ mapped' = mapped \cup {pgn \in NewPages : pgn < vm_end \div PAGING_PAGESZ + pgit - 1}
    /\ pgit' = 0
    /\ UNCHANGED <<paging, doomed>>

-----------------------------------------------------------------------------
(* READ and WRITE                                                          *)

\* Indices inside the table, and one well behind it.
Operands == Ids \cup {PAGING_MAX_SYMTBL_SZ + 1}

\* Behind the table: get_symrg_byid() lets its size itself through as an
\* index, and __alloc() every index.  What lies there is unknown.
OutsideTable ==
    /\ Between
    /\ ended' = "undefined"
    /\ UNCHANGED <<vars, pgd, lru, dangling, head, freed, storage, cpu, usedAfter, given, pgit, doomed>>

\* Fault: the offset is not tested.
InAnyRange(i, offset) == i \in Ids /\ Resolves(i)

\* Fault: the test is off by one more.
InRangeAndOne(i, offset) ==
    /\ i \in Ids
    /\ Resolves(i)
    /\ symrgtbl[i].rg_start + offset <= symrgtbl[i].rg_end + 1

\* __read(), __write(): the end of a region is accepted, too.
InRange(i, offset) ==
    /\ i \in Ids
    /\ Resolves(i)
    /\ symrgtbl[i].rg_start + offset <= symrgtbl[i].rg_end

PageAt(i, offset) == PAGING_PGN(symrgtbl[i].rg_start + offset)

Execute(steps) == P!Run(Cpu, Caller, steps) /\ UNCHANGED <<vars, pgit>>

\* An instruction that touches no page and returns -1.
Faults == AccessFails /\ UNCHANGED <<paging, pgit, doomed>>

\* pgwrite()
PgWrite(destination, offset) ==
    /\ Between
    /\ \/ /\ InRange(destination, offset)
          /\ Execute(<<P!Step("write", PageAt(destination, offset))>>)
          /\ UNCHANGED doomed
       \/ /\ ~InRange(destination, offset)
          /\ Faults

\* pgread(): the byte read goes to offset 0 of the destination, also when
\* there is none, and what pgwrite() says is ignored.
PgRead(source, offset, destination) ==
    LET reads  == IF InRange(source, offset) THEN <<P!Step("read", PageAt(source, offset))>> ELSE << >>
        writes == IF InRange(destination, 0) THEN <<P!Step("write", PageAt(destination, 0))>> ELSE << >>
    IN
    /\ Between
    /\ \/ /\ reads \o writes # << >>
          /\ Execute(reads \o writes)
          /\ doomed' = (reads = << >>)
       \/ /\ reads \o writes = << >>
          /\ Faults

\* __free() of a symbol far behind the table: NULL, and -1.
PgFreeNothing ==
    /\ Between
    /\ Operands \ Ids # {}
    /\ Faults

PagingStep ==
    /\ P!GetPage(Cpu) \/ P!Access(Cpu)
    /\ UNCHANGED <<vars, pgit, doomed>>

\* run() saw -1 from pgread() or pgwrite(): exit(0).
AccessStops ==
    /\ ended = "exit" \/ (Ready /\ doomed)
    /\ Faults

Instruction ==
    \/ AllocOrFree
    \/ MapPage
    \/ GrowDone
    \/ GrowStops
    \/ PagingStep
    \/ AccessStops

Begin ==
    \/ \E i \in Operands, o \in Offsets : PgWrite(i, o)
    \/ \E i, j \in Operands, o \in Offsets : PgRead(i, o, j)
    \/ PgFreeNothing
    \/ OutsideTable

ProgramEnded == (aborted \/ ended = "undefined") /\ UNCHANGED memVars

MemNext == Instruction \/ Begin \/ ProgramEnded

MemSafety == MemInit /\ [][MemNext]_memVars

\* The CPU finishes the instruction it has begun.
MemSpec == MemSafety /\ WF_memVars(~Between /\ Instruction)

-----------------------------------------------------------------------------
(* Properties.                                                             *)

\* What __alloc() counts as mapped the paging can find: each page is on the
\* list of pages, or its entry leads to swap.  vmap_page_range() asked for it,
\* and no victim was forgotten since.  (The last victim is, when swap is full
\* and the failure is ignored.)
MappedByPaging ==
    Ready /\ head["swp"] # P!NULL("swp") =>
        \A pgn \in mapped :
            LET g == pgn % PAGING_MAX_PGN
            IN  P!IsOn(g, lru[Caller]) \/ P!SWAPPED \in pgd[Caller][g]

\* However the offsets are chosen, an access stays in the pages of the area:
\* "Accessing out-of-range region" is refused, but for the page right behind
\* it, which the end of the last region may be in.
WithinArea ==
    \A k \in DOMAIN lru[Caller] :
        \/ lru[Caller][k] * PAGING_PAGESZ <= vm_end
        \/ pgit > 0 /\ lru[Caller][k] \in NewPages

Bytes(r) == r.rg_start..r.rg_end - 1

\* __read() and __write() accept the end of a region, which may be a byte of a
\* neighbour.  Nothing worse: while the area fits the bus, the page and the
\* offset that an accepted access of symbol i goes to are those of a byte of
\* another symbol j only if the offset is the length of i, and then that byte
\* is the first of j.  (Which frame the page leads to is up to the paging.)
OverrunIsFirstByte ==
    sbrk <= PAGING_MAX_PGN * PAGING_PAGESZ =>
        \A i, j \in Ids, o \in Offsets : i # j /\ InRange(i, o) =>
            \A b \in Bytes(symrgtbl[j]) :
                /\ PageAt(i, o) = PAGING_PGN(b)
                /\ PAGING_OFFST(symrgtbl[i].rg_start + o) = PAGING_OFFST(b)
                => /\ symrgtbl[i].rg_start + o = symrgtbl[i].rg_end
                   /\ b = symrgtbl[j].rg_start

\* "Accessing out-of-range region" fails: what is written is in the region.
WritesInside ==
    [][\A i \in Ids, o \in Offsets :
          PgWrite(i, o) /\ ~aborted' => symrgtbl[i].rg_start + o < symrgtbl[i].rg_end]_memVars

\* Every instruction comes back, or ends the program.
InstructionReturns == ~Between ~> Between \/ aborted \/ ended = "undefined"

=============================================================================
