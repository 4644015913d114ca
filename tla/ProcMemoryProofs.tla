-------------------------- MODULE ProcMemoryProofs --------------------------
(***************************************************************************)
(* The memory instructions of a process implement the virtual memory area  *)
(* of VMRegions, whatever demand paging does below them: what is proved of *)
(* the area holds of the instructions.  And the area and demand paging     *)
(* agree on the pages there are.                                           *)
(***************************************************************************)
EXTENDS ProcMemory, VMRegionsProofs, FiniteSetTheorems, WellFoundedInduction

\* Every step of the instructions is one of VMRegions, or leaves it alone.
LEMMA MemStep == [MemNext]_memVars => [Next]_vars
<1> SUFFICES ASSUME [MemNext]_memVars PROVE [Next]_vars OBVIOUS
<1>1. CASE AllocOrFree
  BY <1>1 DEF AllocOrFree, Next, AllocStep
<1>2. CASE MapPage
  BY <1>2 DEF MapPage
<1>3. CASE GrowDone
  BY <1>3 DEF GrowDone, Next, AllocStep
<1>4. CASE GrowStops
  BY <1>4 DEF GrowStops, Next, AllocStep
<1>5. CASE PagingStep
  BY <1>5 DEF PagingStep
<1>6. CASE AccessStops
  BY <1>6 DEF AccessStops, Faults, Next
<1>7. CASE Begin
  <2>1. ASSUME NEW i \in Operands, NEW o \in Offsets, PgWrite(i, o) PROVE [Next]_vars
    BY <2>1 DEF PgWrite, Execute, Faults, Next
  <2>2. ASSUME NEW i \in Operands, NEW j \in Operands, NEW o \in Offsets, PgRead(i, o, j)
        PROVE  [Next]_vars
    BY <2>2 DEF PgRead, Execute, Faults, Next
  <2>3. ASSUME PgFreeNothing PROVE [Next]_vars
    BY <2>3 DEF PgFreeNothing, Faults, Next
  <2>4. ASSUME OutsideTable PROVE [Next]_vars
    BY <2>4 DEF OutsideTable
  <2> QED BY <1>7, <2>1, <2>2, <2>3, <2>4 DEF Begin
<1>8. CASE ProgramEnded
  BY <1>8 DEF ProgramEnded, memVars
<1>9. CASE UNCHANGED memVars
  BY <1>9 DEF memVars
<1> QED BY <1>1, <1>2, <1>3, <1>4, <1>5, <1>6, <1>7, <1>8, <1>9 DEF MemNext, Instruction

\* Every step of the instructions of cpu.c and of the paging below them is a
\* step of the virtual memory area, or leaves it alone.
THEOREM RefinesRegions == MemSafety => Safety
<1>1. MemInit => Init BY DEF MemInit
<1> QED BY <1>1, MemStep, PTL DEF MemSafety, Safety

\* The guarantees of the area hold of READ, WRITE, ALLOC and FREE, whatever
\* pages were swapped or could not be had: symbols and free regions share no
\* byte, lie below sbrk, and are mapped.
THEOREM MemoryApart == MemSafety => [](NoOverlap /\ BelowBrk /\ MemoryMapped)
<1> QED BY RefinesRegions, RegionsApart, RegionsBelowBrk, SymbolsMapped, PTL

\* Of the bytes of another symbol only the first can be reached, and that only
\* over the end of a region.
LEMMA ApartBytes == RegInv => OverrunIsFirstByte
<1> SUFFICES ASSUME RegInv, sbrk <= PAGING_MAX_PGN * PAGING_PAGESZ,
                    NEW i \in Ids, NEW j \in Ids, NEW o \in Offsets, i # j, InRange(i, o),
                    NEW b \in Bytes(symrgtbl[j]),
                    PageAt(i, o) = PAGING_PGN(b),
                    PAGING_OFFST(symrgtbl[i].rg_start + o) = PAGING_OFFST(b)
             PROVE  symrgtbl[i].rg_start + o = symrgtbl[i].rg_end /\ b = symrgtbl[j].rg_start
  BY DEF OverrunIsFirstByte
<1>1. symrgtbl[i] \in Regions /\ symrgtbl[j] \in Regions /\ sbrk \in Nat BY DEF RegInv, TypeOK
<1>2. PICK top, x : top = PAGING_MAX_PGN * PAGING_PAGESZ /\ x = symrgtbl[i].rg_start + o OBVIOUS
<1>3. top \in Nat /\ top > 0 BY <1>2, PageAssumption, BusAssumption
<1>4. o \in Nat BY MemoryAssumption
<1>5. Inside(symrgtbl[i]) BY <1>1 DEF InRange, Resolves, RegInv, BelowBrk, NoRegion, Region
<1>6. x \in Nat /\ symrgtbl[i].rg_start <= x /\ x <= symrgtbl[i].rg_end /\ symrgtbl[i].rg_end <= top
  BY <1>1, <1>2, <1>3, <1>4, <1>5 DEF InRange, Inside, Regions
<1>7. b \in Nat /\ b < top /\ symrgtbl[j].rg_start <= b /\ b < symrgtbl[j].rg_end /\ 0 <= symrgtbl[j].rg_start
  <2>1. symrgtbl[j] = NoRegion \/ Inside(symrgtbl[j]) BY DEF RegInv, BelowBrk
  <2> QED BY <1>1, <1>2, <1>3, <2>1 DEF Bytes, Inside, NoRegion, Region, Regions
<1>8. PAGING_PGN(x) = PAGING_PGN(b) /\ PAGING_OFFST(x) = PAGING_OFFST(b) BY <1>2 DEF PageAt
<1>9. CASE x < top
  <2>1. x = b BY <1>2, <1>6, <1>7, <1>8, <1>9, AddressSplit
  <2>2. Apart(symrgtbl[i], symrgtbl[j]) BY DEF RegInv, NoOverlap
  <2> QED BY <1>1, <1>2, <1>6, <1>7, <2>1, <2>2 DEF Apart, Regions
<1>10. CASE x = top
  <2>1. PAGING_PGN(top) = PAGING_PGN(0) /\ PAGING_OFFST(top) = PAGING_OFFST(0) BY <1>2, TopWraps
  <2>2. b = 0 BY <1>2, <1>3, <1>7, <1>8, <1>10, <2>1, AddressSplit
  <2> QED BY <1>1, <1>2, <1>6, <1>7, <1>10, <2>2 DEF Regions
<1> QED BY <1>1, <1>3, <1>6, <1>9, <1>10 DEF Regions

\* READ and WRITE accept an offset one byte too large.  However symbols were
\* allocated, freed and reused, for any page size and any width of the bus,
\* such an access can reach the first byte of a neighbour and no other byte of
\* another symbol.
THEOREM OverrunBounded == MemSafety => []OverrunIsFirstByte
<1> QED BY RefinesRegions, RegionsInvariant, ApartBytes, PTL

-----------------------------------------------------------------------------
(* The inductive invariant of the area and its pages.                      *)

BusPages == 0..PAGING_MAX_PGN - 1
Ops == {"map", "read", "write"}
GetFreeFp == {"fpn", "next", "store", "free"}     \* inside MEMPHY_get_freefp()
Pcs == GetFreeFp \cup {"getpage", "head", "victim", "swap", "enlist", "access"}
Steps == [op : Ops, page : BusPages]

BusyCpu ==
    [pc : Pcs, proc : {Caller}, todo : Seq(Steps) \ {<<>>}, failed : BOOLEAN, afterRead : BOOLEAN,
     mem : P!Mems, fp : Nat, next : Nat, ret : Nat, pte : SUBSET Nat, vic : Nat]

PagingTypes ==
    /\ cpu \in [{Cpu} -> {P!Idle} \cup BusyCpu]
    /\ pgd \in [{Caller} -> [BusPages -> SUBSET Nat]]
    /\ lru \in [{Caller} -> Seq(BusPages)]
    /\ head \in [P!Mems -> Nat]
    /\ pgit \in Nat

\* While pages are mapped __alloc() waits, so that NewPages stays what it is.
GrowInv == pgit > 0 => MustGrow /\ pgit <= Cardinality(NewPages)

\* A page of the area, or about to be one.
Reach(g) == g * PAGING_PAGESZ <= vm_end \/ (pgit > 0 /\ g \in NewPages)

ReachInv ==
    /\ \A k \in DOMAIN lru[Caller] : Reach(lru[Caller][k])
    /\ cpu[Cpu].pc # "idle" => \A k \in DOMAIN cpu[Cpu].todo : Reach(cpu[Cpu].todo[k].page)

\* MEMPHY_get_freefp() takes a node that there is.
HeadInv == cpu[Cpu].pc \in {"fpn", "next", "store"} => head[cpu[Cpu].mem] # P!NULL(cpu[Cpu].mem)

\* Where the CPU has the one page that no list and no entry may lead to: it is
\* the page vmap_page_range() asks for, it is put on the list, or it is the
\* victim.
InHand(g) ==
    \/ cpu[Cpu].pc \notin {"idle", "access"} /\ P!Op(Cpu) = "map" /\ g = P!Page(Cpu)
    \/ cpu[Cpu].pc = "enlist" /\ g = P!Page(Cpu)
    \/ cpu[Cpu].pc \in GetFreeFp \cup {"head"} /\ cpu[Cpu].mem = "swp" /\ g = cpu[Cpu].vic
    \/ cpu[Cpu].pc = "swap" /\ g = cpu[Cpu].vic

Known(g) == P!IsOn(g, lru[Caller]) \/ P!SWAPPED \in pgd[Caller][g] \/ InHand(g)

SwapLeft == ended = "no" /\ head["swp"] # P!NULL("swp")

\* The pages pg_getpage() was asked for: those that are mapped, and the first
\* of those that will be.
Asked ==
    {pgn % PAGING_MAX_PGN : pgn \in mapped}
        \cup {PAGING_PGN(vm_end + k * PAGING_PAGESZ) : k \in 0..pgit - 1}

KnownInv == SwapLeft => \A g \in Asked : Known(g)

PagesInv == PagingTypes /\ ReachInv /\ HeadInv /\ KnownInv

MemInv == MapInv /\ GrowInv /\ PagesInv

-----------------------------------------------------------------------------
(* Pages and lists.                                                        *)

\* The page of an address starts at the address, or below.
LEMMA PageBelow ==
    ASSUME NEW x \in Nat
    PROVE  /\ PAGING_PGN(x) \in BusPages
           /\ PAGING_PGN(x) <= x \div PAGING_PAGESZ
           /\ PAGING_PGN(x) * PAGING_PAGESZ <= x
<1> DEFINE p == PAGING_PAGESZ
           M == PAGING_MAX_PGN
           q == x \div p
           g == PAGING_PGN(x)
<1>1. p \in Nat /\ p > 0 /\ M \in Nat /\ M > 0 BY PageAssumption, BusAssumption
<1>2. q \in Nat /\ p * q <= x BY <1>1
<1>3. g = q % M BY DEF PAGING_PGN
<1> HIDE DEF q, g
<1>4. g \in 0..M - 1 /\ g <= q BY <1>1, <1>2, <1>3
<1>5. p * (q - g) \in Nat
  <2>1. q - g \in Nat BY <1>2, <1>4
  <2> QED BY <1>1, <2>1
<1>6. p * (q - g) = p * q - g * p BY <1>1, <1>2, <1>4
<1>7. g * p <= x BY <1>1, <1>2, <1>4, <1>5, <1>6
<1> QED BY <1>4, <1>7 DEF q, g, BusPages

\* inc_vma_limit() adds the pages from vm_end on, one after the other.
LEMMA Growth ==
    ASSUME MapInv, ~aborted, MustGrow
    PROVE  \E k, m \in Nat :
              /\ vm_end = k * PAGING_PAGESZ
              /\ NewPages = k..k + m - 1
              /\ Cardinality(NewPages) = m
              /\ vm_end + PageAlign(size - Gap) = (k + m) * PAGING_PAGESZ
              /\ \A j \in Nat : PAGING_PGN(vm_end + j * PAGING_PAGESZ) = (k + j) % PAGING_MAX_PGN
<1>1. PICK k \in Nat : WholePages(k) BY DEF MapInv
<1>2. size - Gap \in Nat
  BY SizesAssumption DEF MapInv, RegInv, TypeOK, BelowBrk, Gap, MustGrow
<1>3. PICK m \in Nat : PageAlign(size - Gap) = m * PAGING_PAGESZ BY <1>2, PageAlignPages
<1>4. vm_end + PageAlign(size - Gap) = (k + m) * PAGING_PAGESZ
  BY <1>1, <1>3, PageAssumption DEF WholePages
<1>5. (vm_end + PageAlign(size - Gap)) \div PAGING_PAGESZ = k + m BY <1>4, FirstPageOf
<1>6. vm_end \div PAGING_PAGESZ = k BY <1>1, FirstPageOf DEF WholePages
<1>7. NewPages = k..k + m - 1 BY <1>5, <1>6 DEF NewPages
<1>8. Cardinality(k..k + m - 1) = m
  <2>1. Cardinality(k..k + m - 1) = IF k > k + m - 1 THEN 0 ELSE (k + m - 1) - k + 1
    BY FS_Interval
  <2> QED BY <2>1
<1>9. ASSUME NEW j \in Nat PROVE PAGING_PGN(vm_end + j * PAGING_PAGESZ) = (k + j) % PAGING_MAX_PGN
  <2>1. vm_end + j * PAGING_PAGESZ = (k + j) * PAGING_PAGESZ
    BY <1>1, PageAssumption DEF WholePages
  <2>2. (vm_end + j * PAGING_PAGESZ) \div PAGING_PAGESZ = k + j BY <2>1, FirstPageOf
  <2> QED BY <2>2 DEF PAGING_PGN
<1> QED BY <1>1, <1>4, <1>7, <1>8, <1>9 DEF WholePages

\* FirstOf() finds the page on a list that has it.
LEMMA FirstIsOn ==
    ASSUME NEW S, NEW list \in Seq(S), NEW g, P!IsOn(g, list)
    PROVE  P!FirstOf(g, list) \in DOMAIN list /\ list[P!FirstOf(g, list)] = g
<1> DEFINE T == {i \in DOMAIN list : list[i] = g}
<1>1. T \subseteq Nat /\ T # {} BY DEF P!IsOn
<1> HIDE DEF T
<1>2. \E n \in T : \A m \in T : <<m, n>> \notin OpToRel(<, Nat)
  BY <1>1, WFMin, NatLessThanWellFounded, Zenon
<1>3. PICK n \in T : \A m \in T : ~(m < n) BY <1>1, <1>2, Zenon DEF OpToRel
<1>4. n \in DOMAIN list /\ list[n] = g BY DEF T
<1>5. ASSUME NEW j \in 1..n - 1 PROVE list[j] # g
  <2>1. j < n /\ j \in DOMAIN list BY <1>4
  <2>2. j \notin T BY <1>3, <2>1
  <2> QED BY <2>1, <2>2 DEF T
<1> QED BY <1>4, <1>5 DEF P!FirstOf

\* enlist_pgn_node(): the list has the page, and those it had.
LEMMA InFrontPages ==
    ASSUME NEW S, NEW g \in S, NEW list \in Seq(S)
    PROVE  /\ P!InFront(g, list) \in Seq(S)
           /\ \A h : P!IsOn(h, P!InFront(g, list)) <=> h = g \/ P!IsOn(h, list)
<1>1. PICK new : new = P!InFront(g, list) OBVIOUS
<1>2. DOMAIN list = 1..Len(list) /\ Len(list) \in Nat OBVIOUS
<1>3. CASE P!IsOn(g, list)
  <2>1. PICK at : at = P!FirstOf(g, list) OBVIOUS
  <2>2. at \in 1..Len(list) /\ list[at] = g BY <1>2, <1>3, <2>1, FirstIsOn
  <2>3. new = [i \in 1..Len(list) |-> IF i = 1 THEN g ELSE IF i <= at THEN list[i - 1] ELSE list[i]]
    BY <1>1, <1>2, <1>3, <2>1 DEF P!InFront
  <2>4. new \in Seq(S) /\ DOMAIN new = 1..Len(list) BY <2>2, <2>3
  <2>5. new[1] = g BY <2>2, <2>3
  <2>6. \A i \in 2..at : new[i] = list[i - 1] /\ i - 1 \in 1..Len(list) BY <2>2, <2>3
  <2>7. \A i \in at + 1..Len(list) : new[i] = list[i] BY <2>2, <2>3
  <2>8. ASSUME NEW h, P!IsOn(h, new) PROVE h = g \/ P!IsOn(h, list)
    <3>1. PICK i \in 1..Len(list) : new[i] = h BY <2>4, <2>8 DEF P!IsOn
    <3>2. i = 1 \/ i \in 2..at \/ i \in at + 1..Len(list) BY <2>2
    <3> QED BY <1>2, <2>5, <2>6, <2>7, <3>1, <3>2 DEF P!IsOn
  <2>9. ASSUME NEW h, P!IsOn(h, list) PROVE P!IsOn(h, new)
    <3>1. PICK i \in 1..Len(list) : list[i] = h BY <1>2, <2>9 DEF P!IsOn
    <3>2. CASE i < at
      <4>1. i + 1 \in 2..at /\ i + 1 \in 1..Len(list) /\ (i + 1) - 1 = i BY <2>2, <3>2
      <4>2. new[i + 1] = h BY <2>6, <3>1, <4>1
      <4> QED BY <2>4, <4>1, <4>2 DEF P!IsOn
    <3>3. CASE i = at
      <4>1. 1 \in 1..Len(list) /\ h = g BY <2>2, <3>1, <3>3
      <4> QED BY <2>4, <2>5, <4>1 DEF P!IsOn
    <3>4. CASE i > at
      <4>1. i \in at + 1..Len(list) BY <2>2, <3>4
      <4>2. new[i] = h BY <2>7, <3>1, <4>1
      <4> QED BY <2>4, <4>2 DEF P!IsOn
    <3> QED BY <2>2, <3>2, <3>3, <3>4
  <2>10. P!IsOn(g, new)
    <3>1. 1 \in 1..Len(list) BY <2>2
    <3> QED BY <2>4, <2>5, <3>1 DEF P!IsOn
  <2> QED BY <1>1, <2>4, <2>8, <2>9, <2>10
<1>4. CASE ~P!IsOn(g, list)
  <2>1. new = <<g>> \o list BY <1>1, <1>4 DEF P!InFront
  <2>2. new \in Seq(S) /\ Len(new) = Len(list) + 1 /\ DOMAIN new = 1..Len(new) BY <2>1
  <2>3. new[1] = g /\ \A i \in 1..Len(list) : new[i + 1] = list[i] BY <2>1
  <2>4. ASSUME NEW h, P!IsOn(h, new) PROVE h = g \/ P!IsOn(h, list)
    <3>1. PICK i \in 1..Len(list) + 1 : new[i] = h BY <2>2, <2>4 DEF P!IsOn
    <3>2. CASE i = 1 BY <2>3, <3>1, <3>2
    <3>3. CASE i # 1
      <4>1. i - 1 \in 1..Len(list) /\ (i - 1) + 1 = i BY <1>2, <3>3
      <4>2. list[i - 1] = h BY <2>3, <3>1, <4>1
      <4> QED BY <1>2, <4>1, <4>2 DEF P!IsOn
    <3> QED BY <3>2, <3>3
  <2>5. ASSUME NEW h, P!IsOn(h, list) PROVE P!IsOn(h, new)
    <3>1. PICK i \in 1..Len(list) : list[i] = h BY <1>2, <2>5 DEF P!IsOn
    <3>2. i + 1 \in DOMAIN new /\ new[i + 1] = h BY <1>2, <2>2, <2>3, <3>1
    <3> QED BY <3>2 DEF P!IsOn
  <2>6. P!IsOn(g, new)
    <3>1. 1 \in DOMAIN new BY <1>2, <2>2
    <3> QED BY <2>3, <3>1 DEF P!IsOn
  <2> QED BY <1>1, <2>2, <2>4, <2>5, <2>6
<1> QED BY <1>3, <1>4

-----------------------------------------------------------------------------
(* The steps of demand paging, while the area stays what it is.            *)

\* What the CPU has inside an instruction: a page to get.
LEMMA BusyTypes ==
    ASSUME PagingTypes, cpu[Cpu].pc # "idle"
    PROVE  /\ cpu[Cpu] \in BusyCpu
           /\ P!Proc(Cpu) = Caller /\ P!Page(Cpu) \in BusPages /\ P!Op(Cpu) \in Ops
           /\ cpu[Cpu].todo \in Seq(Steps) /\ cpu[Cpu].todo # <<>>
           /\ Len(cpu[Cpu].todo) \in Nat \ {0}
           /\ P!Page(Cpu) = cpu[Cpu].todo[1].page
           /\ pgd[Caller] \in [BusPages -> SUBSET Nat] /\ lru[Caller] \in Seq(BusPages)
<1>1. cpu[Cpu] \in BusyCpu BY DEF PagingTypes, P!Idle
<1>2. cpu[Cpu].todo \in Seq(Steps) /\ cpu[Cpu].todo # <<>> BY <1>1 DEF BusyCpu
<1>3. PICK todo : todo = cpu[Cpu].todo OBVIOUS
<1>4. todo[1] \in Steps /\ Head(todo) = todo[1] /\ Len(todo) \in Nat \ {0} BY <1>2, <1>3
<1> QED BY <1>1, <1>2, <1>3, <1>4 DEF BusyCpu, Steps, P!Proc, P!Page, P!Op, PagingTypes

\* The pages of the area stay what they are when the area does.
LEMMA ReachStays ==
    ASSUME UNCHANGED <<vars, pgit>>
    PROVE  /\ \A g : Reach(g)' = Reach(g)
           /\ Asked' = Asked
           /\ GrowInv => GrowInv'
<1>1. UNCHANGED <<vm_freerg_list, sbrk, vm_end, mapped, pc, rgid, size, rgit, newrg, aborted, pgit>>
  BY DEF vars, limits, args
<1>2. NewPages' = NewPages /\ MustGrow' = MustGrow
  BY <1>1 DEF NewPages, Gap, PageAlign, MustGrow, SearchDone
<1> QED BY <1>1, <1>2 DEF Reach, GrowInv, Asked, PAGING_PGN

\* A step of pg_getpage() that changes neither the list nor the page table,
\* and does not let go of what is in the hands of the CPU.
LEMMA MoveKeeps ==
    ASSUME PagesInv, UNCHANGED <<vars, pgit, lru, pgd>>, cpu[Cpu].pc # "idle",
           NEW new \in BusyCpu, cpu' = [cpu EXCEPT ![Cpu] = new],
           new.todo = cpu[Cpu].todo, head' \in [P!Mems -> Nat],
           SwapLeft' => SwapLeft,
           \A g : InHand(g) => InHand(g)',
           HeadInv'
    PROVE  PagesInv'
<1>1. cpu'[Cpu] = new /\ new.pc # "idle" /\ cpu' \in [{Cpu} -> {P!Idle} \cup BusyCpu]
  BY DEF PagesInv, PagingTypes, BusyCpu, Pcs, GetFreeFp
<1>2. PagingTypes' BY <1>1 DEF PagesInv, PagingTypes
<1>3. ReachInv' BY <1>1, ReachStays DEF PagesInv, ReachInv
<1>4. ASSUME NEW g, Known(g) PROVE Known(g)' BY <1>4 DEF Known
<1>5. KnownInv' BY <1>4, ReachStays DEF PagesInv, KnownInv
<1> QED BY <1>2, <1>3, <1>5 DEF PagesInv

\* The CPU goes on with the next page of the instruction, or is done with it.
LEMMA ContinueKeeps ==
    ASSUME PagesInv, UNCHANGED <<vars, pgit, lru, pgd, head>>, cpu[Cpu].pc # "idle",
           NEW failed \in BOOLEAN, P!Continue(Cpu, failed),
           SwapLeft' => \A g : ~InHand(g)
    PROVE  PagesInv'
<1>1. /\ cpu[Cpu] \in BusyCpu /\ P!Op(Cpu) \in Ops
      /\ cpu[Cpu].todo \in Seq(Steps) /\ cpu[Cpu].todo # <<>>
  BY BusyTypes DEF PagesInv
<1>2. PICK todo, rest, bad :
          /\ todo = cpu[Cpu].todo
          /\ rest = Tail(cpu[Cpu].todo)
          /\ bad = (cpu[Cpu].failed \/ (failed /\ ~(P!Op(Cpu) = "write" /\ cpu[Cpu].afterRead)))
  OBVIOUS
<1>3. bad \in BOOLEAN /\ rest \in Seq(Steps)
      /\ \A k \in DOMAIN rest : k + 1 \in DOMAIN todo /\ rest[k] = todo[k + 1]
  BY <1>1, <1>2 DEF BusyCpu
<1>4. /\ cpu' \in [{Cpu} -> {P!Idle} \cup BusyCpu]
      /\ cpu'[Cpu].pc \in {"idle", "getpage"}
      /\ cpu'[Cpu].pc # "idle" => cpu'[Cpu].todo = rest
      /\ ended' = "no" => ended = "no"
  <2>1. CASE rest = <<>> \/ (P!Op(Cpu) = "map" /\ bad)
    <3>1. cpu' = [cpu EXCEPT ![Cpu] = P!Idle] /\ ended' = IF bad THEN "exit" ELSE ended
      BY <1>2, <2>1 DEF P!Continue
    <3> QED BY <3>1 DEF PagesInv, PagingTypes, P!Idle
  <2>2. CASE ~(rest = <<>> \/ (P!Op(Cpu) = "map" /\ bad))
    <3>1. PICK new : new = [cpu[Cpu] EXCEPT !.pc = "getpage", !.todo = rest,
                                            !.failed = bad, !.afterRead = P!Op(Cpu) = "read"]
      OBVIOUS
    <3>2. cpu' = [cpu EXCEPT ![Cpu] = new] /\ ended' = ended
      BY <1>2, <2>2, <3>1 DEF P!Continue
    <3>3. new \in BusyCpu /\ new.pc = "getpage" /\ new.todo = rest
      BY <1>1, <1>3, <2>2, <3>1 DEF BusyCpu, Pcs
    <3> QED BY <3>2, <3>3 DEF PagesInv, PagingTypes
  <2> QED BY <2>1, <2>2
<1>5. PagingTypes' BY <1>4 DEF PagesInv, PagingTypes
<1>6. ReachInv'
  <2>1. \A k \in DOMAIN todo : Reach(todo[k].page) BY <1>2 DEF PagesInv, ReachInv
  <2>2. \A k \in DOMAIN rest : Reach(rest[k].page)' BY <1>3, <2>1, ReachStays
  <2> QED BY <1>4, <2>2, ReachStays DEF PagesInv, ReachInv
<1>7. HeadInv' BY <1>4 DEF HeadInv
<1>8. KnownInv'
  <2>1. SUFFICES ASSUME SwapLeft' PROVE \A g \in Asked : Known(g)'
    BY ReachStays DEF KnownInv
  <2>2. SwapLeft BY <1>4, <2>1 DEF SwapLeft
  <2> QED BY <2>1, <2>2 DEF PagesInv, KnownInv, Known
<1> QED BY <1>5, <1>6, <1>7, <1>8 DEF PagesInv

\* find_victim_page(): the page that leaves the list is in hand.
LEMMA VictimKeeps ==
    ASSUME PagesInv, UNCHANGED <<vars, pgit>>, P!FindVictim(Cpu)
    PROVE  PagesInv'
<1>1. /\ cpu[Cpu].pc = "victim" /\ cpu[Cpu] \in BusyCpu
      /\ P!Proc(Cpu) = Caller /\ lru[Caller] \in Seq(BusPages) /\ Len(lru[Caller]) > 0
  BY BusyTypes DEF P!FindVictim, P!At, PagesInv
<1>2. PICK list, n : list = lru[Caller] /\ n = Len(list) OBVIOUS
<1>3. n \in Nat \ {0} /\ list \in Seq(BusPages) /\ DOMAIN list = 1..n /\ list[n] \in BusPages
  BY <1>1, <1>2
<1>4. PICK new, short : /\ new = [cpu[Cpu] EXCEPT !.pc = "head", !.mem = "swp", !.vic = list[n]]
                        /\ short = SubSeq(list, 1, n - 1)
  OBVIOUS
<1>5. /\ cpu' = [cpu EXCEPT ![Cpu] = new] /\ lru' = [lru EXCEPT ![Caller] = short]
      /\ UNCHANGED <<pgd, head, ended>>
  BY <1>1, <1>2, <1>4 DEF P!FindVictim
<1>6. new \in BusyCpu /\ new.pc = "head" /\ new.mem = "swp" /\ new.vic = list[n]
      /\ new.todo = cpu[Cpu].todo
  <2>1. BusPages \subseteq Nat BY BusAssumption DEF BusPages
  <2>2. list[n] \in Nat BY <1>3, <2>1
  <2> QED BY <1>1, <1>4, <2>2 DEF BusyCpu, Pcs, P!Mems
<1>7. short \in Seq(BusPages) /\ DOMAIN short = 1..n - 1 /\ \A k \in 1..n - 1 : short[k] = list[k]
  BY <1>3, <1>4
<1>8. lru'[Caller] = short /\ cpu'[Cpu] = new
  BY <1>5 DEF PagesInv, PagingTypes
<1>9. PagingTypes' BY <1>5, <1>6, <1>7 DEF PagesInv, PagingTypes
<1>10. ReachInv'
  <2>1. \A k \in DOMAIN short : Reach(short[k])
    BY <1>2, <1>3, <1>7 DEF PagesInv, ReachInv
  <2> QED BY <1>1, <1>6, <1>8, <2>1, ReachStays DEF PagesInv, ReachInv
<1>11. HeadInv' BY <1>6, <1>8 DEF HeadInv
<1>12. KnownInv'
  <2>1. SwapLeft' = SwapLeft BY <1>5 DEF SwapLeft, P!NULL, P!NumFrames
  <2>2. ASSUME NEW g, P!IsOn(g, list) PROVE P!IsOn(g, short) \/ g = list[n]
    <3>1. PICK i \in 1..n : list[i] = g BY <1>3, <2>2 DEF P!IsOn
    <3>2. i = n \/ i \in 1..n - 1 BY <1>3
    <3> QED BY <1>7, <3>1, <3>2 DEF P!IsOn
  <2>3. ASSUME NEW g, InHand(g) PROVE InHand(g)'
    BY <1>1, <1>6, <1>8, <2>3 DEF InHand, P!Op, P!Page, GetFreeFp
  <2>4. InHand(list[n])' BY <1>6, <1>8 DEF InHand
  <2>5. ASSUME NEW g, Known(g) PROVE Known(g)'
    BY <1>2, <1>5, <1>8, <2>2, <2>3, <2>4, <2>5 DEF Known
  <2> QED BY <2>1, <2>5, ReachStays DEF PagesInv, KnownInv
<1> QED BY <1>9, <1>10, <1>11, <1>12 DEF PagesInv

\* SETVAL stores words, whatever it is given, and only sets bits of the mask.
LEMMA SetvalBits ==
    ASSUME NEW v \in SUBSET Nat, NEW value, NEW mask \in SUBSET Nat, NEW offst
    PROVE  /\ P!SETVAL(v, value, mask, offst) \in SUBSET Nat
           /\ \A i \in v : i \notin mask => i \in P!SETVAL(v, value, mask, offst)
BY DEF P!SETVAL

\* The entries of the two pages of a swap are words, and that of the victim
\* leads to swap.
LEMMA SwapEntries ==
    ASSUME NEW pte \in SUBSET Nat, NEW fpn
    PROVE  /\ P!pte_set_fpn(pte, fpn) \in SUBSET Nat
           /\ P!VictimPte(pte, fpn) \in SUBSET Nat
           /\ P!SWAPPED \in P!VictimPte(pte, fpn)
<1>1. P!FPN_MASK \in SUBSET Nat /\ P!SWPTYP_MASK \in SUBSET Nat /\ P!SWPOFF_MASK \in SUBSET Nat
  BY DEF P!FPN_MASK, P!SWPTYP_MASK, P!SWPOFF_MASK
<1>2. P!PRESENT \in Nat /\ P!SWAPPED \in Nat /\ P!SWAPPED # P!PRESENT
      /\ P!SWAPPED \notin P!SWPTYP_MASK /\ P!SWAPPED \notin P!SWPOFF_MASK
  BY DEF P!PRESENT, P!SWAPPED, P!SWPTYP_MASK, P!SWPOFF_MASK
<1>3. P!pte_set_fpn(pte, fpn) \in SUBSET Nat
  BY <1>1, <1>2, SetvalBits DEF P!pte_set_fpn
<1>4. PICK typed : typed = P!SETVAL(pte \cup {P!PRESENT, P!SWAPPED}, 0, P!SWPTYP_MASK, P!SWPTYP_LOBIT)
  OBVIOUS
<1>5. typed \in SUBSET Nat /\ P!SWAPPED \in typed
  BY <1>1, <1>2, <1>4, SetvalBits
<1>6. P!VictimPte(pte, fpn) = P!SETVAL(typed, 256 * fpn, P!SWPOFF_MASK, P!SWPOFF_LOBIT) \ {P!PRESENT}
  BY <1>4 DEF P!VictimPte, P!pte_set_swap
<1>7. /\ P!SETVAL(typed, 256 * fpn, P!SWPOFF_MASK, P!SWPOFF_LOBIT) \in SUBSET Nat
      /\ P!SWAPPED \in P!SETVAL(typed, 256 * fpn, P!SWPOFF_MASK, P!SWPOFF_LOBIT)
  BY <1>1, <1>2, <1>5, SetvalBits
<1> QED BY <1>2, <1>3, <1>6, <1>7

\* The victim's entry leads to swap, and the page that came in is in hand.
LEMMA SwapKeeps ==
    ASSUME PagesInv, Asked \subseteq BusPages, UNCHANGED <<vars, pgit>>, P!SwapPages(Cpu)
    PROVE  PagesInv'
<1>1. /\ cpu[Cpu].pc = "swap" /\ cpu[Cpu] \in BusyCpu
      /\ P!Proc(Cpu) = Caller /\ P!Page(Cpu) \in BusPages /\ P!Op(Cpu) \in Ops
      /\ pgd[Caller] \in [BusPages -> SUBSET Nat]
  BY BusyTypes DEF P!SwapPages, P!At, PagesInv
<1>2. PICK g, v, table : g = P!Page(Cpu) /\ v = cpu[Cpu].vic /\ table = pgd[Caller] OBVIOUS
<1>3. PICK pte, vicpte : /\ pte = P!pte_set_fpn(cpu[Cpu].pte, P!PAGING_FPN(table[v]))
                         /\ vicpte = P!VictimPte(table[v], cpu[Cpu].ret)
  OBVIOUS
<1>4. pte \in SUBSET Nat BY <1>1, <1>3, SwapEntries DEF BusyCpu
<1>5. v \in BusPages => vicpte \in SUBSET Nat /\ P!SWAPPED \in vicpte
  BY <1>1, <1>2, <1>3, SwapEntries
<1>6. PICK new, after : /\ new = [cpu[Cpu] EXCEPT !.pc = "enlist", !.pte = pte]
                        /\ after = [table EXCEPT ![v] = vicpte, ![g] = pte]
  OBVIOUS
<1>7. /\ cpu' = [cpu EXCEPT ![Cpu] = new] /\ pgd' = [pgd EXCEPT ![Caller] = after]
      /\ UNCHANGED <<lru, head, ended>>
  BY <1>1, <1>2, <1>3, <1>6 DEF P!SwapPages
<1>8. new \in BusyCpu /\ new.pc = "enlist" /\ new.todo = cpu[Cpu].todo
  BY <1>1, <1>4, <1>6 DEF BusyCpu, Pcs
<1>9. /\ after \in [BusPages -> SUBSET Nat]
      /\ \A h \in BusPages : h # g => after[h] = IF h = v THEN vicpte ELSE table[h]
  BY <1>1, <1>2, <1>4, <1>5, <1>6
<1>10. cpu'[Cpu] = new /\ pgd'[Caller] = after BY <1>7 DEF PagesInv, PagingTypes
<1>11. PagingTypes' BY <1>7, <1>8, <1>9 DEF PagesInv, PagingTypes
<1>12. ReachInv' BY <1>1, <1>7, <1>8, <1>10, ReachStays DEF PagesInv, ReachInv
<1>13. HeadInv' BY <1>8, <1>10 DEF HeadInv
<1>14. KnownInv'
  <2>1. SwapLeft' = SwapLeft BY <1>7 DEF SwapLeft, P!NULL, P!NumFrames
  <2>2. InHand(g)' BY <1>2, <1>8, <1>10 DEF InHand, P!Page
  <2>3. ASSUME NEW h \in BusPages, Known(h), h # g, h # v PROVE Known(h)'
    <3>1. ~InHand(h) BY <1>1, <1>2, <2>3 DEF InHand
    <3>2. after[h] = pgd[Caller][h] BY <1>2, <1>9, <2>3
    <3> QED BY <1>7, <1>10, <2>3, <3>1, <3>2 DEF Known
  <2>4. ASSUME v \in BusPages, v # g PROVE Known(v)'
    <3>1. P!SWAPPED \in after[v] BY <1>5, <1>9, <2>4
    <3> QED BY <1>10, <3>1 DEF Known
  <2> QED BY <2>1, <2>2, <2>3, <2>4, ReachStays DEF PagesInv, KnownInv, Known
<1> QED BY <1>11, <1>12, <1>13, <1>14 DEF PagesInv

\* enlist_pgn_node(): the page goes from the hands of the CPU to the list.
LEMMA EnlistKeeps ==
    ASSUME PagesInv, UNCHANGED <<vars, pgit>>, P!Enlist(Cpu)
    PROVE  PagesInv'
<1>1. /\ cpu[Cpu].pc = "enlist" /\ cpu[Cpu] \in BusyCpu
      /\ P!Proc(Cpu) = Caller /\ P!Page(Cpu) \in BusPages
      /\ cpu[Cpu].todo \in Seq(Steps) /\ Len(cpu[Cpu].todo) \in Nat \ {0}
      /\ P!Page(Cpu) = cpu[Cpu].todo[1].page
      /\ lru[Caller] \in Seq(BusPages)
  BY BusyTypes DEF P!Enlist, P!At, PagesInv
<1>2. PICK g, list, longer : g = P!Page(Cpu) /\ list = lru[Caller] /\ longer = P!InFront(g, list)
  OBVIOUS
<1>3. longer \in Seq(BusPages) /\ \A h : P!IsOn(h, longer) <=> h = g \/ P!IsOn(h, list)
  BY <1>1, <1>2, InFrontPages
<1>4. PICK new : new = [cpu[Cpu] EXCEPT !.pc = "access"] OBVIOUS
<1>5. /\ cpu' = [cpu EXCEPT ![Cpu] = new] /\ lru' = [lru EXCEPT ![Caller] = longer]
      /\ UNCHANGED <<pgd, head, ended>>
  BY <1>1, <1>2, <1>4 DEF P!Enlist, P!Goto
<1>6. new \in BusyCpu /\ new.pc = "access" /\ new.todo = cpu[Cpu].todo
  BY <1>1, <1>4 DEF BusyCpu, Pcs
<1>7. cpu'[Cpu] = new /\ lru'[Caller] = longer BY <1>5 DEF PagesInv, PagingTypes
<1>8. PagingTypes' BY <1>3, <1>5, <1>6 DEF PagesInv, PagingTypes
<1>9. ReachInv'
  <2>1. Reach(g) BY <1>1, <1>2 DEF PagesInv, ReachInv
  <2>2. ASSUME NEW k \in DOMAIN longer PROVE Reach(longer[k])
    <3>1. P!IsOn(longer[k], longer) BY DEF P!IsOn
    <3>2. CASE longer[k] = g BY <2>1, <3>2
    <3>3. CASE P!IsOn(longer[k], list)
      <4>1. PICK i \in DOMAIN list : list[i] = longer[k] BY <3>3 DEF P!IsOn
      <4>2. Reach(list[i]) BY <1>2 DEF PagesInv, ReachInv
      <4> QED BY <4>1, <4>2
    <3> QED BY <1>3, <3>1, <3>2, <3>3
  <2> QED BY <1>1, <1>6, <1>7, <2>2, ReachStays DEF PagesInv, ReachInv
<1>10. HeadInv' BY <1>6, <1>7 DEF HeadInv
<1>11. KnownInv'
  <2>1. SwapLeft' = SwapLeft BY <1>5 DEF SwapLeft, P!NULL, P!NumFrames
  <2>2. ASSUME NEW h, Known(h) PROVE Known(h)'
    <3>1. InHand(h) => h = g BY <1>1, <1>2 DEF InHand, GetFreeFp
    <3> QED BY <1>2, <1>3, <1>5, <1>7, <2>2, <3>1 DEF Known
  <2> QED BY <2>1, <2>2, ReachStays DEF PagesInv, KnownInv
<1> QED BY <1>8, <1>9, <1>10, <1>11 DEF PagesInv

\* Every step of pg_getpage() and of the access after it keeps the pages of
\* the area: those on the list lie in it, and each of them can be found.
LEMMA PagingKeeps ==
    ASSUME PagesInv, Asked \subseteq BusPages, PagingStep
    PROVE  PagesInv'
<1>1. UNCHANGED <<vars, pgit>> BY DEF PagingStep
<1> USE DEF P!At
<1>2. CASE P!PageOnline(Cpu)
  <2>1. cpu[Cpu].pc # "idle" /\ cpu[Cpu] \in BusyCpu
    BY <1>2, BusyTypes DEF P!PageOnline, PagesInv
  <2>10. P!Entry(Cpu) \in SUBSET Nat
    BY <2>1, BusyTypes DEF P!Entry, PagesInv
  <2>2. PICK new : new = [cpu[Cpu] EXCEPT !.pc = "enlist", !.pte = P!Entry(Cpu)] OBVIOUS
  <2>3. new \in BusyCpu /\ new.todo = cpu[Cpu].todo
    BY <2>1, <2>2, <2>10 DEF BusyCpu, Pcs, GetFreeFp, P!Mems
  <2>4. cpu' = [cpu EXCEPT ![Cpu] = new] /\ UNCHANGED <<pgd, lru, head, ended>>
    BY <1>2, <2>2 DEF P!PageOnline, P!Goto, P!Fp, P!FpnOf
  <2>5. cpu'[Cpu] = new BY <2>4 DEF PagesInv, PagingTypes
  <2>6. \A g : InHand(g) => InHand(g)'
    <3>1. cpu[Cpu].pc = "getpage" BY <1>2 DEF P!PageOnline
    <3>2. new.pc = "enlist" BY <2>1, <2>2 DEF BusyCpu
    <3>3. P!Op(Cpu)' = P!Op(Cpu) /\ P!Page(Cpu)' = P!Page(Cpu)
      BY <2>3, <2>5 DEF P!Op, P!Page
    <3>4. ASSUME NEW g, InHand(g) PROVE P!Op(Cpu) = "map" /\ g = P!Page(Cpu)
      BY <3>1, <3>4 DEF InHand, GetFreeFp
    <3> QED BY <2>5, <3>2, <3>3, <3>4 DEF InHand
  <2>7. HeadInv'
    BY <1>2, <2>1, <2>2, <2>4, <2>5 DEF P!PageOnline, HeadInv, PagesInv, BusyCpu, P!NULL, P!NumFrames
  <2>8. SwapLeft' => SwapLeft BY <1>2, <2>4 DEF SwapLeft, P!NULL, P!NumFrames
  <2>9. head' \in [P!Mems -> Nat] BY <2>4 DEF PagesInv, PagingTypes
  <2> QED BY <1>1, <2>1, <2>3, <2>4, <2>6, <2>7, <2>8, <2>9, MoveKeeps
<1>3. CASE P!PageOffline(Cpu)
  <2>1. cpu[Cpu].pc # "idle" /\ cpu[Cpu] \in BusyCpu
    BY <1>3, BusyTypes DEF P!PageOffline, PagesInv
  <2>10. P!Entry(Cpu) \in SUBSET Nat
    BY <2>1, BusyTypes DEF P!Entry, PagesInv
  <2>2. PICK new : new = [cpu[Cpu] EXCEPT !.pc = "head", !.pte = P!Entry(Cpu), !.mem = "ram"] OBVIOUS
  <2>3. new \in BusyCpu /\ new.todo = cpu[Cpu].todo
    BY <2>1, <2>2, <2>10 DEF BusyCpu, Pcs, GetFreeFp, P!Mems
  <2>4. cpu' = [cpu EXCEPT ![Cpu] = new] /\ UNCHANGED <<pgd, lru, head, ended>>
    BY <1>3, <2>2 DEF P!PageOffline, P!Goto, P!Fp, P!FpnOf
  <2>5. cpu'[Cpu] = new BY <2>4 DEF PagesInv, PagingTypes
  <2>6. \A g : InHand(g) => InHand(g)'
    <3>1. cpu[Cpu].pc = "getpage" BY <1>3 DEF P!PageOffline
    <3>2. new.pc = "head" BY <2>1, <2>2 DEF BusyCpu
    <3>3. P!Op(Cpu)' = P!Op(Cpu) /\ P!Page(Cpu)' = P!Page(Cpu)
      BY <2>3, <2>5 DEF P!Op, P!Page
    <3>4. ASSUME NEW g, InHand(g) PROVE P!Op(Cpu) = "map" /\ g = P!Page(Cpu)
      BY <3>1, <3>4 DEF InHand, GetFreeFp
    <3> QED BY <2>5, <3>2, <3>3, <3>4 DEF InHand
  <2>7. HeadInv'
    BY <1>3, <2>1, <2>2, <2>4, <2>5 DEF P!PageOffline, HeadInv, PagesInv, BusyCpu, P!NULL, P!NumFrames
  <2>8. SwapLeft' => SwapLeft BY <1>3, <2>4 DEF SwapLeft, P!NULL, P!NumFrames
  <2>9. head' \in [P!Mems -> Nat] BY <2>4 DEF PagesInv, PagingTypes
  <2> QED BY <1>1, <2>1, <2>3, <2>4, <2>6, <2>7, <2>8, <2>9, MoveKeeps
<1>4. CASE P!LoadHead(Cpu)
  <2>1. cpu[Cpu].pc # "idle" /\ cpu[Cpu] \in BusyCpu
    BY <1>4, BusyTypes DEF P!LoadHead, PagesInv
  <2>10. head[cpu[Cpu].mem] \in Nat
    BY <2>1 DEF PagesInv, PagingTypes, BusyCpu
  <2>2. PICK new : new = [cpu[Cpu] EXCEPT !.pc = "fpn", !.fp = head[cpu[Cpu].mem]] OBVIOUS
  <2>3. new \in BusyCpu /\ new.todo = cpu[Cpu].todo
    BY <2>1, <2>2, <2>10 DEF BusyCpu, Pcs, GetFreeFp, P!Mems
  <2>4. cpu' = [cpu EXCEPT ![Cpu] = new] /\ UNCHANGED <<pgd, lru, head, ended>>
    BY <1>4, <2>2 DEF P!LoadHead, P!Goto, P!Fp, P!FpnOf
  <2>5. cpu'[Cpu] = new BY <2>4 DEF PagesInv, PagingTypes
  <2>11. /\ cpu[Cpu].pc = "head" /\ cpu[Cpu].mem \in {"ram", "swp"}
         /\ new.mem = cpu[Cpu].mem /\ new.vic = cpu[Cpu].vic
         /\ new.pc = "fpn"
    BY <1>4, <2>1, <2>2 DEF P!LoadHead, BusyCpu, P!Mems
  <2>6. \A g : InHand(g) => InHand(g)'
    BY <2>3, <2>5, <2>11 DEF InHand, GetFreeFp, P!Op, P!Page
  <2>7. HeadInv'
    BY <1>4, <2>1, <2>2, <2>4, <2>5 DEF P!LoadHead, HeadInv, PagesInv, BusyCpu, P!NULL, P!NumFrames
  <2>8. SwapLeft' => SwapLeft BY <1>4, <2>4 DEF SwapLeft, P!NULL, P!NumFrames
  <2>9. head' \in [P!Mems -> Nat] BY <2>4 DEF PagesInv, PagingTypes
  <2> QED BY <1>1, <2>1, <2>3, <2>4, <2>6, <2>7, <2>8, <2>9, MoveKeeps
<1>5. CASE P!NoRamLeft(Cpu)
  <2>1. cpu[Cpu].pc # "idle" /\ cpu[Cpu] \in BusyCpu
    BY <1>5, BusyTypes DEF P!NoRamLeft, PagesInv
  <2>2. PICK new : new = [cpu[Cpu] EXCEPT !.pc = "victim"] OBVIOUS
  <2>3. new \in BusyCpu /\ new.todo = cpu[Cpu].todo
    BY <2>1, <2>2 DEF BusyCpu, Pcs, GetFreeFp, P!Mems
  <2>4. cpu' = [cpu EXCEPT ![Cpu] = new] /\ UNCHANGED <<pgd, lru, head, ended>>
    BY <1>5, <2>2 DEF P!NoRamLeft, P!Goto, P!Fp, P!FpnOf
  <2>5. cpu'[Cpu] = new BY <2>4 DEF PagesInv, PagingTypes
  <2>6. \A g : InHand(g) => InHand(g)'
    BY <1>5, <2>1, <2>2, <2>5 DEF P!NoRamLeft, InHand, GetFreeFp, BusyCpu, P!Op, P!Page
  <2>7. HeadInv'
    BY <1>5, <2>1, <2>2, <2>4, <2>5 DEF P!NoRamLeft, HeadInv, PagesInv, BusyCpu, P!NULL, P!NumFrames
  <2>8. SwapLeft' => SwapLeft BY <1>5, <2>4 DEF SwapLeft, P!NULL, P!NumFrames
  <2>9. head' \in [P!Mems -> Nat] BY <2>4 DEF PagesInv, PagingTypes
  <2> QED BY <1>1, <2>1, <2>3, <2>4, <2>6, <2>7, <2>8, <2>9, MoveKeeps
<1>6. CASE P!ReadFpn(Cpu)
  <2>1. cpu[Cpu].pc # "idle" /\ cpu[Cpu] \in BusyCpu
    BY <1>6, BusyTypes DEF P!ReadFpn, PagesInv
  <2>2. PICK new : new = [cpu[Cpu] EXCEPT !.pc = "next", !.ret = cpu[Cpu].fp] OBVIOUS
  <2>3. new \in BusyCpu /\ new.todo = cpu[Cpu].todo
    BY <2>1, <2>2 DEF BusyCpu, Pcs, GetFreeFp, P!Mems
  <2>4. cpu' = [cpu EXCEPT ![Cpu] = new] /\ UNCHANGED <<pgd, lru, head, ended>>
    BY <1>6, <2>2 DEF P!ReadFpn, P!Goto, P!Fp, P!FpnOf
  <2>5. cpu'[Cpu] = new BY <2>4 DEF PagesInv, PagingTypes
  <2>11. /\ cpu[Cpu].pc = "fpn" /\ cpu[Cpu].mem \in {"ram", "swp"}
         /\ new.mem = cpu[Cpu].mem /\ new.vic = cpu[Cpu].vic
         /\ new.pc = "next"
    BY <1>6, <2>1, <2>2 DEF P!ReadFpn, BusyCpu, P!Mems
  <2>6. \A g : InHand(g) => InHand(g)'
    BY <2>3, <2>5, <2>11 DEF InHand, GetFreeFp, P!Op, P!Page
  <2>7. HeadInv'
    BY <1>6, <2>1, <2>2, <2>4, <2>5 DEF P!ReadFpn, HeadInv, PagesInv, BusyCpu, P!NULL, P!NumFrames
  <2>8. SwapLeft' => SwapLeft BY <1>6, <2>4 DEF SwapLeft, P!NULL, P!NumFrames
  <2>9. head' \in [P!Mems -> Nat] BY <2>4 DEF PagesInv, PagingTypes
  <2> QED BY <1>1, <2>1, <2>3, <2>4, <2>6, <2>7, <2>8, <2>9, MoveKeeps
<1>7. CASE P!ReadNext(Cpu)
  <2>1. cpu[Cpu].pc # "idle" /\ cpu[Cpu] \in BusyCpu
    BY <1>7, BusyTypes DEF P!ReadNext, PagesInv
  <2>10. cpu[Cpu].fp + 1 \in Nat BY <2>1 DEF BusyCpu
  <2>2. PICK new : new = [cpu[Cpu] EXCEPT !.pc = "store", !.next = cpu[Cpu].fp + 1] OBVIOUS
  <2>3. new \in BusyCpu /\ new.todo = cpu[Cpu].todo
    BY <2>1, <2>2, <2>10 DEF BusyCpu, Pcs, GetFreeFp, P!Mems
  <2>4. cpu' = [cpu EXCEPT ![Cpu] = new] /\ UNCHANGED <<pgd, lru, head, ended>>
    BY <1>7, <2>2 DEF P!ReadNext, P!Goto, P!Fp, P!FpnOf
  <2>5. cpu'[Cpu] = new BY <2>4 DEF PagesInv, PagingTypes
  <2>11. /\ cpu[Cpu].pc = "next" /\ cpu[Cpu].mem \in {"ram", "swp"}
         /\ new.mem = cpu[Cpu].mem /\ new.vic = cpu[Cpu].vic
         /\ new.pc = "store"
    BY <1>7, <2>1, <2>2 DEF P!ReadNext, BusyCpu, P!Mems
  <2>6. \A g : InHand(g) => InHand(g)'
    BY <2>3, <2>5, <2>11 DEF InHand, GetFreeFp, P!Op, P!Page
  <2>7. HeadInv'
    BY <1>7, <2>1, <2>2, <2>4, <2>5 DEF P!ReadNext, HeadInv, PagesInv, BusyCpu, P!NULL, P!NumFrames
  <2>8. SwapLeft' => SwapLeft BY <1>7, <2>4 DEF SwapLeft, P!NULL, P!NumFrames
  <2>9. head' \in [P!Mems -> Nat] BY <2>4 DEF PagesInv, PagingTypes
  <2> QED BY <1>1, <2>1, <2>3, <2>4, <2>6, <2>7, <2>8, <2>9, MoveKeeps
<1>8. CASE P!StoreHead(Cpu)
  <2>1. cpu[Cpu].pc # "idle" /\ cpu[Cpu] \in BusyCpu
    BY <1>8, BusyTypes DEF P!StoreHead, PagesInv
  <2>2. PICK new : new = [cpu[Cpu] EXCEPT !.pc = "free"] OBVIOUS
  <2>3. new \in BusyCpu /\ new.todo = cpu[Cpu].todo
    BY <2>1, <2>2 DEF BusyCpu, Pcs, GetFreeFp, P!Mems
  <2>4. /\ cpu' = [cpu EXCEPT ![Cpu] = new] /\ UNCHANGED <<pgd, lru, ended>>
        /\ head' = [head EXCEPT ![cpu[Cpu].mem] = cpu[Cpu].next]
    BY <1>8, <2>2 DEF P!StoreHead, P!Goto, P!Fp, P!FpnOf
  <2>5. cpu'[Cpu] = new BY <2>4 DEF PagesInv, PagingTypes
  <2>6. \A g : InHand(g) => InHand(g)'
    BY <1>8, <2>1, <2>2, <2>5 DEF P!StoreHead, InHand, GetFreeFp, BusyCpu, P!Op, P!Page
  <2>7. HeadInv'
    BY <1>8, <2>1, <2>2, <2>4, <2>5 DEF P!StoreHead, HeadInv, PagesInv, BusyCpu, P!NULL, P!NumFrames
  <2>8. SwapLeft' => SwapLeft
    <3>1. head[cpu[Cpu].mem] # P!NULL(cpu[Cpu].mem) BY <1>8 DEF P!StoreHead, PagesInv, HeadInv
    <3>2. cpu[Cpu].mem # "swp" => head'["swp"] = head["swp"] BY <2>4 DEF PagesInv, PagingTypes, P!Mems
    <3> QED BY <2>4, <3>1, <3>2 DEF SwapLeft, P!NULL, P!NumFrames
  <2>9. head' \in [P!Mems -> Nat]
    <3>1. cpu[Cpu].next \in Nat BY <2>1 DEF BusyCpu
    <3> QED BY <2>4, <3>1 DEF PagesInv, PagingTypes
  <2> QED BY <1>1, <2>1, <2>3, <2>4, <2>6, <2>7, <2>8, <2>9, MoveKeeps
<1>9. CASE P!FreeNode(Cpu)
  <2>1. cpu[Cpu].pc # "idle" /\ cpu[Cpu] \in BusyCpu
    BY <1>9, BusyTypes DEF P!FreeNode, PagesInv
  <2>10. P!pte_set_fpn(cpu[Cpu].pte, cpu[Cpu].ret) \in SUBSET Nat
    BY <2>1, SwapEntries DEF BusyCpu
  <2>2. PICK new : new = IF cpu[Cpu].mem = "ram"
                        THEN [cpu[Cpu] EXCEPT !.pc = "enlist", !.pte = P!pte_set_fpn(@, cpu[Cpu].ret)]
                        ELSE [cpu[Cpu] EXCEPT !.pc = "swap"]
    OBVIOUS
  <2>3. new \in BusyCpu /\ new.todo = cpu[Cpu].todo
    BY <2>1, <2>2, <2>10 DEF BusyCpu, Pcs, GetFreeFp, P!Mems
  <2>4. cpu' = [cpu EXCEPT ![Cpu] = new] /\ UNCHANGED <<pgd, lru, head, ended>>
    BY <1>9, <2>2 DEF P!FreeNode, P!Goto, P!Fp, P!FpnOf
  <2>5. cpu'[Cpu] = new BY <2>4 DEF PagesInv, PagingTypes
  <2>11. /\ cpu[Cpu].pc = "free" /\ cpu[Cpu].mem \in {"ram", "swp"}
         /\ new.mem = cpu[Cpu].mem /\ new.vic = cpu[Cpu].vic
         /\ new.pc = IF cpu[Cpu].mem = "ram" THEN "enlist" ELSE "swap"
    BY <1>9, <2>1, <2>2 DEF P!FreeNode, BusyCpu, P!Mems
  <2>6. \A g : InHand(g) => InHand(g)'
    BY <2>3, <2>5, <2>11 DEF InHand, GetFreeFp, P!Op, P!Page
  <2>7. HeadInv'
    BY <1>9, <2>1, <2>2, <2>4, <2>5 DEF P!FreeNode, HeadInv, PagesInv, BusyCpu, P!NULL, P!NumFrames
  <2>8. SwapLeft' => SwapLeft BY <1>9, <2>4 DEF SwapLeft, P!FreeNode, P!NULL, P!NumFrames
  <2>9. head' \in [P!Mems -> Nat] BY <2>4 DEF PagesInv, PagingTypes
  <2> QED BY <1>1, <2>1, <2>3, <2>4, <2>6, <2>7, <2>8, <2>9, MoveKeeps
<1>10. CASE P!NoSwapLeft(Cpu)
  <2>1. /\ cpu[Cpu].pc # "idle" /\ P!Continue(Cpu, TRUE) /\ head["swp"] = P!NULL("swp")
        /\ UNCHANGED <<pgd, lru, head>>
    BY <1>10 DEF P!NoSwapLeft
  <2>2. ~SwapLeft' BY <2>1 DEF SwapLeft, P!NULL, P!NumFrames
  <2> QED BY <1>1, <2>1, <2>2, ContinueKeeps
<1>11. CASE P!NoVictim(Cpu)
  <2>1. /\ cpu[Cpu].pc = "victim" /\ P!Continue(Cpu, TRUE)
        /\ UNCHANGED <<pgd, lru, head>>
    BY <1>11 DEF P!NoVictim
  <2>2. P!Op(Cpu) = "map" => ended' = "exit" BY <2>1 DEF P!Continue
  <2>3. SwapLeft' => \A g : ~InHand(g) BY <2>1, <2>2 DEF SwapLeft, InHand, GetFreeFp
  <2> QED BY <1>1, <2>1, <2>3, ContinueKeeps
<1>12. CASE P!Access(Cpu)
  <2>1. /\ cpu[Cpu].pc = "access" /\ UNCHANGED <<pgd, lru, head>>
        /\ \E failed \in BOOLEAN : P!Continue(Cpu, failed)
    BY <1>12 DEF P!Access
  <2>2. \A g : ~InHand(g) BY <2>1 DEF InHand, GetFreeFp
  <2> QED BY <1>1, <2>1, <2>2, ContinueKeeps
<1>13. CASE P!FindVictim(Cpu) BY <1>1, <1>13, VictimKeeps
<1>14. CASE P!SwapPages(Cpu) BY <1>1, <1>14, SwapKeeps
<1>15. CASE P!Enlist(Cpu) BY <1>1, <1>15, EnlistKeeps
<1>16. CASE P!UseAfterFree(Cpu)
  <2>1. UNCHANGED <<pgd, lru, head, cpu>> /\ ended' = "undefined" BY <1>16 DEF P!UseAfterFree
  <2>2. ~SwapLeft' BY <2>1 DEF SwapLeft
  <2> QED BY <1>1, <2>1, <2>2, ReachStays
          DEF PagesInv, PagingTypes, ReachInv, HeadInv, KnownInv, P!NULL, P!NumFrames
<1> QED
  BY <1>2, <1>3, <1>4, <1>5, <1>6, <1>7, <1>8, <1>9, <1>10, <1>11, <1>12, <1>13, <1>14, <1>15, <1>16
  DEF PagingStep, P!GetPage

-----------------------------------------------------------------------------
(* The steps of the instructions.                                          *)

\* A process starts with an empty area and no pages.
LEMMA InitMem == MemInit => MemInv
<1> SUFFICES ASSUME MemInit PROVE MemInv OBVIOUS
<1>1. MapInv BY MapInvInit DEF MemInit
<1>2. /\ cpu = [c \in {Cpu} |-> P!Idle] /\ head = [m \in P!Mems |-> 0]
      /\ pgd = [p \in {Caller} |-> [g \in BusPages |-> {}]] /\ lru = [p \in {Caller} |-> <<>>]
      /\ mapped = {} /\ pgit = 0
  BY DEF MemInit, P!Init, Init, BusPages
<1>3. cpu[Cpu].pc = "idle" /\ lru[Caller] = <<>> BY <1>2 DEF P!Idle
<1>4. PagingTypes BY <1>2 DEF PagingTypes
<1>5. ReachInv BY <1>3 DEF ReachInv
<1>6. Asked = {} BY <1>2 DEF Asked
<1> QED BY <1>1, <1>2, <1>3, <1>4, <1>5, <1>6 DEF MemInv, GrowInv, PagesInv, HeadInv, KnownInv

\* What was asked for are pages of the bus.
LEMMA AskedPages ==
    ASSUME MapInv, pgit \in Nat
    PROVE  Asked \subseteq BusPages
<1>1. vm_end \in Nat /\ mapped \subseteq Nat BY DEF MapInv, RegInv, TypeOK
<1>2. \A pgn \in mapped : pgn % PAGING_MAX_PGN \in BusPages BY <1>1, BusAssumption DEF BusPages
<1>3. ASSUME NEW k \in 0..pgit - 1 PROVE PAGING_PGN(vm_end + k * PAGING_PAGESZ) \in BusPages
  <2>1. vm_end + k * PAGING_PAGESZ \in Nat BY <1>1, PageAssumption
  <2> QED BY <2>1, PageBelow
<1> QED BY <1>2, <1>3 DEF Asked

\* Instructions that touch no page, and leave the limits of the area alone.
LEMMA OtherKeeps ==
    ASSUME PagesInv, pgit = 0,
           UNCHANGED <<cpu, pgd, lru, head, pgit, vm_end, mapped>>,
           ended' = ended \/ ended' # "no"
    PROVE  GrowInv' /\ PagesInv'
<1>1. \A g : Reach(g)' = Reach(g) BY DEF Reach
<1>2. Asked' = Asked BY DEF Asked, PAGING_PGN
<1>3. \A g : Known(g)' = Known(g) BY DEF Known, InHand, P!Op, P!Page
<1>4. SwapLeft' => SwapLeft BY DEF SwapLeft, P!NULL, P!NumFrames
<1>5. PagingTypes' /\ HeadInv' BY DEF PagesInv, PagingTypes, HeadInv, P!NULL, P!NumFrames
<1>6. ReachInv' BY <1>1 DEF PagesInv, ReachInv
<1>7. KnownInv' BY <1>2, <1>3, <1>4 DEF PagesInv, KnownInv
<1> QED BY <1>5, <1>6, <1>7 DEF PagesInv, GrowInv

\* Only __alloc(), which has yet to get memory, is at a page of the growth.
LEMMA NotGrowing ==
    ASSUME MemInv, pc = "idle" \/ Searching \/ newrg # NoRegion \/ Gap >= size
    PROVE  pgit = 0
<1>1. size \in Nat /\ Gap \in Int /\ pgit \in Nat
  BY SizesAssumption DEF MemInv, MapInv, RegInv, TypeOK, Gap, PagesInv, PagingTypes
<1>2. rgit \in Nat /\ Len(vm_freerg_list) \in Nat BY DEF MemInv, MapInv, RegInv, TypeOK
<1> QED BY <1>1, <1>2 DEF MemInv, GrowInv, MustGrow, SearchDone, Searching

\* An instruction begins with its first page.
LEMMA RunBegins ==
    ASSUME PagingTypes, NEW steps \in Seq(Steps), steps # <<>>, P!Run(Cpu, Caller, steps),
           pgit' \in Nat
    PROVE  /\ PagingTypes'
           /\ HeadInv'
           /\ UNCHANGED <<pgd, lru, head, ended>>
           /\ cpu'[Cpu].pc = "getpage" /\ cpu'[Cpu].todo = steps
           /\ \A g : ~InHand(g)
<1>1. PICK new : new = [pc |-> "getpage", proc |-> Caller, todo |-> steps, failed |-> FALSE,
                        afterRead |-> FALSE, mem |-> "ram", fp |-> 0, next |-> 0, ret |-> 0,
                        pte |-> {}, vic |-> 0]
  OBVIOUS
<1>2. new \in BusyCpu /\ new.pc = "getpage" /\ new.todo = steps
  BY <1>1 DEF BusyCpu, Pcs, P!Mems
<1>3. /\ cpu' = [cpu EXCEPT ![Cpu] = new] /\ UNCHANGED <<pgd, lru, head, ended>>
      /\ cpu[Cpu].pc = "idle"
  BY <1>1 DEF P!Run, P!At
<1>4. cpu'[Cpu] = new BY <1>3 DEF PagingTypes
<1>5. \A g : ~InHand(g) BY <1>3 DEF InHand, GetFreeFp
<1> QED BY <1>2, <1>3, <1>4, <1>5 DEF PagingTypes, HeadInv

\* READ and WRITE begin with pages of the area.
LEMMA ExecuteKeeps ==
    ASSUME PagesInv, NEW steps \in Seq(Steps), steps # <<>>, Execute(steps),
           \A k \in DOMAIN steps : Reach(steps[k].page)
    PROVE  PagesInv'
<1>1. P!Run(Cpu, Caller, steps) /\ UNCHANGED <<vars, pgit>> BY DEF Execute
<1>2. /\ PagingTypes' /\ HeadInv' /\ UNCHANGED <<pgd, lru, head, ended>>
      /\ cpu'[Cpu].pc = "getpage" /\ cpu'[Cpu].todo = steps
      /\ \A g : ~InHand(g)
  BY <1>1, RunBegins DEF PagesInv, PagingTypes
<1>3. ReachInv' BY <1>1, <1>2, ReachStays DEF PagesInv, ReachInv
<1>4. SwapLeft' = SwapLeft BY <1>2 DEF SwapLeft, P!NULL, P!NumFrames
<1>5. \A g : Known(g) => Known(g)' BY <1>2 DEF Known
<1>6. KnownInv' BY <1>1, <1>4, <1>5, ReachStays DEF PagesInv, KnownInv
<1> QED BY <1>2, <1>3, <1>6 DEF PagesInv

\* What __read() and __write() let through lies in the area.
LEMMA PageAtReach ==
    ASSUME MapInv, NEW i, NEW offset \in Nat, InRange(i, offset)
    PROVE  PageAt(i, offset) \in BusPages /\ Reach(PageAt(i, offset))
<1>1. i \in Ids /\ symrgtbl[i] \in Regions /\ symrgtbl[i].rg_start # symrgtbl[i].rg_end
  BY DEF InRange, Resolves, MapInv, RegInv, TypeOK
<1>2. Inside(symrgtbl[i]) /\ sbrk <= vm_end /\ sbrk \in Nat /\ vm_end \in Nat
  BY <1>1 DEF MapInv, RegInv, BelowBrk, NoRegion, Region, TypeOK
<1>3. PICK x : x = symrgtbl[i].rg_start + offset OBVIOUS
<1>4. x \in Nat /\ x <= vm_end BY <1>1, <1>2, <1>3 DEF InRange, Inside, Regions
<1>5. PICK g : g = PAGING_PGN(x) OBVIOUS
<1>6. g \in BusPages /\ g * PAGING_PAGESZ <= x BY <1>4, <1>5, PageBelow
<1>7. g * PAGING_PAGESZ \in Nat
  BY <1>6, PageAssumption, BusAssumption DEF BusPages
<1> QED BY <1>2, <1>3, <1>4, <1>5, <1>6, <1>7 DEF PageAt, Reach

\* vmap_page_range() asks for the next page: it is in hand, and was asked for.
LEMMA MapPageKeeps ==
    ASSUME MemInv, MapPage
    PROVE  GrowInv' /\ PagesInv'
<1>1. /\ MustGrow /\ ~aborted /\ pgit < Cardinality(NewPages) /\ pgit' = pgit + 1 /\ pgit \in Nat
      /\ UNCHANGED <<vm_freerg_list, sbrk, vm_end, mapped, pc, size, rgit, newrg, aborted>>
  BY DEF MapPage, Ready, vars, limits, args, MemInv, PagesInv, PagingTypes
<1>2. NewPages' = NewPages /\ MustGrow' = MustGrow
  BY <1>1 DEF NewPages, Gap, PageAlign, MustGrow, SearchDone
<1>3. PICK k \in Nat, m \in Nat :
          /\ vm_end = k * PAGING_PAGESZ
          /\ NewPages = k..k + m - 1
          /\ Cardinality(NewPages) = m
          /\ \A j \in Nat : PAGING_PGN(vm_end + j * PAGING_PAGESZ) = (k + j) % PAGING_MAX_PGN
  BY <1>1, Growth DEF MemInv
<1>4. PICK g : g = PAGING_PGN(vm_end + pgit * PAGING_PAGESZ) OBVIOUS
<1>5. g = (k + pgit) % PAGING_MAX_PGN BY <1>1, <1>3, <1>4
<1>6. g \in BusPages /\ g <= k + pgit BY <1>1, <1>5, BusAssumption DEF BusPages
<1>7. Reach(g)'
  <2>1. CASE g <= k
    <3>1. (k - g) * PAGING_PAGESZ \in Nat
      <4>1. k - g \in Nat BY <1>6, <2>1 DEF BusPages
      <4> QED BY <4>1, PageAssumption
    <3>2. (k - g) * PAGING_PAGESZ = k * PAGING_PAGESZ - g * PAGING_PAGESZ
      BY <1>6, PageAssumption DEF BusPages
    <3>3. k * PAGING_PAGESZ \in Nat /\ g * PAGING_PAGESZ \in Nat
      BY <1>6, PageAssumption, BusAssumption DEF BusPages
    <3>4. g * PAGING_PAGESZ <= vm_end BY <1>3, <3>1, <3>2, <3>3
    <3> QED BY <1>1, <3>4 DEF Reach
  <2>2. CASE g > k
    <3>1. g \in NewPages BY <1>1, <1>3, <1>6, <2>2 DEF BusPages
    <3> QED BY <1>1, <1>2, <3>1 DEF Reach
  <2> QED BY <1>6, <2>1, <2>2 DEF BusPages
<1>8. PICK steps : steps = <<P!Step("map", g)>> OBVIOUS
<1>9. steps \in Seq(Steps) /\ steps # <<>> /\ DOMAIN steps = {1} /\ steps[1] = P!Step("map", g)
  BY <1>6, <1>8 DEF P!Step, Steps, Ops
<1>10. P!Run(Cpu, Caller, steps)
  <2>1. MapStart = vm_end BY DEF MapStart
  <2> QED BY <1>4, <1>8, <2>1 DEF MapPage
<1>11. /\ PagingTypes' /\ HeadInv' /\ UNCHANGED <<pgd, lru, head, ended>>
       /\ cpu'[Cpu].pc = "getpage" /\ cpu'[Cpu].todo = steps
       /\ \A h : ~InHand(h)
  BY <1>1, <1>9, <1>10, RunBegins DEF MemInv, PagesInv
<1>12. GrowInv' BY <1>1, <1>2, <1>3 DEF GrowInv
<1>13. ReachInv'
  <2>1. \A h : Reach(h) => Reach(h)' BY <1>1, <1>2 DEF Reach
  <2> QED BY <1>7, <1>9, <1>11, <2>1 DEF MemInv, PagesInv, ReachInv, P!Step
<1>14. KnownInv'
  <2>1. SwapLeft' = SwapLeft BY <1>11 DEF SwapLeft, P!NULL, P!NumFrames
  <2>2. \A h : Known(h) => Known(h)' BY <1>11 DEF Known
  <2>3. Known(g)'
    <3>1. Head(steps) = P!Step("map", g) BY <1>8
    <3> QED BY <1>11, <3>1 DEF Known, InHand, P!Op, P!Page, P!Step
  <2>4. Asked' = Asked \cup {g}
    <3>1. 0..pgit' - 1 = (0..pgit - 1) \cup {pgit} BY <1>1
    <3>2. \A k1 \in 0..pgit' - 1 : PAGING_PGN(vm_end + k1 * PAGING_PAGESZ)'
                                    = PAGING_PGN(vm_end + k1 * PAGING_PAGESZ)
      BY <1>1 DEF PAGING_PGN
    <3>3. Asked' = {pgn % PAGING_MAX_PGN : pgn \in mapped}
                     \cup {PAGING_PGN(vm_end + j * PAGING_PAGESZ) : j \in (0..pgit - 1) \cup {pgit}}
      BY <1>1, <3>1 DEF Asked, PAGING_PGN
    <3> QED BY <1>4, <3>3 DEF Asked
  <2> QED BY <2>1, <2>2, <2>3, <2>4 DEF MemInv, PagesInv, KnownInv
<1> QED BY <1>11, <1>12, <1>13, <1>14 DEF PagesInv

\* The area has grown: the pages of the growth are pages of the area.
LEMMA GrowReach ==
    ASSUME MapInv, ~aborted, MustGrow, vm_end' = vm_end + PageAlign(size - Gap), NEW g \in BusPages, Reach(g)
    PROVE  Reach(g)'
<1>1. PICK k \in Nat, m \in Nat :
          /\ vm_end = k * PAGING_PAGESZ
          /\ NewPages = k..k + m - 1
          /\ vm_end + PageAlign(size - Gap) = (k + m) * PAGING_PAGESZ
  BY Growth
<1>2. PICK p : p = PAGING_PAGESZ OBVIOUS
<1>3. p \in Nat /\ p > 0 /\ g \in Nat BY <1>2, PageAssumption, BusAssumption DEF BusPages
<1>4. (k + m) * p = k * p + m * p /\ k * p \in Nat /\ m * p \in Nat /\ g * p \in Nat BY <1>3
<1>5. g * p <= (k + m) * p
  <2>1. CASE g * p <= vm_end BY <1>1, <1>2, <1>4, <2>1
  <2>2. CASE g \in NewPages
    <3>1. (k + m) - g \in Nat BY <1>1, <1>3, <2>2
    <3>2. ((k + m) - g) * p \in Nat BY <1>3, <3>1
    <3>3. ((k + m) - g) * p = (k + m) * p - g * p BY <1>3
    <3> QED BY <1>4, <3>2, <3>3
  <2> QED BY <1>2, <2>1, <2>2 DEF Reach
<1> QED BY <1>1, <1>2, <1>5 DEF Reach

\* All pages of the growth were asked for.
LEMMA GrowDoneKeeps ==
    ASSUME MemInv, GrowDone
    PROVE  GrowInv' /\ PagesInv'
<1>1. /\ AllocGrow /\ MustGrow /\ ~aborted /\ pgit = Cardinality(NewPages) /\ pgit' = 0
      /\ UNCHANGED <<cpu, pgd, lru, head, ended>>
      /\ vm_end' = vm_end + PageAlign(size - Gap) /\ mapped' = mapped \cup NewPages
  BY DEF GrowDone, Ready, AllocGrow, MustGrow, paging
<1>2. PagingTypes' /\ HeadInv' BY <1>1 DEF MemInv, PagesInv, PagingTypes, HeadInv, P!NULL, P!NumFrames
<1>3. GrowInv' BY <1>1 DEF GrowInv
<1>4. ReachInv'
  <2>1. \A g \in BusPages : Reach(g) => Reach(g)' BY <1>1, GrowReach DEF MemInv
  <2>2. \A k \in DOMAIN lru[Caller] : lru[Caller][k] \in BusPages
    BY DEF MemInv, PagesInv, PagingTypes
  <2>3. cpu[Cpu].pc = "idle" BY DEF GrowDone, Ready
  <2> QED BY <1>1, <2>1, <2>2, <2>3 DEF MemInv, PagesInv, ReachInv
<1>5. KnownInv'
  <2>1. SwapLeft' = SwapLeft BY <1>1 DEF SwapLeft, P!NULL, P!NumFrames
  <2>2. \A g : Known(g)' = Known(g) BY <1>1 DEF Known, InHand, P!Op, P!Page
  <2>3. PICK k \in Nat, m \in Nat :
            /\ NewPages = k..k + m - 1
            /\ Cardinality(NewPages) = m
            /\ \A j \in Nat : PAGING_PGN(vm_end + j * PAGING_PAGESZ) = (k + j) % PAGING_MAX_PGN
    BY <1>1, Growth DEF MemInv
  <2>4. ASSUME NEW pgn \in NewPages PROVE pgn % PAGING_MAX_PGN \in Asked
    <3>1. PICK j : j = pgn - k OBVIOUS
    <3>2. j \in 0..pgit - 1 /\ j \in Nat /\ k + j = pgn BY <1>1, <2>3, <2>4, <3>1
    <3>3. PAGING_PGN(vm_end + j * PAGING_PAGESZ) = pgn % PAGING_MAX_PGN BY <2>3, <3>2
    <3> QED BY <3>2, <3>3 DEF Asked
  <2>5. Asked' \subseteq Asked
    <3>1. 0..pgit' - 1 = {} BY <1>1
    <3>2. Asked' = {pgn % PAGING_MAX_PGN : pgn \in mapped \cup NewPages} BY <1>1, <3>1 DEF Asked
    <3> QED BY <2>4, <3>2 DEF Asked
  <2> QED BY <2>1, <2>2, <2>5 DEF MemInv, PagesInv, KnownInv
<1> QED BY <1>2, <1>3, <1>4, <1>5 DEF PagesInv

\* Without a frame for one of its pages __alloc() fails, and the program ends.
LEMMA GrowStopsKeeps ==
    ASSUME MemInv, GrowStops
    PROVE  GrowInv' /\ PagesInv'
<1>1. /\ MustGrow /\ ~aborted /\ pgit' = 0 /\ UNCHANGED <<cpu, pgd, lru, head, ended>> /\ ended = "exit"
      /\ vm_end' = vm_end + PageAlign(size - Gap)
  BY DEF GrowStops, GrowFails, MustGrow, SearchDone, paging
<1>2. PagingTypes' /\ HeadInv' BY <1>1 DEF MemInv, PagesInv, PagingTypes, HeadInv, P!NULL, P!NumFrames
<1>3. \A g \in BusPages : Reach(g) => Reach(g)' BY <1>1, GrowReach DEF MemInv
<1>4. \A k \in DOMAIN lru[Caller] : lru[Caller][k] \in BusPages
  BY DEF MemInv, PagesInv, PagingTypes
<1>5. ASSUME cpu[Cpu].pc # "idle", NEW k \in DOMAIN cpu[Cpu].todo PROVE Reach(cpu[Cpu].todo[k].page)'
  <2>1. PICK g : g = cpu[Cpu].todo[k].page OBVIOUS
  <2>2. \A S : \A todo \in Seq(S) : \A j \in DOMAIN todo : todo[j] \in S OBVIOUS
  <2>3. cpu[Cpu].todo[k] \in Steps BY <1>5, <2>2, BusyTypes DEF MemInv, PagesInv
  <2>4. g \in BusPages BY <2>1, <2>3 DEF Steps
  <2>5. Reach(g)' BY <1>3, <1>5, <2>1, <2>4 DEF MemInv, PagesInv, ReachInv
  <2> QED BY <1>1, <2>1, <2>5
<1>6. ReachInv' BY <1>1, <1>3, <1>4, <1>5 DEF MemInv, PagesInv, ReachInv
<1>7. ~SwapLeft' BY <1>1 DEF SwapLeft
<1> QED BY <1>1, <1>2, <1>6, <1>7 DEF PagesInv, KnownInv, GrowInv

\* Every step of the instructions keeps the area and the paging in agreement.
LEMMA MemInvNext == MemInv /\ [MemNext]_memVars => MemInv'
<1> SUFFICES ASSUME MemInv, [MemNext]_memVars PROVE MemInv' OBVIOUS
<1>1. MapInv' BY MemStep, MapInvNext DEF MemInv
<1>2. CASE AllocOrFree
  <2>1. pgit = 0
    BY <1>2, NotGrowing
    DEF AllocOrFree, CallAlloc, TakePart, TakeAll, SkipRegion, AllocFree, AllocGap, Free, FreeFails
  <2>2. UNCHANGED <<vm_end, mapped>>
    BY <1>2 DEF AllocOrFree, CallAlloc, TakePart, TakeAll, SkipRegion, AllocFree, AllocGap, AllocAtBrk,
                Free, FreeFails, limits
  <2> QED BY <1>1, <1>2, <2>1, <2>2, OtherKeeps DEF AllocOrFree, paging, MemInv
<1>3. CASE MapPage BY <1>1, <1>3, MapPageKeeps DEF MemInv
<1>4. CASE GrowDone BY <1>1, <1>4, GrowDoneKeeps DEF MemInv
<1>5. CASE GrowStops BY <1>1, <1>5, GrowStopsKeeps DEF MemInv
<1>6. CASE PagingStep
  <2>1. Asked \subseteq BusPages BY AskedPages DEF MemInv, PagesInv, PagingTypes
  <2>2. GrowInv' BY <1>6, ReachStays DEF PagingStep, MemInv
  <2> QED BY <1>1, <1>6, <2>1, <2>2, PagingKeeps DEF MemInv
<1>7. ASSUME AccessFails, UNCHANGED <<paging, pgit>> PROVE MemInv'
  <2>1. pgit = 0 /\ UNCHANGED <<vm_end, mapped>>
    BY <1>7, NotGrowing DEF AccessFails, limits
  <2> QED BY <1>1, <1>7, <2>1, OtherKeeps DEF paging, MemInv
<1>8. ASSUME NEW steps \in Seq(Steps), steps # <<>>, Execute(steps),
             \A k \in DOMAIN steps : Reach(steps[k].page)
      PROVE  MemInv'
  <2>1. GrowInv' BY <1>8, ReachStays DEF Execute, MemInv
  <2> QED BY <1>1, <1>8, <2>1, ExecuteKeeps DEF MemInv
<1>9. ASSUME NEW op \in Ops, NEW i, NEW offset \in Nat, InRange(i, offset)
      PROVE  P!Step(op, PageAt(i, offset)) \in Steps /\ Reach(P!Step(op, PageAt(i, offset)).page)
  BY <1>9, PageAtReach DEF P!Step, Steps, MemInv
<1>10. CASE Begin
  <2>1. ASSUME NEW i \in Operands, NEW o \in Offsets, PgWrite(i, o) PROVE MemInv'
    <3>1. o \in Nat BY MemoryAssumption
    <3>2. CASE InRange(i, o)
      <4>1. PICK write : write = P!Step("write", PageAt(i, o)) OBVIOUS
      <4>2. write \in Steps /\ Reach(write.page) BY <1>9, <3>1, <3>2, <4>1 DEF Ops
      <4>3. /\ <<write>> \in Seq(Steps) /\ <<write>> # <<>>
            /\ \A k \in DOMAIN <<write>> : Reach(<<write>>[k].page)
        BY <4>2
      <4>4. Execute(<<write>>) BY <2>1, <3>2, <4>1 DEF PgWrite
      <4> QED BY <1>8, <4>3, <4>4
    <3>3. CASE ~InRange(i, o) BY <1>7, <2>1, <3>3 DEF PgWrite, Faults
    <3> QED BY <3>2, <3>3
  <2>2. ASSUME NEW i \in Operands, NEW j \in Operands, NEW o \in Offsets, PgRead(i, o, j)
        PROVE  MemInv'
    <3>1. o \in Nat /\ 0 \in Nat BY MemoryAssumption
    <3>2. PICK reads, writes :
              /\ reads = IF InRange(i, o) THEN <<P!Step("read", PageAt(i, o))>> ELSE << >>
              /\ writes = IF InRange(j, 0) THEN <<P!Step("write", PageAt(j, 0))>> ELSE << >>
      OBVIOUS
    <3>3. reads \in Seq(Steps) /\ \A k \in DOMAIN reads : Reach(reads[k].page)
      <4>1. CASE InRange(i, o)
        <5>1. PICK read : read = P!Step("read", PageAt(i, o)) OBVIOUS
        <5>2. read \in Steps /\ Reach(read.page) BY <1>9, <3>1, <4>1, <5>1 DEF Ops
        <5> QED BY <3>2, <4>1, <5>1, <5>2
      <4>2. CASE ~InRange(i, o) BY <3>2, <4>2
      <4> QED BY <4>1, <4>2
    <3>4. writes \in Seq(Steps) /\ \A k \in DOMAIN writes : Reach(writes[k].page)
      <4>1. CASE InRange(j, 0)
        <5>1. PICK write : write = P!Step("write", PageAt(j, 0)) OBVIOUS
        <5>2. write \in Steps /\ Reach(write.page) BY <1>9, <3>1, <4>1, <5>1 DEF Ops
        <5> QED BY <3>2, <4>1, <5>1, <5>2
      <4>2. CASE ~InRange(j, 0) BY <3>2, <4>2
      <4> QED BY <4>1, <4>2
    <3>5. PICK steps : steps = reads \o writes OBVIOUS
    <3>6. steps \in Seq(Steps) /\ \A k \in DOMAIN steps : Reach(steps[k].page)
      <4>1. /\ steps \in Seq(Steps) /\ DOMAIN steps = 1..Len(reads) + Len(writes)
            /\ \A k \in DOMAIN steps : steps[k] = IF k <= Len(reads) THEN reads[k] ELSE writes[k - Len(reads)]
        BY <3>3, <3>4, <3>5
      <4>2. ASSUME NEW k \in DOMAIN steps
            PROVE  k \in DOMAIN reads \/ (~(k <= Len(reads)) /\ k - Len(reads) \in DOMAIN writes)
        BY <3>3, <3>4, <4>1
      <4>3. \A k \in DOMAIN reads : k <= Len(reads) BY <3>3
      <4> QED BY <3>3, <3>4, <4>1, <4>2, <4>3
    <3>7. CASE steps # <<>>
      <4>1. Execute(steps) BY <2>2, <3>2, <3>5, <3>7 DEF PgRead
      <4> QED BY <1>8, <3>6, <3>7, <4>1
    <3>8. CASE steps = <<>> BY <1>7, <2>2, <3>2, <3>5, <3>8 DEF PgRead, Faults
    <3> QED BY <3>7, <3>8
  <2>3. CASE PgFreeNothing BY <1>7, <2>3 DEF PgFreeNothing, Faults
  <2>4. CASE OutsideTable
    <3>1. pgit = 0 BY <2>4, NotGrowing DEF OutsideTable, Between
    <3>2. UNCHANGED <<vm_end, mapped, cpu, pgd, lru, head, pgit>> /\ ended' = "undefined"
      BY <2>4 DEF OutsideTable, vars, limits
    <3> QED BY <1>1, <3>1, <3>2, OtherKeeps DEF MemInv
  <2> QED BY <1>10, <2>1, <2>2, <2>3, <2>4 DEF Begin
<1>11. CASE AccessStops BY <1>7, <1>11 DEF AccessStops, Faults
<1>12. CASE UNCHANGED memVars
  <2>1. UNCHANGED <<vars, pgit, cpu, pgd, lru, head, ended>> BY <1>12 DEF memVars, paging
  <2>2. GrowInv' BY <2>1, ReachStays DEF MemInv
  <2>3. PagesInv'
    BY <2>1, ReachStays
    DEF MemInv, PagesInv, PagingTypes, ReachInv, HeadInv, KnownInv, SwapLeft, Known, InHand,
        P!NULL, P!NumFrames, P!Op, P!Page
  <2> QED BY <1>1, <2>2, <2>3 DEF MemInv
<1> QED
  BY <1>2, <1>3, <1>4, <1>5, <1>6, <1>10, <1>11, <1>12 DEF MemNext, Instruction, ProgramEnded

\* What __read(), __write() and vmap_page_range() hand to pg_getpage(), and so
\* every page on the list of pages, lies in the area of the process or is being
\* added to it: no offset a program chooses and no length of the symbol leads
\* further than the page behind the last region.
THEOREM PagesWithinArea == MemSafety => []WithinArea
<1>1. MemInv => WithinArea BY DEF MemInv, PagesInv, ReachInv, Reach, WithinArea
<1> QED BY InitMem, MemInvNext, <1>1, PTL DEF MemSafety

\* Whatever the pages that __alloc() maps, READ and WRITE touch and the frames
\* that run out: between two instructions the paging can find each page of the
\* area, on the list of pages or on swap, as long as swap has a frame left.
THEOREM PagesFound == MemSafety => []MappedByPaging
<1>1. MemInv => MappedByPaging
  <2> SUFFICES ASSUME MemInv, Ready, head["swp"] # P!NULL("swp"), NEW pgn \in mapped
               PROVE  Known(pgn % PAGING_MAX_PGN) /\ ~InHand(pgn % PAGING_MAX_PGN)
    BY DEF MappedByPaging, Known
  <2>1. SwapLeft BY DEF Ready, SwapLeft
  <2>2. pgn % PAGING_MAX_PGN \in Asked BY DEF Asked
  <2> QED BY <2>1, <2>2 DEF MemInv, PagesInv, KnownInv, Ready, InHand, GetFreeFp
<1> QED BY InitMem, MemInvNext, <1>1, PTL DEF MemSafety

=============================================================================
