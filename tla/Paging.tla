------------------------------- MODULE Paging -------------------------------
(***************************************************************************)
(* Demand paging: pg_getpage() of src/src/mm-vm.c and everything it calls  *)
(* (find_victim_page, enlist_pgn_node, __swap_cp_page, MEMPHY_get_freefp)  *)
(* below the three instructions that reach it: ALLOC (vmap_page_range),    *)
(* READ (pgread) and WRITE (pgwrite).  RAM and swap are shared by all      *)
(* CPUs, without a lock; a page table and its list of pages belong to a    *)
(* process, which runs on one CPU at a time.                               *)
(*                                                                         *)
(* The content of a frame is abstracted to the page that was last written  *)
(* to it.  Symbols resolve and addresses are inside their region           *)
(* (VMRegions), so that an instruction is the list of the pages it         *)
(* touches.  Page tables start with no bit set, as fresh heap memory does. *)
(***************************************************************************)
EXTENDS PTE, Sequences

CONSTANTS
    Cpus, Procs,
    Pages,                \* page numbers of a process
    RamFrames, SwpFrames, \* number of frames of the two devices
    Junk                  \* the content of a frame nobody wrote

ASSUME PagingAssumption ==
    /\ Pages \subseteq Nat
    /\ \A last \in Pages : 0..last \subseteq Pages
    /\ RamFrames \in Nat \ {0, 1}     \* with one frame MEMPHY_format() leaves
    /\ SwpFrames \in Nat \ {0, 1}     \* its fp_next uninitialized
    /\ RamFrames <= 2^12              \* 1 MB
    /\ Junk \notin Procs \X Pages

VARIABLES
    pgd,                  \* mm->pgd: the page table of a process
    lru,                  \* mm->lru_pgn: its pages, last used first
    dangling,             \* processes whose lru_pgn points to a freed node
    head,                 \* mp->free_fp_list of a device
    freed,                \* nodes of that list that were freed
    storage,              \* mp->storage
    cpu,                  \* the instruction a CPU executes, and where it is
    ended,                \* "no", "exit" (run() aborts), "undefined"
    usedAfter,            \* history: <<g, h>> when page g was used after h
    given                 \* history: how often a frame was handed out

vars == <<pgd, lru, dangling, head, freed, storage, cpu, ended, usedAfter, given>>

Mems == {"ram", "swp"}
NumFrames == [ram |-> RamFrames, swp |-> SwpFrames]
Frames(m) == 0..NumFrames[m] - 1

\* The list of MEMPHY_format() has a node per frame, in order, and node n is
\* followed by n + 1; NULL is the number after the last.
NULL(m) == NumFrames[m]

\* Fault: the loop of MEMPHY_format() numbers its nodes from 0 again.
FpnOfShort(node) == IF node = 0 THEN 0 ELSE node - 1
FpnOf(node) == node

Idle == [pc |-> "idle"]
Step(op, page) == [op |-> op, page |-> page]

AllocPages(first, last) == [i \in 1..(last - first + 1) |-> Step("map", first + i - 1)]
ReadInto(page, dest) == <<Step("read", page), Step("write", dest)>>
WriteTo(page) == <<Step("write", page)>>

Instructions ==
    UNION {
        UNION {{AllocPages(first, last) : last \in {g \in Pages : first <= g}} : first \in Pages},
        UNION {{ReadInto(page, dest) : dest \in Pages} : page \in Pages},
        {WriteTo(page) : page \in Pages}}

Init ==
    /\ pgd = [p \in Procs |-> [g \in Pages |-> {}]]
    /\ lru = [p \in Procs |-> <<>>]
    /\ dangling = {}
    /\ head = [m \in Mems |-> 0]
    /\ freed = [m \in Mems |-> {}]
    /\ storage = [m \in Mems |-> [f \in Frames(m) |-> Junk]]
    /\ cpu = [c \in Cpus |-> Idle]
    /\ ended = "no"
    /\ usedAfter = [p \in Procs |-> {}]
    /\ given = [m \in Mems |-> [f \in Frames(m) |-> 0]]

Proc(c) == cpu[c].proc
Page(c) == Head(cpu[c].todo).page
Op(c) == Head(cpu[c].todo).op
Entry(c) == pgd[Proc(c)][Page(c)]
Fp(c) == cpu[c].fp

At(c, pc) == ended = "no" /\ cpu[c].pc = pc
Goto(c, pc) == cpu' = [cpu EXCEPT ![c].pc = pc]

-----------------------------------------------------------------------------
(* An instruction.                                                         *)

Busy(p) == \E c \in Cpus : cpu[c].pc # "idle" /\ cpu[c].proc = p

\* A CPU executes an instruction of a process that no other CPU holds.
Run(c, p, instruction) ==
    /\ At(c, "idle")
    /\ ~Busy(p)
    /\ cpu' = [cpu EXCEPT ![c] =
          [pc |-> "getpage", proc |-> p, todo |-> instruction, failed |-> FALSE, afterRead |-> FALSE,
           mem |-> "ram", fp |-> 0, next |-> 0, ret |-> 0, pte |-> {}, vic |-> 0]]
    /\ UNCHANGED <<pgd, lru, dangling, head, freed, storage, ended, usedAfter, given>>

\* One page of the instruction is done.  vmap_page_range() stops at the first
\* page it cannot get.  pgread() goes on to pgwrite() whatever __read() said,
\* and ignores what pgwrite() says.  run() aborts the program on a failure.
Continue(c, failed) ==
    LET rest == Tail(cpu[c].todo)
        ignored == Op(c) = "write" /\ cpu[c].afterRead
        bad == cpu[c].failed \/ (failed /\ ~ignored)
    IN  IF rest = <<>> \/ (Op(c) = "map" /\ bad)
        THEN /\ cpu' = [cpu EXCEPT ![c] = Idle]
             /\ ended' = IF bad THEN "exit" ELSE ended
        ELSE /\ cpu' = [cpu EXCEPT ![c].pc = "getpage", ![c].todo = rest,
                                   ![c].failed = bad, ![c].afterRead = Op(c) = "read"]
             /\ UNCHANGED ended

\* The page is there, pte_set_fpn() or not: MEMPHY_read() and MEMPHY_write()
\* fail beyond the end of the RAM.
Access(c) ==
    /\ At(c, "access")
    /\ LET fpn == PAGING_FPN(cpu[c].pte)
           bad == Op(c) # "map" /\ fpn \notin Frames("ram")
       IN  /\ Continue(c, bad)
           /\ storage' = IF Op(c) = "write" /\ ~bad
                         THEN [storage EXCEPT !["ram"][fpn] = <<Proc(c), Page(c)>>]
                         ELSE storage
    /\ UNCHANGED <<pgd, lru, dangling, head, freed, usedAfter, given>>

-----------------------------------------------------------------------------
(* pg_getpage().                                                           *)

PageOnline(c) ==
    /\ At(c, "getpage") /\ PRESENT \in Entry(c)
    /\ cpu' = [cpu EXCEPT ![c].pc = "enlist", ![c].pte = Entry(c)]
    /\ UNCHANGED <<pgd, lru, dangling, head, freed, storage, ended, usedAfter, given>>

PageOffline(c) ==
    /\ At(c, "getpage") /\ PRESENT \notin Entry(c)
    /\ cpu' = [cpu EXCEPT ![c].pc = "head", ![c].pte = Entry(c), ![c].mem = "ram"]
    /\ UNCHANGED <<pgd, lru, dangling, head, freed, storage, ended, usedAfter, given>>

\* MEMPHY_get_freefp(): each access to the shared list is a step.
LoadHead(c) ==
    LET m == cpu[c].mem IN
    /\ At(c, "head") /\ head[m] # NULL(m)
    /\ cpu' = [cpu EXCEPT ![c].pc = "fpn", ![c].fp = head[m]]
    /\ UNCHANGED <<pgd, lru, dangling, head, freed, storage, ended, usedAfter, given>>

NoRamLeft(c) ==
    /\ At(c, "head") /\ cpu[c].mem = "ram" /\ head["ram"] = NULL("ram")
    /\ Goto(c, "victim")
    /\ UNCHANGED <<pgd, lru, dangling, head, freed, storage, ended, usedAfter, given>>

\* The victim is off the list already, and stays in the page table.
NoSwapLeft(c) ==
    /\ At(c, "head") /\ cpu[c].mem = "swp" /\ head["swp"] = NULL("swp")
    /\ Continue(c, TRUE)
    /\ UNCHANGED <<pgd, lru, dangling, head, freed, storage, usedAfter, given>>

NodeFreed(c) == Fp(c) \in freed[cpu[c].mem]

ReadFpn(c) ==
    LET m == cpu[c].mem
        fpn == FpnOf(Fp(c))
    IN
    /\ At(c, "fpn") /\ ~NodeFreed(c)
    /\ cpu' = [cpu EXCEPT ![c].pc = "next", ![c].ret = fpn]
    /\ given' = [given EXCEPT ![m][fpn] = @ + 1]
    /\ UNCHANGED <<pgd, lru, dangling, head, freed, storage, ended, usedAfter>>

ReadNext(c) ==
    /\ At(c, "next") /\ ~NodeFreed(c)
    /\ cpu' = [cpu EXCEPT ![c].pc = "store", ![c].next = Fp(c) + 1]
    /\ UNCHANGED <<pgd, lru, dangling, head, freed, storage, ended, usedAfter, given>>

StoreHead(c) ==
    /\ At(c, "store")
    /\ head' = [head EXCEPT ![cpu[c].mem] = cpu[c].next]
    /\ Goto(c, "free")
    /\ UNCHANGED <<pgd, lru, dangling, freed, storage, ended, usedAfter, given>>

\* The node is freed, and pg_getpage() has its frame.  A frame from RAM is
\* set in the local pte; mm->pgd keeps its old entry.
FreeNode(c) ==
    LET m == cpu[c].mem IN
    /\ At(c, "free") /\ ~NodeFreed(c)
    /\ freed' = [freed EXCEPT ![m] = @ \cup {Fp(c)}]
    /\ cpu' = IF m = "ram"
              THEN [cpu EXCEPT ![c].pc = "enlist", ![c].pte = pte_set_fpn(@, cpu[c].ret)]
              ELSE [cpu EXCEPT ![c].pc = "swap"]
    /\ UNCHANGED <<pgd, lru, dangling, head, storage, ended, usedAfter, given>>

\* find_victim_page(): the last of the list.  When it is the only one its
\* node is freed, and mm->lru_pgn goes on pointing to it.
FindVictim(c) ==
    LET p == Proc(c)
        n == Len(lru[p])
    IN
    /\ At(c, "victim") /\ p \notin dangling /\ n > 0
    /\ cpu' = [cpu EXCEPT ![c].pc = "head", ![c].mem = "swp", ![c].vic = lru[p][n]]
    /\ lru' = [lru EXCEPT ![p] = SubSeq(@, 1, n - 1)]
    /\ dangling' = IF n = 1 THEN dangling \cup {p} ELSE dangling
    /\ UNCHANGED <<pgd, head, freed, storage, ended, usedAfter, given>>

NoVictim(c) ==
    /\ At(c, "victim") /\ Proc(c) \notin dangling /\ lru[Proc(c)] = <<>>
    /\ Continue(c, TRUE)
    /\ UNCHANGED <<pgd, lru, dangling, head, freed, storage, usedAfter, given>>

\* __swap_cp_page(): a read beyond the end of a device leaves the byte as it
\* was, not initialized, and a write beyond the end does nothing.
Copied(st, src, srcfpn, dst, dstfpn) ==
    IF dstfpn \notin Frames(dst) THEN st
    ELSE [st EXCEPT ![dst][dstfpn] =
            IF srcfpn \in Frames(src) THEN st[src][srcfpn] ELSE Junk]

\* Fault: the victim stays present.
VictimPtePresent(pte, swpfpn) == pte_set_swap(pte, 0, 256 * swpfpn)
\* Fault: the victim's entry holds the address of its frame in RAM.
VictimPteOfRam(pte, swpfpn) == pte_set_swap(pte, 0, 256 * PAGING_FPN(pte)) \ {PRESENT}

\* The entry of the victim: the address of the swap frame it was copied to.
VictimPte(pte, swpfpn) == pte_set_swap(pte, 0, 256 * swpfpn) \ {PRESENT}

\* The victim goes out to swap; what should come in from swap is copied from
\* RAM to swap again.  The victim may be the page itself: its new entry is
\* stored last.
SwapPages(c) ==
    LET p == Proc(c)
        vicpte == pgd[p][cpu[c].vic]
        frame == PAGING_FPN(vicpte)
        pte == pte_set_fpn(cpu[c].pte, frame)
    IN
    /\ At(c, "swap")
    /\ storage' = Copied(Copied(storage, "ram", frame, "swp", cpu[c].ret),
                         "ram", PAGING_SWP(cpu[c].pte), "swp", frame)
    /\ pgd' = [pgd EXCEPT ![p] = [@ EXCEPT ![cpu[c].vic] = VictimPte(vicpte, cpu[c].ret),
                                           ![Page(c)] = pte]]
    /\ cpu' = [cpu EXCEPT ![c].pc = "enlist", ![c].pte = pte]
    /\ UNCHANGED <<lru, dangling, head, freed, ended, usedAfter, given>>

IsOn(g, list) == \E i \in DOMAIN list : list[i] = g
FirstOf(g, list) == CHOOSE i \in DOMAIN list : list[i] = g /\ \A j \in 1..i - 1 : list[j] # g

\* Fault: a page that is on the list stays where it is.
InFrontIfNew(g, list) == IF IsOn(g, list) THEN list ELSE <<g>> \o list

\* enlist_pgn_node(): a page that is on the list moves to the front, past
\* those before it.
InFront(g, list) ==
    IF IsOn(g, list)
    THEN [i \in DOMAIN list |-> IF i = 1 THEN g
                                ELSE IF i <= FirstOf(g, list) THEN list[i - 1] ELSE list[i]]
    ELSE <<g>> \o list

Enlist(c) ==
    LET p == Proc(c)
        g == Page(c)
    IN
    /\ At(c, "enlist") /\ p \notin dangling
    /\ lru' = [lru EXCEPT ![p] = InFront(g, @)]
    /\ usedAfter' = [usedAfter EXCEPT ![p] =
          {pair \in @ : pair[1] # g /\ pair[2] # g} \cup ({g} \X (Pages \ {g}))]
    /\ Goto(c, "access")
    /\ UNCHANGED <<pgd, dangling, head, freed, storage, ended, given>>

\* A node is used, or freed again, after it was freed: nothing is known of
\* what the program does from here on.
UseAfterFree(c) ==
    /\ \/ /\ \E pc \in {"fpn", "next", "free"} : At(c, pc)
          /\ NodeFreed(c)
       \/ /\ \E pc \in {"victim", "enlist"} : At(c, pc)
          /\ Proc(c) \in dangling
    /\ ended' = "undefined"
    /\ UNCHANGED <<pgd, lru, dangling, head, freed, storage, cpu, usedAfter, given>>

GetPage(c) ==
    \/ PageOnline(c) \/ PageOffline(c)
    \/ LoadHead(c) \/ NoRamLeft(c) \/ NoSwapLeft(c)
    \/ ReadFpn(c) \/ ReadNext(c) \/ StoreHead(c) \/ FreeNode(c)
    \/ FindVictim(c) \/ NoVictim(c) \/ SwapPages(c) \/ Enlist(c)
    \/ UseAfterFree(c)

Ended == ended # "no" /\ UNCHANGED vars

Next ==
    \/ \E c \in Cpus, p \in Procs, i \in Instructions : Run(c, p, i)
    \/ \E c \in Cpus : GetPage(c) \/ Access(c)
    \/ Ended

Spec == Init /\ [][Next]_vars

-----------------------------------------------------------------------------
(* Properties.                                                             *)

\* MEMPHY_get_freefp() never hands out a frame twice: the frames that are
\* never put back need no other owner than the entry that holds them.
FrameGivenOnce == \A m \in Mems : \A f \in Frames(m) : given[m][f] <= 1

\* find_victim_page() takes the last page of the list.  That it is the least
\* recently used one of the list is up to every call of enlist_pgn_node()
\* before, and to every victim that was taken off the list.
LruOrder ==
    \A p \in Procs : \A i, j \in DOMAIN lru[p] :
        i < j => <<lru[p][i], lru[p][j]>> \in usedAfter[p]

\* A present page can be found as a victim; one that is not on the list holds
\* its frame for ever.  (A victim is off the list and still present when
\* the swap device is full.)
EvictablePresent ==
    ended = "no" /\ head["swp"] # NULL("swp") =>
        \A p \in Procs, g \in Pages :
            PRESENT \in pgd[p][g] /\ ~Busy(p) => IsOn(g, lru[p])

\* The numbers that fit the 21 bits of a swap offset are below.
OffsetLimit == 2^21

\* The entries of swapped pages lead to different swap frames, whoever owns
\* the pages.  So it is until 8192 swap frames have been handed out (the list
\* of free frames is in order, so its head counts them): the address of a later
\* one loses its high bits in the entry, and the 16 MB of swap of the
\* configurations in input/ have 65536 frames.  (What a swap frame holds when
\* its page comes back is another matter: SwapsIn.)
SwapCopiesDistinct ==
    LET Swapped == {pg \in Procs \X Pages :
                       SWAPPED \in pgd[pg[1]][pg[2]] /\ PRESENT \notin pgd[pg[1]][pg[2]]}
        Offset(pg) == Field(pgd[pg[1]][pg[2]], SWPOFF_MASK, SWPOFF_LOBIT)
    IN  256 * head["swp"] <= OffsetLimit =>
            \A a, b \in Swapped : a # b => Offset(a) # Offset(b)

\* After pg_getpage() the page is "present" in the page table.
GottenPageIsPresent == \A c \in Cpus : cpu[c].pc = "access" => PRESENT \in Entry(c)

\* A page that was swapped out comes back with its content.
SwapsIn ==
    [][\A c \in Cpus : SwapPages(c) /\ SWAPPED \in Entry(c) =>
          LET out == GETVAL(Entry(c), SWPOFF_MASK, SWPOFF_LOBIT) \div 256
          IN  storage'["ram"][PAGING_FPN(cpu'[c].pte)] = storage["swp"][out]]_vars

\* A process whose list became empty has an empty list, which the next
\* find_victim_page() reports.
ListIsValid == dangling = {}

=============================================================================
