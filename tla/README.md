# Verification of BTLOS

BTLOS (`src/`) simulates a small operating system: CPU threads execute the
instructions of processes, a loader thread brings the processes in, a timer
thread moves everybody through time slots, a multilevel queue scheduler hands
the processes to the CPUs, and a paging memory with swap serves their `alloc`,
`free`, `read` and `write` instructions. This directory holds TLA+ models of
these parts, the TLC configurations that check them on small instances, and
TLAPS proofs of the theorems that hold for every instance. The build modelled
is the default one: `MLQ_SCHED` and `MM_PAGING` defined, POSIX threads; the
sizes of memories are parameters.

Paths such as `timer.c` are `src/src/timer.c`; headers are in `src/include/`.

## 1. The system and its components

| component | state | operations | shared with |
|---|---|---|---|
| timer (`timer.c`) | `_time`, `timer_started`, `timer_stop`, the list of devices, and per device `done`, `fsh`, two mutexes and two condition variables | `attach_event`, `start_timer`, `next_slot`, `detach_event`, `stop_timer`, `timer_routine` | every thread |
| process queue (`queue.c`) | an array of process pointers and `size` | `empty`, `enqueue`, `dequeue` | the scheduler |
| scheduler (`sched.c`) | one queue and one slot counter per priority, `current_prio`, `queue_lock` | `get_proc`, `put_proc`, `add_proc`, `queue_empty`, `reset_slots` | CPUs, loader |
| CPUs (`os.c`, `cpu.c`) | per CPU `proc` and `time_left`; per process `pc` | `cpu_routine`, `run` | scheduler, timer, memory |
| loader (`os.c`, `loader.c`) | the index of the next process, `done`, the program being read | `ld_routine`, `load` | scheduler, timer |
| virtual memory area (`mm-vm.c`) | symbol table, free region list, `sbrk`, `vm_end` of a process | `__alloc`, `__free`, `get_free_vmrg_area`, `inc_vma_limit` | the CPU that runs the process |
| demand paging (`mm-vm.c`, `mm.c`) | page table `pgd`, list `lru_pgn` of a process | `pg_getpage`, `find_victim_page`, `enlist_pgn_node`, `pgread`, `pgwrite`, `vmap_page_range` | frames of RAM and swap, with all CPUs |
| page table entries (`mm.c`, `mm.h`) | a 32-bit word | `pte_set_fpn`, `pte_set_swap`, the field macros | paging |
| instructions of a process (`cpu.c`, `mm-vm.c`) | symbol table and page table together, offsets | `alloc`, `free`, `read`, `write`: `pgalloc`, `pgfree_data`, `pgread`, `pgwrite` | the two parts above |
| physical memory (`mm-memphy.c`, `mm.c`) | `storage`, `cursor`, `free_fp_list` of each device | `init_memphy`, `MEMPHY_get_freefp`, `MEMPHY_put_freefp`, `MEMPHY_read`, `MEMPHY_write`, `__swap_cp_page`, `alloc_pages_range` | all CPUs, no lock |
| configuration (`os.c`) | `time_slot`, `num_cpus`, `ld_processes`, memory sizes | `read_config`, the first half of `main` | `main`, before any thread runs |

How they interact: `main` attaches the CPUs and the loader to the timer, starts
it, creates the threads, joins them and stops the timer. A device thread works
inside a slot and ends its work with `next_slot()`; the timer waits until every
device has reported, increments the time and releases them. CPUs and loader
share the scheduler through `get_proc`, `put_proc` and `add_proc`; part of the
scheduler's state is read and written outside `queue_lock`. Instructions of
processes that run at the same time share RAM, swap and their free lists
without any lock.

What is hard, and what has to hold there:

* **Slots.** A slot is closed under the event mutex and opened under the timer
  mutex, while devices detach. No wakeup may be lost, no device may see the
  time change under its work, the timer may neither end early nor hang.
* **Scheduling.** `get_mlq_proc` tests emptiness, sizes and slots, moves
  `current_prio` and resets the slots without the lock. No process may vanish
  or be in two places; `NULL` is to mean that there is no process; every
  priority gets its turn; the call returns.
* **Dispatch.** A process goes through the queues from one CPU to another
  inside a slot. It must run one instruction per slot, with a quantum of its
  own, to its end, and the program must stop when all is done and not before.
* **Regions.** Regions are freed, split, consumed and freed again. No two may
  overlap, each must have its size and lie in mapped pages.
* **Instructions.** An area grows page by page through the paging, which may
  fail half way; offsets and symbol indices come from the program. What
  `__alloc` counts as mapped must be what the paging knows, an access must stay
  in the area, and every instruction must return or end the program.
* **Paging.** Frames come from a list that several CPUs unlink from at once;
  pages go out to swap and come back. A frame has one owner, the victim is the
  least recently used page, no two pages end in the same swap frame.
* **Devices.** Sizes that are no multiple of a page, devices of one frame and of
  none, the cursor of a sequential device: a frame must be a page of its own.
* **Files.** No result of `fscanf` is tested: a missing word leaves a variable
  as it was, and shifts the words behind it.

`PROJECT.json` lists these hazards at their lines, with the properties about
them, or a note where there is none yet.

## 2. The modules

| module | models | how |
|---|---|---|
| `SlotBarrier` | what `timer.c` promises | abstract: a device is in its slot, waiting, released, or out; `Tick` opens the barrier for everyone who waits |
| `Timer` | `timer.c`, and `main` as its caller | one action per mutex operation, test of a wait loop, sleep, or store with its signal and unlock |
| `FifoQueue` | what `queue.c` promises | abstract: a bounded sequence |
| `ProcQueue` | `queue.c` | the array and `size`; the shift reads `proc[i + 1]` as the code does |
| `Sched` | `sched.c` | one action per access to a shared variable, so that accesses of several threads interleave as they may; queues are those of `FifoQueue` |
| `OS` | `cpu_routine`, `ld_routine`, `run`, the end of `main` | EXTENDS `Sched`, INSTANCEs `SlotBarrier`: a slot ends as `Timer` is shown to end it |
| `VMRegions` | `__alloc`, `__free` and what they call, the address macros | the loop over the free list is one step per iteration |
| `PTE` | the page table entry | a word is the set of its 1 bits; masks are intervals of bits |
| `Paging` | `pg_getpage` and what it calls, under `alloc`, `read`, `write` | EXTENDS `PTE`; the accesses to the shared free list are single steps, the rest of a fault is one step per function |
| `ProcMemory` | `run` and the `pg` functions: one process with `alloc`, `free`, `read`, `write` | EXTENDS `VMRegions`, INSTANCEs `Paging` with one CPU and one process: each new page of `VMRegions` is a `pg_getpage` of `Paging`, each access resolves a symbol of `VMRegions` to a page of `Paging` |
| `FrameStore` | what `mm-memphy.c` promises to the paging | abstract: pages behind frames that have one holder at a time |
| `Memphy` | `mm-memphy.c`, `__swap_cp_page`, `alloc_pages_range` | byte by byte, random and sequential; one client, who reads, writes, copies, takes and gives back |
| `Scan` | `fscanf`, external | a file is a sequence of words; a call is a list of conversions |
| `Boot` | `read_config`, `main` up to the threads, `load`, `src/test/memphy.c` | EXTENDS `Memphy` and `Scan`: reads the files, creates the devices, and then uses them |
| `MC*` | | values of the constants for TLC, symmetry |
| `TimerProofs`, `ProcQueueProofs`, `SchedProofs`, `OSProofs`, `VMRegionsProofs`, `PagingProofs`, `ProcMemoryProofs`, `BootProofs` | | theorems about the module of that name (`PTE` in `PagingProofs`, `Memphy` in `BootProofs`) and their proofs |

Variables carry the names of the C variables where there is one. What a C
function keeps in locals across steps is a variable of the thread (`cur`,
`nfsh`, `nevent` of `timer_routine`; `tmp`, `designated_slots`,
`priority_queue` of `get_mlq_proc`; the record `cpu[c]` of a page fault). The
program counters are `mpc`, `tpc`, `pc` (Timer), `spc` (a thread inside
`sched.c`), `cpc` and `lpc` (`cpu_routine`, `ld_routine`). Variables marked
"history" (`slot`, `lost`, `sawEmpty`, `ran`, `out`, `taken`, `usedAfter`, `given`, `last`) are
read by properties only. Definitions marked "Fault" are mutations used to test
that a property can fail; no specification uses them.

Abstractions: a process is a model value with a priority, a start time and a
sequence of instructions (`calc` or `mem`) in `OS`; there `mem` stands for the
four memory instructions and may fault. The content of a frame is the page last
written to it in `Paging`, and its bytes in `Memphy`. A file is a sequence of
words (`Boot`): blanks and line ends only separate them, and the model says what
a conversion does to a variable when its word is missing or of the wrong kind.
Printing is left out; `exit(0)` sets a flag after which nothing moves. Double
`free`, use after `free`, an index behind the symbol table and an unset pointer
that is followed end a behaviour as "undefined" in `Paging`, `ProcMemory` and
`Memphy`: nothing is claimed of what follows. A fresh byte of a device, and a
read of a sequential device outside of it, is any byte.

## 3. What is model-checked

Twelve runs, each a question of its own.

| run | instance | shows |
|---|---|---|
| `timer` | two CPUs and the loader, two slots each; spurious wakeups | `TimerInv`, `SlotAgreement`, `NoLostWakeup`, `TimerOutlivesDevices`; `StopTimerReturns`; `ImplementsBarrier`: `Timer` implements `SlotBarrier`, progress included, so `next_slot()` returns |
| `queue_array` | array of four, four processes | `QueueInv`: the shift stays in the array and leaves no hole; `ImplementsFifo`: the array is a FIFO |
| `sched_one_cpu` | one CPU, the loader, three processes on two of three priorities | slots are never overcharged, `NULL` means empty, calls return, no process starves |
| `os_one_cpu` | one CPU, three processes of two priorities, the last two start late | every process runs to its end, the program ends, `get_proc` returns |
| `os_two_cpus` | two CPUs, four processes, one of an invalid priority, queues of one place, memory faults; the last process comes when both CPUs may have run dry | no process in two places or in none (`OnePlace`, `NoneForgotten`), processes of a valid priority dropped only in excess of what their queue holds (`OnlyExcessLost`), queues hold their own priority (`QueuesWellFormed`), `current_prio` and `time_left` stay in range (`OSTypeOK`), one instruction per slot, a full quantum at each dispatch, not before the start time, to the end of the code, nothing left behind |
| `memory` | two symbols, pages of two bytes, sizes two and three, offsets inside a region, at its end and behind it, two frames of RAM and two of swap | the areas and the paging together: `NoOverlap`, `BelowBrk`, `MemoryMapped`, `AllocGivesSize`; `OverrunIsFirstByte`: the access that `READ` and `WRITE` accept at the end of a region has the page and offset of the first byte of a neighbour at worst, and no other access those of a byte of another symbol; `MappedByPaging`: between instructions, while swap has a frame left, the paging finds each mapped page on its list or in swap; `WithinArea`; `InstructionReturns`: each instruction comes back or ends the program |
| `paging_one_cpu` | two processes of three pages on two frames of RAM and three of swap | frames are given once (`FrameGivenOnce`), victims are least recently used (`LruOrder`), present pages can be evicted while swap has a frame left (`EvictablePresent`), swap copies are apart (`SwapCopiesDistinct`) |
| `boot` | six configurations, whole, cut off at each word of one, legacy and missing; programs whole, short, long, with missing arguments, unknown opcodes and missing; devices of five, two, one and no bytes in pages of two, one sequential | `ConfigRead` and `ProgramsAsWritten`: what a file says is what the simulator works with; `ImplementsStore`: `Memphy` implements `FrameStore` |
| `os_idle_cpu` | one CPU, one short process | **violated**: `Termination` |
| `os_spinning_cpu` | two CPUs, two processes | **violated**: `GetReturns` |
| `paging_two_cpus` | two CPUs, two processes of one page | **violated**: `FrameGivenOnce` |
| `paging_present` | one CPU, one process | **violated**: `GottenPageIsPresent` |

**Bounds.** `MaxSlot` bounds how often a device calls `next_slot()` in `timer`:
with two calls a device reports, is released, reports again and detaches while
others are a slot behind, which is every relation two devices can have (the
invariant, proved for all bounds, says they are never further apart).
`Capacity` is the usable length of a queue; `os_two_cpus` makes it 1 so that it
overflows. `MAX_PRIO` is 1 to 3, enough for a queue with one slot, one with
several, and an empty one between. `MaxTime` is the last start time: time is
not counted beyond it, since nothing is compared with a later one. `MaxBrk`
stops allocations beyond four pages of two bytes: four regions, or three and a
hole, fit below it, and `PAGING_MAX_PGN` is 4, so that the area just fits the
bus. A symbol of two bytes is a page, or parts of two; one of three leaves a byte
when two are cut from it. Offset 3 is at the end of a region of size three and
behind one of size two, offset 4 is behind both. In `Paging` nothing is ever put back, so that
the frames themselves bound the run: two or three frames of each device let
pages be evicted, fetched again, and both devices run out. `MaxFrames` bounds
how many frames the client of `Memphy` asks for in one call: with two, and one
more than there may be, a call is served, served in part, or fails; the largest
device of `Boot` has two frames, so that there is a list with a second node, and
one without any.

**Symmetry** is used only for runs without liveness properties: CPUs in `OS` run
the same code, processes of `Paging` differ in nothing.

**Deadlock** is checked in every run. A program that has ended stutters by an
explicit `Terminated` (`Ended`, `ProgramEnded`) action.

**Fairness.** Threads are pthreads under a scheduler that runs every thread that
can run: weak fairness of each thread. A mutex that a thread asks for and that
is free again and again is granted in the end: strong fairness of `LockQueue`
in `Sched` and `OS`, and of `TimerLockTimer` and `DeviceLockEvent` in `Timer`,
where a spurious wakeup can make the sleeper take and give back the mutex
forever. Spurious wakeups themselves have no fairness. That a device ends its
work in a slot (weak fairness of `CallNextSlot` / `CallDetach`) is the device's
part of the contract; `os_spinning_cpu` shows what happens when it does not
keep it. `SlotBarrier` claims progress only once every device has arrived. In
`ProcMemory` the CPU finishes the instruction it has begun (weak fairness of
`Instruction` while one is under way); nothing makes it begin another.

## 4. What the checks found

* **A CPU that finds no process never stops** (`os_idle_cpu`). At the top of
  its loop a CPU without a process calls `next_slot` and `continue`s (`os.c:80`)
  without a look at `done`. If it has no process there when the loader
  finishes, `main` joins it forever.
* **`get_proc` can spin forever** (`os_spinning_cpu`). `queue_empty()` is tested
  once, before the endless loop of `get_mlq_proc` (`sched.c:119-124`). If
  another CPU takes the last process in between, the CPU walks through empty
  queues, does not reach `next_slot`, and the simulated time stands still.
* **A frame is given twice** (`paging_two_cpus`). `MEMPHY_get_freefp` unlinks
  the head of the free list without a lock (`mm-memphy.c:207-218`).
* **A page that got a free frame stays absent** (`paging_present`). The entry
  is set in a local copy (`mm-vm.c:298`), so that each access takes another
  frame until the RAM is used up.

Further disagreements are stated as properties of the modules and have no run
of their own; replacing the properties of the named configuration by the one
given (and removing `SYMMETRY`) shows each of them:

| property | configuration | what TLC shows |
|---|---|---|
| `SlotsBounded` | `MCOS_two_cpus.cfg` | the slots of a queue are tested outside the lock (`sched.c:151`) and charged inside it (165): two CPUs overcharge it |
| `NullMeansEmpty` | `MCOS_two_cpus.cfg` | the size is tested outside the lock (148), the queue emptied before the dequeue (162): `NULL`, though another queue holds a process |
| `NothingLost` | `MCOS_two_cpus.cfg` | a full queue (`queue.c:23`) or an invalid priority (`sched.c:196`, which `test/sched.c` expects) drops a process silently; `OnlyExcessLost` is what is kept |
| `FirstFit` | `MCProcMemory.cfg` | `get_free_vmrg_area` does not stop at the first fit (`mm-vm.c:835-874`): it cuts pieces from every region and keeps the last |
| `WritesInside` | `MCProcMemory.cfg` | the test of "Accessing out-of-range region" (`mm-vm.c:490`) lets the byte behind the region through |
| `SwapsIn` | `MCPaging_one_cpu.cfg` | the second `__swap_cp_page` (`mm-vm.c:340`) copies from RAM to swap again: the content does not come back |
| `ListIsValid` | `MCPaging_one_cpu.cfg` | when the victim was the only page, `lru_pgn` keeps pointing to its freed node (`mm-vm.c:778`) |
| `NoAccessOutside` | `MCBoot.cfg` | `MEMPHY_seq_read` does not test the address: a sequential device answers a read outside of it with 0, though "it never goes out of range" (`mm-memphy.c:33-36`) |
| `LegacyRead` | `MCBoot.cfg`, `MM_FIXED_MEMSZ = TRUE` | a file of the format "back compatible with legacy" (`os.c:207-211`) has no priorities, which the build with `MLQ_SCHED` reads: start times become priorities, and later processes get the name before |

`NoStarvation`, which holds in `sched_one_cpu`, fails with a second CPU, though
no call of `get_proc` hangs. With `MAX_PRIO = 2`, two processes of priority 0 and
one of priority 1: both CPUs find `slots[0]` at 1, below the quota of 2, and both
charge it. The test is for equality (`sched.c:151`), so that with 3 the quota is
never reached again, `current_prio` stays at 0 while a process is in its queue,
and the two CPUs keep giving its processes back; the other process waits for
ever. (TLC needs more than a few minutes for this from the initial state of
`Sched`, and seconds from the state in which the three processes are queued.)

`PAGING_FPN` and `PAGING_SWP`, masks of an address, are also applied to page
table entries (`mm-vm.c:338, 394`), where they extract other bits than those
stored; `Paging` models what they compute.

## 5. What is proved

TLAPS checks these for every value of the constants under the named assumptions.

**`TimerProofs`** (`Devices` finite and not empty, any `MaxSlot`). The inductive
invariant is `TimerInv`: types (`TypeOK`), a complete device list without
duplicates (`ListInv`), who holds which mutex (`LockInv`), what the two flags of
a device say about its thread and its slot (`FlagInv`), and what the devices
already scanned have reported (`ScanInv`). `SlotAgreement` alone is not
inductive: that time may tick depends on every device having been scanned and
not having left since (`ScanInv`), which depends on flags being cleared only by
the timer and only for devices that have arrived (`FlagInv`), which needs each
flag to be written under its mutex (`LockInv`). `NextInv` has one case per
action and one step per conjunct. From it: `Invariance`, `TypeCorrect`,
`SlotsAgree`, `WakeupsKept`, `TimerIsLast`. `RefinesBarrier` proves the safety
half of `ImplementsBarrier`, `Safety => Barrier!Safety`, by showing each step a
`Tick`, `Arrive`, `Depart`, `Return` or a stutter (`StepRefines`).

**`ProcQueueProofs`** (any array size of at least 1, any processes).
`QueueCorrect`: `QueueInv`, that is types, `ShiftInBounds` and `NoHole`, is
inductive; `InBounds` and `NoHoles` are its two halves. `QueueIsFifo`: the array
implements `FifoQueue` under the mapping that reads the slots below `size` as
the queue; a shift is `Tail`, a store is `Append`.

**`VMRegionsProofs`** (any symbols, any positive sizes, any page size, any
bound). `RegInv` strengthens `NoOverlap` and `BelowBrk` with the state of the
search: the region in hand while searching, and that a region is either
`NoRegion` or well ordered. One lemma per action; cutting a piece from a free
region rests on `PieceApart`. `AllocSize` needs what the search has promised so
far (`SizeInv`); `SymbolsMapped` needs that all pages below `vm_end` are mapped
(`MapInv`) and a few facts about `PageAlign`. An address below the end of the bus
is its page number times the page size and its offset, so that two addresses
with the same page and offset are one (`AddressSplit`); the address right behind
the last one looks like address 0 (`TopWraps`).

**`SchedProofs`** (any number of CPUs, priorities and processes, any capacity).
`SchedInv` is inductive: `ControlInv`, that is types, the range of what
`get_mlq_proc` keeps in its locals (`TmpInv`), that `queue_lock` is held exactly
from a lock to its unlock (`LockInv`) and that a thread has no process while it
looks for one (`HandInv`); and `PlaceInv`, that is `OnePlace`,
`QueuesWellFormed` and `NoneForgotten`. Mutual exclusion is what keeps two CPUs
from taking the same head; that the caller of `put_proc` holds a process is what
keeps it from being queued twice. `ProcessInOnePlace`, `QueuesStayWellFormed`
and `ProcessIsSomewhere` follow. `OnlyExcessIsLost` (`OnlyExcessLost`, for finitely
many processes): whoever drops a process of priority `q` has just found the
queue of `q` full, and the processes in it are as many, of that priority, and
neither lost nor in a hand (`QueuedCount`). `NothingIsLost` follows: if priorities
are valid and there are no more processes than a queue has places, none is
dropped at all.

With **one CPU** there is more: what the CPU has read outside the lock is still
true when it uses it, because the loader only adds (`LoaderInv`). `QuotaInv`
says this of the slots, `StockInv` of the queues; `SlotsNeverOverdrawn`
(`SlotsBounded`) and `NullOnlyWhenEmpty` (`NullMeansEmpty`) rest on them. There
is no second case: with two CPUs both are false (section 4).

**`OSProofs`** (any CPUs and processes, any time slot; `OrderAssumption`,
`CodeAssumption`, `TimeAssumption`). `OSImplementsSched`: a step of the CPUs,
the loader or the barrier is a step of `Sched` or none, so that `OSKeepsSched`
has `OnePlace`, `QueuesWellFormed` and `NoneForgotten` of the whole program, and
`OSLosesExcessOnly` has `OnlyExcessLost`.
`OSInv` adds to `SchedInv`: where a thread is in `cpu_routine` or `ld_routine`
says where it is in `sched.c`, in its slot, and what it holds (`CpuControl`,
`LoaderControl`, together `Controlled`); the processes not yet loaded come later
in the configuration (`FreshInv`); a process that ran in this slot stays with
its CPU until the slot is over (`RanInv`); a process about to be queued has
reached its start time (`StartInv`). The theorems are `FreedAtTheEnd`,
`StartedOnTime`, `OneInstruction`, `WholeQuanta` and `OSTypeCorrect`.
`WholeQuanta` counts: what a process has executed and what is left of its
quantum are whole quanta together (`QuantumInv`, for a positive time slot; with
0 the property says nothing). `NoWorkLeft`, for at least one CPU: a CPU that is
going to stop is `Doomed`, and while a process is queued there is a CPU that is
not, or the loader has added in this slot and every CPU that has not stopped
will look again in the next (`StockWatched`). That the loader detaches only a
slot after its last `add_proc` is what this needs of `os.c`.

**`PagingProofs`** has three parts.

* Entries. `FpnStored` and `SwapStored`: the setters store every value that fits
  its field, whatever the entry held before, and leave every bit outside their
  fields and the present and swapped flags as it was.
  The hypotheses are the limits: an offset of 2^21 or more (a swap frame from
  number 8192 on, `mm-vm.c:346`) is not stored in full.
* The list, for any number of CPUs: `PagingCorrect` has the types and
  `OrderInv`, that the list is in the order of last use and no page was used
  after itself. `ListByLastUse` (`LruOrder`) and, for the step that takes a
  victim, `LeastRecentlyUsedGoes`.
* Frames and swap, for **one CPU**, RAM up to 1 MB (`PagingAssumption`) and swap
  of any size. `FramesInv`: the
  frames handed out are those below the head of the free list, and the one the
  CPU is unlinking (`NodeInv`, `InOrder`); from it `FramesGivenOnce` and
  `FreedNodesUnused`. `EvictInv` adds the page in the hands of the CPU to those
  on the list; from it `PresentCanLeave` (`EvictablePresent`), as long as swap
  has a frame left: with a full swap the victim is taken from the list and stays
  present. `SwapInv`: the address in the entry of a swapped page is that of a
  frame below the one just handed out, so that the next is new; from it
  `SwapFramesApart` (`SwapCopiesDistinct`). It is claimed of the states in which
  at most 8192 swap frames were handed out, whose addresses fit the field of 21
  bits (`SwapFits`), on a swap of any size: the shipped 16 MB have 65536 frames,
  and beyond 8192 offsets do repeat. That a state with few frames handed out had
  only such states before it is `HeadRises`. Two CPUs take the same frame
  (section 4).

**`ProcMemoryProofs`** (the same parameters as `VMRegionsProofs`, any table,
offsets, frames). `RefinesRegions`: each step of the instructions of `cpu.c`,
with the paging below, is a step of `VMRegions` or leaves its variables alone
(`MemStep`, one case per action). With it every invariant of `VMRegionsProofs`
holds of the process that also reads, writes and pages: `MemoryApart` is
`NoOverlap`, `BelowBrk` and `MemoryMapped` for it. `OverrunBounded`
(`OverrunIsFirstByte`) takes the accesses that `READ` and `WRITE` accept from
addresses to pages and offsets (`AddressSplit`): a common page and offset is a
common address, which `NoOverlap` leaves only at the end of a region, or the
wrap at the end of a bus that is full, which is a first byte, too. The other
direction, from the areas to the paging, has the inductive invariant `MemInv`:
`MapInv` of `VMRegionsProofs`, that `__alloc` waits while its pages are mapped
(`GrowInv`), and `PagesInv`, that is types, that pages on the list are of the
area or of the part it grows by (`ReachInv`), that a frame is unlinked only from
a list that has one (`HeadInv`), and `KnownInv`: every page that was asked for
is on the list, in swap, or in the hands of the CPU. `PagesWithinArea` is
`WithinArea`. `PagesFound` is `MappedByPaging`, which is about a swap that has a
frame left: when it has none, the failure of `MEMPHY_get_freefp` is ignored
(`mm-vm.c:313`), the victim is on no list and in no swap, and the property is
false without its hypothesis.

**`BootProofs`** (any number of devices and processes, any sizes, any set of
files; `BootAssumption`: what a configuration and a build look like;
`ProgramsAssumption`: what a program file says).

* `DevicesImplementStore` is `ImplementsStore`: byte arrays, cursors and frame
  lists implement `FrameStore`, for random and sequential devices. `StoreInv`
  (`DeviceOK`, ownership of the frames) and `ControlInv` are inductive; the
  steps of `main` that create a device are the initial steps of its store.
* `ConfigAsWritten` is `ConfigRead`: `ConfigInv` says, for each phase of
  `read_config`, that what is read so far is what the file says and what is left
  of the file is the rest of it. It holds with and without `MM_FIXED_MEMSZ`, for
  files of the format that build reads.
* `ProgramsLoaded` is `ProgramsAsWritten`: `LoadInv` says that while a program
  is read, what is left of its file is what follows the last instruction read
  (`Remains`), as long as the file has instructions left; after that nothing is
  claimed of the words, only of their number. How far a `fscanf` gets in a list
  of words is `AssignedMost`, `StopsWhere` and `LeavesTheRest`.

Where an argument by induction over data is needed (how many conversions a call
assigns, which bit of an entry differs), it is replaced by the least element of
a set of counterexamples (`Least`, from the well-founded order of the library),
which needs no theorem with an operator for a parameter.

**Only model-checked:** liveness, which the proof system does not reach:
`StopTimerReturns`, the progress half of `ImplementsBarrier`, `CallsReturn`,
`NoStarvation`, `AllFinish`, `Termination`, `GetReturns` in `os_one_cpu`, and
`InstructionReturns`. Every invariant and every action property of a passing run
is a theorem. The properties of section 4 are false, for the instances given
there, and so have no theorem.

## 6. What is not modelled

* Code of other builds: the single-queue scheduler (without `MLQ_SCHED`), with
  `queuePeek`, `init_queue` and `destroy_queue`; the segmentation memory
  `mem.c`, which is linked but not called with `MM_PAGING`, and `paging.c`,
  which belongs to a separate program.
* Code that nothing calls: `init_pte`, `free_pcb_memph`. `alloc_pages_range`,
  `enlist_framephy` and `MEMPHY_put_freefp` are not called either, and are
  modelled as a client of one device would use them.
* `dump` and `print_*`, `MEMPHY_dump`: output without a state. The test
  framework `munit` and the tests, with `create_pcb` and `destroy_pcb`, which
  serve them; only the device of `src/test/memphy.c` is taken over.
* `OS` composed with `ProcMemory`: a memory instruction of `OS` may fault, and
  that is all. `ProcMemory` is one process on one CPU; several CPUs in the paging
  at once are in `Paging`, where frames are given twice.
* The bytes of a page together with the page table: `Paging` says which page is
  in which frame, `Memphy` that a frame is a page of bytes.
* Uninitialized memory of `init_mm`: `pgd`, `lru_pgn` and `vm_freerg_list` are
  unset; the models start with zeroes, which fresh heap memory has, since nothing
  of that size is freed before. The unset ends of the frame lists
  (`mm-memphy.c:179`) are modelled: following one is undefined.
* Degenerate values: an allocation of 0 bytes (the search never returns once a
  region is free) is excluded by `SizesAssumption`; a time slot of 0 is allowed
  by `OS` and used by no run; in `Paging` memories have two frames at least
  (`PagingAssumption`), smaller ones are in `Boot`.

## 7. Plan

The order is that of importance: the slot barrier first, since every thread
runs on it; the scheduler and the CPUs on top; then memory, which is local to a
process above the frames.

Done: the modules of section 2, their runs, and the proofs of section 5.

Next, the model:

1. `OS` over `ProcMemory` instead of the instruction `mem`: the state space has
   to be cut first, by an abstract specification of the memory instructions.
2. An abstract specification of the scheduler (a set of runnable processes per
   priority) and `Sched` as its implementation.

Then the proofs:

3. `Sched` implements its abstract specification, with what two CPUs may do
   wrong as steps of the abstract one.
4. The simulation relation between `ProcMemory` and a process of `Paging`, so
   that `FramesGivenOnce` and `PresentCanLeave` carry over without a second
   proof.

## 8. Running the checks

    tlc -workers 2 -config MCTimer.cfg MCTimer      # any MC module and cfg
    tlapm TimerProofs.tla                           # any *Proofs module
