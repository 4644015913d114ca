-------------------------------- MODULE Boot --------------------------------
(***************************************************************************)
(* How the simulator comes up: read_config() and main() of src/src/os.c,   *)
(* load() of src/src/loader.c, and the memory devices of Memphy.tla that   *)
(* main() creates with the sizes it read.  One thread does all this, the   *)
(* loader its last part; what the threads do with the processes is the     *)
(* subject of OS.tla.                                                      *)
(*                                                                         *)
(* Files are sequences of words (Scan.tla).  Two builds are modelled, with *)
(* and without MM_FIXED_MEMSZ, and the program of src/test/memphy.c, which *)
(* uses one sequential device.                                             *)
(***************************************************************************)
EXTENDS Memphy, Scan

CONSTANTS
    PAGING_MAX_MMSWP,
    MM_FIXED_MEMSZ,       \* the memory sizes are not in the configuration
    FixedSizes,           \* what they are then
    Disks,                \* the configuration files it is started with
    Configurations,       \* what some of them say
    Programs,             \* the program files of input/proc: what they say
    TestSize,             \* the size of the device of test/memphy.c
    NoFile, Unset         \* no such file; what nobody has set

ASSUME BootAssumption ==
    /\ PAGING_MAX_MMSWP \in Nat \ {0}
    /\ MM_FIXED_MEMSZ \in BOOLEAN
    /\ FixedSizes \in Seq(Nat)
    /\ Len(FixedSizes) = PAGING_MAX_MMSWP + 1
    /\ Devices = 0..PAGING_MAX_MMSWP
    /\ Mram = 0
    /\ TestSize \in Nat
    /\ Disks \subseteq {NoFile} \cup Seq(Words)
    /\ \A c \in Configurations :
          /\ c.header \in [1..3 -> Int]
          /\ c.sizes \in [1..PAGING_MAX_MMSWP + 1 -> Int]
          /\ c.processes \in Seq([start_time : Int, path : STRING, prio : Int])
          /\ c.header[3] = Len(c.processes)

VARIABLES
    disk,                 \* the configuration file
    phase,                \* where main() and its loader are
    file,                 \* what is left of the file that is being read
    config,               \* time_slot, num_cpus, num_processes
    memsz,                \* memramsz, then memswpsz
    ld_processes,         \* the processes of the configuration
    name,                 \* proc, the buffer of read_config()
    sit,                  \* the devices created so far
    opcode,               \* the buffer of load()
    proc,                 \* the process that is being loaded
    procs                 \* the processes loaded

configVars == <<disk, config, memsz, ld_processes, name>>
loadVars == <<opcode, proc, procs>>
vars == <<memphyVars, configVars, loadVars, phase, file, sit>>

NoProcess == [pid |-> 0, text |-> << >>]

Init ==
    /\ MemphyInit
    /\ disk \in Disks
    /\ phase = "main"
    /\ file = << >>
    /\ config = <<0, 0, 0>>
    /\ memsz = [d \in 1..PAGING_MAX_MMSWP + 1 |-> 0]
    /\ ld_processes = << >>
    /\ name = Unset
    /\ sit = 0
    /\ opcode = Unset
    /\ proc = NoProcess
    /\ procs = << >>

Goto(from, to) == phase = from /\ phase' = to

-----------------------------------------------------------------------------
(* read_config()                                                           *)

NoConfig ==
    /\ Goto("main", "exit")
    /\ disk = NoFile
    /\ UNCHANGED <<memphyVars, configVars, loadVars, file, sit>>

Quantum == config[1]
num_cpus == config[2]
num_processes == config[3]

ReadHeader ==
    LET call == Times(3, "u") IN
    /\ Goto("main", "memory")
    /\ disk # NoFile
    /\ config' = [i \in 1..3 |-> Scanned(disk, call, i, config[i])]
    /\ file' = Rest(disk, call)
    /\ UNCHANGED <<memphyVars, disk, memsz, ld_processes, name, loadVars, sit>>

\* Fault: the last of the sizes is not read.
SizeConversionsShort == Times(PAGING_MAX_MMSWP, "u")

\* One number per call; after a call that fails the others fail, too.
SizeConversions == Times(PAGING_MAX_MMSWP + 1, "u")

ReadMemorySizes ==
    /\ Goto("memory", "processes")
    /\ IF MM_FIXED_MEMSZ
       THEN memsz' = FixedSizes /\ UNCHANGED file
       ELSE /\ memsz' = [i \in DOMAIN memsz |-> Scanned(file, SizeConversions, i, memsz[i])]
            /\ file' = Rest(file, SizeConversions)
    /\ UNCHANGED <<memphyVars, disk, config, ld_processes, name, loadVars, sit>>

\* start time, name and priority of a process.  The name goes through a
\* buffer, which holds the name before it where none is read.
ReadProcess ==
    LET call == <<"u", "s", "u">>
        path == Scanned(file, call, 2, name)
    IN
    /\ phase = "processes"
    /\ Len(ld_processes) < num_processes
    /\ ld_processes' = Append(ld_processes,
          [start_time |-> Scanned(file, call, 1, Unset), path |-> path,
           prio |-> Scanned(file, call, 3, Unset)])
    /\ name' = path
    /\ file' = Rest(file, call)
    /\ UNCHANGED <<memphyVars, disk, config, memsz, loadVars, phase, sit>>

ConfigDone ==
    /\ Goto("processes", "devices")
    /\ Len(ld_processes) >= num_processes
    /\ UNCHANGED <<memphyVars, configVars, loadVars, file, sit>>

-----------------------------------------------------------------------------
(* main()                                                                  *)

\* The RAM, and every swap device, also those of no bytes: all random.
CreateDevice ==
    /\ phase = "devices"
    /\ sit \in Devices
    /\ init_memphy(sit, memsz[sit + 1], TRUE)
    /\ sit' = sit + 1
    /\ UNCHANGED <<configVars, loadVars, phase, file>>

\* init_scheduler(), and the threads.
StartThreads ==
    /\ Goto("devices", "load")
    /\ sit \notin Devices
    /\ UNCHANGED <<memphyVars, configVars, loadVars, file, sit>>

\* The other program: one sequential device, and no file.
TestProgram ==
    /\ Goto("main", "test")
    /\ disk = NoFile
    /\ init_memphy(Mram, TestSize, FALSE)
    /\ UNCHANGED <<configVars, loadVars, file, sit>>

-----------------------------------------------------------------------------
(* load()                                                                  *)

Arity == [calc |-> 0, alloc |-> 2, free |-> 1, read |-> 3, write |-> 3]

\* What a program file says: numbers for the arguments, no more of them than
\* the opcode takes.  They may be fewer, and the opcode may be none of ours.
ASSUME ProgramsAssumption ==
    \A w \in DOMAIN Programs :
        /\ Programs[w].priority \in Int
        /\ Programs[w].size \in Nat
        /\ Programs[w].text \in Seq([opcode : STRING, args : Seq(Int)])
        /\ \A i \in DOMAIN Programs[w].text :
              LET instruction == Programs[w].text[i] IN
              instruction.opcode \in DOMAIN Arity =>
                  Len(instruction.args) <= Arity[instruction.opcode]

\* A program file: priority, size and the instructions.
InstructionWords(instruction) ==
    <<Word(instruction.opcode)>> \o [k \in DOMAIN instruction.args |-> Num(instruction.args[k])]
WrittenProgram(p) ==
    <<Num(p.priority), Num(p.size)>>
        \o FlattenSeq([i \in DOMAIN p.text |-> InstructionWords(p.text[i])])

NextPath == ld_processes[Len(procs) + 1].path

NoProgram ==
    /\ Goto("load", "exit")
    /\ Len(procs) < num_processes
    /\ NextPath \notin DOMAIN Programs
    /\ UNCHANGED <<memphyVars, configVars, loadVars, file, sit>>

\* A new pcb with the next pid, and room for the instructions.
OpenProgram ==
    LET written == WrittenProgram(Programs[NextPath])
        call == Times(2, "u")
    IN
    /\ Goto("load", "instructions")
    /\ Len(procs) < num_processes
    /\ NextPath \in DOMAIN Programs
    /\ proc' = [pid |-> Len(procs) + 1, path |-> NextPath, priority |-> Scanned(written, call, 1, Unset),
                size |-> Scanned(written, call, 2, 0), text |-> << >>]
    /\ opcode' = Unset
    /\ file' = Rest(written, call)
    /\ UNCHANGED <<memphyVars, configVars, procs, sit>>
\* The opcode is what the buffer holds: at the end of the file, the one before.
NextOpcode == Scanned(file, <<"s">>, 1, opcode)

\* get_opcode()
Known(word) == word # Unset /\ "word" \in DOMAIN word /\ word.word \in DOMAIN Arity

UnknownOpcode ==
    /\ Goto("instructions", "exit")
    /\ Len(proc.text) < proc.size
    /\ ~Known(NextOpcode)
    /\ UNCHANGED <<memphyVars, configVars, loadVars, file, sit>>

\* Fault: the last argument of a read or a write is not read.
ArgumentsButThird(op) == Times(Min({Arity[op], 2}), "u")

Arguments(op) == Times(Arity[op], "u")

ReadInstruction ==
    LET op == NextOpcode.word
        rest == Rest(file, <<"s">>)
        call == Arguments(op)
    IN
    /\ phase = "instructions"
    /\ Len(proc.text) < proc.size
    /\ Known(NextOpcode)
    /\ proc' = [proc EXCEPT !.text = Append(@,
          [opcode |-> op, args |-> [k \in 1..Arity[op] |->
              IF k \in DOMAIN call THEN Scanned(rest, call, k, Unset) ELSE Unset]])]
    /\ opcode' = NextOpcode
    /\ file' = Rest(rest, call)
    /\ UNCHANGED <<memphyVars, configVars, procs, phase, sit>>

\* What follows the last instruction is not looked at.
ProgramLoaded ==
    /\ Goto("instructions", "load")
    /\ Len(proc.text) = proc.size
    /\ procs' = Append(procs, proc)
    /\ proc' = NoProcess
    /\ opcode' = Unset
    /\ file' = << >>
    /\ UNCHANGED <<memphyVars, configVars, sit>>

AllLoaded ==
    /\ Goto("load", "run")
    /\ Len(procs) >= num_processes
    /\ UNCHANGED <<memphyVars, configVars, loadVars, file, sit>>

-----------------------------------------------------------------------------
\* Loading touches no device: they are used when it is over.
UseDevices ==
    /\ phase \in {"run", "test"}
    /\ MemphyNext
    /\ UNCHANGED <<configVars, loadVars, phase, file, sit>>

Ended == phase = "exit" \/ undefined
Terminated == Ended /\ UNCHANGED vars

Next ==
    \/ NoConfig \/ ReadHeader \/ ReadMemorySizes \/ ReadProcess \/ ConfigDone
    \/ CreateDevice \/ StartThreads \/ TestProgram
    \/ NoProgram \/ OpenProgram \/ UnknownOpcode \/ ReadInstruction
    \/ ProgramLoaded \/ AllLoaded
    \/ UseDevices
    \/ Terminated

Spec == Init /\ [][Next]_vars

-----------------------------------------------------------------------------
(* Properties.                                                             *)

\* The format of a configuration file: "[time slice] [N = Number of CPU]
\* [M = Number of Processes to be run]", "MEM_RAM_SZ MEM_SWP0_SZ ...", and
\* start time, name and priority of each process.
ProcessWords(p) == <<Num(p.start_time), Word(p.path), Num(p.prio)>>
HeaderWords(c) == [i \in 1..3 |-> Num(c.header[i])]
SizeWords(c) ==
    IF MM_FIXED_MEMSZ THEN << >> ELSE [i \in 1..PAGING_MAX_MMSWP + 1 |-> Num(c.sizes[i])]
ProcessLines(c) ==
    [k \in 1..3 * Len(c.processes) |->
        ProcessWords(c.processes[1 + ((k - 1) \div 3)])[1 + ((k - 1) % 3)]]
WrittenConfig(c) == HeaderWords(c) \o SizeWords(c) \o ProcessLines(c)

\* The sizes that the devices get.
Sizes(c) == IF MM_FIXED_MEMSZ THEN FixedSizes ELSE c.sizes

Ready == phase \in {"load", "instructions", "run"}

\* What a well-formed configuration says is what the simulator works with:
\* nothing is shifted from one line, or one variable, into another.
ConfigRead ==
    \A c \in Configurations : disk = WrittenConfig(c) /\ Ready =>
        /\ config = c.header
        /\ ld_processes = [i \in DOMAIN c.processes |->
                              [c.processes[i] EXCEPT !.path = Word(@)]]
        /\ \A d \in Devices : mp[d].maxsz = Sizes(c)[d + 1]

\* A process has as many instructions as its file announces, and they are
\* those of the file as far as it goes: an instruction that lacks an argument
\* takes none of the next one's words.
ProgramsAsWritten ==
    \A i \in DOMAIN procs :
        LET written == Programs[procs[i].path].text
            text == procs[i].text
        IN  /\ Len(text) = Programs[procs[i].path].size
            /\ \A k \in DOMAIN text \cap DOMAIN written :
                  /\ text[k].opcode = written[k].opcode
                  /\ \A j \in DOMAIN written[k].args : text[k].args[j] = written[k].args[j]

\* "We provide here a back compatible with legacy OS simulatiom config file":
\* a file without memory sizes and priorities still names its processes.
WrittenLegacy(c) ==
    HeaderWords(c)
        \o FlattenSeq([i \in DOMAIN c.processes |->
                          <<Num(c.processes[i].start_time), Word(c.processes[i].path)>>])
LegacyRead ==
    \A c \in Configurations : disk = WrittenLegacy(c) /\ Ready =>
        \A i \in DOMAIN c.processes : ld_processes[i].path = Word(c.processes[i].path)

=============================================================================
