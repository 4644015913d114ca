------------------------------- MODULE MCBoot -------------------------------
(* Configurations and program files for TLC: devices of a few bytes.       *)
EXTENDS Boot

Process(start, path, prio) == [start_time |-> start, path |-> path, prio |-> prio]
Configuration(slot, cpus, sizes, processes) ==
    [header |-> <<slot, cpus, Len(processes)>>, sizes |-> sizes, processes |-> processes]

\* A RAM of two frames and a half, a swap device of one frame, one of none.
OneProgram == Configuration(2, 1, <<5, 2, 0>>, <<Process(0, "long", 1)>>)
\* Almost no memory; every program, and one that is not there.
ThreePrograms == Configuration(6, 4, <<1, 0, 0>>,
    <<Process(0, "short", 3), Process(2, "args", 5), Process(2, "long", 0)>>)
BadPrograms == {Configuration(1, 2, <<1, 1, 0>>, <<Process(1, p, 1), Process(4, "short", 0)>>) :
                    p \in {"wrong", "missing", "more", "short"}}

SomeConfigurations == {OneProgram, ThreePrograms} \cup BadPrograms

\* Files that say it, one that ends early, at any word, legacy files, and none.
SomeDisks ==
    {WrittenConfig(c) : c \in SomeConfigurations}
    \cup {SubSeq(WrittenConfig(ThreePrograms), 1, n) : n \in 1..Len(WrittenConfig(ThreePrograms)) - 1}
    \cup {WrittenLegacy(ThreePrograms), NoFile}

Instruction(op, args) == [opcode |-> op, args |-> args]
Program(priority, size, text) == [priority |-> priority, size |-> size, text |-> text]

FewBytes == {0, 1}
FixedSizesSmall == <<2, 2, 0>>

\* A whole program, one of fewer instructions than announced, one of more,
\* one whose arguments are not all there, one with an unknown opcode.
SomePrograms ==
    LET text == [long  |-> <<Instruction("alloc", <<3, 0>>), Instruction("calc", << >>),
                             Instruction("read", <<0, 1, 2>>), Instruction("free", <<0>>),
                             Instruction("write", <<1, 0, 2>>)>>,
                 short |-> <<Instruction("calc", << >>), Instruction("free", <<4>>)>>,
                 args  |-> <<Instruction("alloc", <<3>>), Instruction("read", <<0, 1>>),
                             Instruction("write", <<1, 0, 2>>)>>,
                 more  |-> <<Instruction("calc", << >>), Instruction("calc", << >>)>>,
                 wrong |-> <<Instruction("jump", <<1>>), Instruction("calc", << >>)>>]
        size == [long |-> 5, short |-> 4, args |-> 3, more |-> 1, wrong |-> 2]
    IN  [w \in {Word(n) : n \in DOMAIN text} |-> Program(1, size[w.word], text[w.word])]

=============================================================================
