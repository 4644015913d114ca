---------------------------- MODULE PagingProofs ----------------------------
(***************************************************************************)
(* Proofs about page table entries and demand paging.  An entry holds what *)
(* was stored in it last, whatever it held before, for every number whose  *)
(* bits fit the field.  Types and the order of the list of pages           *)
(* hold for any number of CPUs.  The rest holds for one CPU: nothing       *)
(* protects the lists of free frames, and two CPUs do get the same frame.  *)
(***************************************************************************)
EXTENDS Paging, SequenceTheorems, WellFoundedInduction, TLAPS

-----------------------------------------------------------------------------
(* Bits and numbers.                                                       *)

(* A set of numbers has a least one: what stands for induction below. *)
LEMMA Least ==
  ASSUME NEW T \in SUBSET Nat, T # {}
  PROVE  \E n \in T : \A m \in T : n <= m
<1>1. \E n \in T : \A m \in T : <<m, n>> \notin OpToRel(<, Nat)
  BY WFMin, NatLessThanWellFounded, Zenon
<1>2. PICK n \in T : \A m \in T : ~(m < n)
  BY <1>1, Zenon DEF OpToRel
<1> QED
  BY <1>2

(* The weights of the bits of a word. *)
LEMMA Powers ==
  /\ \A i \in 0..24 : 2^(i + 1) = 2 * 2^i
  /\ \A i \in 0..25 : 2^i \in Nat \ {0}
  /\ 2^0 = 1
<1>1. PICK P : P = [i \in 0..25 |-> 2^i]
  OBVIOUS
<1>2. /\ P[0] = 1 /\ P[1] = 2 /\ P[2] = 4 /\ P[3] = 8 /\ P[4] = 16 /\ P[5] = 32 /\ P[6] = 64
      /\ P[7] = 128 /\ P[8] = 256 /\ P[9] = 512 /\ P[10] = 1024 /\ P[11] = 2048 /\ P[12] = 4096
  BY <1>1, SMT
<1>3. /\ P[13] = 8192 /\ P[14] = 16384 /\ P[15] = 32768 /\ P[16] = 65536 /\ P[17] = 131072
      /\ P[18] = 262144 /\ P[19] = 524288 /\ P[20] = 1048576 /\ P[21] = 2097152
      /\ P[22] = 4194304 /\ P[23] = 8388608 /\ P[24] = 16777216 /\ P[25] = 33554432
  BY <1>1, SMT
<1>4. \A i \in 0..24 : P[i + 1] = 2 * P[i] /\ P[i] \in Nat \ {0}
  BY <1>2, <1>3, SMT
<1>5. \A i \in 0..25 : P[i] = 2^i
  BY <1>1
<1>6. \A i \in 0..24 : i \in 0..25 /\ i + 1 \in 0..25
  OBVIOUS
<1>7. \A i \in 0..25 : i \in 0..24 \/ i = 25
  OBVIOUS
<1> QED
  BY <1>2, <1>3, <1>4, <1>5, <1>6, <1>7, SMT

(* Division with a remainder. *)
LEMMA Division ==
  ASSUME NEW x \in Nat, NEW d \in Nat \ {0}
  PROVE  x = (x \div d) * d + (x % d) /\ x % d \in 0..d - 1 /\ x \div d \in Nat
BY SMT

(* A quotient with its remainder is the only one. *)
LEMMA UniqueQuotient ==
  ASSUME NEW x \in Nat, NEW d \in Nat \ {0}, NEW q \in Nat, NEW r \in 0..d - 1, x = q * d + r
  PROVE  x \div d = q
BY SMT

(* Half of a quotient, and the bit that was cut off. *)
LEMMA Quotient ==
  ASSUME NEW x \in Nat, NEW d \in Nat \ {0}
  PROVE  /\ x \div d \in Nat
         /\ x < d => x \div d = 0
         /\ x \div d = 2 * (x \div (2 * d)) + ((x \div d) % 2)
         /\ (x \div d) % 2 \in {0, 1}
<1>1. PICK q, r : q = x \div d /\ r = x % d
  OBVIOUS
<1>2. q \in Nat /\ r \in 0..d - 1 /\ x = q * d + r
  BY <1>1, Division
<1>3. PICK h, b : h = q \div 2 /\ b = q % 2
  OBVIOUS
<1>4. h \in Nat /\ b \in {0, 1} /\ q = 2 * h + b
  BY <1>2, <1>3
<1>5. 2 * d \in Nat \ {0}
  OBVIOUS
<1>6. x = h * (2 * d) + (b * d + r)
  <2>1. (2 * h + b) * d = h * (2 * d) + b * d
    BY <1>4
  <2>2. b * d \in Nat /\ h * (2 * d) \in Nat
    BY <1>4
  <2> QED
    BY <1>2, <1>4, <2>1, <2>2
<1>7. b * d + r \in 0..2 * d - 1
  <2>1. b * d = 0 \/ b * d = d
    BY <1>4
  <2> QED
    BY <1>2, <2>1
<1>8. x \div (2 * d) = h
  BY <1>4, <1>5, <1>6, <1>7, UniqueQuotient
<1>9. x < d => x \div d = 0
  <2>1. ASSUME x < d PROVE x = 0 * d + x /\ x \in 0..d - 1
    BY <2>1
  <2> QED
    BY <2>1, UniqueQuotient
<1>10. q = 2 * (x \div (2 * d)) + (q % 2) /\ q % 2 \in {0, 1}
  BY <1>3, <1>4, <1>8
<1> QED
  BY <1>1, <1>2, <1>9, <1>10

(* A number below 2^21 has no bits beyond the 21 of a swap offset. *)
LEMMA HighBits ==
  ASSUME NEW x \in Nat, x < OffsetLimit
  PROVE  BitsOf(x) \subseteq 0..20
<1>1. ASSUME NEW i \in 21..25
      PROVE  (x \div 2^i) % 2 # 1
  <2>1. 2^i \in Nat \ {0} /\ x < 2^i
    <3>1. 2^22 = 2 * 2^21 /\ 2^23 = 2 * 2^22 /\ 2^24 = 2 * 2^23 /\ 2^25 = 2 * 2^24
      BY SMT
    <3>2. i = 21 \/ i = 22 \/ i = 23 \/ i = 24 \/ i = 25
      OBVIOUS
    <3>3. x < 2^21 /\ x < 2^22 /\ x < 2^23 /\ x < 2^24 /\ x < 2^25
      BY <3>1, SMT DEF OffsetLimit
    <3>4. i \in 0..25
      OBVIOUS
    <3>5. 2^i \in Nat \ {0}
      BY <3>4, Powers
    <3>6. x < 2^i
      BY <3>2, <3>3
    <3> QED
      BY <3>5, <3>6
  <2>2. x \div 2^i = 0
    BY <2>1, Quotient
  <2>3. \A z : z = 0 => z % 2 # 1
    OBVIOUS
  <2> QED
    BY <2>2, <2>3, Zenon
<1>2. ASSUME NEW i \in BitsOf(x) PROVE i \in 0..20
  <2>1. i \in 0..25 /\ (x \div 2^i) % 2 = 1
    BY DEF BitsOf, Word
  <2>2. i \notin 21..25
    BY <1>1, <2>1
  <2> QED
    BY <2>1, <2>2
<1> QED
  BY <1>2

(* The bits determine the number: from the upper bits of two numbers and one
   bit more the next ones follow. *)
LEMMA BitsDetermine ==
  ASSUME NEW x \in Nat, x < OffsetLimit, NEW y \in Nat, y < OffsetLimit, BitsOf(x) = BitsOf(y)
  PROVE  x = y
<1> DEFINE Differ == {n \in 0..21 : x \div 2^(21 - n) # y \div 2^(21 - n)}
<1>1. 0 \notin Differ
  <2>1. 2^21 \in Nat \ {0} /\ 21 - 0 = 21
    BY Powers
  <2>2. x \div 2^21 = 0 /\ y \div 2^21 = 0
    BY <2>1, Quotient DEF OffsetLimit
  <2> QED
    BY <2>1, <2>2
<1>2. ASSUME NEW n \in 1..21, n - 1 \notin Differ
      PROVE  n \notin Differ
  <2>1. PICK k \in 0..20 : k = 21 - n
    OBVIOUS
  <2>2. PICK d \in Nat \ {0} : d = 2^k
    <3>1. k \in 0..25
      BY <2>1
    <3> QED
      BY <3>1, Powers
  <2>3. 2^(21 - n) = d /\ 2^(21 - (n - 1)) = 2 * d
    <3>1. 21 - (n - 1) = k + 1 /\ k \in 0..24
      BY <2>1
    <3> QED
      BY <2>1, <2>2, <3>1, Powers
  <2>4. x \div (2 * d) = y \div (2 * d)
    BY <1>2, <2>3
  <2>5. (x \div d) % 2 = 1 <=> (y \div d) % 2 = 1
    <3>1. k \in Word
      BY <2>1 DEF Word
    <3>2. k \in BitsOf(x) <=> k \in BitsOf(y)
      OBVIOUS
    <3> QED
      BY <2>2, <3>1, <3>2, Zenon DEF BitsOf
  <2>6. x \div d = y \div d
    <3>1. /\ x \div d = 2 * (x \div (2 * d)) + ((x \div d) % 2) /\ (x \div d) % 2 \in {0, 1}
          /\ y \div d = 2 * (y \div (2 * d)) + ((y \div d) % 2) /\ (y \div d) % 2 \in {0, 1}
      BY Quotient
    <3>2. (x \div d) % 2 = (y \div d) % 2
      <4>1. \A a, b \in {0, 1} : (a = 1 <=> b = 1) => a = b
        OBVIOUS
      <4> QED
        BY <2>5, <3>1, <4>1, Zenon
    <3> QED
      BY <2>4, <3>1, <3>2, Zenon
  <2> QED
    BY <2>3, <2>6
<1>3. Differ \in SUBSET (0..21)
  OBVIOUS
<1>4. 21 \notin Differ => x \div 2^0 = y \div 2^0
  <2>1. 21 \in 0..21 /\ 21 - 21 = 0
    OBVIOUS
  <2> QED
    BY <2>1, Zenon
<1> HIDE DEF Differ
<1>5. Differ = {}
  <2> SUFFICES ASSUME Differ # {} PROVE FALSE
    OBVIOUS
  <2>1. PICK n \in Differ : \A m \in Differ : n <= m
    <3>1. Differ \in SUBSET Nat
      BY <1>3
    <3> QED
      BY <3>1, Least, Zenon
  <2>2. n \in 1..21
    BY <1>1, <1>3
  <2>3. n - 1 \notin Differ
    BY <2>1, <2>2
  <2> QED
    BY <1>2, <2>2, <2>3
<1>6. x \div 1 = x /\ y \div 1 = y
  OBVIOUS
<1> QED
  BY <1>4, <1>5, <1>6, Powers

(* Zero has no bits. *)
LEMMA ZeroBits == BitsOf(0) = {}
<1>1. ASSUME NEW i \in Word
      PROVE  (0 \div 2^i) % 2 # 1
  <2>1. 2^i \in Nat \ {0}
    BY Powers DEF Word
  <2>2. 0 < 2^i
    BY <2>1
  <2>3. 0 \div 2^i = 0
    BY <2>1, <2>2, Quotient
  <2>4. \A z : z = 0 => z % 2 # 1
    OBVIOUS
  <2> QED
    BY <2>3, <2>4, Zenon
<1> QED
  BY <1>1, Zenon DEF BitsOf

-----------------------------------------------------------------------------
(* Fields.                                                                 *)

\* SETVAL of mm.h replaces a field and leaves the other bits alone, whatever
\* was there before, if the bits of the value fit the mask.
LEMMA SetvalField ==
    ASSUME NEW v \in SUBSET Nat, NEW value, NEW mask \in SUBSET Nat, NEW offst \in Nat,
           \A i \in BitsOf(value) : i + offst \in mask
    PROVE  /\ Field(SETVAL(v, value, mask, offst), mask, offst) = BitsOf(value)
           /\ SETVAL(v, value, mask, offst) \ mask = v \ mask
           /\ SETVAL(v, value, mask, offst) \in SUBSET Nat
<1>1. PICK bits : bits = BitsOf(value) OBVIOUS
<1>2. bits \in SUBSET Nat BY <1>1 DEF BitsOf, Word
<1>3. PICK new : new = SETVAL(v, value, mask, offst) OBVIOUS
<1>4. \A j : j \in new <=> (j \in v /\ j \notin mask) \/ (\E i \in bits : j = i + offst)
  BY <1>1, <1>3 DEF SETVAL
<1>5. ASSUME NEW k PROVE k \in Field(new, mask, offst) <=> k \in bits
  <2>1. ASSUME k \in bits PROVE k \in Field(new, mask, offst)
    <3>1. k + offst \in new \cap mask /\ k + offst \in Nat /\ k + offst >= offst
      BY <1>1, <1>2, <1>4, <2>1
    <3>2. k = (k + offst) - offst BY <1>2, <2>1
    <3> QED BY <3>1, <3>2 DEF Field
  <2>2. ASSUME k \in Field(new, mask, offst) PROVE k \in bits
    <3>1. PICK j \in new \cap mask : j >= offst /\ k = j - offst BY <2>2 DEF Field
    <3>2. PICK i \in bits : j = i + offst BY <1>4, <3>1
    <3>3. k = i BY <1>2, <3>1, <3>2
    <3> QED BY <3>2, <3>3
  <2> QED BY <2>1, <2>2
<1>6. Field(new, mask, offst) = bits BY <1>5
<1>7. new \ mask = v \ mask BY <1>1, <1>4
<1>8. ASSUME NEW j \in new PROVE j \in Nat
  <2>1. CASE j \in v BY <2>1
  <2>2. ASSUME NEW i \in bits, j = i + offst PROVE j \in Nat BY <1>2, <2>2
  <2> QED BY <1>4, <2>1, <2>2
<1> QED BY <1>1, <1>3, <1>6, <1>7, <1>8

(* The fields of an entry do not overlap, nor do the two flags. *)
LEMMA Masks ==
    /\ FPN_MASK \in SUBSET Nat /\ SWPTYP_MASK \in SUBSET Nat /\ SWPOFF_MASK \in SUBSET Nat
    /\ PRESENT \in Nat /\ SWAPPED \in Nat
    /\ \A bit \in {PRESENT, SWAPPED} : bit \notin FPN_MASK \cup SWPTYP_MASK \cup SWPOFF_MASK
    /\ SWPTYP_MASK \cap SWPOFF_MASK = {}
    /\ PRESENT # SWAPPED
BY DEF FPN_MASK, SWPTYP_MASK, SWPOFF_MASK, PRESENT, SWAPPED

\* pte_set_fpn() leaves an entry that is present, in RAM, and holds the frame,
\* also when it held a swap offset before, and keeps every bit outside the
\* frame number and the two flags: dirty, reserved and user bits survive.
THEOREM FpnStored ==
    ASSUME NEW pte \in SUBSET Nat, NEW fpn, BitsOf(fpn) \subseteq 0..12
    PROVE  /\ Field(pte_set_fpn(pte, fpn), FPN_MASK, FPN_LOBIT) = BitsOf(fpn)
           /\ pte_set_fpn(pte, fpn) \ (FPN_MASK \cup {PRESENT, SWAPPED})
                = pte \ (FPN_MASK \cup {PRESENT, SWAPPED})
           /\ PRESENT \in pte_set_fpn(pte, fpn)
           /\ SWAPPED \notin pte_set_fpn(pte, fpn)
           /\ pte_set_fpn(pte, fpn) \in SUBSET Nat
<1>1. PICK old : old = (pte \cup {PRESENT}) \ {SWAPPED} OBVIOUS
<1>2. PICK new : new = SETVAL(old, fpn, FPN_MASK, FPN_LOBIT) OBVIOUS
<1>3. old \in SUBSET Nat BY <1>1, Masks
<1>4. FPN_LOBIT \in Nat /\ \A i \in BitsOf(fpn) : i + FPN_LOBIT \in FPN_MASK
  BY DEF FPN_LOBIT, FPN_MASK
<1>5. /\ Field(new, FPN_MASK, FPN_LOBIT) = BitsOf(fpn)
      /\ new \ FPN_MASK = old \ FPN_MASK
      /\ new \in SUBSET Nat
  BY <1>2, <1>3, <1>4, Masks, SetvalField
<1>6. PRESENT \in new /\ SWAPPED \notin new
  <2>1. PRESENT \in old \ FPN_MASK BY <1>1, Masks
  <2>2. SWAPPED \notin old \ FPN_MASK /\ SWAPPED \notin FPN_MASK BY <1>1, Masks
  <2> QED BY <1>5, <2>1, <2>2
<1>7. new \ (FPN_MASK \cup {PRESENT, SWAPPED}) = pte \ (FPN_MASK \cup {PRESENT, SWAPPED})
  <2>1. old \ {PRESENT, SWAPPED} = pte \ {PRESENT, SWAPPED} BY <1>1
  <2> QED BY <1>5, <2>1
<1> QED BY <1>1, <1>2, <1>5, <1>6, <1>7 DEF pte_set_fpn

\* pte_set_swap() leaves an entry that is swapped and holds the type and the
\* offset, also when it held a frame before, if the offset fits its 21 bits.
\* (The address of a swap frame from number 8192 on does not.)  It sets the
\* present bit, too, which its caller clears, and keeps every other bit.
THEOREM SwapStored ==
    ASSUME NEW pte \in SUBSET Nat, NEW typ, NEW off,
           BitsOf(typ) \subseteq 0..4, BitsOf(off) \subseteq 0..20
    PROVE  /\ Field(pte_set_swap(pte, typ, off), SWPTYP_MASK, SWPTYP_LOBIT) = BitsOf(typ)
           /\ Field(pte_set_swap(pte, typ, off), SWPOFF_MASK, SWPOFF_LOBIT) = BitsOf(off)
           /\ pte_set_swap(pte, typ, off) \ (SWPTYP_MASK \cup SWPOFF_MASK \cup {PRESENT, SWAPPED})
                = pte \ (SWPTYP_MASK \cup SWPOFF_MASK \cup {PRESENT, SWAPPED})
           /\ PRESENT \in pte_set_swap(pte, typ, off)
           /\ SWAPPED \in pte_set_swap(pte, typ, off)
           /\ pte_set_swap(pte, typ, off) \in SUBSET Nat
<1>1. PICK old : old = pte \cup {PRESENT, SWAPPED} OBVIOUS
<1>2. PICK mid : mid = SETVAL(old, typ, SWPTYP_MASK, SWPTYP_LOBIT) OBVIOUS
<1>3. PICK new : new = SETVAL(mid, off, SWPOFF_MASK, SWPOFF_LOBIT) OBVIOUS
<1>4. old \in SUBSET Nat BY <1>1, Masks
<1>5. SWPTYP_LOBIT \in Nat /\ \A i \in BitsOf(typ) : i + SWPTYP_LOBIT \in SWPTYP_MASK
  BY DEF SWPTYP_LOBIT, SWPTYP_MASK
<1>6. SWPOFF_LOBIT \in Nat /\ \A i \in BitsOf(off) : i + SWPOFF_LOBIT \in SWPOFF_MASK
  BY DEF SWPOFF_LOBIT, SWPOFF_MASK
<1>7. /\ Field(mid, SWPTYP_MASK, SWPTYP_LOBIT) = BitsOf(typ)
      /\ mid \ SWPTYP_MASK = old \ SWPTYP_MASK
      /\ mid \in SUBSET Nat
  BY <1>2, <1>4, <1>5, Masks, SetvalField
<1>8. /\ Field(new, SWPOFF_MASK, SWPOFF_LOBIT) = BitsOf(off)
      /\ new \ SWPOFF_MASK = mid \ SWPOFF_MASK
      /\ new \in SUBSET Nat
  BY <1>3, <1>6, <1>7, Masks, SetvalField
<1>9. Field(new, SWPTYP_MASK, SWPTYP_LOBIT) = BitsOf(typ)
  <2>1. new \cap SWPTYP_MASK = mid \cap SWPTYP_MASK BY <1>8, Masks
  <2>2. Field(new, SWPTYP_MASK, SWPTYP_LOBIT) = Field(mid, SWPTYP_MASK, SWPTYP_LOBIT)
    BY <2>1 DEF Field
  <2> QED BY <1>7, <2>2
<1>10. PRESENT \in new /\ SWAPPED \in new
  <2>1. PRESENT \in mid /\ SWAPPED \in mid BY <1>1, <1>7, Masks
  <2> QED BY <1>8, <2>1, Masks
<1>11. new \ (SWPTYP_MASK \cup SWPOFF_MASK \cup {PRESENT, SWAPPED})
         = pte \ (SWPTYP_MASK \cup SWPOFF_MASK \cup {PRESENT, SWAPPED})
  <2>1. old \ {PRESENT, SWAPPED} = pte \ {PRESENT, SWAPPED} BY <1>1
  <2> QED BY <1>7, <1>8, <2>1
<1> QED BY <1>1, <1>2, <1>3, <1>8, <1>9, <1>10, <1>11 DEF pte_set_swap

-----------------------------------------------------------------------------
(* The inductive invariant for any number of CPUs.                         *)

GetFreeFp == {"fpn", "next", "store", "free"}     \* inside MEMPHY_get_freefp()
Pcs == GetFreeFp \cup {"getpage", "head", "victim", "swap", "enlist", "access"}
Ops == {"map", "read", "write"}

BusyCpu ==
    [pc : Pcs, proc : Procs, todo : Seq([op : Ops, page : Pages]) \ {<<>>},
     failed : BOOLEAN, afterRead : BOOLEAN,
     mem : Mems, fp : Nat, next : Nat, ret : Nat, pte : SUBSET Nat, vic : Nat]

PagingTypes ==
    /\ cpu \in [Cpus -> {Idle} \cup BusyCpu]
    /\ pgd \in [Procs -> [Pages -> SUBSET Nat]]
    /\ lru \in [Procs -> Seq(Pages)]
    /\ usedAfter \in [Procs -> SUBSET (Pages \X Pages)]
    /\ head \in [Mems -> Nat]

NoneAfterItself == \A p \in Procs, g \in Pages : <<g, g>> \notin usedAfter[p]

OrderInv == LruOrder /\ NoneAfterItself

-----------------------------------------------------------------------------
(* The inductive invariant for one CPU.                                    *)

\* Where the CPU is: it takes a node off the list of m; it has a victim,
\* which is off the list, and still has its frame.
Taking(c, m) == cpu[c].pc \in GetFreeFp /\ cpu[c].mem = m
Evicting(c) ==
    \/ cpu[c].pc \in GetFreeFp \cup {"head"} /\ cpu[c].mem = "swp"
    \/ cpu[c].pc = "swap"

\* The nodes below are off the list, and freed.
Taken(c, m) == IF Taking(c, m) THEN cpu[c].fp ELSE head[m]

\* The locals of MEMPHY_get_freefp() agree with the list it works on.
NodeInv(c) ==
    LET m == cpu[c].mem
    IN
    /\ cpu[c].pc \in {"fpn", "next", "store"} => cpu[c].fp = head[m] /\ head[m] # NULL(m)
    /\ cpu[c].pc = "store" => cpu[c].next = cpu[c].fp + 1
    /\ cpu[c].pc = "free" => head[m] = cpu[c].fp + 1
    /\ cpu[c].pc \in {"next", "store", "free"} => cpu[c].ret = cpu[c].fp
    /\ cpu[c].pc = "swap" => head["swp"] = cpu[c].ret + 1

\* A frame was handed out once if its node is off the list, or about to be.
InOrder(c, m) ==
    /\ head[m] \in 0..NumFrames[m]
    /\ \A n \in freed[m] : n \in Nat /\ n < Taken(c, m)
    /\ \A f \in Frames(m) :
          given[m][f] = IF \/ f < Taken(c, m)
                           \/ Taking(c, m) /\ cpu[c].pc # "fpn" /\ f = cpu[c].fp
                        THEN 1 ELSE 0

FramesInv ==
    /\ DOMAIN head = Mems /\ DOMAIN freed = Mems /\ DOMAIN given = Mems
    /\ \A m \in Mems : DOMAIN given[m] = Frames(m)
    /\ \A c \in Cpus : NodeInv(c) /\ \A m \in Mems : InOrder(c, m)

\* A present page is on the list, or in the hands of the CPU.
Held(c, p, g) ==
    /\ cpu[c].pc # "idle"
    /\ cpu[c].proc = p
    /\ \/ Evicting(c) /\ g = cpu[c].vic
       \/ cpu[c].pc = "enlist" /\ g = Page(c)

EvictInv ==
    ended = "no" /\ head["swp"] # NULL("swp") =>
        \A p \in Procs, g \in Pages :
            PRESENT \in pgd[p][g] => IsOn(g, lru[p]) \/ \E c \in Cpus : Held(c, p, g)

\* An entry of a swapped page has the address of a frame below the one that
\* is just handed out.
IsSwapped(p, g) == SWAPPED \in pgd[p][g] /\ PRESENT \notin pgd[p][g]
Filled(c) == IF cpu[c].pc = "swap" THEN cpu[c].ret ELSE Taken(c, "swp")

CopiesApart ==
    \A p1, p2 \in Procs, g1, g2 \in Pages :
        IsSwapped(p1, g1) /\ IsSwapped(p2, g2) /\ <<p1, g1>> # <<p2, g2>> =>
            Field(pgd[p1][g1], SWPOFF_MASK, SWPOFF_LOBIT) # Field(pgd[p2][g2], SWPOFF_MASK, SWPOFF_LOBIT)

SwapFits == 256 * head["swp"] <= OffsetLimit

FilledInv == \A c \in Cpus : \A p \in Procs, g \in Pages :
    IsSwapped(p, g) =>
        \E f \in 0..Filled(c) - 1 :
            Field(pgd[p][g], SWPOFF_MASK, SWPOFF_LOBIT) = BitsOf(256 * f)

SwapInv == SwapFits => FilledInv /\ CopiesApart

-----------------------------------------------------------------------------
(* Entries.                                                                *)

(* SETVAL stores words, whatever it is given. *)
LEMMA SetvalWord ==
  ASSUME NEW v \in SUBSET Nat, NEW value, NEW mask \in SUBSET Nat, NEW offst
  PROVE  SETVAL(v, value, mask, offst) \in SUBSET Nat
BY DEF SETVAL

(* An entry that is set to a frame is present, whatever the frame. *)
LEMMA FpnPresent ==
  ASSUME NEW pte \in SUBSET Nat, NEW fpn
  PROVE  /\ pte_set_fpn(pte, fpn) \in SUBSET Nat
         /\ PRESENT \in pte_set_fpn(pte, fpn)
<1>1. (pte \cup {PRESENT}) \ {SWAPPED} \in SUBSET Nat /\ FPN_MASK \in SUBSET Nat
  BY Masks
<1>2. PRESENT \in (pte \cup {PRESENT}) \ {SWAPPED} /\ PRESENT \notin FPN_MASK
  BY Masks
<1> QED
  BY <1>1, <1>2, SetvalWord DEF pte_set_fpn, SETVAL

(* The entry of a victim is a word, and not present. *)
LEMMA VictimAbsent ==
  ASSUME NEW pte \in SUBSET Nat, NEW swpfpn
  PROVE  /\ VictimPte(pte, swpfpn) \in SUBSET Nat
         /\ PRESENT \notin VictimPte(pte, swpfpn)
<1>1. pte \cup {PRESENT, SWAPPED} \in SUBSET Nat /\ SWPTYP_MASK \in SUBSET Nat /\ SWPOFF_MASK \in SUBSET Nat
  BY Masks
<1>2. SETVAL(pte \cup {PRESENT, SWAPPED}, 0, SWPTYP_MASK, SWPTYP_LOBIT) \in SUBSET Nat
  BY <1>1, SetvalWord
<1>3. pte_set_swap(pte, 0, 256 * swpfpn) \in SUBSET Nat
  BY <1>1, <1>2, SetvalWord DEF pte_set_swap
<1> QED
  BY <1>3 DEF VictimPte

-----------------------------------------------------------------------------
(* The list of pages.                                                      *)

DistinctList(list) == \A i, j \in DOMAIN list : list[i] = list[j] => i = j

(* The order of the list leaves no room for a page twice. *)
LEMMA DistinctPages ==
  ASSUME PagingTypes, OrderInv, NEW p \in Procs
  PROVE  DistinctList(lru[p])
<1>1. lru[p] \in Seq(Pages)
  BY DEF PagingTypes
<1>2. ASSUME NEW i \in DOMAIN lru[p], NEW j \in DOMAIN lru[p], i < j, lru[p][i] = lru[p][j]
      PROVE  FALSE
  <2>1. lru[p][i] \in Pages
    BY <1>1
  <2>2. <<lru[p][i], lru[p][i]>> \in usedAfter[p]
    BY <1>2 DEF OrderInv, LruOrder
  <2> QED
    BY <2>1, <2>2 DEF OrderInv, NoneAfterItself
<1>3. \A i \in DOMAIN lru[p] : i \in Nat
  BY <1>1
<1> QED
  BY <1>2, <1>3 DEF DistinctList

(* enlist_pgn_node(): the page is in front, the others are behind it in the
   order they were in. *)
LEMMA InFrontOfList ==
  ASSUME NEW g \in Pages, NEW list \in Seq(Pages), DistinctList(list)
  PROVE  /\ InFront(g, list) \in Seq(Pages)
         /\ \A h : IsOn(h, InFront(g, list)) <=> h = g \/ IsOn(h, list)
         /\ \A i, j \in DOMAIN InFront(g, list) : i < j =>
               /\ InFront(g, list)[j] # g
               /\ \/ i = 1 /\ InFront(g, list)[i] = g
                  \/ \E a, b \in DOMAIN list :
                        /\ a < b
                        /\ InFront(g, list)[i] = list[a] /\ InFront(g, list)[j] = list[b]
                        /\ list[a] # g /\ list[b] # g
<1>1. PICK new : new = InFront(g, list)
  OBVIOUS
<1>2. CASE IsOn(g, list)
  <2>1. PICK at \in DOMAIN list : list[at] = g
    BY <1>2 DEF IsOn
  <2>2. \A i \in DOMAIN list : list[i] = g <=> i = at
    BY <2>1 DEF DistinctList
  <2>3. FirstOf(g, list) = at
    BY <2>1, <2>2 DEF FirstOf
  <2>4. new = [i \in DOMAIN list |-> IF i = 1 THEN g ELSE IF i <= at THEN list[i - 1] ELSE list[i]]
    BY <1>1, <1>2, <2>3 DEF InFront
  <2>5. DOMAIN list = 1..Len(list) /\ Len(list) \in Nat /\ at \in 1..Len(list)
    BY <2>1
  <2>6. new \in Seq(Pages) /\ DOMAIN new = 1..Len(list)
    BY <2>4, <2>5
  <2>7. new[1] = g
    BY <2>4, <2>5
  <2>8. \A i \in 2..at : new[i] = list[i - 1] /\ i - 1 \in DOMAIN list /\ new[i] # g
    BY <2>2, <2>4, <2>5
  <2>9. \A i \in at + 1..Len(list) : new[i] = list[i] /\ new[i] # g
    BY <2>2, <2>4, <2>5
  <2>10. ASSUME NEW h PROVE IsOn(h, new) <=> h = g \/ IsOn(h, list)
    <3>1. ASSUME NEW i \in DOMAIN new, new[i] = h PROVE h = g \/ IsOn(h, list)
      <4>1. i = 1 \/ i \in 2..at \/ i \in at + 1..Len(list)
        BY <2>5, <2>6
      <4> QED
        BY <2>5, <2>7, <2>8, <2>9, <3>1, <4>1 DEF IsOn
    <3>2. IsOn(g, new)
      BY <2>5, <2>6, <2>7 DEF IsOn
    <3>3. ASSUME NEW i \in DOMAIN list, list[i] = h, h # g PROVE IsOn(h, new)
      <4>1. CASE i < at
        <5>1. i + 1 \in 2..at /\ i + 1 \in DOMAIN new /\ (i + 1) - 1 = i
          BY <2>5, <2>6, <4>1
        <5>2. new[i + 1] = h
          BY <2>8, <3>3, <5>1
        <5> QED
          BY <5>1, <5>2 DEF IsOn
      <4>2. CASE i > at
        BY <2>5, <2>6, <2>9, <3>3, <4>2 DEF IsOn
      <4> QED
        BY <2>1, <2>5, <3>3, <4>1, <4>2
    <3> QED
      BY <3>1, <3>2, <3>3 DEF IsOn
  <2>11. ASSUME NEW i \in DOMAIN new, NEW j \in DOMAIN new, i < j
         PROVE  /\ new[j] # g
                /\ \/ i = 1 /\ new[i] = g
                   \/ \E a, b \in DOMAIN list : a < b /\ new[i] = list[a] /\ new[j] = list[b]
                                                /\ list[a] # g /\ list[b] # g
    <3> DEFINE from(k) == IF k <= at THEN k - 1 ELSE k
    <3>1. j \in 2..at \/ j \in at + 1..Len(list)
      BY <2>5, <2>6, <2>11
    <3>2. i = 1 \/ i \in 2..at \/ i \in at + 1..Len(list)
      BY <2>5, <2>6
    <3>3. new[j] # g /\ new[j] = list[from(j)] /\ from(j) \in DOMAIN list
      BY <2>5, <2>8, <2>9, <3>1
    <3>4. i # 1 => new[i] # g /\ new[i] = list[from(i)] /\ from(i) \in DOMAIN list
      BY <2>5, <2>8, <2>9, <3>2
    <3>5. from(i) < from(j)
      <4>1. i \in Nat /\ j \in Nat /\ at \in Nat
        BY <2>5, <2>6
      <4> QED
        BY <2>11, <4>1
    <3> QED
      BY <2>7, <3>3, <3>4, <3>5
  <2> QED
    BY <1>1, <2>6, <2>10, <2>11
<1>3. CASE ~IsOn(g, list)
  <2>1. new = <<g>> \o list
    BY <1>1, <1>3 DEF InFront
  <2>2. new \in Seq(Pages) /\ Len(new) = Len(list) + 1 /\ Len(list) \in Nat
    BY <2>1
  <2>3. new[1] = g /\ \A i \in 1..Len(list) : new[i + 1] = list[i] /\ list[i] # g
    BY <1>3, <2>1 DEF IsOn
  <2>4. ASSUME NEW i \in DOMAIN new, i # 1 PROVE i - 1 \in DOMAIN list /\ new[i] = list[i - 1] /\ new[i] # g
    <3>1. i - 1 \in 1..Len(list) /\ (i - 1) + 1 = i
      BY <2>2, <2>4
    <3> QED
      BY <2>3, <3>1
  <2>5. ASSUME NEW h PROVE IsOn(h, new) <=> h = g \/ IsOn(h, list)
    <3>1. ASSUME NEW i \in DOMAIN list, list[i] = h PROVE IsOn(h, new)
      <4>1. i + 1 \in DOMAIN new /\ new[i + 1] = h
        BY <2>2, <2>3, <3>1
      <4> QED
        BY <4>1 DEF IsOn
    <3>2. IsOn(g, new)
      BY <2>2, <2>3 DEF IsOn
    <3>3. IsOn(h, new) => h = g \/ IsOn(h, list)
      BY <2>3, <2>4 DEF IsOn
    <3> QED
      BY <3>1, <3>2, <3>3 DEF IsOn
  <2>6. ASSUME NEW i \in DOMAIN new, NEW j \in DOMAIN new, i < j
         PROVE  /\ new[j] # g
                /\ \/ i = 1 /\ new[i] = g
                   \/ \E a, b \in DOMAIN list : a < b /\ new[i] = list[a] /\ new[j] = list[b]
                                                /\ list[a] # g /\ list[b] # g
    <3>1. j # 1 /\ i - 1 < j - 1
      BY <2>2, <2>6
    <3> QED
      BY <2>3, <2>4, <3>1
  <2> QED
    BY <1>1, <2>2, <2>5, <2>6
<1> QED
  BY <1>2, <1>3

-----------------------------------------------------------------------------
(* Types, for any number of CPUs.                                          *)

(* An instruction touches at least one page, and only pages of the table. *)
LEMMA InstructionSteps ==
  \A i \in Instructions : i \in Seq([op : Ops, page : Pages]) \ {<<>>}
<1>1. ASSUME NEW first \in Pages, NEW last \in Pages, first <= last
      PROVE  AllocPages(first, last) \in Seq([op : Ops, page : Pages]) \ {<<>>}
  <2>1. first \in Nat /\ last \in Nat /\ 0..last \subseteq Pages
    BY PagingAssumption
  <2>2. PICK n : n = last - first + 1
    OBVIOUS
  <2>3. n \in Nat \ {0}
    BY <1>1, <2>1, <2>2
  <2>4. \A i \in 1..n : first + i - 1 \in Pages
    BY <2>1, <2>2
  <2>5. \A i \in 1..n : Step("map", first + i - 1) \in [op : Ops, page : Pages]
    BY <2>4 DEF Step, Ops
  <2>6. AllocPages(first, last) = [i \in 1..n |-> Step("map", first + i - 1)]
    BY <2>2 DEF AllocPages
  <2>7. AllocPages(first, last) \in Seq([op : Ops, page : Pages]) /\ Len(AllocPages(first, last)) = n
    BY <2>3, <2>5, <2>6
  <2> QED
    BY <2>3, <2>7
<1>2. ASSUME NEW page \in Pages, NEW dest \in Pages
      PROVE  ReadInto(page, dest) \in Seq([op : Ops, page : Pages]) \ {<<>>}
  BY DEF ReadInto, Step, Ops
<1>3. ASSUME NEW page \in Pages
      PROVE  WriteTo(page) \in Seq([op : Ops, page : Pages]) \ {<<>>}
  BY DEF WriteTo, Step, Ops
<1>4. ASSUME NEW i \in Instructions
      PROVE  \/ \E first, last \in Pages : first <= last /\ i = AllocPages(first, last)
             \/ \E page, dest \in Pages : i = ReadInto(page, dest)
             \/ \E page \in Pages : i = WriteTo(page)
  <2>1. \/ i \in UNION {{AllocPages(first, last) : last \in {g \in Pages : first <= g}} : first \in Pages}
        \/ i \in UNION {{ReadInto(page, dest) : dest \in Pages} : page \in Pages}
        \/ i \in {WriteTo(page) : page \in Pages}
    BY Zenon DEF Instructions
  <2> QED
    BY <2>1, Zenon
<1> QED
  BY <1>1, <1>2, <1>3, <1>4, Zenon

(* What a CPU that is at a step has: an instruction with a page to get. *)
LEMMA BusyTypes ==
  ASSUME PagingTypes, NEW c \in Cpus, cpu[c].pc # "idle"
  PROVE  /\ cpu[c] \in BusyCpu
         /\ Proc(c) \in Procs /\ Page(c) \in Pages /\ Op(c) \in Ops
         /\ cpu[c].todo \in Seq([op : Ops, page : Pages]) /\ cpu[c].todo # <<>>
         /\ cpu[c].pte \in SUBSET Nat /\ Entry(c) \in SUBSET Nat
         /\ lru[Proc(c)] \in Seq(Pages)
<1>1. cpu[c] \in BusyCpu
  BY DEF PagingTypes, Idle
<1>2. Head(cpu[c].todo) \in [op : Ops, page : Pages]
  <2>1. cpu[c].todo \in Seq([op : Ops, page : Pages]) /\ cpu[c].todo # <<>>
    BY <1>1 DEF BusyCpu
  <2>2. \A S : \A todo \in Seq(S) : todo # <<>> => Head(todo) \in S
    OBVIOUS
  <2> QED
    BY <2>1, <2>2, Zenon
<1> QED
  BY <1>1, <1>2 DEF BusyCpu, Proc, Page, Op, Entry, PagingTypes

(* The CPU goes on with the next page, or is idle again. *)
LEMMA ContinueMoves ==
  ASSUME PagingTypes, NEW c \in Cpus, cpu[c].pc # "idle", NEW failed \in BOOLEAN, Continue(c, failed)
  PROVE  /\ cpu' \in [Cpus -> {Idle} \cup BusyCpu]
         /\ cpu'[c].pc \in {"idle", "getpage"}
         /\ \A d \in Cpus : d # c => cpu'[d] = cpu[d]
         /\ ended' = "no" => ended = "no"
<1>1. /\ cpu[c] \in BusyCpu /\ Op(c) \in Ops
      /\ cpu[c].todo \in Seq([op : Ops, page : Pages]) /\ cpu[c].todo # <<>>
  BY BusyTypes
<1>2. PICK rest, bad : /\ rest = Tail(cpu[c].todo)
                       /\ bad = (cpu[c].failed \/ (failed /\ ~(Op(c) = "write" /\ cpu[c].afterRead)))
  OBVIOUS
<1>3. rest \in Seq([op : Ops, page : Pages]) /\ bad \in BOOLEAN
  BY <1>1, <1>2 DEF BusyCpu
<1>4. CASE rest = <<>> \/ (Op(c) = "map" /\ bad)
  <2>1. cpu' = [cpu EXCEPT ![c] = Idle] /\ ended' = IF bad THEN "exit" ELSE ended
    BY <1>2, <1>4 DEF Continue
  <2> QED
    BY <2>1 DEF PagingTypes, Idle
<1>5. CASE ~(rest = <<>> \/ (Op(c) = "map" /\ bad))
  <2>1. PICK new : new = [cpu[c] EXCEPT !.pc = "getpage", !.todo = rest,
                                        !.failed = bad, !.afterRead = Op(c) = "read"]
    OBVIOUS
  <2>2. cpu' = [cpu EXCEPT ![c] = new] /\ ended' = ended
    BY <1>2, <1>5, <2>1 DEF Continue
  <2>3. new \in BusyCpu /\ new.pc = "getpage"
    BY <1>1, <1>3, <1>5, <2>1 DEF BusyCpu, Pcs
  <2> QED
    BY <2>2, <2>3 DEF PagingTypes
<1> QED
  BY <1>4, <1>5

(* Before the first instruction no CPU is in a page fault and all lists are empty. *)
LEMMA InitTypes == Init => PagingTypes
<1> SUFFICES ASSUME Init PROVE PagingTypes
  OBVIOUS
<1>1. \A p \in Procs : <<>> \in Seq(Pages)
  OBVIOUS
<1>2. 0 \in Nat
  OBVIOUS
<1> QED
  BY <1>1, <1>2 DEF Init, PagingTypes

(* A step of a CPU in pg_getpage() that does not go on with the next page. *)
LEMMA MoveTypes ==
  ASSUME PagingTypes, NEW c \in Cpus, cpu[c].pc # "idle",
         NEW new \in BusyCpu, cpu' = [cpu EXCEPT ![c] = new]
  PROVE  /\ cpu' \in [Cpus -> {Idle} \cup BusyCpu]
         /\ cpu'[c] = new
         /\ \A d \in Cpus : d # c => cpu'[d] = cpu[d]
BY DEF PagingTypes

(* Every step keeps the types; the order of the list is needed for its nodes. *)
LEMMA TypesKeep == PagingTypes /\ OrderInv /\ [Next]_vars => PagingTypes'
<1> SUFFICES ASSUME PagingTypes, OrderInv, [Next]_vars
             PROVE  PagingTypes'
  OBVIOUS
<1> USE DEF At
<1>1. ASSUME NEW c \in Cpus, NEW p \in Procs, NEW i \in Instructions, Run(c, p, i)
      PROVE  PagingTypes'
  <2>1. PICK new : new = [pc |-> "getpage", proc |-> p, todo |-> i, failed |-> FALSE, afterRead |-> FALSE,
                          mem |-> "ram", fp |-> 0, next |-> 0, ret |-> 0, pte |-> {}, vic |-> 0]
    OBVIOUS
  <2>2. i \in Seq([op : Ops, page : Pages]) \ {<<>>}
    BY InstructionSteps
  <2>3. new \in BusyCpu
    BY <2>1, <2>2 DEF BusyCpu, Pcs, Mems
  <2>4. cpu' = [cpu EXCEPT ![c] = new] /\ UNCHANGED <<pgd, lru, usedAfter, head>>
    BY <1>1, <2>1 DEF Run
  <2> QED
    BY <2>3, <2>4 DEF PagingTypes
<1>2. ASSUME NEW c \in Cpus, PageOnline(c)
      PROVE  PagingTypes'
  <2>1. cpu[c].pc # "idle" /\ cpu[c] \in BusyCpu
    BY <1>2, BusyTypes DEF PageOnline
  <2>2. PICK new : new = [cpu[c] EXCEPT !.pc = "enlist", !.pte = Entry(c)]
    OBVIOUS
  <2>3. new \in BusyCpu
    BY <1>2, <2>1, <2>2, BusyTypes DEF PageOnline, BusyCpu, Pcs, GetFreeFp, Mems, PagingTypes
  <2>4. cpu' = [cpu EXCEPT ![c] = new] /\ UNCHANGED <<pgd, lru, usedAfter, head>>
    BY <1>2, <2>2 DEF PageOnline, Goto
  <2> QED
    BY <2>3, <2>4 DEF PagingTypes
<1>3. ASSUME NEW c \in Cpus, PageOffline(c)
      PROVE  PagingTypes'
  <2>1. cpu[c].pc # "idle" /\ cpu[c] \in BusyCpu
    BY <1>3, BusyTypes DEF PageOffline
  <2>2. PICK new : new = [cpu[c] EXCEPT !.pc = "head", !.pte = Entry(c), !.mem = "ram"]
    OBVIOUS
  <2>3. new \in BusyCpu
    BY <1>3, <2>1, <2>2, BusyTypes DEF PageOffline, BusyCpu, Pcs, GetFreeFp, Mems, PagingTypes
  <2>4. cpu' = [cpu EXCEPT ![c] = new] /\ UNCHANGED <<pgd, lru, usedAfter, head>>
    BY <1>3, <2>2 DEF PageOffline, Goto
  <2> QED
    BY <2>3, <2>4 DEF PagingTypes
<1>4. ASSUME NEW c \in Cpus, LoadHead(c)
      PROVE  PagingTypes'
  <2>1. cpu[c].pc # "idle" /\ cpu[c] \in BusyCpu
    BY <1>4, BusyTypes DEF LoadHead
  <2>2. PICK new : new = [cpu[c] EXCEPT !.pc = "fpn", !.fp = head[cpu[c].mem]]
    OBVIOUS
  <2>3. new \in BusyCpu
    BY <1>4, <2>1, <2>2, BusyTypes DEF LoadHead, BusyCpu, Pcs, GetFreeFp, Mems, PagingTypes
  <2>4. cpu' = [cpu EXCEPT ![c] = new] /\ UNCHANGED <<pgd, lru, usedAfter, head>>
    BY <1>4, <2>2 DEF LoadHead, Goto
  <2> QED
    BY <2>3, <2>4 DEF PagingTypes
<1>5. ASSUME NEW c \in Cpus, NoRamLeft(c)
      PROVE  PagingTypes'
  <2>1. cpu[c].pc # "idle" /\ cpu[c] \in BusyCpu
    BY <1>5, BusyTypes DEF NoRamLeft
  <2>2. PICK new : new = [cpu[c] EXCEPT !.pc = "victim"]
    OBVIOUS
  <2>3. new \in BusyCpu
    BY <1>5, <2>1, <2>2, BusyTypes DEF NoRamLeft, BusyCpu, Pcs, GetFreeFp, Mems, PagingTypes
  <2>4. cpu' = [cpu EXCEPT ![c] = new] /\ UNCHANGED <<pgd, lru, usedAfter, head>>
    BY <1>5, <2>2 DEF NoRamLeft, Goto
  <2> QED
    BY <2>3, <2>4 DEF PagingTypes
<1>6. ASSUME NEW c \in Cpus, NoSwapLeft(c)
      PROVE  PagingTypes'
  <2>1. cpu[c].pc # "idle" /\ \E failed \in BOOLEAN : Continue(c, failed)
    BY <1>6 DEF NoSwapLeft
  <2> QED
    BY <1>6, <2>1, ContinueMoves DEF NoSwapLeft, PagingTypes
<1>7. ASSUME NEW c \in Cpus, ReadFpn(c)
      PROVE  PagingTypes'
  <2>1. cpu[c].pc # "idle" /\ cpu[c] \in BusyCpu
    BY <1>7, BusyTypes DEF ReadFpn
  <2>2. PICK new : new = [cpu[c] EXCEPT !.pc = "next", !.ret = FpnOf(cpu[c].fp)]
    OBVIOUS
  <2>3. new \in BusyCpu
    BY <1>7, <2>1, <2>2, BusyTypes DEF ReadFpn, BusyCpu, Pcs, GetFreeFp, Mems, FpnOf, Fp, PagingTypes
  <2>4. cpu' = [cpu EXCEPT ![c] = new] /\ UNCHANGED <<pgd, lru, usedAfter, head>>
    BY <1>7, <2>2 DEF ReadFpn, Goto, FpnOf, Fp
  <2> QED
    BY <2>3, <2>4 DEF PagingTypes
<1>8. ASSUME NEW c \in Cpus, ReadNext(c)
      PROVE  PagingTypes'
  <2>1. cpu[c].pc # "idle" /\ cpu[c] \in BusyCpu
    BY <1>8, BusyTypes DEF ReadNext
  <2>2. PICK next : next = cpu[c].fp + 1
    OBVIOUS
  <2>3. next \in Nat
    BY <2>1, <2>2 DEF BusyCpu
  <2>4. PICK new : new = [cpu[c] EXCEPT !.pc = "store", !.next = next]
    OBVIOUS
  <2>5. new \in BusyCpu
    BY <2>1, <2>3, <2>4 DEF BusyCpu, Pcs, GetFreeFp
  <2>6. cpu' = [cpu EXCEPT ![c] = new] /\ UNCHANGED <<pgd, lru, usedAfter, head>>
    BY <1>8, <2>2, <2>4 DEF ReadNext, Fp
  <2> QED
    BY <2>5, <2>6 DEF PagingTypes
<1>9. ASSUME NEW c \in Cpus, StoreHead(c)
      PROVE  PagingTypes'
  <2>1. cpu[c].pc # "idle" /\ cpu[c] \in BusyCpu
    BY <1>9, BusyTypes DEF StoreHead
  <2>2. PICK new : new = [cpu[c] EXCEPT !.pc = "free"]
    OBVIOUS
  <2>3. new \in BusyCpu
    BY <1>9, <2>1, <2>2, BusyTypes DEF StoreHead, BusyCpu, Pcs, GetFreeFp, Mems, PagingTypes
  <2>4. cpu' = [cpu EXCEPT ![c] = new] /\ UNCHANGED <<pgd, lru, usedAfter>> /\ head' = [head EXCEPT ![cpu[c].mem] = cpu[c].next]
    BY <1>9, <2>2 DEF StoreHead, Goto
  <2>5. cpu[c].next \in Nat
    BY <2>1 DEF BusyCpu
  <2>6. head' \in [Mems -> Nat]
    BY <2>4, <2>5 DEF PagingTypes
  <2> QED
    BY <2>3, <2>4, <2>6 DEF PagingTypes
<1>10. ASSUME NEW c \in Cpus, FreeNode(c)
      PROVE  PagingTypes'
  <2>1. cpu[c].pc # "idle" /\ cpu[c] \in BusyCpu /\ cpu[c].pte \in SUBSET Nat
    BY <1>10, BusyTypes DEF FreeNode
  <2>2. PICK new : new = IF cpu[c].mem = "ram"
                         THEN [cpu[c] EXCEPT !.pc = "enlist", !.pte = pte_set_fpn(cpu[c].pte, cpu[c].ret)]
                         ELSE [cpu[c] EXCEPT !.pc = "swap"]
    OBVIOUS
  <2>3. pte_set_fpn(cpu[c].pte, cpu[c].ret) \in SUBSET Nat
    BY <2>1, FpnPresent
  <2>4. new \in BusyCpu
    BY <2>1, <2>2, <2>3 DEF BusyCpu, Pcs
  <2>5. cpu' = [cpu EXCEPT ![c] = new] /\ UNCHANGED <<pgd, lru, usedAfter, head>>
    BY <1>10, <2>2 DEF FreeNode
  <2> QED
    BY <2>4, <2>5 DEF PagingTypes
<1>11. ASSUME NEW c \in Cpus, FindVictim(c)
      PROVE  PagingTypes'
  <2>1. /\ cpu[c].pc # "idle" /\ cpu[c] \in BusyCpu
        /\ Proc(c) \in Procs /\ lru[Proc(c)] \in Seq(Pages) /\ Len(lru[Proc(c)]) > 0
    BY <1>11, BusyTypes DEF FindVictim
  <2>2. PICK list : list = lru[Proc(c)]
    OBVIOUS
  <2>3. list[Len(list)] \in Pages /\ list[Len(list)] \in Nat
    <3>1. list \in Seq(Pages) /\ Len(list) \in 1..Len(list)
      BY <2>1, <2>2
    <3>2. list[Len(list)] \in Pages
      BY <3>1
    <3> QED
      BY <3>2, PagingAssumption
  <2>4. SubSeq(list, 1, Len(list) - 1) \in Seq(Pages)
    BY <2>1, <2>2
  <2>5. PICK new : new = [cpu[c] EXCEPT !.pc = "head", !.mem = "swp", !.vic = list[Len(list)]]
    OBVIOUS
  <2>6. new \in BusyCpu
    BY <2>1, <2>3, <2>5 DEF BusyCpu, Pcs, Mems
  <2>7. /\ cpu' = [cpu EXCEPT ![c] = new] /\ UNCHANGED <<pgd, usedAfter, head>>
        /\ lru' = [lru EXCEPT ![Proc(c)] = SubSeq(list, 1, Len(list) - 1)]
    BY <1>11, <2>2, <2>5 DEF FindVictim
  <2> QED
    BY <2>4, <2>6, <2>7 DEF PagingTypes
<1>12. ASSUME NEW c \in Cpus, NoVictim(c)
      PROVE  PagingTypes'
  <2>1. cpu[c].pc # "idle" /\ \E failed \in BOOLEAN : Continue(c, failed)
    BY <1>12 DEF NoVictim
  <2> QED
    BY <1>12, <2>1, ContinueMoves DEF NoVictim, PagingTypes
<1>13. ASSUME NEW c \in Cpus, SwapPages(c)
      PROVE  PagingTypes'
  <2>1. /\ cpu[c].pc # "idle" /\ cpu[c] \in BusyCpu
        /\ Proc(c) \in Procs /\ cpu[c].pte \in SUBSET Nat
    BY <1>13, BusyTypes DEF SwapPages
  <2>2. PICK p, g, v, table : p = Proc(c) /\ g = Page(c) /\ v = cpu[c].vic /\ table = pgd[p]
    OBVIOUS
  <2>3. PICK pte, vicpte : pte = pte_set_fpn(cpu[c].pte, PAGING_FPN(table[v])) /\ vicpte = VictimPte(table[v], cpu[c].ret)
    OBVIOUS
  <2>4. pte \in SUBSET Nat
    BY <2>1, <2>3, FpnPresent
  <2>5. table \in [Pages -> SUBSET Nat]
    BY <2>1, <2>2 DEF PagingTypes
  <2>6. v \in Pages => vicpte \in SUBSET Nat
    BY <2>3, <2>5, VictimAbsent
  <2>7. [table EXCEPT ![v] = vicpte, ![g] = pte] \in [Pages -> SUBSET Nat]
    BY <2>4, <2>5, <2>6
  <2>8. PICK new : new = [cpu[c] EXCEPT !.pc = "enlist", !.pte = pte]
    OBVIOUS
  <2>9. new \in BusyCpu
    BY <2>1, <2>4, <2>8 DEF BusyCpu, Pcs
  <2>10. /\ cpu' = [cpu EXCEPT ![c] = new] /\ UNCHANGED <<lru, usedAfter, head>>
         /\ pgd' = [pgd EXCEPT ![p] = [table EXCEPT ![v] = vicpte, ![g] = pte]]
    BY <1>13, <2>2, <2>3, <2>8 DEF SwapPages
  <2> QED
    BY <2>7, <2>9, <2>10 DEF PagingTypes
<1>14. ASSUME NEW c \in Cpus, Enlist(c)
      PROVE  PagingTypes'
  <2>1. /\ cpu[c].pc # "idle" /\ cpu[c] \in BusyCpu
        /\ Proc(c) \in Procs /\ Page(c) \in Pages
    BY <1>14, BusyTypes DEF Enlist
  <2>2. PICK p, g : p = Proc(c) /\ g = Page(c)
    OBVIOUS
  <2>3. InFront(g, lru[p]) \in Seq(Pages)
    BY <2>1, <2>2, InFrontOfList, DistinctPages DEF PagingTypes
  <2>4. PICK new : new = [cpu[c] EXCEPT !.pc = "access"]
    OBVIOUS
  <2>5. new \in BusyCpu
    BY <2>1, <2>4 DEF BusyCpu, Pcs
  <2>6. /\ cpu' = [cpu EXCEPT ![c] = new] /\ UNCHANGED <<pgd, head>>
        /\ lru' = [lru EXCEPT ![p] = InFront(g, lru[p])]
        /\ usedAfter' = [usedAfter EXCEPT ![p] =
              {pair \in usedAfter[p] : pair[1] # g /\ pair[2] # g} \cup ({g} \X (Pages \ {g}))]
    BY <1>14, <2>2, <2>4 DEF Enlist, Goto
  <2>7. {pair \in usedAfter[p] : pair[1] # g /\ pair[2] # g} \cup ({g} \X (Pages \ {g}))
          \in SUBSET (Pages \X Pages)
    BY <2>1, <2>2 DEF PagingTypes
  <2>8. lru' \in [Procs -> Seq(Pages)]
    BY <2>3, <2>6 DEF PagingTypes
  <2>9. usedAfter' \in [Procs -> SUBSET (Pages \X Pages)]
    BY <2>6, <2>7 DEF PagingTypes
  <2> QED
    BY <2>5, <2>6, <2>8, <2>9 DEF PagingTypes
<1>15. ASSUME NEW c \in Cpus, UseAfterFree(c)
      PROVE  PagingTypes'
  BY <1>15 DEF UseAfterFree, PagingTypes
<1>16. ASSUME NEW c \in Cpus, Access(c)
      PROVE  PagingTypes'
  <2>1. cpu[c].pc # "idle" /\ \E failed \in BOOLEAN : Continue(c, failed)
    BY <1>16 DEF Access
  <2> QED
    BY <1>16, <2>1, ContinueMoves DEF Access, PagingTypes
<1>17. CASE Ended \/ UNCHANGED vars
  BY <1>17 DEF Ended, vars, PagingTypes
<1> QED
  BY <1>1, <1>2, <1>3, <1>4, <1>5, <1>6, <1>7, <1>8, <1>9, <1>10, <1>11, <1>12, <1>13, <1>14, <1>15, <1>16, <1>17 DEF Next, GetPage

-----------------------------------------------------------------------------
(* The order of the list, for any number of CPUs.                          *)

(* Only find_victim_page() and enlist_pgn_node() change a list. *)
LEMMA ListsStay ==
  ASSUME [Next]_vars
  PROVE  \/ UNCHANGED <<lru, usedAfter>>
         \/ \E c \in Cpus : FindVictim(c) \/ Enlist(c)
<1>1. ASSUME NEW c \in Cpus, GetPage(c), ~FindVictim(c), ~Enlist(c)
      PROVE  UNCHANGED <<lru, usedAfter>>
  BY <1>1 DEF GetPage, PageOnline, PageOffline, LoadHead, NoRamLeft, NoSwapLeft, ReadFpn, ReadNext,
     StoreHead, FreeNode, NoVictim, SwapPages, UseAfterFree
<1>2. ASSUME NEW c \in Cpus, Access(c)
      PROVE  UNCHANGED <<lru, usedAfter>>
  BY <1>2 DEF Access
<1>3. ASSUME NEW c \in Cpus, NEW p \in Procs, NEW i \in Instructions, Run(c, p, i)
      PROVE  UNCHANGED <<lru, usedAfter>>
  BY <1>3 DEF Run
<1>4. CASE Ended \/ UNCHANGED vars
  BY <1>4 DEF Ended, vars
<1> QED
  BY <1>1, <1>2, <1>3, <1>4 DEF Next

(* Taking off the last page leaves the others in their order. *)
LEMMA VictimOrder ==
  ASSUME PagingTypes, OrderInv, NEW c \in Cpus, FindVictim(c)
  PROVE  /\ OrderInv'
         /\ \A p \in Procs : p # Proc(c) => lru'[p] = lru[p]
         /\ cpu'[c].vic = lru[Proc(c)][Len(lru[Proc(c)])]
         /\ \A h : h # lru[Proc(c)][Len(lru[Proc(c)])] => (IsOn(h, lru'[Proc(c)]) <=> IsOn(h, lru[Proc(c)]))
<1>1. PICK p : p = Proc(c)
  OBVIOUS
<1>2. PICK list : list = lru[p]
  OBVIOUS
<1>3. p \in Procs /\ list \in Seq(Pages) /\ Len(list) > 0
  BY <1>1, <1>2, BusyTypes DEF FindVictim, At
<1>4. /\ lru' = [lru EXCEPT ![p] = SubSeq(list, 1, Len(list) - 1)] /\ usedAfter' = usedAfter
      /\ cpu' = [cpu EXCEPT ![c].pc = "head", ![c].mem = "swp", ![c].vic = list[Len(list)]]
  BY <1>1, <1>2 DEF FindVictim
<1>5. PICK new : new = SubSeq(list, 1, Len(list) - 1)
  OBVIOUS
<1>6. lru'[p] = new /\ \A q \in Procs : q # p => lru'[q] = lru[q]
  BY <1>3, <1>4, <1>5 DEF PagingTypes
<1>7. DOMAIN new = 1..Len(list) - 1 /\ DOMAIN list = 1..Len(list) /\ \A i \in DOMAIN new : new[i] = list[i]
  BY <1>3, <1>5
<1>8. LruOrder'
  <2>1. ASSUME NEW q \in Procs, NEW i \in DOMAIN lru'[q], NEW j \in DOMAIN lru'[q], i < j
        PROVE  <<lru'[q][i], lru'[q][j]>> \in usedAfter'[q]
    <3>1. CASE q = p
      <4>1. /\ i \in DOMAIN list /\ j \in DOMAIN list
            /\ new[i] = list[i] /\ new[j] = list[j]
        BY <1>3, <1>6, <1>7, <2>1, <3>1
      <4>2. <<list[i], list[j]>> \in usedAfter[p]
        BY <1>2, <1>3, <2>1, <4>1 DEF OrderInv, LruOrder
      <4> QED
        BY <1>4, <1>6, <3>1, <4>1, <4>2
    <3>2. CASE q # p
      BY <1>4, <1>6, <2>1, <3>2 DEF OrderInv, LruOrder
    <3> QED
      BY <3>1, <3>2
  <2> QED
    BY <2>1 DEF LruOrder
<1>9. NoneAfterItself'
  BY <1>4 DEF OrderInv, NoneAfterItself
<1>10. ASSUME NEW h, h # list[Len(list)]
       PROVE  IsOn(h, new) <=> IsOn(h, list)
  BY <1>3, <1>7, <1>10 DEF IsOn
<1>11. cpu'[c].vic = list[Len(list)]
  <2>1. cpu[c] \in BusyCpu
    BY BusyTypes DEF FindVictim, At
  <2> QED
    BY <1>4, <2>1 DEF PagingTypes, BusyCpu
<1> QED
  BY <1>1, <1>2, <1>6, <1>8, <1>9, <1>10, <1>11 DEF OrderInv

(* The page that goes to the front is the last one used. *)
LEMMA EnlistOrder ==
  ASSUME PagingTypes, OrderInv, NEW c \in Cpus, Enlist(c)
  PROVE  /\ OrderInv'
         /\ \A p \in Procs : p # Proc(c) => lru'[p] = lru[p]
         /\ \A h : IsOn(h, lru'[Proc(c)]) <=> h = Page(c) \/ IsOn(h, lru[Proc(c)])
<1>1. PICK p, g : p = Proc(c) /\ g = Page(c)
  OBVIOUS
<1>2. PICK list : list = lru[p]
  OBVIOUS
<1> DEFINE new == InFront(g, list)
<1>3. p \in Procs /\ g \in Pages /\ list \in Seq(Pages)
  BY <1>1, <1>2, BusyTypes DEF Enlist, At
<1>4. PICK older, newest :
         /\ older = {pair \in usedAfter[p] : pair[1] # g /\ pair[2] # g}
         /\ newest = {g} \X (Pages \ {g})
  OBVIOUS
<1>5. /\ lru' = [lru EXCEPT ![p] = new]
      /\ usedAfter' = [usedAfter EXCEPT ![p] = older \cup newest]
  BY <1>1, <1>2, <1>4 DEF Enlist
<1>6. /\ lru'[p] = new /\ \A q \in Procs : q # p => lru'[q] = lru[q]
      /\ usedAfter'[p] = older \cup newest /\ \A q \in Procs : q # p => usedAfter'[q] = usedAfter[q]
  BY <1>3, <1>5 DEF PagingTypes
<1>7. /\ new \in Seq(Pages)
      /\ \A h : IsOn(h, new) <=> h = g \/ IsOn(h, list)
      /\ \A i, j \in DOMAIN new : i < j =>
            /\ new[j] # g
            /\ \/ i = 1 /\ new[i] = g
               \/ \E a, b \in DOMAIN list : /\ a < b
                                            /\ new[i] = list[a] /\ new[j] = list[b]
                                            /\ list[a] # g /\ list[b] # g
  <2>1. DistinctList(list)
    BY <1>2, <1>3, DistinctPages
  <2> QED
    BY <1>3, <2>1, InFrontOfList
<1> HIDE DEF new
<1>8. LruOrder'
  <2>1. ASSUME NEW i \in DOMAIN new, NEW j \in DOMAIN new, i < j
        PROVE  <<new[i], new[j]>> \in older \cup newest
    <3>1. new[j] \in Pages \ {g}
      BY <1>7, <2>1
    <3>2. CASE new[i] = g
      BY <1>4, <3>1, <3>2
    <3>3. CASE \E a, b \in DOMAIN list : /\ a < b
                                         /\ new[i] = list[a] /\ new[j] = list[b]
                                         /\ list[a] # g /\ list[b] # g
      BY <1>2, <1>3, <1>4, <3>3 DEF OrderInv, LruOrder
    <3> QED
      BY <1>7, <2>1, <3>2, <3>3
  <2>2. ASSUME NEW q \in Procs, NEW i \in DOMAIN lru'[q], NEW j \in DOMAIN lru'[q], i < j
        PROVE  <<lru'[q][i], lru'[q][j]>> \in usedAfter'[q]
    <3>1. CASE q = p
      BY <1>6, <2>1, <2>2, <3>1
    <3>2. CASE q # p
      BY <1>6, <2>2, <3>2 DEF OrderInv, LruOrder
    <3> QED
      BY <3>1, <3>2
  <2> QED
    BY <2>2 DEF LruOrder
<1>9. NoneAfterItself'
  <2>1. ASSUME NEW q \in Procs, NEW h \in Pages, <<h, h>> \in usedAfter'[q]
        PROVE  FALSE
    <3>1. <<h, h>> \notin usedAfter[q]
      BY DEF OrderInv, NoneAfterItself
    <3>2. q = p /\ <<h, h>> \in newest
      BY <1>4, <1>6, <2>1, <3>1
    <3> QED
      BY <1>4, <3>2
  <2> QED
    BY <2>1 DEF NoneAfterItself
<1> QED
  BY <1>1, <1>2, <1>6, <1>7, <1>8, <1>9 DEF OrderInv

(* Every step keeps the list in the order of last use. *)
LEMMA OrderKeeps == PagingTypes /\ OrderInv /\ [Next]_vars => OrderInv'
<1> SUFFICES ASSUME PagingTypes, OrderInv, [Next]_vars
             PROVE  OrderInv'
  OBVIOUS
<1>1. CASE UNCHANGED <<lru, usedAfter>>
  BY <1>1 DEF OrderInv, LruOrder, NoneAfterItself
<1> QED
  BY <1>1, ListsStay, VictimOrder, EnlistOrder

(* Empty lists are in order. *)
LEMMA InitOrder == Init => OrderInv
<1> SUFFICES ASSUME Init PROVE OrderInv
  OBVIOUS
<1>1. \A p \in Procs : lru[p] = <<>> /\ usedAfter[p] = {}
  BY DEF Init
<1> QED
  BY <1>1 DEF OrderInv, LruOrder, NoneAfterItself

-----------------------------------------------------------------------------
(* The lists of free frames, for one CPU.                                  *)

(* The two devices and the frames that they have. *)
LEMMA Devices ==
  /\ Mems = {"ram", "swp"}
  /\ \A m \in Mems : NumFrames[m] \in Nat \ {0, 1} /\ NULL(m) = NumFrames[m]
  /\ \A m \in Mems : Frames(m) = 0..NumFrames[m] - 1
BY PagingAssumption DEF Mems, NumFrames, NULL, Frames

(* Before the first instruction all frames are in their lists, each once. *)
LEMMA InitFrames ==
  ASSUME NEW c, Cpus = {c}
  PROVE  Init => FramesInv
<1> SUFFICES ASSUME Init PROVE FramesInv
  OBVIOUS
<1>1. cpu[c].pc = "idle"
  BY DEF Init, Idle
<1>2. /\ DOMAIN head = Mems /\ DOMAIN freed = Mems /\ DOMAIN given = Mems
      /\ \A m \in Mems : DOMAIN given[m] = Frames(m)
  BY DEF Init
<1>3. \A m \in Mems : head[m] = 0 /\ freed[m] = {} /\ \A f \in Frames(m) : given[m][f] = 0
  BY DEF Init
<1>4. NodeInv(c)
  BY <1>1 DEF NodeInv
<1>5. \A m \in Mems : ~Taking(c, m)
  BY <1>1 DEF Taking, GetFreeFp
<1>6. \A m \in Mems : InOrder(c, m)
  BY <1>3, <1>5, Devices DEF InOrder, Taken
<1> QED
  BY <1>2, <1>4, <1>6 DEF FramesInv

(* A step that does not touch the lists, from outside MEMPHY_get_freefp() to
   outside of it. *)
LEMMA FramesStay ==
  ASSUME NEW c, Cpus = {c}, FramesInv,
         UNCHANGED <<head, freed, given>>,
         cpu[c].pc \notin GetFreeFp, cpu'[c].pc \notin GetFreeFp \cup {"swap"}
  PROVE  FramesInv'
<1>1. \A m \in Mems : ~Taking(c, m) /\ ~Taking(c, m)'
  BY DEF Taking
<1>2. \A m \in Mems : InOrder(c, m)'
  BY <1>1 DEF FramesInv, InOrder, Taken
<1>3. NodeInv(c)'
  BY DEF NodeInv, GetFreeFp
<1> QED
  BY <1>2, <1>3 DEF FramesInv

(* A step inside MEMPHY_get_freefp() concerns one list: it is enough to show
   that one in order. *)
LEMMA OtherListStays ==
  ASSUME NEW c, Cpus = {c}, FramesInv,
         NEW m \in Mems, cpu[c].mem = m, cpu'[c].mem = m, InOrder(c, m)',
         \A n \in Mems : n # m => head'[n] = head[n] /\ freed'[n] = freed[n] /\ given'[n] = given[n]
  PROVE  \A n \in Mems : InOrder(c, n)'
<1>1. ASSUME NEW n \in Mems, n # m
      PROVE  InOrder(c, n)'
  <2>1. ~Taking(c, n) /\ ~Taking(c, n)'
    BY <1>1 DEF Taking
  <2>2. InOrder(c, n)
    BY DEF FramesInv
  <2> QED
    BY <1>1, <2>1, <2>2 DEF InOrder, Taken
<1> QED
  BY <1>1

(* LoadHead: the first node of the list, which is not empty. *)
LEMMA LoadHeadFrames ==
  ASSUME NEW c, Cpus = {c}, PagingTypes, FramesInv, LoadHead(c)
  PROVE  FramesInv'
<1>1. cpu[c].pc = "head" /\ cpu[c] \in BusyCpu
  BY BusyTypes DEF LoadHead, At
<1>2. PICK m : m = cpu[c].mem
  OBVIOUS
<1>3. m \in Mems /\ cpu[c].fp \in Nat /\ cpu[c].ret \in Nat
  BY <1>1, <1>2 DEF BusyCpu
<1>4. /\ cpu'[c].pc = "fpn"
      /\ cpu'[c].mem = m
      /\ cpu'[c].fp = head[m]
  BY <1>1, <1>2 DEF LoadHead, BusyCpu, PagingTypes
<1>5. /\ head[m] # NULL(m)
      /\ UNCHANGED <<head, freed, given>>
  BY <1>2 DEF LoadHead
<1>6. InOrder(c, m)
  BY <1>3 DEF FramesInv
<1>7. NodeInv(c)
  BY DEF FramesInv
<1>8. Taken(c, m) = head[m] /\ Taken(c, m)' = head[m] /\ Taking(c, m)' /\ ~Taking(c, m)
  BY <1>1, <1>2, <1>4 DEF Taken, Taking, GetFreeFp
<1>9. /\ DOMAIN head' = Mems /\ DOMAIN freed' = Mems /\ DOMAIN given' = Mems
      /\ \A n \in Mems : DOMAIN given'[n] = Frames(n)
      /\ \A n \in Mems : n # m => head'[n] = head[n] /\ freed'[n] = freed[n] /\ given'[n] = given[n]
  BY <1>3, <1>5 DEF FramesInv
<1>10. NodeInv(c)'
  BY <1>4, <1>5 DEF NodeInv
<1>11. InOrder(c, m)'
  BY <1>5, <1>6, <1>8, <1>4 DEF InOrder
<1>12. \A n \in Mems : InOrder(c, n)'
  BY <1>2, <1>3, <1>4, <1>5, <1>9, <1>11, OtherListStays
<1> QED
  BY <1>9, <1>10, <1>12 DEF FramesInv

(* ReadFpn: the frame of the node, which was not handed out before. *)
LEMMA ReadFpnFrames ==
  ASSUME NEW c, Cpus = {c}, PagingTypes, FramesInv, ReadFpn(c)
  PROVE  FramesInv'
<1>1. cpu[c].pc = "fpn" /\ cpu[c] \in BusyCpu
  BY BusyTypes DEF ReadFpn, At
<1>2. PICK m : m = cpu[c].mem
  OBVIOUS
<1>3. m \in Mems /\ cpu[c].fp \in Nat /\ cpu[c].ret \in Nat
  BY <1>1, <1>2 DEF BusyCpu
<1>4. /\ cpu'[c].pc = "next"
      /\ cpu'[c].mem = m
      /\ cpu'[c].fp = cpu[c].fp
      /\ cpu'[c].ret = cpu[c].fp
  BY <1>1, <1>2 DEF ReadFpn, Fp, FpnOf, BusyCpu, PagingTypes
<1>5. /\ UNCHANGED <<head, freed>>
      /\ given' = [given EXCEPT ![m][cpu[c].fp] = @ + 1]
  BY <1>2 DEF ReadFpn, Fp, FpnOf
<1>6. InOrder(c, m)
  BY <1>3 DEF FramesInv
<1>7. NodeInv(c)
  BY DEF FramesInv
<1>8. Taken(c, m) = cpu[c].fp /\ Taken(c, m)' = cpu[c].fp /\ Taking(c, m) /\ Taking(c, m)'
  BY <1>1, <1>2, <1>4 DEF Taken, Taking, GetFreeFp
<1>9. /\ DOMAIN head' = Mems /\ DOMAIN freed' = Mems /\ DOMAIN given' = Mems
      /\ \A n \in Mems : DOMAIN given'[n] = Frames(n)
      /\ \A n \in Mems : n # m => head'[n] = head[n] /\ freed'[n] = freed[n] /\ given'[n] = given[n]
      /\ \A f \in Frames(m) : given'[m][f] = IF f = cpu[c].fp THEN given[m][f] + 1 ELSE given[m][f]
  BY <1>3, <1>5 DEF FramesInv
<1>10. NodeInv(c)'
  BY <1>1, <1>2, <1>4, <1>5, <1>7 DEF NodeInv
<1>11. InOrder(c, m)'
  BY <1>1, <1>3, <1>4, <1>5, <1>6, <1>8, <1>9 DEF InOrder
<1>12. \A n \in Mems : InOrder(c, n)'
  BY <1>2, <1>3, <1>4, <1>5, <1>9, <1>11, OtherListStays
<1> QED
  BY <1>9, <1>10, <1>12 DEF FramesInv

(* ReadNext: the node behind it. *)
LEMMA ReadNextFrames ==
  ASSUME NEW c, Cpus = {c}, PagingTypes, FramesInv, ReadNext(c)
  PROVE  FramesInv'
<1>1. cpu[c].pc = "next" /\ cpu[c] \in BusyCpu
  BY BusyTypes DEF ReadNext, At
<1>2. PICK m : m = cpu[c].mem
  OBVIOUS
<1>3. m \in Mems /\ cpu[c].fp \in Nat /\ cpu[c].ret \in Nat
  BY <1>1, <1>2 DEF BusyCpu
<1>4. /\ cpu'[c].pc = "store"
      /\ cpu'[c].mem = m
      /\ cpu'[c].fp = cpu[c].fp
      /\ cpu'[c].ret = cpu[c].ret
      /\ cpu'[c].next = cpu[c].fp + 1
  BY <1>1, <1>2 DEF ReadNext, Fp, BusyCpu, PagingTypes
<1>5. /\ UNCHANGED <<head, freed, given>>
  BY <1>2 DEF ReadNext, Fp
<1>6. InOrder(c, m)
  BY <1>3 DEF FramesInv
<1>7. NodeInv(c)
  BY DEF FramesInv
<1>8. Taken(c, m) = cpu[c].fp /\ Taken(c, m)' = cpu[c].fp /\ Taking(c, m) /\ Taking(c, m)'
  BY <1>1, <1>2, <1>4 DEF Taken, Taking, GetFreeFp
<1>9. /\ DOMAIN head' = Mems /\ DOMAIN freed' = Mems /\ DOMAIN given' = Mems
      /\ \A n \in Mems : DOMAIN given'[n] = Frames(n)
      /\ \A n \in Mems : n # m => head'[n] = head[n] /\ freed'[n] = freed[n] /\ given'[n] = given[n]
  BY <1>3, <1>5 DEF FramesInv
<1>10. NodeInv(c)'
  BY <1>1, <1>2, <1>4, <1>5, <1>7 DEF NodeInv
<1>11. InOrder(c, m)'
  BY <1>1, <1>4, <1>5, <1>6, <1>8 DEF InOrder
<1>12. \A n \in Mems : InOrder(c, n)'
  BY <1>2, <1>3, <1>4, <1>5, <1>9, <1>11, OtherListStays
<1> QED
  BY <1>9, <1>10, <1>12 DEF FramesInv

(* StoreHead: the list begins behind the node. *)
LEMMA StoreHeadFrames ==
  ASSUME NEW c, Cpus = {c}, PagingTypes, FramesInv, StoreHead(c)
  PROVE  FramesInv'
<1>1. cpu[c].pc = "store" /\ cpu[c] \in BusyCpu
  BY BusyTypes DEF StoreHead, At
<1>2. PICK m : m = cpu[c].mem
  OBVIOUS
<1>3. m \in Mems /\ cpu[c].fp \in Nat /\ cpu[c].ret \in Nat
  BY <1>1, <1>2 DEF BusyCpu
<1>4. /\ cpu'[c].pc = "free"
      /\ cpu'[c].mem = m
      /\ cpu'[c].fp = cpu[c].fp
      /\ cpu'[c].ret = cpu[c].ret
  BY <1>1, <1>2 DEF StoreHead, Goto, BusyCpu, PagingTypes
<1>5. /\ head' = [head EXCEPT ![m] = cpu[c].next]
      /\ UNCHANGED <<freed, given>>
  BY <1>2 DEF StoreHead, Goto
<1>6. InOrder(c, m)
  BY <1>3 DEF FramesInv
<1>7. NodeInv(c)
  BY DEF FramesInv
<1>8. Taken(c, m) = cpu[c].fp /\ Taken(c, m)' = cpu[c].fp /\ Taking(c, m) /\ Taking(c, m)'
  BY <1>1, <1>2, <1>4 DEF Taken, Taking, GetFreeFp
<1>9. /\ DOMAIN head' = Mems /\ DOMAIN freed' = Mems /\ DOMAIN given' = Mems
      /\ \A n \in Mems : DOMAIN given'[n] = Frames(n)
      /\ \A n \in Mems : n # m => head'[n] = head[n] /\ freed'[n] = freed[n] /\ given'[n] = given[n]
      /\ head'[m] = cpu[c].next
  BY <1>3, <1>5 DEF FramesInv
<1>10. NodeInv(c)'
  BY <1>1, <1>2, <1>3, <1>4, <1>5, <1>7, <1>9 DEF NodeInv
<1>11. InOrder(c, m)'
  BY <1>1, <1>2, <1>3, <1>4, <1>5, <1>6, <1>7, <1>8, <1>9, Devices, SMTT(30) DEF InOrder, NodeInv
<1>12. \A n \in Mems : InOrder(c, n)'
  BY <1>2, <1>3, <1>4, <1>5, <1>9, <1>11, OtherListStays
<1> QED
  BY <1>9, <1>10, <1>12 DEF FramesInv

(* FreeNode: the node is off the list, and freed. *)
LEMMA FreeNodeFrames ==
  ASSUME NEW c, Cpus = {c}, PagingTypes, FramesInv, FreeNode(c)
  PROVE  FramesInv'
<1>1. cpu[c].pc = "free" /\ cpu[c] \in BusyCpu
  BY BusyTypes DEF FreeNode, At
<1>2. PICK m : m = cpu[c].mem
  OBVIOUS
<1>3. m \in Mems /\ cpu[c].fp \in Nat /\ cpu[c].ret \in Nat
  BY <1>1, <1>2 DEF BusyCpu
<1>4. /\ cpu'[c].pc \in {"enlist", "swap"}
      /\ cpu'[c].pc = "swap" => m = "swp"
      /\ cpu'[c].mem = m
      /\ cpu'[c].ret = cpu[c].ret
  BY <1>1, <1>2 DEF FreeNode, Fp, BusyCpu, PagingTypes, Mems
<1>5. /\ freed' = [freed EXCEPT ![m] = @ \cup {cpu[c].fp}]
      /\ UNCHANGED <<head, given>>
  BY <1>2 DEF FreeNode, Fp
<1>6. InOrder(c, m)
  BY <1>3 DEF FramesInv
<1>7. NodeInv(c)
  BY DEF FramesInv
<1>8. Taken(c, m) = cpu[c].fp /\ Taken(c, m)' = head[m] /\ Taking(c, m) /\ ~Taking(c, m)'
  BY <1>1, <1>2, <1>4, <1>5 DEF Taken, Taking, GetFreeFp
<1>9. /\ DOMAIN head' = Mems /\ DOMAIN freed' = Mems /\ DOMAIN given' = Mems
      /\ \A n \in Mems : DOMAIN given'[n] = Frames(n)
      /\ \A n \in Mems : n # m => head'[n] = head[n] /\ freed'[n] = freed[n] /\ given'[n] = given[n]
      /\ freed'[m] = freed[m] \cup {cpu[c].fp}
  BY <1>3, <1>5 DEF FramesInv
<1>10. NodeInv(c)'
  BY <1>1, <1>2, <1>4, <1>5, <1>7 DEF NodeInv
<1>11. InOrder(c, m)'
  <2>1. head[m] = cpu[c].fp + 1 /\ head'[m] = head[m] /\ given'[m] = given[m]
    BY <1>1, <1>2, <1>5, <1>7 DEF NodeInv
  <2>2. head[m] \in 0..NumFrames[m] /\ NumFrames[m] \in Nat /\ Frames(m) = 0..NumFrames[m] - 1
    BY <1>3, <1>6, Devices DEF InOrder
  <2>3. \A x \in freed'[m] : x \in Nat /\ x < Taken(c, m)'
    <3>1. \A x \in freed[m] : x \in Nat /\ x < cpu[c].fp
      BY <1>6, <1>8 DEF InOrder
    <3>2. \A x \in freed[m] : x < cpu[c].fp + 1
      BY <1>3, <3>1
    <3> QED
      BY <1>3, <1>8, <1>9, <2>1, <3>1, <3>2
  <2>4. \A f \in Frames(m) : given[m][f] = IF f < cpu[c].fp \/ f = cpu[c].fp THEN 1 ELSE 0
    BY <1>1, <1>6, <1>8 DEF InOrder
  <2>5. \A f \in Frames(m) : given[m][f] = IF f < cpu[c].fp + 1 THEN 1 ELSE 0
    BY <1>3, <2>2, <2>4
  <2> QED
    BY <1>8, <2>1, <2>2, <2>3, <2>5 DEF InOrder
<1>12. \A n \in Mems : InOrder(c, n)'
  BY <1>2, <1>3, <1>4, <1>5, <1>9, <1>11, OtherListStays
<1> QED
  BY <1>9, <1>10, <1>12 DEF FramesInv

(* Every step of a single CPU keeps the lists of frames in order. *)
LEMMA FramesKeep ==
  ASSUME NEW c, Cpus = {c}, PagingTypes, FramesInv, [Next]_vars
  PROVE  FramesInv'
<1> USE DEF At
<1>1. ASSUME NEW p \in Procs, NEW i \in Instructions, Run(c, p, i)
      PROVE  FramesInv'
  <2>1. cpu[c].pc = "idle" /\ cpu'[c].pc = "getpage" /\ UNCHANGED <<head, freed, given>>
    BY <1>1 DEF Run, PagingTypes
  <2> QED
    BY <2>1, FramesStay DEF GetFreeFp
<1>2. CASE PageOnline(c) \/ PageOffline(c) \/ NoRamLeft(c) \/ FindVictim(c) \/ SwapPages(c) \/ Enlist(c)
  <2>1. /\ cpu[c].pc \notin GetFreeFp /\ cpu'[c].pc \notin GetFreeFp \cup {"swap"}
        /\ UNCHANGED <<head, freed, given>>
    BY <1>2, BusyTypes DEF PageOnline, PageOffline, NoRamLeft, FindVictim, SwapPages, Enlist,
       Goto, GetFreeFp, PagingTypes, BusyCpu
  <2> QED
    BY <2>1, FramesStay
<1>3. CASE NoSwapLeft(c) \/ NoVictim(c) \/ Access(c)
  <2>1. /\ cpu[c].pc \in {"head", "victim", "access"} /\ UNCHANGED <<head, freed, given>>
        /\ \E failed \in BOOLEAN : Continue(c, failed)
    BY <1>3 DEF NoSwapLeft, NoVictim, Access
  <2>2. cpu[c].pc \notin GetFreeFp /\ cpu'[c].pc \notin GetFreeFp \cup {"swap"}
    BY <2>1, ContinueMoves DEF GetFreeFp
  <2> QED
    BY <2>1, <2>2, FramesStay
<1>4. CASE UseAfterFree(c) \/ Ended \/ UNCHANGED vars
  <2>1. UNCHANGED <<cpu, head, freed, given>>
    BY <1>4 DEF UseAfterFree, Ended, vars
  <2> QED
    BY <2>1 DEF FramesInv, NodeInv, InOrder, Taken, Taking
<1> QED
  BY <1>1, <1>2, <1>3, <1>4, LoadHeadFrames, ReadFpnFrames, ReadNextFrames, StoreHeadFrames, FreeNodeFrames
     DEF Next, GetPage

-----------------------------------------------------------------------------
(* Present pages, for one CPU.                                             *)

(* A swap device that is used up stays so, and a program that has ended too. *)
LEMMA SwapStaysFull ==
  ASSUME NEW c, Cpus = {c}, PagingTypes, FramesInv, [Next]_vars
  PROVE  /\ head'["swp"] # NULL("swp") => head["swp"] # NULL("swp")
         /\ ended' = "no" => ended = "no"
<1> USE DEF At
<1>1. CASE StoreHead(c)
  <2>1. cpu[c].pc = "store" /\ cpu[c].mem \in Mems
    BY <1>1, BusyTypes DEF StoreHead, BusyCpu
  <2>2. head[cpu[c].mem] # NULL(cpu[c].mem)
    BY <2>1 DEF FramesInv, NodeInv
  <2>3. head' = [head EXCEPT ![cpu[c].mem] = cpu[c].next] /\ ended' = ended
    BY <1>1 DEF StoreHead
  <2> QED
    BY <2>2, <2>3 DEF PagingTypes, Mems
<1>2. CASE NoSwapLeft(c) \/ NoVictim(c) \/ Access(c)
  <2>1. cpu[c].pc # "idle" /\ head' = head /\ \E failed \in BOOLEAN : Continue(c, failed)
    BY <1>2 DEF NoSwapLeft, NoVictim, Access
  <2> QED
    BY <2>1, ContinueMoves
<1>3. CASE PageOnline(c) \/ PageOffline(c) \/ LoadHead(c) \/ NoRamLeft(c) \/ ReadFpn(c) \/ ReadNext(c)
           \/ FreeNode(c) \/ FindVictim(c) \/ SwapPages(c) \/ Enlist(c) \/ UseAfterFree(c)
  BY <1>3 DEF PageOnline, PageOffline, LoadHead, NoRamLeft, ReadFpn, ReadNext, FreeNode, FindVictim,
     SwapPages, Enlist, UseAfterFree
<1>4. CASE \E p \in Procs, i \in Instructions : Run(c, p, i)
  BY <1>4 DEF Run
<1>5. CASE Ended \/ UNCHANGED vars
  BY <1>5 DEF Ended, vars
<1> QED
  BY <1>1, <1>2, <1>3, <1>4, <1>5 DEF Next, GetPage

(* A step that changes no entry and no list, and lets go of no page. *)
LEMMA PagesStay ==
  ASSUME NEW c, Cpus = {c}, PagingTypes, FramesInv, EvictInv, [Next]_vars,
         UNCHANGED <<pgd, lru>>,
         \A p \in Procs, g \in Pages : Held(c, p, g) => Held(c, p, g)'
  PROVE  EvictInv'
<1> SUFFICES ASSUME ended' = "no", head'["swp"] # NULL("swp"),
                    NEW p \in Procs, NEW g \in Pages, PRESENT \in pgd'[p][g]
             PROVE  IsOn(g, lru'[p]) \/ Held(c, p, g)'
  BY DEF EvictInv, NULL
<1>1. IsOn(g, lru[p]) \/ Held(c, p, g)
  BY SwapStaysFull DEF EvictInv
<1> QED
  BY <1>1

(* A step of MEMPHY_get_freefp() keeps what the CPU has in its hands. *)
LEMMA TakingHolds ==
  ASSUME NEW c, Cpus = {c}, PagingTypes, FramesInv, EvictInv, [Next]_vars,
         LoadHead(c) \/ ReadFpn(c) \/ ReadNext(c) \/ StoreHead(c) \/ FreeNode(c)
  PROVE  EvictInv'
<1>1. cpu[c].pc \in GetFreeFp \cup {"head"} /\ cpu[c] \in BusyCpu
  BY BusyTypes DEF LoadHead, ReadFpn, ReadNext, StoreHead, FreeNode, At, GetFreeFp
<1>2. UNCHANGED <<pgd, lru>>
  BY DEF LoadHead, ReadFpn, ReadNext, StoreHead, FreeNode
<1>3. /\ cpu'[c].proc = cpu[c].proc /\ cpu'[c].vic = cpu[c].vic /\ cpu'[c].mem = cpu[c].mem
      /\ cpu'[c].pc # "idle"
      /\ cpu[c].mem = "swp" => cpu'[c].pc \in GetFreeFp \cup {"swap"}
  <2>1. CASE LoadHead(c) \/ ReadFpn(c)
    BY <1>1, <2>1 DEF LoadHead, ReadFpn, PagingTypes, BusyCpu, GetFreeFp
  <2>2. CASE ReadNext(c) \/ StoreHead(c)
    BY <1>1, <2>2 DEF ReadNext, StoreHead, Goto, PagingTypes, BusyCpu, GetFreeFp
  <2>3. CASE FreeNode(c)
    BY <1>1, <2>3 DEF FreeNode, PagingTypes, BusyCpu, GetFreeFp
  <2> QED
    BY <2>1, <2>2, <2>3
<1>4. ASSUME NEW p \in Procs, NEW g \in Pages, Held(c, p, g)
      PROVE  Held(c, p, g)'
  <2>1. cpu[c].proc = p /\ cpu[c].mem = "swp" /\ g = cpu[c].vic
    BY <1>1, <1>4 DEF Held, Evicting, GetFreeFp
  <2>2. Evicting(c)'
    BY <1>3, <2>1 DEF Evicting
  <2> QED
    BY <1>3, <2>1, <2>2 DEF Held
<1> QED
  BY <1>2, <1>4, PagesStay

(* find_victim_page() takes a page off the list into the hands of the CPU. *)
LEMMA VictimHeld ==
  ASSUME NEW c, Cpus = {c}, PagingTypes, OrderInv, FramesInv, EvictInv, [Next]_vars, FindVictim(c)
  PROVE  EvictInv'
<1>1. cpu[c].pc = "victim" /\ cpu[c] \in BusyCpu
  BY BusyTypes DEF FindVictim, At
<1>2. /\ cpu'[c].pc = "head" /\ cpu'[c].mem = "swp" /\ cpu'[c].proc = cpu[c].proc
      /\ pgd' = pgd
  BY <1>1 DEF FindVictim, PagingTypes, BusyCpu
<1>3. \A p \in Procs, g \in Pages : ~Held(c, p, g)
  BY <1>1 DEF Held, Evicting, GetFreeFp
<1> SUFFICES ASSUME ended' = "no", head'["swp"] # NULL("swp"),
                    NEW p \in Procs, NEW g \in Pages, PRESENT \in pgd'[p][g]
             PROVE  IsOn(g, lru'[p]) \/ Held(c, p, g)'
  BY DEF EvictInv, NULL
<1>4. IsOn(g, lru[p])
  BY <1>2, <1>3, SwapStaysFull DEF EvictInv
<1>5. CASE p # cpu[c].proc \/ g # cpu'[c].vic
  BY <1>4, <1>5, VictimOrder DEF Proc
<1>6. CASE p = cpu[c].proc /\ g = cpu'[c].vic
  BY <1>2, <1>6 DEF Held, Evicting
<1> QED
  BY <1>5, <1>6

(* What SwapPages does to the page table. *)
LEMMA SwapChanges ==
  ASSUME PagingTypes, NEW c \in Cpus, SwapPages(c)
  PROVE  \A p \in Procs, g \in Pages :
            pgd'[p][g] = IF p = Proc(c) /\ g = Page(c)
                         THEN pte_set_fpn(cpu[c].pte, PAGING_FPN(pgd[p][cpu[c].vic]))
                         ELSE IF p = Proc(c) /\ g = cpu[c].vic
                         THEN VictimPte(pgd[p][g], cpu[c].ret)
                         ELSE pgd[p][g]
<1>1. PICK q, v, table : q = Proc(c) /\ v = cpu[c].vic /\ table = pgd[q]
  OBVIOUS
<1>2. PICK pte, vicpte : pte = pte_set_fpn(cpu[c].pte, PAGING_FPN(table[v])) /\ vicpte = VictimPte(table[v], cpu[c].ret)
  OBVIOUS
<1>3. q \in Procs /\ table \in [Pages -> SUBSET Nat]
  BY <1>1, BusyTypes DEF SwapPages, At, PagingTypes
<1>4. pgd' = [pgd EXCEPT ![q] = [table EXCEPT ![v] = vicpte, ![Page(c)] = pte]]
  BY <1>1, <1>2 DEF SwapPages
<1>5. ASSUME NEW p \in Procs, NEW g \in Pages, p # q
      PROVE  pgd'[p][g] = pgd[p][g]
  BY <1>4, <1>5 DEF PagingTypes
<1>6. ASSUME NEW g \in Pages
      PROVE  pgd'[q][g] = IF g = Page(c) THEN pte ELSE IF g = v THEN vicpte ELSE table[g]
  BY <1>3, <1>4 DEF PagingTypes
<1> QED
  BY <1>1, <1>2, <1>5, <1>6

(* The victim is not present any more, and the page that comes in goes to the
   list next. *)
LEMMA SwapHolds ==
  ASSUME NEW c, Cpus = {c}, PagingTypes, FramesInv, EvictInv, [Next]_vars, SwapPages(c)
  PROVE  EvictInv'
<1>1. cpu[c].pc = "swap" /\ cpu[c] \in BusyCpu /\ Proc(c) \in Procs
  BY BusyTypes DEF SwapPages, At
<1>2. /\ cpu'[c].pc = "enlist" /\ cpu'[c].proc = cpu[c].proc /\ Page(c)' = Page(c)
      /\ lru' = lru
  BY <1>1 DEF SwapPages, PagingTypes, BusyCpu, Page
<1> SUFFICES ASSUME ended' = "no", head'["swp"] # NULL("swp"),
                    NEW p \in Procs, NEW g \in Pages, PRESENT \in pgd'[p][g]
             PROVE  IsOn(g, lru'[p]) \/ Held(c, p, g)'
  BY DEF EvictInv, NULL
<1>3. CASE p = Proc(c) /\ g = Page(c)
  BY <1>2, <1>3 DEF Held, Proc
<1>4. CASE p # Proc(c) \/ g \notin {Page(c), cpu[c].vic}
  <2>1. pgd'[p][g] = pgd[p][g]
    BY <1>1, <1>4, SwapChanges
  <2>2. IsOn(g, lru[p]) \/ Held(c, p, g)
    BY <2>1, SwapStaysFull DEF EvictInv
  <2>3. ~Held(c, p, g)
    BY <1>1, <1>4 DEF Held, Proc
  <2> QED
    BY <1>2, <2>2, <2>3
<1>5. CASE p = Proc(c) /\ g = cpu[c].vic /\ g # Page(c)
  <2>1. pgd'[p][g] = VictimPte(pgd[p][g], cpu[c].ret)
    BY <1>5, SwapChanges
  <2> QED
    BY <2>1, VictimAbsent DEF PagingTypes
<1> QED
  BY <1>3, <1>4, <1>5

(* enlist_pgn_node(): the page is on the list now. *)
LEMMA EnlistHolds ==
  ASSUME NEW c, Cpus = {c}, PagingTypes, OrderInv, FramesInv, EvictInv, [Next]_vars, Enlist(c)
  PROVE  EvictInv'
<1>1. cpu[c].pc = "enlist" /\ pgd' = pgd
  BY DEF Enlist, At
<1> SUFFICES ASSUME ended' = "no", head'["swp"] # NULL("swp"),
                    NEW p \in Procs, NEW g \in Pages, PRESENT \in pgd'[p][g]
             PROVE  IsOn(g, lru'[p])
  BY DEF EvictInv, NULL
<1>2. IsOn(g, lru[p]) \/ Held(c, p, g)
  BY <1>1, SwapStaysFull DEF EvictInv
<1>3. Held(c, p, g) => p = Proc(c) /\ g = Page(c)
  BY <1>1 DEF Held, Evicting, GetFreeFp, Proc
<1> QED
  BY <1>2, <1>3, EnlistOrder

(* Every step of a single CPU keeps present pages on the list, but for the one that it has in hand. *)
LEMMA EvictKeeps ==
  ASSUME NEW c, Cpus = {c}, PagingTypes, OrderInv, FramesInv, EvictInv, [Next]_vars
  PROVE  EvictInv'
<1> USE DEF At
<1>1. CASE NoSwapLeft(c)
  <2>1. head["swp"] = NULL("swp")
    BY <1>1 DEF NoSwapLeft
  <2> QED
    BY <2>1, SwapStaysFull DEF EvictInv, NULL
<1>2. CASE UseAfterFree(c)
  BY <1>2 DEF UseAfterFree, EvictInv
<1>3. CASE \/ PageOnline(c) \/ PageOffline(c) \/ NoRamLeft(c) \/ NoVictim(c) \/ Access(c)
           \/ \E p \in Procs, i \in Instructions : Run(c, p, i)
  <2>1. UNCHANGED <<pgd, lru>>
    BY <1>3 DEF PageOnline, PageOffline, NoRamLeft, NoVictim, Access, Run
  <2>2. \/ cpu[c].pc \in {"idle", "getpage", "victim", "access"}
        \/ cpu[c].pc = "head" /\ cpu[c].mem = "ram"
    BY <1>3 DEF PageOnline, PageOffline, NoRamLeft, NoVictim, Access, Run
  <2>3. \A p \in Procs, g \in Pages : ~Held(c, p, g)
    BY <2>2 DEF Held, Evicting, GetFreeFp
  <2> QED
    BY <2>1, <2>3, PagesStay
<1>4. CASE Ended \/ UNCHANGED vars
  <2>1. UNCHANGED <<pgd, lru, cpu>>
    BY <1>4 DEF Ended, vars
  <2>2. \A p \in Procs, g \in Pages : Held(c, p, g) => Held(c, p, g)'
    BY <2>1 DEF Held, Evicting, Page
  <2> QED
    BY <2>1, <2>2, PagesStay
<1> QED
  BY <1>1, <1>2, <1>3, <1>4, TakingHolds, VictimHeld, SwapHolds, EnlistHolds DEF Next, GetPage

-----------------------------------------------------------------------------
(* Swap addresses, for one CPU, as long as the addresses of the swap frames *)
(* handed out fit the 21 bits of the offset.                               *)

(* The entry of a victim holds the address of its swap frame. *)
LEMMA VictimAddress ==
  ASSUME NEW pte \in SUBSET Nat, NEW fpn \in Nat, 256 * fpn < OffsetLimit
  PROVE  Field(VictimPte(pte, fpn), SWPOFF_MASK, SWPOFF_LOBIT) = BitsOf(256 * fpn)
<1>1. PICK typ, off : typ = 0 /\ off = 256 * fpn
  OBVIOUS
<1>2. BitsOf(typ) \subseteq 0..4 /\ BitsOf(off) \subseteq 0..20
  BY <1>1, ZeroBits, HighBits
<1>3. Field(pte_set_swap(pte, 0, 256 * fpn), SWPOFF_MASK, SWPOFF_LOBIT) = BitsOf(256 * fpn)
  <2>1. Field(pte_set_swap(pte, typ, off), SWPOFF_MASK, SWPOFF_LOBIT) = BitsOf(off)
    BY <1>2, SwapStored, SMTT(60)
  <2> QED
    BY <1>1, <2>1
<1>4. VictimPte(pte, fpn) \cap SWPOFF_MASK = pte_set_swap(pte, 0, 256 * fpn) \cap SWPOFF_MASK
  BY Masks DEF VictimPte
<1> QED
  BY <1>3, <1>4 DEF Field

(* The frames whose nodes are off the list are filled by SwapPages alone. *)
LEMMA FilledStays ==
  ASSUME NEW c, Cpus = {c}, PagingTypes, FramesInv, [Next]_vars, ~SwapPages(c)
  PROVE  Filled(c)' = Filled(c) /\ pgd' = pgd
<1> USE DEF At
<1>1. CASE LoadHead(c) \/ ReadFpn(c) \/ ReadNext(c) \/ StoreHead(c) \/ FreeNode(c)
  <2>1. cpu[c].pc \in GetFreeFp \cup {"head"} /\ cpu[c] \in BusyCpu /\ NodeInv(c) /\ cpu[c].mem \in Mems
    BY <1>1, BusyTypes DEF LoadHead, ReadFpn, ReadNext, StoreHead, FreeNode, GetFreeFp, BusyCpu, FramesInv
  <2>2. pgd' = pgd
    BY <1>1 DEF LoadHead, ReadFpn, ReadNext, StoreHead, FreeNode
  <2>3. CASE LoadHead(c)
    <3>1. /\ cpu[c].pc = "head" /\ cpu'[c].pc = "fpn" /\ cpu'[c].mem = cpu[c].mem
          /\ cpu'[c].fp = head[cpu[c].mem] /\ head' = head
      BY <2>1, <2>3 DEF LoadHead, PagingTypes, BusyCpu
    <3> QED
      BY <2>2, <3>1 DEF Filled, Taken, Taking, GetFreeFp
  <2>4. CASE ReadFpn(c) \/ ReadNext(c)
    <3>1. /\ cpu[c].pc \in GetFreeFp /\ cpu'[c].pc \in GetFreeFp /\ cpu'[c].mem = cpu[c].mem
          /\ cpu'[c].fp = cpu[c].fp /\ head' = head
      BY <2>1, <2>4 DEF ReadFpn, ReadNext, PagingTypes, BusyCpu, GetFreeFp
    <3> QED
      BY <2>2, <3>1 DEF Filled, Taken, Taking, GetFreeFp
  <2>5. CASE StoreHead(c)
    <3>1. /\ cpu[c].pc \in GetFreeFp /\ cpu'[c].pc \in GetFreeFp /\ cpu'[c].mem = cpu[c].mem
          /\ cpu'[c].fp = cpu[c].fp
          /\ cpu[c].mem # "swp" => head'["swp"] = head["swp"]
      BY <2>1, <2>5 DEF StoreHead, Goto, PagingTypes, BusyCpu, GetFreeFp, Mems
    <3> QED
      BY <2>2, <3>1 DEF Filled, Taken, Taking, GetFreeFp
  <2>6. CASE FreeNode(c)
    <3>1. /\ cpu[c].pc = "free" /\ cpu'[c].mem = cpu[c].mem /\ cpu'[c].ret = cpu[c].ret /\ head' = head
          /\ cpu'[c].pc = IF cpu[c].mem = "ram" THEN "enlist" ELSE "swap"
      BY <2>1, <2>6 DEF FreeNode, PagingTypes, BusyCpu
    <3>2. cpu[c].ret = cpu[c].fp
      BY <2>1, <3>1 DEF NodeInv
    <3> QED
      BY <2>1, <2>2, <3>1, <3>2 DEF Filled, Taken, Taking, GetFreeFp, Mems
  <2> QED
    BY <1>1, <2>3, <2>4, <2>5, <2>6
<1>2. CASE \/ PageOnline(c) \/ PageOffline(c) \/ NoRamLeft(c) \/ FindVictim(c) \/ Enlist(c)
           \/ NoSwapLeft(c) \/ NoVictim(c) \/ Access(c)
           \/ \E p \in Procs, i \in Instructions : Run(c, p, i)
  <2>1. /\ cpu[c].pc \notin GetFreeFp \cup {"swap"}
        /\ UNCHANGED <<pgd, head>>
    BY <1>2 DEF PageOnline, PageOffline, NoRamLeft, FindVictim, Enlist, NoSwapLeft, NoVictim, Access, Run, GetFreeFp
  <2>2. cpu'[c].pc \notin GetFreeFp \cup {"swap"}
    <3>1. CASE NoSwapLeft(c) \/ NoVictim(c) \/ Access(c)
      <4>1. cpu[c].pc # "idle" /\ \E failed \in BOOLEAN : Continue(c, failed)
        BY <3>1 DEF NoSwapLeft, NoVictim, Access
      <4> QED
        BY <4>1, ContinueMoves DEF GetFreeFp
    <3>2. CASE PageOnline(c) \/ PageOffline(c) \/ NoRamLeft(c) \/ FindVictim(c) \/ Enlist(c)
      BY <3>2, BusyTypes DEF PageOnline, PageOffline, NoRamLeft, FindVictim, Enlist, Goto, PagingTypes,
         BusyCpu, GetFreeFp
    <3>3. CASE \E p \in Procs, i \in Instructions : Run(c, p, i)
      BY <3>3 DEF Run, PagingTypes, GetFreeFp
    <3> QED
      BY <1>2, <3>1, <3>2, <3>3
  <2> QED
    BY <2>1, <2>2 DEF Filled, Taken, Taking
<1>3. CASE UseAfterFree(c) \/ Ended \/ UNCHANGED vars
  <2>1. UNCHANGED <<pgd, head, cpu>>
    BY <1>3 DEF UseAfterFree, Ended, vars
  <2> QED
    BY <2>1 DEF Filled, Taken, Taking
<1> QED
  BY <1>1, <1>2, <1>3 DEF Next, GetPage

(* SwapCopiesDistinct, from the same page by page. *)
LEMMA SwapsDiffer == SwapInv => SwapCopiesDistinct
<1> SUFFICES ASSUME SwapInv, SwapFits,
                    NEW a \in Procs \X Pages, NEW b \in Procs \X Pages, a # b,
                    IsSwapped(a[1], a[2]), IsSwapped(b[1], b[2])
             PROVE  Field(pgd[a[1]][a[2]], SWPOFF_MASK, SWPOFF_LOBIT)
                      # Field(pgd[b[1]][b[2]], SWPOFF_MASK, SWPOFF_LOBIT)
  BY Zenon DEF SwapCopiesDistinct, IsSwapped, SwapFits
<1>1. /\ a[1] \in Procs /\ a[2] \in Pages /\ b[1] \in Procs /\ b[2] \in Pages
      /\ <<a[1], a[2]>> # <<b[1], b[2]>>
  OBVIOUS
<1> QED
  BY <1>1 DEF SwapInv, CopiesApart

(* The victim gets an address that no other entry has. *)
LEMMA SwapAddresses ==
  ASSUME NEW c, Cpus = {c}, PagingTypes, FramesInv, SwapFits, FilledInv, CopiesApart, SwapPages(c)
  PROVE  FilledInv' /\ CopiesApart'
<1> DEFINE Addr(p, g) == Field(pgd[p][g], SWPOFF_MASK, SWPOFF_LOBIT)
<1>1. PICK q, v, g0, ret : q = Proc(c) /\ v = cpu[c].vic /\ g0 = Page(c) /\ ret = cpu[c].ret
  OBVIOUS
<1>2. cpu[c].pc = "swap" /\ cpu[c] \in BusyCpu /\ cpu[c].pte \in SUBSET Nat
  BY BusyTypes DEF SwapPages, At
<1>3. 256 * ret < OffsetLimit /\ head["swp"] = ret + 1 /\ ret \in Nat
  <2>1. head["swp"] = ret + 1 /\ ret \in Nat
    BY <1>1, <1>2 DEF FramesInv, NodeInv, BusyCpu
  <2>2. OffsetLimit \in Nat
    BY Powers DEF OffsetLimit
  <2> QED
    BY <2>1, <2>2 DEF SwapFits
<1>4. Filled(c) = ret /\ Filled(c)' = ret + 1
  <2>1. cpu'[c].pc = "enlist" /\ head' = head
    BY <1>2 DEF SwapPages, PagingTypes
  <2> QED
    BY <1>1, <1>2, <1>3, <2>1 DEF Filled, Taken, Taking, GetFreeFp
<1>5. ASSUME NEW p \in Procs, NEW g \in Pages, IsSwapped(p, g)'
      PROVE  \/ p = q /\ g = v /\ Addr(p, g)' = BitsOf(256 * ret)
             \/ ~(p = q /\ g = v) /\ IsSwapped(p, g) /\ Addr(p, g)' = Addr(p, g)
  <2>1. ~(p = q /\ g = g0)
    <3>1. ASSUME p = q, g = g0 PROVE PRESENT \in pgd'[p][g]
      BY <1>1, <1>2, <3>1, SwapChanges, FpnPresent
    <3> QED
      BY <1>5, <3>1 DEF IsSwapped
  <2>2. CASE p = q /\ g = v
    <3>1. pgd'[p][g] = VictimPte(pgd[p][g], ret)
      BY <1>1, <2>1, <2>2, SwapChanges
    <3> QED
      BY <1>3, <2>2, <3>1, VictimAddress DEF PagingTypes
  <2>3. CASE ~(p = q /\ g = v)
    <3>1. pgd'[p][g] = pgd[p][g]
      BY <1>1, <2>1, <2>3, SwapChanges
    <3> QED
      BY <1>5, <2>3, <3>1 DEF IsSwapped
  <2> QED
    BY <2>2, <2>3
<1>6. ASSUME NEW p \in Procs, NEW g \in Pages, IsSwapped(p, g)
      PROVE  \E x \in 0..ret - 1 : Addr(p, g) = BitsOf(256 * x)
  BY <1>4, <1>6 DEF FilledInv
<1>7. \A x \in 0..ret - 1 : BitsOf(256 * x) # BitsOf(256 * ret)
  <2>1. ASSUME NEW x \in 0..ret - 1
        PROVE  /\ 256 * x \in Nat /\ 256 * ret \in Nat
               /\ 256 * x < OffsetLimit /\ 256 * x # 256 * ret
    <3>1. OffsetLimit \in Nat
      BY Powers DEF OffsetLimit
    <3> QED
      BY <1>3, <2>1, <3>1
  <2> QED
    BY <1>3, <2>1, BitsDetermine
<1>8. ASSUME NEW p \in Procs, NEW g \in Pages, IsSwapped(p, g)'
      PROVE  \E x \in 0..Filled(c)' - 1 : Addr(p, g)' = BitsOf(256 * x)
  <2>1. \A x \in 0..ret - 1 : x \in 0..(ret + 1) - 1
    BY <1>3
  <2>2. ret \in 0..(ret + 1) - 1
    BY <1>3
  <2> QED
    BY <1>4, <1>5, <1>6, <1>8, <2>1, <2>2
<1>9. ASSUME NEW p1 \in Procs, NEW g1 \in Pages, NEW p2 \in Procs, NEW g2 \in Pages,
             IsSwapped(p1, g1)', IsSwapped(p2, g2)', <<p1, g1>> # <<p2, g2>>
      PROVE  Addr(p1, g1)' # Addr(p2, g2)'
  <2>1. IsSwapped(p1, g1) /\ IsSwapped(p2, g2) => Addr(p1, g1) # Addr(p2, g2)
    BY <1>9 DEF CopiesApart
  <2> QED
    BY <1>5, <1>6, <1>7, <1>9, <2>1
<1>10. CopiesApart'
  BY <1>9 DEF CopiesApart
<1> QED
  BY <1>8, <1>10 DEF FilledInv

(* A frame that was handed out does not come back: the head of a list only
   rises. *)
LEMMA HeadRises ==
  ASSUME NEW c, Cpus = {c}, PagingTypes, FramesInv, [Next]_vars
  PROVE  head["swp"] \in Nat /\ head'["swp"] \in Nat /\ head["swp"] <= head'["swp"]
<1> USE DEF At
<1>0. head["swp"] \in Nat
  BY DEF FramesInv, InOrder, Mems
<1>1. CASE StoreHead(c)
  <2>1. cpu[c].pc = "store" /\ cpu[c].mem \in Mems /\ cpu[c].fp \in Nat
    BY <1>1, BusyTypes DEF StoreHead, BusyCpu
  <2>2. head[cpu[c].mem] = cpu[c].fp /\ cpu[c].next = cpu[c].fp + 1
    BY <2>1 DEF FramesInv, NodeInv
  <2>3. head' = [head EXCEPT ![cpu[c].mem] = cpu[c].next]
    BY <1>1 DEF StoreHead
  <2> QED
    BY <1>0, <2>1, <2>2, <2>3 DEF PagingTypes, Mems
<1>2. CASE ~StoreHead(c)
  <2>1. head' = head
    BY <1>2 DEF Next, GetPage, NoSwapLeft, NoVictim, Access, PageOnline, PageOffline, LoadHead, NoRamLeft,
       ReadFpn, ReadNext, FreeNode, FindVictim, SwapPages, Enlist, UseAfterFree, Run, Ended, vars
  <2> QED
    BY <1>0, <2>1
<1> QED
  BY <1>1, <1>2

(* Every step of a single CPU keeps the offsets of swapped pages apart. *)
LEMMA SwapKeeps ==
  ASSUME NEW c, Cpus = {c}, PagingTypes, FramesInv, SwapInv, [Next]_vars
  PROVE  SwapInv'
<1> SUFFICES ASSUME SwapFits'
             PROVE  FilledInv' /\ CopiesApart'
  BY DEF SwapInv
<1>1. SwapFits
  <2>1. OffsetLimit \in Nat
    BY Powers DEF OffsetLimit
  <2>2. head["swp"] \in Nat /\ head'["swp"] \in Nat /\ head["swp"] <= head'["swp"]
    BY HeadRises
  <2>3. 256 * head'["swp"] <= OffsetLimit
    BY DEF SwapFits, OffsetLimit
  <2> QED
    BY <2>1, <2>2, <2>3 DEF SwapFits
<1>2. FilledInv /\ CopiesApart
  BY <1>1 DEF SwapInv
<1>3. CASE SwapPages(c)
  BY <1>1, <1>2, <1>3, SwapAddresses
<1>4. CASE ~SwapPages(c)
  <2>1. Filled(c)' = Filled(c) /\ pgd' = pgd
    BY <1>4, FilledStays
  <2> QED
    BY <1>2, <2>1 DEF FilledInv, IsSwapped, CopiesApart
<1> QED
  BY <1>3, <1>4

-----------------------------------------------------------------------------
(* The theorems.                                                           *)

(* Types and the order of the list, for any number of CPUs. *)
THEOREM PagingCorrect == Spec => [](PagingTypes /\ OrderInv)
<1>1. Init => PagingTypes /\ OrderInv
  BY InitTypes, InitOrder
<1>2. PagingTypes /\ OrderInv /\ [Next]_vars => PagingTypes' /\ OrderInv'
  BY TypesKeep, OrderKeeps
<1> QED
  BY <1>1, <1>2, PTL DEF Spec

(* The list that find_victim_page() takes the last page of is ordered by last
   use, for any number of CPUs. *)
THEOREM ListByLastUse == Spec => []LruOrder
<1>1. PagingTypes /\ OrderInv => LruOrder
  BY DEF OrderInv
<1> QED
  BY <1>1, PagingCorrect, PTL

(* The victim of find_victim_page(): every page that stays on the list was
   used after it. *)
VictimIsOldest ==
    \A c \in Cpus : FindVictim(c) =>
        \A g \in Pages : IsOn(g, lru'[Proc(c)]) => <<g, cpu'[c].vic>> \in usedAfter[Proc(c)]

(* find_victim_page() takes the least recently used page of the list, for any
   number of CPUs. *)
THEOREM LeastRecentlyUsedGoes == Spec => [][VictimIsOldest]_vars
<1>1. ASSUME PagingTypes, OrderInv, NEW c \in Cpus, FindVictim(c),
             NEW g \in Pages, IsOn(g, lru'[Proc(c)])
      PROVE  <<g, cpu'[c].vic>> \in usedAfter[Proc(c)]
  <2>1. PICK list : list = lru[Proc(c)]
    OBVIOUS
  <2>2. Proc(c) \in Procs /\ list \in Seq(Pages) /\ Len(list) > 0
    BY <1>1, <2>1, BusyTypes DEF FindVictim, At
  <2>3. cpu'[c].vic = list[Len(list)]
    BY <1>1, <2>1, VictimOrder
  <2>4. lru' = [lru EXCEPT ![Proc(c)] = SubSeq(list, 1, Len(list) - 1)]
    BY <1>1, <2>1 DEF FindVictim
  <2>5. lru'[Proc(c)] = SubSeq(list, 1, Len(list) - 1)
    <3>1. \A p \in Procs : [lru EXCEPT ![p] = SubSeq(list, 1, Len(list) - 1)][p] = SubSeq(list, 1, Len(list) - 1)
      BY <1>1 DEF PagingTypes
    <3> QED
      BY <2>2, <2>4, <3>1, Zenon
  <2>6. PICK i \in 1..Len(list) - 1 : list[i] = g
    BY <1>1, <2>2, <2>5 DEF IsOn
  <2>7. i \in DOMAIN list /\ Len(list) \in DOMAIN list /\ i < Len(list)
    BY <2>2
  <2> QED
    BY <1>1, <2>1, <2>2, <2>3, <2>6, <2>7 DEF OrderInv, LruOrder
<1>2. PagingTypes /\ OrderInv /\ [Next]_vars => [VictimIsOldest]_vars
  BY <1>1 DEF VictimIsOldest
<1> QED
  BY <1>2, PagingCorrect, PTL DEF Spec

(* The lists of free frames stay in order while one CPU works on them. *)
THEOREM ListsInOrder ==
  ASSUME NEW c, Cpus = {c}
  PROVE  Spec => []FramesInv
<1>1. Init => FramesInv
  BY InitFrames
<1>2. PagingTypes /\ FramesInv /\ [Next]_vars => FramesInv'
  BY FramesKeep
<1> QED
  BY <1>1, <1>2, PagingCorrect, PTL DEF Spec

(* One CPU: MEMPHY_get_freefp() hands out a frame at most once. *)
THEOREM FramesGivenOnce ==
  ASSUME NEW c, Cpus = {c}
  PROVE  Spec => []FrameGivenOnce
<1>1. ASSUME FramesInv, NEW m \in Mems, NEW f \in Frames(m)
      PROVE  given[m][f] <= 1
  <2>1. InOrder(c, m)
    BY <1>1 DEF FramesInv
  <2>2. given[m][f] = 0 \/ given[m][f] = 1
    BY <2>1 DEF InOrder
  <2> QED
    BY <2>2
<1>2. FramesInv => FrameGivenOnce
  BY <1>1 DEF FrameGivenOnce
<1> QED
  BY <1>2, ListsInOrder, PTL

(* One CPU: MEMPHY_get_freefp() uses no node that was freed before. *)
THEOREM FreedNodesUnused ==
  ASSUME NEW c, Cpus = {c}
  PROVE  Spec => [](cpu[c].pc \in GetFreeFp => ~NodeFreed(c))
<1>1. ASSUME PagingTypes, FramesInv, cpu[c].pc \in GetFreeFp
      PROVE  ~NodeFreed(c)
  <2>1. cpu[c].mem \in Mems /\ cpu[c].fp \in Nat
    BY <1>1, BusyTypes DEF GetFreeFp, BusyCpu
  <2>2. Taken(c, cpu[c].mem) = cpu[c].fp
    BY <1>1 DEF Taken, Taking
  <2>3. \A n \in freed[cpu[c].mem] : n \in Nat /\ n < cpu[c].fp
    BY <1>1, <2>1, <2>2 DEF FramesInv, InOrder
  <2> QED
    BY <2>1, <2>3 DEF NodeFreed, Fp
<1>2. PagingTypes /\ OrderInv /\ FramesInv => (cpu[c].pc \in GetFreeFp => ~NodeFreed(c))
  BY <1>1
<1> QED
  BY <1>2, PagingCorrect, ListsInOrder, PTL

(* One CPU: as long as the swap device has frames, every present page of a
   process that is not at work can be found as a victim. *)
THEOREM PresentCanLeave ==
  ASSUME NEW c, Cpus = {c}
  PROVE  Spec => []EvictablePresent
<1>1. Init => EvictInv
  BY DEF Init, EvictInv
<1>2. PagingTypes /\ OrderInv /\ FramesInv /\ EvictInv /\ [Next]_vars => EvictInv'
  BY EvictKeeps
<1>3. EvictInv => EvictablePresent
  BY DEF EvictInv, EvictablePresent, Busy, Held
<1> QED
  BY <1>1, <1>2, <1>3, PagingCorrect, ListsInOrder, PTL DEF Spec

(* One CPU and a swap device of any size, the shipped 16 MB too: the entries of
   swapped pages lead to different swap frames in every state in which at most
   8192 swap frames were handed out. *)
THEOREM SwapFramesApart ==
  ASSUME NEW c, Cpus = {c}
  PROVE  Spec => []SwapCopiesDistinct
<1>1. Init => SwapInv
  BY DEF Init, SwapInv, FilledInv, CopiesApart, IsSwapped
<1>2. PagingTypes /\ FramesInv /\ SwapInv /\ [Next]_vars => SwapInv'
  BY SwapKeeps
<1>3. SwapInv => SwapCopiesDistinct
  BY SwapsDiffer
<1> QED
  BY <1>1, <1>2, <1>3, PagingCorrect, ListsInOrder, PTL DEF Spec

=============================================================================
