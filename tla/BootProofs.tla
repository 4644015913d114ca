----------------------------- MODULE BootProofs -----------------------------
(***************************************************************************)
(* Proofs about how the simulator comes up, and about the memory devices   *)
(* that it creates: the devices implement the store of pages that the      *)
(* paging code relies on, for devices of any number and size; what a       *)
(* configuration file says is what the simulator works with; and a process *)
(* gets the instructions of its program file.                              *)
(***************************************************************************)
EXTENDS Boot, FiniteSetTheorems, SequenceTheorems, WellFoundedInduction, TLAPS

-----------------------------------------------------------------------------
(* Addresses and frames.                                                   *)

(* A set of numbers has a least one: what stands for induction below. *)
LEMMA Least ==
  ASSUME NEW T \in SUBSET Nat, T # {}
  PROVE  \E n \in T : \A m \in T : n <= m
<1>1. \E n \in T : \A m \in T : <<m, n>> \notin OpToRel(<, Nat)
  BY WFMin, NatLessThanWellFounded, Zenon
<1>2. PICK n \in T : \A m \in T : ~(m < n)
  BY <1>1, Zenon DEF OpToRel
<1> QED
  BY <1>2

(* Every address lies in one frame, at one offset. *)
LEMMA FrameOfAddress ==
  ASSUME NEW a \in Nat
  PROVE  /\ a \div PAGING_PAGESZ \in Nat
         /\ a % PAGING_PAGESZ \in 0..PAGING_PAGESZ - 1
         /\ a = FrameStart(a \div PAGING_PAGESZ) + (a % PAGING_PAGESZ)
BY MemphyAssumption, SMT DEF FrameStart

(* The byte at an offset of a frame is in that frame and in no other. *)
LEMMA AddressOfFrame ==
  ASSUME NEW f \in Nat, NEW o \in 0..PAGING_PAGESZ - 1
  PROVE  /\ FrameStart(f) + o \in Nat
         /\ (FrameStart(f) + o) \div PAGING_PAGESZ = f
         /\ (FrameStart(f) + o) % PAGING_PAGESZ = o
<1>1. PICK P, a : P = PAGING_PAGESZ /\ a = FrameStart(f) + o
  OBVIOUS
<1>2. P \in Nat \ {0} /\ a = f * P + o /\ o \in 0..P - 1
  BY <1>1, MemphyAssumption DEF FrameStart
<1>3. f * P \in Nat
  BY <1>2, SMT
<1>4. a \in Nat
  BY <1>2, <1>3
<1>5. a \div P = f
  BY <1>2, <1>3, <1>4, SMT
<1>6. a = f * P + (a % P)
  <2>1. a = (a \div P) * P + (a % P)
    BY <1>2, <1>4, SMT
  <2> QED
    BY <2>1, <1>5
<1>7. a % P = o
  <2>1. a % P \in Int
    BY <1>2, <1>4, SMT
  <2> QED
    BY <1>2, <1>3, <1>6, <2>1
<1> QED
  BY <1>1, <1>4, <1>5, <1>7

(* A frame lies inside its device, whatever bytes are left over at the end. *)
LEMMA FramesInside ==
  ASSUME NEW maxsz \in Int, NEW a \in Nat
  PROVE  a \div PAGING_PAGESZ \in 0..Numfp(maxsz) - 1 => a \in 0..maxsz - 1
<1>1. PICK P, q, s : P = PAGING_PAGESZ /\ q = a \div PAGING_PAGESZ /\ s = maxsz \div PAGING_PAGESZ
  OBVIOUS
<1>2. P \in Nat \ {0} /\ q \in Nat /\ s \in Int
  BY <1>1, MemphyAssumption, SMT
<1>3. a < q * P + P /\ s * P <= maxsz
  BY <1>1, <1>2, SMT
<1>4. ASSUME q \in 0..s - 1 PROVE a < maxsz
  <2>1. q + 1 <= s
    BY <1>4, <1>2
  <2>2. (q + 1) * P <= s * P
    BY <2>1, <1>2, SMT
  <2>3. (q + 1) * P = q * P + P
    BY <1>2, SMT
  <2>4. q * P \in Int /\ s * P \in Int
    BY <1>2, SMT
  <2> QED
    BY <1>2, <1>3, <2>2, <2>3, <2>4
<1> QED
  BY <1>1, <1>4 DEF Numfp

-----------------------------------------------------------------------------
(* The frames of a device: in its list, or with its client, never both.    *)

Distinct(s) == \A i, j \in DOMAIN s : s[i] = s[j] => i = j

DeviceOK(r) ==
  /\ DOMAIN r = {"maxsz", "rdmflg", "storage", "cursor", "free_fp_list", "list_end"}
  /\ r.maxsz \in Int
  /\ DOMAIN r.storage = 0..r.maxsz - 1

FramesOK(maxsz, list, taken) ==
  /\ list \in Seq(Nat) /\ taken \in Seq(Nat)
  /\ Distinct(list) /\ Distinct(taken)
  /\ \A i \in DOMAIN list, j \in DOMAIN taken : list[i] # taken[j]
  /\ {list[i] : i \in DOMAIN list} \cup {taken[j] : j \in DOMAIN taken} = 0..Numfp(maxsz) - 1

StoreInv ==
  /\ DOMAIN mp = Devices /\ DOMAIN frm_lst = Devices
  /\ \A d \in Devices : DeviceOK(mp[d])
  /\ \A d \in Devices : FramesOK(mp[d].maxsz, mp[d].free_fp_list, frm_lst[d])

-----------------------------------------------------------------------------
(* What main() has read and created so far.                                *)

ControlInv ==
  /\ sit \in Nat
  /\ DOMAIN memsz = 1..PAGING_MAX_MMSWP + 1
  /\ \A i \in DOMAIN memsz : memsz[i] \in Int
  /\ disk # NoFile => disk \in Seq(Words)
  /\ phase = "memory" => file \in Seq(Words)
  /\ phase \in {"main", "memory", "processes"} => sit = 0
  /\ phase \in {"main", "memory", "processes", "devices"} =>
        \A d \in Devices : d >= sit => mp[d] = Unused /\ frm_lst[d] = << >>

(* How many conversions of a call of fscanf() succeed: as many as match, and
   no more could. *)
LEMMA AssignedMost ==
  ASSUME NEW words \in Seq(Words), NEW L \in Nat, NEW call, DOMAIN call = 1..L, Len(call) = L
  PROVE  LET n == Assigned(words, call) IN
         /\ n \in 0..L /\ n <= Len(words) /\ \A i \in 1..n : Matches(call[i], words[i])
         /\ n = L \/ ~(n + 1 <= Len(words) /\ \A i \in 1..n + 1 : Matches(call[i], words[i]))
<1> DEFINE Fits(n) == n <= Len(words) /\ \A i \in 1..n : Matches(call[i], words[i])
<1> DEFINE Most(n) == Fits(n) /\ (n = L \/ ~Fits(n + 1))
<1>1. Assigned(words, call) = CHOOSE n \in 0..L : Most(n)
  BY DEF Assigned
<1>2. \E n \in 0..L : Most(n)
  <2> DEFINE Bad == {n \in 1..L : ~Fits(n)}
  <2>0. Fits(0)
    BY LenProperties
  <2>1. CASE Bad = {}
    <3>1. Fits(L)
      BY <2>0, <2>1
    <3> QED
      BY <3>1
  <2>2. CASE Bad # {}
    <3>0. Bad \in SUBSET Nat
      OBVIOUS
    <3>1. PICK m \in Bad : \A n \in Bad : m <= n
      <4> HIDE DEF Bad
      <4> QED
        BY <2>2, <3>0, Least
    <3>2. Fits(m - 1) /\ m - 1 \in 0..L /\ ~Fits((m - 1) + 1)
      <4>1. m \in 1..L /\ ~Fits(m)
        BY <3>1
      <4>2. m - 1 = 0 \/ (m - 1 \in 1..L /\ m - 1 \notin Bad)
        BY <4>1, <3>1
      <4>3. Fits(m - 1)
        BY <4>2, <2>0
      <4>4. (m - 1) + 1 = m /\ m - 1 \in 0..L
        BY <4>1
      <4> HIDE DEF Fits
      <4> QED
        BY <4>1, <4>3, <4>4
    <3> QED
      BY <3>2, Zenon
  <2> QED
    BY <2>1, <2>2
<1>3. Assigned(words, call) \in 0..L /\ Most(Assigned(words, call))
  <2> HIDE DEF Most
  <2> QED
    BY <1>1, <1>2, Zenon
<1> QED
  BY <1>3

(* A call whose conversions all match reads them all. *)
LEMMA AssignedFits ==
  ASSUME NEW words \in Seq(Words), NEW L \in Nat, NEW call, DOMAIN call = 1..L, Len(call) = L
  PROVE  /\ Assigned(words, call) \in 0..L
         /\ Assigned(words, call) <= Len(words)
         /\ \A i \in 1..Assigned(words, call) : Matches(call[i], words[i])
         /\ L <= Len(words) /\ (\A i \in 1..L : Matches(call[i], words[i])) => Assigned(words, call) = L
<1> DEFINE Fits(n) == n <= Len(words) /\ \A i \in 1..n : Matches(call[i], words[i])
<1>3. LET n == Assigned(words, call) IN
      n \in 0..L /\ Fits(n) /\ (n = L \/ ~Fits(n + 1))
  BY AssignedMost
<1>4. ASSUME L <= Len(words), \A i \in 1..L : Matches(call[i], words[i])
      PROVE  Assigned(words, call) = L
  <2>1. PICK n : n = Assigned(words, call)
    OBVIOUS
  <2>2. n \in 0..L /\ (n = L \/ ~Fits(n + 1))
    BY <1>3, <2>1
  <2>3. n < L => Fits(n + 1)
    BY <1>4, <2>2, LenProperties
  <2> HIDE DEF Fits
  <2> QED
    BY <2>1, <2>2, <2>3
<1> QED
  BY <1>3, <1>4

-----------------------------------------------------------------------------
(* Each operation of a device is one of the store of pages.                *)

PagesOf(r) ==
  [f \in 0..r.maxsz \div PAGING_PAGESZ - 1 |->
      [o \in 0..PAGING_PAGESZ - 1 |-> r.storage[FrameStart(f) + o]]]

Pages == [d \in Devices |-> PagesOf(mp[d])]

(* The devices keep their sizes and their frames. *)
SameFrames ==
  /\ DOMAIN mp' = Devices
  /\ frm_lst' = frm_lst
  /\ \A d \in Devices :
        /\ DOMAIN mp'[d] = DOMAIN mp[d]
        /\ mp'[d].maxsz = mp[d].maxsz
        /\ DOMAIN mp'[d].storage = DOMAIN mp[d].storage
        /\ mp'[d].free_fp_list = mp[d].free_fp_list

(* Reading, writing and copying do not touch the lists of frames. *)
LEMMA SameFramesKeep == StoreInv /\ SameFrames => StoreInv'
BY DEF StoreInv, SameFrames, DeviceOK

(* A device shows its storage, frame by frame. *)
LEMMA PagesShow ==
  ASSUME NEW r
  PROVE  /\ DOMAIN PagesOf(r) = 0..Numfp(r.maxsz) - 1
         /\ \A f \in 0..Numfp(r.maxsz) - 1, o \in 0..PAGING_PAGESZ - 1 :
               PagesOf(r)[f][o] = r.storage[FrameStart(f) + o]
         /\ PagesOf(r) = [f \in 0..Numfp(r.maxsz) - 1 |->
               [o \in 0..PAGING_PAGESZ - 1 |-> PagesOf(r)[f][o]]]
BY DEF PagesOf, Numfp

(* A device that is not written shows the same pages. *)
LEMMA SamePages ==
  ASSUME \A d \in Devices : mp'[d].maxsz = mp[d].maxsz /\ mp'[d].storage = mp[d].storage
  PROVE  Pages' = Pages
<1>1. \A d \in Devices : PagesOf(mp'[d]) = PagesOf(mp[d])
  BY DEF PagesOf
<1> QED
  BY <1>1 DEF Pages

(* A read gives the byte of the page that was written last. *)
LEMMA ReadStores ==
  ASSUME StoreInv, NEW d \in Devices, NEW addr \in -1..mp[d].maxsz, MEMPHY_read(d, addr)
  PROVE  Store!Read /\ StoreInv'
<1> DEFINE r == [mp[d] EXCEPT !.cursor = Cursor(d, addr)]
<1>1. mp' = [mp EXCEPT ![d] = r] /\ frm_lst' = frm_lst
  BY DEF MEMPHY_read
<1>2. DOMAIN mp = Devices /\ DeviceOK(mp[d])
  BY DEF StoreInv
<1>3. DOMAIN r = DOMAIN mp[d] /\ r.maxsz = mp[d].maxsz /\ r.storage = mp[d].storage
      /\ r.free_fp_list = mp[d].free_fp_list
  BY <1>2 DEF DeviceOK
<1> HIDE DEF r
<1>4. SameFrames /\ \A e \in Devices : mp'[e].maxsz = mp[e].maxsz /\ mp'[e].storage = mp[e].storage
  BY <1>1, <1>2, <1>3 DEF SameFrames
<1>5. PICK b \in Bytes :
        /\ Inside(d, addr) => b = mp[d].storage[addr]
        /\ last' = [call |-> "read", dev |-> d, addr |-> addr, value |-> b,
                    stat |-> IF mp[d].rdmflg /\ ~Inside(d, addr) THEN -1 ELSE 0]
  BY DEF MEMPHY_read
<1>6. last'.call = "read" /\ last'.dev = d /\ last'.addr = addr /\ last'.value = b
      /\ (Inside(d, addr) => last'.stat = 0)
  BY <1>5
<1>7. PICK pg : pg = Pages
  OBVIOUS
<1>8. Pages' = pg
  BY <1>4, <1>7, SamePages
<1>9. ASSUME addr >= 0, addr \div PAGING_PAGESZ \in DOMAIN pg[d]
      PROVE  Inside(d, addr) /\ pg[d][addr \div PAGING_PAGESZ][addr % PAGING_PAGESZ] = mp[d].storage[addr]
  <2>1. PICK q, o : q = addr \div PAGING_PAGESZ /\ o = addr % PAGING_PAGESZ
    OBVIOUS
  <2>2. addr \in Nat
    BY <1>9, <1>2 DEF DeviceOK
  <2>3. q \in 0..Numfp(mp[d].maxsz) - 1 /\ o \in 0..PAGING_PAGESZ - 1 /\ addr = FrameStart(q) + o
    BY <1>7, <1>9, <2>1, <2>2, FrameOfAddress, PagesShow DEF Pages
  <2>4. addr \in 0..mp[d].maxsz - 1
    BY <1>2, <2>1, <2>2, <2>3, FramesInside DEF DeviceOK
  <2>5. pg[d][q][o] = mp[d].storage[FrameStart(q) + o]
    BY <1>7, <2>3, PagesShow DEF Pages
  <2> QED
    BY <2>1, <2>3, <2>4, <2>5 DEF Inside
<1>10. Store!Read
  <2>1. [e \in Devices |-> Held(e)]' = [e \in Devices |-> Held(e)]
    BY <1>4 DEF SameFrames, Held
  <2> QED
    BY <1>5, <1>6, <1>7, <1>8, <1>9, <2>1 DEF Pages, PagesOf, Store!Read, Store!InFrame, Store!Frames
<1> QED
  BY <1>4, <1>10, SameFramesKeep

(* A write changes the byte at its address, in the page that it lies in, and
   no other; beyond the frames it changes no page. *)
LEMMA WriteStores ==
  ASSUME StoreInv, NEW d \in Devices, NEW addr \in -1..mp[d].maxsz, NEW data,
         MEMPHY_write(d, addr, data)
  PROVE  Store!Write /\ StoreInv'
<1>0. DOMAIN mp = Devices /\ DeviceOK(mp[d])
  BY DEF StoreInv
<1>1. frm_lst' = frm_lst /\ last'.call = "write" /\ last'.dev = d /\ last'.addr = addr
      /\ last'.value = data /\ last'.stat = IF Inside(d, addr) THEN 0 ELSE -1
  BY DEF MEMPHY_write
<1>2. PICK pg : pg = Pages
  OBVIOUS
<1>3. PICK q, o : q = addr \div PAGING_PAGESZ /\ o = addr % PAGING_PAGESZ
  OBVIOUS
<1>4. ASSUME addr >= 0, q \in DOMAIN pg[d]
      PROVE  Inside(d, addr) /\ q \in 0..Numfp(mp[d].maxsz) - 1 /\ o \in 0..PAGING_PAGESZ - 1
             /\ addr = FrameStart(q) + o
  <2>1. addr \in Nat
    BY <1>0, <1>4 DEF DeviceOK
  <2>2. q \in 0..Numfp(mp[d].maxsz) - 1 /\ o \in 0..PAGING_PAGESZ - 1 /\ addr = FrameStart(q) + o
    BY <1>2, <1>3, <1>4, <2>1, FrameOfAddress, PagesShow DEF Pages
  <2> QED
    BY <1>0, <1>3, <2>1, <2>2, FramesInside DEF DeviceOK, Inside
<1>5. [e \in Devices |-> Held(e)]' = [e \in Devices |-> Held(e)]
  BY <1>1 DEF Held
<1>6. CASE ~Inside(d, addr)
  <2>1. mp' = mp
    BY <1>6 DEF MEMPHY_write
  <2>2. SameFrames /\ Pages' = pg
    BY <1>0, <1>1, <1>2, <2>1, SamePages DEF SameFrames
  <2>3. ~(addr >= 0 /\ q \in DOMAIN pg[d])
    BY <1>4, <1>6
  <2>4. Store!Write
    BY <1>1, <1>2, <1>3, <1>5, <2>2, <2>3 DEF Pages, PagesOf, Store!Write, Store!InFrame, Store!Frames
  <2> QED
    BY <2>2, <2>4, SameFramesKeep
<1>7. CASE Inside(d, addr)
  <2> DEFINE r == [mp[d] EXCEPT !.storage[addr] = data, !.cursor = Cursor(d, addr)]
  <2>1. mp' = [mp EXCEPT ![d] = r]
    BY <1>0, <1>7 DEF MEMPHY_write, DeviceOK
  <2>2. /\ DOMAIN r = DOMAIN mp[d] /\ r.maxsz = mp[d].maxsz
        /\ r.storage = [mp[d].storage EXCEPT ![addr] = data]
        /\ r.free_fp_list = mp[d].free_fp_list
    BY <1>0 DEF DeviceOK
  <2> HIDE DEF r
  <2>3. SameFrames
    BY <1>0, <1>1, <2>1, <2>2 DEF SameFrames
  <2>4. /\ \A e \in Devices : mp'[e].maxsz = mp[e].maxsz
        /\ \A e \in Devices : e # d => mp'[e].storage = mp[e].storage
    BY <1>0, <2>1, <2>2
  <2>5. mp'[d].storage = [mp[d].storage EXCEPT ![addr] = data]
    BY <1>0, <2>1, <2>2
  <2>6. PICK pg2 : pg2 = Pages'
    OBVIOUS
  <2>7. \A e \in Devices : e # d => pg2[e] = pg[e]
    <3>1. \A e \in Devices : e # d => PagesOf(mp'[e]) = PagesOf(mp[e])
      BY <2>4 DEF PagesOf
    <3> QED
      BY <1>2, <2>6, <3>1 DEF Pages
  <2>8. addr \in DOMAIN mp[d].storage
    BY <1>0, <1>7 DEF DeviceOK, Inside
  <2>9. ASSUME NEW f \in 0..Numfp(mp[d].maxsz) - 1, NEW i \in 0..PAGING_PAGESZ - 1
        PROVE  /\ pg[d][f][i] = mp[d].storage[FrameStart(f) + i]
               /\ pg2[d][f][i] = IF f = q /\ i = o THEN data ELSE pg[d][f][i]
    <3>1. /\ FrameStart(f) + i \in Nat
          /\ (FrameStart(f) + i) \div PAGING_PAGESZ = f
          /\ (FrameStart(f) + i) % PAGING_PAGESZ = i
      BY AddressOfFrame
    <3>2. FrameStart(f) + i \in DOMAIN mp[d].storage
      BY <1>0, <3>1, FramesInside DEF DeviceOK
    <3>3. f = q /\ i = o <=> FrameStart(f) + i = addr
      <4>1. addr \in Nat
        BY <1>0, <2>8 DEF DeviceOK
      <4> QED
        BY <1>3, <3>1, <4>1, FrameOfAddress
    <3>4. pg[d][f][i] = mp[d].storage[FrameStart(f) + i]
      BY <1>2, PagesShow DEF Pages
    <3>5. pg2[d][f][i] = mp'[d].storage[FrameStart(f) + i]
      BY <2>4, <2>6, PagesShow, SMTT(30) DEF Pages
    <3> QED
      BY <2>5, <2>8, <3>2, <3>3, <3>4, <3>5
  <2>10. /\ pg[d] = [f \in 0..Numfp(mp[d].maxsz) - 1 |-> [i \in 0..PAGING_PAGESZ - 1 |-> pg[d][f][i]]]
         /\ pg2[d] = [f \in 0..Numfp(mp[d].maxsz) - 1 |-> [i \in 0..PAGING_PAGESZ - 1 |-> pg2[d][f][i]]]
    <3>1. pg[d] = PagesOf(mp[d]) /\ pg2[d] = PagesOf(mp'[d])
      BY <1>2, <2>6 DEF Pages
    <3>2. PagesOf(mp[d]) = [f \in 0..Numfp(mp[d].maxsz) - 1 |->
             [i \in 0..PAGING_PAGESZ - 1 |-> PagesOf(mp[d])[f][i]]]
      BY PagesShow
    <3>3. PagesOf(mp'[d]) = [f \in 0..Numfp(mp'[d].maxsz) - 1 |->
             [i \in 0..PAGING_PAGESZ - 1 |-> PagesOf(mp'[d])[f][i]]]
      BY PagesShow
    <3>4. mp'[d].maxsz = mp[d].maxsz
      BY <2>4
    <3> QED
      BY <3>1, <3>2, <3>3, <3>4
  <2>11. pg = [e \in Devices |-> pg[e]] /\ pg2 = [e \in Devices |-> pg2[e]]
    BY <1>2, <2>6 DEF Pages
  <2>12. CASE addr >= 0 /\ q \in DOMAIN pg[d]
    <3>0. q \in 0..Numfp(mp[d].maxsz) - 1 /\ o \in 0..PAGING_PAGESZ - 1
      BY <1>4, <2>12
    <3>1. PICK c : c = [pg[d] EXCEPT ![q][o] = data]
      OBVIOUS
    <3>2. \A f \in 0..Numfp(mp[d].maxsz) - 1 : c[f] = pg2[d][f]
      <4>1. \A f \in 0..Numfp(mp[d].maxsz) - 1 :
              /\ pg2[d][f] = [i \in 0..PAGING_PAGESZ - 1 |-> pg2[d][f][i]]
              /\ pg[d][f] = [i \in 0..PAGING_PAGESZ - 1 |-> pg[d][f][i]]
        BY <2>10
      <4>2. \A f \in 0..Numfp(mp[d].maxsz) - 1 :
              c[f] = IF f = q THEN [pg[d][q] EXCEPT ![o] = data] ELSE pg[d][f]
        BY <2>10, <3>0, <3>1
      <4>3. [pg[d][q] EXCEPT ![o] = data] = pg2[d][q]
        BY <2>9, <3>0, <4>1
      <4>4. \A f \in 0..Numfp(mp[d].maxsz) - 1 : f # q => pg2[d][f] = pg[d][f]
        BY <2>9, <4>1
      <4> QED
        BY <4>2, <4>3, <4>4
    <3>3. c = pg2[d]
      BY <2>10, <3>1, <3>2
    <3>4. pg2 = [pg EXCEPT ![d] = c]
      BY <2>7, <2>11, <3>3
    <3>5. pg2 = [pg EXCEPT ![d][q][o] = data]
      BY <3>1, <3>4, <2>11
    <3>6. Store!Write
      BY <1>1, <1>2, <1>3, <1>5, <1>7, <2>6, <2>12, <3>5
      DEF Pages, PagesOf, Store!Write, Store!InFrame, Store!Frames
    <3> QED
      BY <2>3, <3>6, SameFramesKeep
  <2>13. CASE ~(addr >= 0 /\ q \in DOMAIN pg[d])
    <3>1. \A f \in 0..Numfp(mp[d].maxsz) - 1 : f # q
      BY <1>0, <1>7, <2>10, <2>13 DEF DeviceOK, Inside
    <3>2. pg2[d] = pg[d]
      BY <2>9, <2>10, <3>1
    <3>3. pg2 = pg
      BY <2>7, <2>11, <3>2
    <3>4. Store!Write
      BY <1>1, <1>2, <1>3, <1>5, <2>6, <2>13, <3>3 DEF Pages, PagesOf, Store!Write, Store!InFrame, Store!Frames
    <3> QED
      BY <2>3, <3>4, SameFramesKeep
  <2> QED
    BY <2>12, <2>13
<1> QED
  BY <1>6, <1>7

(* A copy brings the whole page, also within one device. *)
LEMMA CopyStores ==
  ASSUME StoreInv, NEW src \in Devices, NEW dst \in Devices,
         NEW sf \in Held(src), NEW df \in Held(dst), __swap_cp_page(src, sf, dst, df)
  PROVE  Store!Copy /\ StoreInv'
<1>0. DOMAIN mp = Devices /\ DeviceOK(mp[src]) /\ DeviceOK(mp[dst])
  BY DEF StoreInv
<1>1. /\ frm_lst' = frm_lst
      /\ last'.call = "copy" /\ last'.dev = src /\ last'.srcfpn = sf
      /\ last'.dst = dst /\ last'.dstfpn = df
  BY DEF __swap_cp_page
<1>2. sf \in 0..Numfp(mp[src].maxsz) - 1 /\ df \in 0..Numfp(mp[dst].maxsz) - 1
  <2>1. \A d \in Devices : DOMAIN frm_lst[d] = 1..Len(frm_lst[d])
    BY DEF StoreInv, FramesOK
  <2>2. \A d \in Devices : {frm_lst[d][j] : j \in DOMAIN frm_lst[d]} \subseteq 0..Numfp(mp[d].maxsz) - 1
    BY DEF StoreInv, FramesOK
  <2> QED
    BY <2>1, <2>2 DEF Held
<1>3. PICK copied : copied = [a \in DOMAIN mp[dst].storage |->
            IF a \div PAGING_PAGESZ = df
            THEN mp[src].storage[FrameStart(sf) + (a % PAGING_PAGESZ)]
            ELSE mp[dst].storage[a]]
  OBVIOUS
<1>4. PICK first, second :
        /\ first = [mp EXCEPT ![src].cursor = Cursor(src, FrameStart(sf) + PAGING_PAGESZ - 1)]
        /\ second = Cursor(dst, FrameStart(df) + PAGING_PAGESZ - 1)
  OBVIOUS
<1>5. mp' = [first EXCEPT ![dst].cursor = second, ![dst].storage = copied]
  BY <1>3, <1>4 DEF __swap_cp_page
<1>6. /\ DOMAIN first = Devices
      /\ \A e \in Devices : /\ DOMAIN first[e] = DOMAIN mp[e]
                            /\ first[e].maxsz = mp[e].maxsz
                            /\ first[e].storage = mp[e].storage
                            /\ first[e].free_fp_list = mp[e].free_fp_list
  <2>1. PICK r : r = [mp[src] EXCEPT !.cursor = Cursor(src, FrameStart(sf) + PAGING_PAGESZ - 1)]
    OBVIOUS
  <2>2. first = [mp EXCEPT ![src] = r]
    BY <1>4, <2>1
  <2>3. DOMAIN r = DOMAIN mp[src] /\ r.maxsz = mp[src].maxsz /\ r.storage = mp[src].storage
        /\ r.free_fp_list = mp[src].free_fp_list
    BY <1>0, <2>1 DEF DeviceOK
  <2> QED
    BY <1>0, <2>2, <2>3
<1>7. /\ DOMAIN mp' = Devices
      /\ \A e \in Devices : /\ DOMAIN mp'[e] = DOMAIN mp[e]
                            /\ mp'[e].maxsz = mp[e].maxsz
                            /\ mp'[e].storage = IF e = dst THEN copied ELSE mp[e].storage
                            /\ mp'[e].free_fp_list = mp[e].free_fp_list
  <2>1. PICK r : r = [first[dst] EXCEPT !.cursor = second, !.storage = copied]
    OBVIOUS
  <2>2. mp' = [first EXCEPT ![dst] = r]
    BY <1>5, <1>6, <2>1
  <2>3. DOMAIN r = DOMAIN mp[dst] /\ r.maxsz = mp[dst].maxsz /\ r.storage = copied
        /\ r.free_fp_list = mp[dst].free_fp_list
    BY <1>0, <1>6, <2>1 DEF DeviceOK
  <2> QED
    BY <1>6, <2>2, <2>3
<1>8. DOMAIN copied = DOMAIN mp[dst].storage
  BY <1>3
<1>9. SameFrames
  BY <1>1, <1>7, <1>8 DEF SameFrames
<1>10. PICK pg, pg2 : pg = Pages /\ pg2 = Pages'
  OBVIOUS
<1>11. /\ pg = [e \in Devices |-> pg[e]] /\ pg2 = [e \in Devices |-> pg2[e]]
       /\ pg[src] = PagesOf(mp[src]) /\ pg[dst] = PagesOf(mp[dst]) /\ pg2[dst] = PagesOf(mp'[dst])
  BY <1>10 DEF Pages
<1>12. \A e \in Devices : e # dst => pg2[e] = pg[e]
  <2>1. \A e \in Devices : e # dst => PagesOf(mp'[e]) = PagesOf(mp[e])
    BY <1>7 DEF PagesOf
  <2> QED
    BY <1>10, <2>1 DEF Pages
<1>13. ASSUME NEW f \in 0..Numfp(mp[dst].maxsz) - 1, NEW i \in 0..PAGING_PAGESZ - 1
       PROVE  PagesOf(mp'[dst])[f][i] = IF f = df THEN PagesOf(mp[src])[sf][i]
                                                 ELSE PagesOf(mp[dst])[f][i]
  <2>1. /\ FrameStart(f) + i \in Nat
        /\ (FrameStart(f) + i) \div PAGING_PAGESZ = f
        /\ (FrameStart(f) + i) % PAGING_PAGESZ = i
    BY AddressOfFrame
  <2>2. FrameStart(f) + i \in DOMAIN mp[dst].storage
    BY <1>0, <2>1, FramesInside DEF DeviceOK
  <2>3. copied[FrameStart(f) + i] = IF f = df THEN mp[src].storage[FrameStart(sf) + i]
                                    ELSE mp[dst].storage[FrameStart(f) + i]
    BY <1>3, <2>1, <2>2
  <2>4. PagesOf(mp'[dst])[f][i] = copied[FrameStart(f) + i]
    BY <1>7, PagesShow
  <2>5. /\ PagesOf(mp[src])[sf][i] = mp[src].storage[FrameStart(sf) + i]
        /\ PagesOf(mp[dst])[f][i] = mp[dst].storage[FrameStart(f) + i]
    BY <1>2, PagesShow
  <2> QED
    BY <2>3, <2>4, <2>5
<1>14. /\ PagesOf(mp[src])[sf] = [i \in 0..PAGING_PAGESZ - 1 |-> PagesOf(mp[src])[sf][i]]
       /\ \A f \in 0..Numfp(mp[dst].maxsz) - 1 :
             /\ PagesOf(mp[dst])[f] = [i \in 0..PAGING_PAGESZ - 1 |-> PagesOf(mp[dst])[f][i]]
             /\ PagesOf(mp'[dst])[f] = [i \in 0..PAGING_PAGESZ - 1 |-> PagesOf(mp'[dst])[f][i]]
  BY <1>2, <1>7 DEF PagesOf, Numfp
<1>15. \A f \in 0..Numfp(mp[dst].maxsz) - 1 :
          PagesOf(mp'[dst])[f] = IF f = df THEN PagesOf(mp[src])[sf] ELSE PagesOf(mp[dst])[f]
  BY <1>13, <1>14
<1>16. /\ PagesOf(mp[dst]) = [f \in 0..Numfp(mp[dst].maxsz) - 1 |-> PagesOf(mp[dst])[f]]
       /\ PagesOf(mp'[dst]) = [f \in 0..Numfp(mp[dst].maxsz) - 1 |-> PagesOf(mp'[dst])[f]]
  <2>1. mp'[dst].maxsz = mp[dst].maxsz
    BY <1>7
  <2> QED
    BY <2>1 DEF PagesOf, Numfp
<1>17. PagesOf(mp'[dst]) = [PagesOf(mp[dst]) EXCEPT ![df] = PagesOf(mp[src])[sf]]
  BY <1>2, <1>15, <1>16
<1>18. pg2 = [pg EXCEPT ![dst][df] = pg[src][sf]]
  BY <1>11, <1>12, <1>17
<1>19. [e \in Devices |-> Held(e)]' = [e \in Devices |-> Held(e)]
  BY <1>1 DEF Held
<1>20. Store!Copy
  BY <1>1, <1>10, <1>18, <1>19 DEF Pages, PagesOf, Store!Copy
<1> QED
  BY <1>9, <1>20, SameFramesKeep

-----------------------------------------------------------------------------
(* Frames are taken and put back.                                          *)

Elements(s) == {s[i] : i \in DOMAIN s}

(* The first n frames of a list are n frames. *)
LEMMA FirstAreMany ==
  ASSUME NEW list \in Seq(Nat), Distinct(list), NEW n \in 0..Len(list)
  PROVE  Cardinality({list[i] : i \in 1..n}) = n
<1> DEFINE T == {list[i] : i \in 1..n}
           g == [i \in 1..n |-> list[i]]
<1>1. g \in Bijection(1..n, T)
  <2>1. g \in [1..n -> T]
    OBVIOUS
  <2>2. \A i, j \in 1..n : g[i] = g[j] => i = j
    BY DEF Distinct
  <2>3. \A t \in T : \E i \in 1..n : g[i] = t
    OBVIOUS
  <2>4. DOMAIN g = 1..n
    OBVIOUS
  <2> HIDE DEF g, T
  <2> QED
    BY <2>1, <2>2, <2>3, <2>4 DEF Bijection, Injection, Surjection, IsInjective
<1>2. ExistsBijection(1..n, T)
  BY <1>1 DEF ExistsBijection
<1>3. n \in Int /\ IsFiniteSet(1..n) /\ Cardinality(1..n) = n
  BY FS_Interval
<1> HIDE DEF T
<1>4. Cardinality(T) = Cardinality(1..n)
  BY <1>2, <1>3, FS_Bijection
<1> QED
  BY <1>3, <1>4 DEF T

(* The first n frames move from the list of a device to its client. *)
LEMMA TakingKeeps ==
  ASSUME NEW maxsz, NEW list, NEW taken, FramesOK(maxsz, list, taken), NEW n \in 0..Len(list)
  PROVE  /\ FramesOK(maxsz, SubSeq(list, n + 1, Len(list)), taken \o SubSeq(list, 1, n))
         /\ Elements(taken \o SubSeq(list, 1, n)) = Elements(taken) \cup {list[i] : i \in 1..n}
<1>0. /\ list \in Seq(Nat) /\ taken \in Seq(Nat) /\ Len(list) \in Nat /\ Len(taken) \in Nat
      /\ DOMAIN list = 1..Len(list) /\ DOMAIN taken = 1..Len(taken)
      /\ \A i \in DOMAIN list : list[i] \in Nat
  BY DEF FramesOK
<1>1. PICK rest, first, all : /\ rest = SubSeq(list, n + 1, Len(list))
                              /\ first = SubSeq(list, 1, n)
                              /\ all = taken \o first
  OBVIOUS
<1>2. /\ rest \in Seq(Nat) /\ DOMAIN rest = 1..Len(list) - n
      /\ \A i \in 1..Len(list) - n : rest[i] = list[i + n]
  BY <1>0, <1>1, SMTT(30)
<1>3. /\ first \in Seq(Nat) /\ Len(first) = n /\ DOMAIN first = 1..n
      /\ \A i \in 1..n : first[i] = list[i]
  BY <1>0, <1>1
<1>4. /\ all \in Seq(Nat) /\ DOMAIN all = 1..Len(taken) + n
      /\ \A i \in 1..Len(taken) : all[i] = taken[i]
      /\ \A i \in 1..n : all[Len(taken) + i] = list[i]
  BY <1>0, <1>1, <1>3
<1>5. \A k \in DOMAIN all : \/ k \in DOMAIN taken /\ all[k] = taken[k]
                            \/ k - Len(taken) \in 1..n /\ all[k] = list[k - Len(taken)]
  <2>1. \A k \in DOMAIN all : k \in DOMAIN taken \/ (k - Len(taken) \in 1..n /\ k = Len(taken) + (k - Len(taken)))
    BY <1>0, <1>4
  <2> QED
    BY <1>0, <1>4, <2>1
<1>6. Distinct(list) /\ Distinct(taken) /\ \A i \in DOMAIN list, j \in DOMAIN taken : list[i] # taken[j]
  BY DEF FramesOK
<1>7. Distinct(rest)
  <2>1. \A i \in DOMAIN rest : i \in Int /\ rest[i] = list[i + n] /\ i + n \in DOMAIN list
    BY <1>0, <1>2
  <2>2. \A i, j \in DOMAIN rest : rest[i] = rest[j] => i + n = j + n
    BY <1>6, <2>1 DEF Distinct
  <2> QED
    BY <2>1, <2>2 DEF Distinct
<1>8. Distinct(all)
  <2> SUFFICES ASSUME NEW i \in DOMAIN all, NEW j \in DOMAIN all, all[i] = all[j] PROVE i = j
    BY DEF Distinct
  <2>1. 1..n \subseteq DOMAIN list /\ i \in Int /\ j \in Int
    BY <1>0, <1>4
  <2>2. CASE i \in DOMAIN taken /\ j \in DOMAIN taken /\ all[i] = taken[i] /\ all[j] = taken[j]
    BY <1>6, <2>2 DEF Distinct
  <2>3. CASE /\ i - Len(taken) \in 1..n /\ all[i] = list[i - Len(taken)]
             /\ j - Len(taken) \in 1..n /\ all[j] = list[j - Len(taken)]
    <3>1. i - Len(taken) = j - Len(taken)
      BY <1>6, <2>1, <2>3 DEF Distinct
    <3> QED
      BY <1>0, <2>1, <3>1
  <2> QED
    BY <1>5, <1>6, <2>1, <2>2, <2>3
<1>9. \A i \in DOMAIN rest, j \in DOMAIN all : rest[i] # all[j]
  <2> SUFFICES ASSUME NEW i \in DOMAIN rest, NEW j \in DOMAIN all PROVE rest[i] # all[j]
    OBVIOUS
  <2>1. rest[i] = list[i + n] /\ i + n \in DOMAIN list /\ i + n > n
    BY <1>0, <1>2, SMTT(30)
  <2>2. CASE j \in DOMAIN taken /\ all[j] = taken[j]
    BY <1>6, <2>1, <2>2
  <2>3. CASE j - Len(taken) \in 1..n /\ all[j] = list[j - Len(taken)]
    <3>1. j - Len(taken) \in DOMAIN list /\ j - Len(taken) # i + n
      BY <1>0, <2>1, <2>3
    <3> QED
      BY <1>6, <2>1, <2>3, <3>1 DEF Distinct
  <2> QED
    BY <1>5, <2>2, <2>3
<1>10. Elements(all) = Elements(taken) \cup {list[i] : i \in 1..n}
  <2>1. \A x \in Elements(all) : x \in Elements(taken) \cup {list[i] : i \in 1..n}
    BY <1>5 DEF Elements
  <2>2. \A x \in Elements(taken) : x \in Elements(all)
    BY <1>0, <1>4 DEF Elements
  <2>3. \A i \in 1..n : Len(taken) + i \in DOMAIN all
    BY <1>0, <1>4
  <2>4. \A i \in 1..n : list[i] \in Elements(all)
    BY <1>4, <2>3 DEF Elements
  <2> QED
    BY <2>1, <2>2, <2>4
<1>11. Elements(rest) = {list[i] : i \in n + 1..Len(list)}
  <2>1. \A i \in n + 1..Len(list) : i - n \in 1..Len(list) - n /\ (i - n) + n = i
    BY <1>0
  <2>2. \A i \in 1..Len(list) - n : i + n \in n + 1..Len(list)
    BY <1>0
  <2>3. \A i \in n + 1..Len(list) : i - n \in DOMAIN rest /\ rest[i - n] = list[i]
    BY <1>2, <2>1
  <2>4. \A x \in {list[i] : i \in n + 1..Len(list)} : x \in Elements(rest)
    BY <2>3 DEF Elements
  <2>5. \A x \in Elements(rest) : x \in {list[i] : i \in n + 1..Len(list)}
    BY <1>2, <2>2 DEF Elements
  <2> QED
    BY <2>4, <2>5
<1>12. Elements(list) = {list[i] : i \in n + 1..Len(list)} \cup {list[i] : i \in 1..n}
  <2>1. \A i \in DOMAIN list : i \in n + 1..Len(list) \/ i \in 1..n
    BY <1>0
  <2>2. n + 1..Len(list) \subseteq DOMAIN list /\ 1..n \subseteq DOMAIN list
    BY <1>0
  <2> QED
    BY <2>1, <2>2 DEF Elements
<1>13. Elements(list) \cup Elements(taken) = 0..Numfp(maxsz) - 1
  BY DEF FramesOK, Elements
<1>14. Elements(rest) \cup Elements(all) = 0..Numfp(maxsz) - 1
  BY <1>10, <1>11, <1>12, <1>13
<1>15. FramesOK(maxsz, rest, all)
  BY <1>2, <1>4, <1>7, <1>8, <1>9, <1>14 DEF FramesOK, Elements
<1> QED
  BY <1>1, <1>10, <1>15

(* A frame goes back to the front of the list. *)
LEMMA PuttingKeeps ==
  ASSUME NEW maxsz, NEW list, NEW taken, FramesOK(maxsz, list, taken), NEW k \in DOMAIN taken
  PROVE  /\ FramesOK(maxsz, <<taken[k]>> \o list, RemoveAt(taken, k))
         /\ Elements(RemoveAt(taken, k)) = Elements(taken) \ {taken[k]}
<1>0. /\ list \in Seq(Nat) /\ taken \in Seq(Nat) /\ Len(list) \in Nat /\ Len(taken) \in Nat
      /\ DOMAIN list = 1..Len(list) /\ DOMAIN taken = 1..Len(taken)
      /\ \A i \in DOMAIN taken : taken[i] \in Nat
      /\ k \in 1..Len(taken)
  BY DEF FramesOK
<1>1. Distinct(list) /\ Distinct(taken) /\ \A i \in DOMAIN list, j \in DOMAIN taken : list[i] # taken[j]
  BY DEF FramesOK
<1>2. PICK all, rest : all = <<taken[k]>> \o list /\ rest = RemoveAt(taken, k)
  OBVIOUS
<1>3. /\ all \in Seq(Nat) /\ DOMAIN all = 1..Len(list) + 1
      /\ all[1] = taken[k]
      /\ \A i \in 2..Len(list) + 1 : all[i] = list[i - 1]
  BY <1>0, <1>2
<1>4. /\ rest \in Seq(Nat) /\ DOMAIN rest = 1..Len(taken) - 1
      /\ \A i \in 1..k - 1 : rest[i] = taken[i]
      /\ \A i \in k..Len(taken) - 1 : rest[i] = taken[i + 1]
  <2>1. PICK front, back : front = SubSeq(taken, 1, k - 1) /\ back = SubSeq(taken, k + 1, Len(taken))
    OBVIOUS
  <2>2. /\ front \in Seq(Nat) /\ Len(front) = k - 1
        /\ \A i \in 1..k - 1 : front[i] = taken[i]
    BY <1>0, <2>1, SMTT(30)
  <2>3. /\ back \in Seq(Nat) /\ Len(back) = Len(taken) - k
        /\ \A i \in 1..Len(taken) - k : back[i] = taken[i + k]
    <3>1. /\ back \in Seq(Nat)
          /\ Len(back) = IF k + 1 <= Len(taken) THEN Len(taken) - (k + 1) + 1 ELSE 0
          /\ \A i \in 1..Len(taken) - (k + 1) + 1 : back[i] = taken[k + 1 + i - 1]
      <4>1. \A i \in k + 1..Len(taken) : taken[i] \in Nat
        BY <1>0
      <4>2. k + 1 \in Int /\ Len(taken) \in Int
        BY <1>0
      <4> QED
        BY <2>1, <4>1, <4>2, SubSeqProperties, SMTT(30)
    <3>2. \A i \in 1..Len(taken) - k : i \in 1..Len(taken) - (k + 1) + 1 /\ k + 1 + i - 1 = i + k
      BY <1>0
    <3>3. Len(back) = Len(taken) - k
      <4>1. k \in Int /\ Len(taken) \in Int /\ k <= Len(taken)
        BY <1>0
      <4> QED
        BY <3>1, <4>1
    <3> QED
      BY <3>1, <3>2, <3>3
  <2>4. rest = front \o back
    BY <1>2, <2>1 DEF RemoveAt
  <2>5. /\ rest \in Seq(Nat) /\ Len(rest) = Len(taken) - 1
        /\ \A i \in 1..Len(taken) - 1 : rest[i] = IF i <= k - 1 THEN front[i] ELSE back[i - (k - 1)]
    <3>1. /\ rest \in Seq(Nat) /\ Len(rest) = Len(front) + Len(back)
          /\ \A i \in 1..Len(front) + Len(back) :
                rest[i] = IF i <= Len(front) THEN front[i] ELSE back[i - Len(front)]
      BY <2>2, <2>3, <2>4, ConcatProperties
    <3>2. Len(front) + Len(back) = Len(taken) - 1
      BY <1>0, <2>2, <2>3
    <3> QED
      BY <2>2, <3>1, <3>2
  <2>6. \A i \in k..Len(taken) - 1 : i - (k - 1) \in 1..Len(taken) - k /\ (i - (k - 1)) + k = i + 1
    BY <1>0
  <2>7. \A i \in k..Len(taken) - 1 : back[i - (k - 1)] = taken[i + 1]
    BY <2>3, <2>6
  <2>8. DOMAIN rest = 1..Len(taken) - 1
    BY <2>5
  <2>9. \A i \in 1..k - 1 : i \in 1..Len(taken) - 1 /\ i <= k - 1
    BY <1>0
  <2>10. \A i \in k..Len(taken) - 1 : i \in 1..Len(taken) - 1 /\ ~(i <= k - 1)
    BY <1>0
  <2>11. \A i \in 1..k - 1 : rest[i] = taken[i]
    BY <2>2, <2>5, <2>9
  <2>12. \A i \in k..Len(taken) - 1 : rest[i] = taken[i + 1]
    BY <2>5, <2>7, <2>10
  <2> QED
    BY <2>5, <2>8, <2>11, <2>12
<1>5. \A i \in DOMAIN all : \/ i = 1 /\ all[i] = taken[k]
                            \/ i - 1 \in DOMAIN list /\ all[i] = list[i - 1]
  BY <1>0, <1>3
<1>6. \A i \in DOMAIN rest : \/ i < k /\ i \in DOMAIN taken /\ rest[i] = taken[i]
                             \/ i >= k /\ i + 1 \in DOMAIN taken /\ rest[i] = taken[i + 1]
  <2>1. PICK m : m = Len(taken)
    OBVIOUS
  <2>2. DOMAIN rest = 1..m - 1 /\ DOMAIN taken = 1..m /\ k \in 1..m /\ m \in Nat
    BY <1>0, <1>4, <2>1
  <2>3. \A i \in 1..m - 1 : \/ i < k /\ i \in 1..k - 1 /\ i \in 1..m
                            \/ i >= k /\ i \in k..m - 1 /\ i + 1 \in 1..m
    BY <2>2
  <2>4. \A i \in DOMAIN rest : \/ i < k /\ i \in 1..k - 1 /\ i \in DOMAIN taken
                               \/ i >= k /\ i \in k..Len(taken) - 1 /\ i + 1 \in DOMAIN taken
    BY <2>1, <2>2, <2>3
  <2> QED
    BY <1>4, <2>4
<1>7. Distinct(all)
  <2> SUFFICES ASSUME NEW i \in DOMAIN all, NEW j \in DOMAIN all, all[i] = all[j] PROVE i = j
    BY DEF Distinct
  <2>1. i \in Int /\ j \in Int
    BY <1>3
  <2>2. CASE i = 1 \/ j = 1
    BY <1>1, <1>0, <1>5, <2>2
  <2>3. CASE i # 1 /\ j # 1
    <3>1. i - 1 = j - 1
      BY <1>1, <1>5, <2>3 DEF Distinct
    <3> QED
      BY <2>1, <3>1
  <2> QED
    BY <2>2, <2>3
<1>8. Distinct(rest) /\ \A i \in DOMAIN rest : rest[i] # taken[k]
  <2>1. ASSUME NEW i \in DOMAIN rest PROVE rest[i] # taken[k]
    <3>1. i \in Int
      BY <1>4
    <3>2. CASE i < k /\ i \in DOMAIN taken /\ rest[i] = taken[i]
      BY <1>0, <1>1, <3>1, <3>2 DEF Distinct
    <3>3. CASE i >= k /\ i + 1 \in DOMAIN taken /\ rest[i] = taken[i + 1]
      <4>1. i + 1 # k
        BY <1>0, <3>1, <3>3
      <4> QED
        BY <1>0, <1>1, <3>3, <4>1 DEF Distinct
    <3> QED
      BY <1>6, <3>2, <3>3
  <2>2. ASSUME NEW i \in DOMAIN rest, NEW j \in DOMAIN rest, rest[i] = rest[j] PROVE i = j
    <3>1. i \in Int /\ j \in Int
      BY <1>4
    <3>2. CASE i < k /\ i \in DOMAIN taken /\ rest[i] = taken[i]
      <4>1. CASE j < k /\ j \in DOMAIN taken /\ rest[j] = taken[j]
        BY <1>1, <2>2, <3>2, <4>1 DEF Distinct
      <4>2. CASE j >= k /\ j + 1 \in DOMAIN taken /\ rest[j] = taken[j + 1]
        <5>1. i = j + 1
          BY <1>1, <2>2, <3>2, <4>2 DEF Distinct
        <5> QED
          BY <1>0, <3>1, <3>2, <4>2, <5>1
      <4> QED
        BY <1>6, <4>1, <4>2
    <3>3. CASE i >= k /\ i + 1 \in DOMAIN taken /\ rest[i] = taken[i + 1]
      <4>1. CASE j < k /\ j \in DOMAIN taken /\ rest[j] = taken[j]
        <5>1. i + 1 = j
          BY <1>1, <2>2, <3>3, <4>1 DEF Distinct
        <5> QED
          BY <1>0, <3>1, <3>3, <4>1, <5>1
      <4>2. CASE j >= k /\ j + 1 \in DOMAIN taken /\ rest[j] = taken[j + 1]
        <5>1. i + 1 = j + 1
          BY <1>1, <2>2, <3>3, <4>2 DEF Distinct
        <5> QED
          BY <3>1, <5>1
      <4> QED
        BY <1>6, <4>1, <4>2
    <3> QED
      BY <1>6, <3>2, <3>3
  <2> QED
    BY <2>1, <2>2 DEF Distinct
<1>9. Elements(rest) = Elements(taken) \ {taken[k]}
  <2>1. \A x \in Elements(rest) : x \in Elements(taken)
    BY <1>6 DEF Elements
  <2>2. ASSUME NEW j \in DOMAIN taken, j # k PROVE taken[j] \in Elements(rest)
    <3>1. CASE j < k
      <4>0. j \in DOMAIN rest /\ j \in 1..k - 1
        BY <1>0, <1>4, <3>1
      <4>1. j \in DOMAIN rest /\ rest[j] = taken[j]
        BY <1>4, <4>0
      <4> QED
        BY <4>1 DEF Elements
    <3>2. CASE j > k
      <4>1. j - 1 \in DOMAIN rest /\ j - 1 \in k..Len(taken) - 1 /\ (j - 1) + 1 = j
        BY <1>0, <1>4, <3>2, SMTT(30)
      <4>2. rest[j - 1] = taken[j]
        BY <1>4, <4>1
      <4> QED
        BY <4>1, <4>2 DEF Elements
    <3> QED
      BY <1>0, <2>2, <3>1, <3>2
  <2>3. \A x \in Elements(rest) : x # taken[k]
    BY <1>8 DEF Elements
  <2>4. \A x \in Elements(taken) \ {taken[k]} : x \in Elements(rest)
    BY <2>2 DEF Elements
  <2> QED
    BY <2>1, <2>3, <2>4
<1>10. Elements(all) = {taken[k]} \cup Elements(list)
  <2>1. \A x \in Elements(all) : x \in {taken[k]} \cup Elements(list)
    BY <1>5 DEF Elements
  <2>2. 1 \in DOMAIN all /\ \A i \in DOMAIN list : i + 1 \in 2..Len(list) + 1 /\ (i + 1) - 1 = i
    BY <1>0, <1>3, SMTT(30)
  <2>3. \A i \in DOMAIN list : i + 1 \in DOMAIN all /\ all[i + 1] = list[i]
    BY <1>0, <1>3, <2>2
  <2>4. \A x \in Elements(list) : x \in Elements(all)
    BY <2>3 DEF Elements
  <2>5. taken[k] \in Elements(all)
    BY <1>3, <2>2 DEF Elements
  <2> QED
    BY <2>1, <2>4, <2>5
<1>11. \A i \in DOMAIN all, j \in DOMAIN rest : all[i] # rest[j]
  BY <1>1, <1>5, <1>6, <1>8
<1>12. Elements(all) \cup Elements(rest) = 0..Numfp(maxsz) - 1
  <2>1. Elements(list) \cup Elements(taken) = 0..Numfp(maxsz) - 1 /\ taken[k] \in Elements(taken)
    BY DEF FramesOK, Elements
  <2> QED
    BY <1>9, <1>10, <2>1
<1>13. FramesOK(maxsz, all, rest)
  BY <1>3, <1>4, <1>7, <1>8, <1>11, <1>12 DEF FramesOK, Elements
<1> QED
  BY <1>2, <1>9, <1>13

(* The frames a client holds, and those that are still in the list. *)
LEMMA HeldAndFree ==
  ASSUME StoreInv, NEW d \in Devices
  PROVE  /\ Held(d) = Elements(frm_lst[d])
         /\ Elements(mp[d].free_fp_list) = (0..Numfp(mp[d].maxsz) - 1) \ Held(d)
         /\ Held(d) \subseteq 0..Numfp(mp[d].maxsz) - 1
         /\ DOMAIN Pages[d] = 0..Numfp(mp[d].maxsz) - 1
<1>1. FramesOK(mp[d].maxsz, mp[d].free_fp_list, frm_lst[d])
  BY DEF StoreInv
<1>2. DOMAIN frm_lst[d] = 1..Len(frm_lst[d])
  BY <1>1 DEF FramesOK
<1>3. Held(d) = Elements(frm_lst[d])
  BY <1>2 DEF Held, Elements
<1>4. Elements(mp[d].free_fp_list) \cup Elements(frm_lst[d]) = 0..Numfp(mp[d].maxsz) - 1
  BY <1>1 DEF FramesOK, Elements
<1>5. \A x \in Elements(mp[d].free_fp_list) : x \notin Elements(frm_lst[d])
  BY <1>1 DEF FramesOK, Elements
<1>6. Pages[d] = PagesOf(mp[d])
  BY DEF Pages
<1> QED
  BY <1>3, <1>4, <1>5, <1>6, PagesShow

(* The store of pages counts as the devices do. *)
LEMMA SameCardinality == \A S : Store!Cardinality(S) = Cardinality(S)
BY Zenon DEF Store!Cardinality, Cardinality

(* Frames are taken: free ones, as many as were asked for or all there are. *)
LEMMA TakeStores ==
  ASSUME StoreInv, NEW d \in Devices, NEW n \in 0..Len(mp[d].free_fp_list), NEW asked \in Nat,
         n <= asked, n < asked => n = Len(mp[d].free_fp_list), TakeFrames(d, n, asked)
  PROVE  Store!Get /\ StoreInv'
<1>0. /\ DOMAIN mp = Devices /\ DOMAIN frm_lst = Devices /\ DeviceOK(mp[d])
      /\ FramesOK(mp[d].maxsz, mp[d].free_fp_list, frm_lst[d])
  BY DEF StoreInv
<1>1. PICK list, taken : list = mp[d].free_fp_list /\ taken = frm_lst[d]
  OBVIOUS
<1>2. PICK rest, all : rest = SubSeq(list, n + 1, Len(list)) /\ all = taken \o SubSeq(list, 1, n)
  OBVIOUS
<1>3. PICK r : r = [mp[d] EXCEPT !.free_fp_list = rest]
  OBVIOUS
<1>4. /\ mp' = [mp EXCEPT ![d] = r]
      /\ frm_lst' = [frm_lst EXCEPT ![d] = all]
      /\ last' = [call |-> "get", dev |-> d, asked |-> asked, missing |-> asked - n]
  BY <1>0, <1>1, <1>2, <1>3 DEF TakeFrames
<1>5. DOMAIN r = DOMAIN mp[d] /\ r.maxsz = mp[d].maxsz /\ r.storage = mp[d].storage
      /\ r.free_fp_list = rest
  BY <1>0, <1>3 DEF DeviceOK
<1>6. /\ DOMAIN mp' = Devices /\ DOMAIN frm_lst' = Devices
      /\ mp'[d] = r /\ frm_lst'[d] = all
      /\ \A e \in Devices : e # d => mp'[e] = mp[e] /\ frm_lst'[e] = frm_lst[e]
  BY <1>0, <1>4
<1>7. /\ FramesOK(mp[d].maxsz, rest, all)
      /\ Elements(all) = Elements(taken) \cup {list[i] : i \in 1..n}
  <2>1. FramesOK(mp[d].maxsz, list, taken) /\ n \in 0..Len(list)
    BY <1>0, <1>1
  <2>2. /\ FramesOK(mp[d].maxsz, SubSeq(list, n + 1, Len(list)), taken \o SubSeq(list, 1, n))
        /\ Elements(taken \o SubSeq(list, 1, n)) = Elements(taken) \cup {list[i] : i \in 1..n}
    BY <2>1, TakingKeeps
  <2> QED
    BY <1>2, <2>2
<1>8. StoreInv'
  <2>1. \A e \in Devices : DeviceOK(mp'[e])
    BY <1>5, <1>6 DEF StoreInv, DeviceOK
  <2>2. \A e \in Devices : FramesOK(mp'[e].maxsz, mp'[e].free_fp_list, frm_lst'[e])
    BY <1>5, <1>6, <1>7 DEF StoreInv
  <2> QED
    BY <1>6, <2>1, <2>2 DEF StoreInv
<1>9. Pages' = Pages
  <2>1. \A e \in Devices : mp'[e].maxsz = mp[e].maxsz /\ mp'[e].storage = mp[e].storage
    BY <1>5, <1>6
  <2> QED
    BY <2>1, SamePages
<1>10. PICK held, held2, got : /\ held = [e \in Devices |-> Held(e)]
                               /\ held2 = [e \in Devices |-> Held(e)]'
                               /\ got = {list[i] : i \in 1..n}
  OBVIOUS
<1>11. held[d] = Elements(taken) /\ held2[d] = held[d] \cup got
  <2>1. held[d] = Elements(taken)
    BY <1>1, <1>10, HeldAndFree
  <2>2. Len(all) \in Nat /\ DOMAIN all = 1..Len(all)
    BY <1>7 DEF FramesOK
  <2>3. held2[d] = Elements(all)
    BY <1>6, <1>10, <2>2 DEF Held, Elements
  <2> QED
    BY <1>7, <1>10, <2>1, <2>3
<1>12. \A e \in Devices : e # d => held2[e] = held[e]
  BY <1>6, <1>10 DEF Held
<1>13. list \in Seq(Nat) /\ Distinct(list) /\ Len(list) \in Nat /\ DOMAIN list = 1..Len(list)
  BY <1>0, <1>1 DEF FramesOK
<1>14. got \subseteq Elements(list) /\ (n = Len(list) => got = Elements(list))
  <2>1. 1..n \subseteq 1..Len(list)
    BY <1>1, <1>13
  <2> QED
    BY <1>10, <1>13, <2>1 DEF Elements
<1>15. Elements(list) = (DOMAIN Pages[d]) \ held[d]
  BY <1>1, <1>10, HeldAndFree
<1>16. held2[d] \ held[d] = got
  BY <1>11, <1>14, <1>15
<1>17. Cardinality(got) = n
  BY <1>1, <1>10, <1>13, FirstAreMany
<1>18. /\ last'.call = "get" /\ last'.dev = d
       /\ last'.asked - last'.missing = n
       /\ last'.missing > 0 => n = Len(list)
  <2>1. last'.call = "get" /\ last'.dev = d /\ last'.asked = asked /\ last'.missing = asked - n
    BY <1>4
  <2>2. n \in Nat /\ asked - (asked - n) = n /\ (asked - n > 0 => n < asked)
    BY <1>1, <1>13
  <2> QED
    BY <1>1, <2>1, <2>2
<1>19. held2 = [held EXCEPT ![d] = @ \cup got]
  <2>1. held = [e \in Devices |-> held[e]] /\ held2 = [e \in Devices |-> held2[e]]
    BY <1>10
  <2> QED
    BY <1>11, <1>12, <2>1
<1>20. Store!Get
  <2>1. PICK pg : pg = Pages
    OBVIOUS
  <2>2. Pages' = pg /\ got \subseteq (DOMAIN pg[d]) \ held[d] /\ (n = Len(list) => got = (DOMAIN pg[d]) \ held[d])
    BY <1>9, <1>14, <1>15, <2>1
  <2>3. Store!Free(d) = (DOMAIN pg[d]) \ held[d]
    BY <1>10, <2>1 DEF Pages, PagesOf, Store!Free, Store!Frames
  <2>4. /\ held2[d] \ held[d] \subseteq Store!Free(d)
        /\ Cardinality(held2[d] \ held[d]) = last'.asked - last'.missing
        /\ last'.missing > 0 => held2[d] \ held[d] = Store!Free(d)
        /\ held2 = [held EXCEPT ![d] = @ \cup (held2[d] \ held[d])]
    BY <1>16, <1>17, <1>18, <1>19, <2>2, <2>3
  <2> QED
    BY <1>10, <1>18, <2>1, <2>2, <2>4, SameCardinality DEF Pages, PagesOf, Store!Get
<1> QED
  BY <1>8, <1>20

(* A pointer that nobody set is followed: nothing changes. *)
LEMMA FollowStutters ==
  ASSUME StoreInv, NEW d, FollowEnd(d)
  PROVE  UNCHANGED Store!storeVars /\ StoreInv'
<1>1. mp' = mp /\ frm_lst' = frm_lst /\ last' = last
  BY DEF FollowEnd
<1>2. StoreInv'
  BY <1>1 DEF StoreInv
<1> QED
  BY <1>1, <1>2 DEF Store!storeVars, Held

(* One frame of a device. *)
LEMMA GetStores ==
  ASSUME StoreInv, NEW d \in Devices, MEMPHY_get_freefp(d)
  PROVE  (Store!Get \/ UNCHANGED Store!storeVars) /\ StoreInv'
<1>1. mp[d].free_fp_list \in Seq(Nat) /\ Len(mp[d].free_fp_list) \in Nat
  BY DEF StoreInv, FramesOK
<1>2. CASE mp[d].free_fp_list # << >>
  <2>1. 1 \in 0..Len(mp[d].free_fp_list) /\ TakeFrames(d, 1, 1)
    BY <1>1, <1>2, EmptySeq DEF MEMPHY_get_freefp
  <2> QED
    BY <2>1, TakeStores
<1>3. CASE mp[d].free_fp_list = << >>
  <2>1. FollowEnd(d) \/ TakeFrames(d, 0, 1)
    BY <1>3 DEF MEMPHY_get_freefp
  <2>2. 0 \in 0..Len(mp[d].free_fp_list) /\ Len(mp[d].free_fp_list) = 0
    BY <1>3
  <2> QED
    BY <2>1, <2>2, TakeStores, FollowStutters
<1> QED
  BY <1>2, <1>3

(* Several frames of the RAM. *)
LEMMA AllocStores ==
  ASSUME StoreInv, NEW req_pgnum \in Nat, alloc_pages_range(req_pgnum)
  PROVE  (Store!Get \/ UNCHANGED Store!storeVars) /\ StoreInv'
<1>1. Mram \in Devices /\ Len(mp[Mram].free_fp_list) \in Nat
  BY MemphyAssumption DEF StoreInv, FramesOK
<1>2. CASE req_pgnum <= Len(mp[Mram].free_fp_list)
  <2>1. req_pgnum \in 0..Len(mp[Mram].free_fp_list) /\ TakeFrames(Mram, req_pgnum, req_pgnum)
    BY <1>1, <1>2 DEF alloc_pages_range
  <2> QED
    BY <1>1, <2>1, TakeStores
<1>3. CASE ~(req_pgnum <= Len(mp[Mram].free_fp_list))
  <2>1. FollowEnd(Mram) \/ TakeFrames(Mram, Len(mp[Mram].free_fp_list), req_pgnum)
    BY <1>3 DEF alloc_pages_range
  <2>2. /\ Len(mp[Mram].free_fp_list) \in 0..Len(mp[Mram].free_fp_list)
        /\ Len(mp[Mram].free_fp_list) <= req_pgnum
    BY <1>1, <1>3
  <2> QED
    BY <1>1, <2>1, <2>2, TakeStores, FollowStutters
<1> QED
  BY <1>2, <1>3

(* The client gives back a frame that it holds. *)
LEMMA PutStores ==
  ASSUME StoreInv, NEW d \in Devices, NEW fpn \in Held(d), MEMPHY_put_freefp(d, fpn)
  PROVE  Store!Put /\ StoreInv'
<1>0. /\ DOMAIN mp = Devices /\ DOMAIN frm_lst = Devices /\ DeviceOK(mp[d])
      /\ FramesOK(mp[d].maxsz, mp[d].free_fp_list, frm_lst[d])
  BY DEF StoreInv
<1>1. PICK list, taken : list = mp[d].free_fp_list /\ taken = frm_lst[d]
  OBVIOUS
<1>2. PICK k : k = CHOOSE i \in DOMAIN taken : taken[i] = fpn
  OBVIOUS
<1>3. k \in DOMAIN taken /\ taken[k] = fpn
  <2>1. fpn \in Elements(taken)
    BY <1>1, HeldAndFree
  <2>2. \E i \in DOMAIN taken : taken[i] = fpn
    BY <2>1 DEF Elements
  <2> QED
    BY <1>2, <2>2, Zenon
<1>4. PICK all, rest : all = <<fpn>> \o list /\ rest = RemoveAt(taken, k)
  OBVIOUS
<1>5. PICK r : r = [mp[d] EXCEPT !.free_fp_list = all]
  OBVIOUS
<1>6. /\ mp' = [mp EXCEPT ![d] = r]
      /\ frm_lst' = [frm_lst EXCEPT ![d] = rest]
      /\ last'.call = "put" /\ last'.dev = d /\ last'.fpn = fpn
  BY <1>0, <1>1, <1>2, <1>4, <1>5 DEF MEMPHY_put_freefp
<1>7. DOMAIN r = DOMAIN mp[d] /\ r.maxsz = mp[d].maxsz /\ r.storage = mp[d].storage
      /\ r.free_fp_list = all
  BY <1>0, <1>5 DEF DeviceOK
<1>8. /\ DOMAIN mp' = Devices /\ DOMAIN frm_lst' = Devices
      /\ mp'[d] = r /\ frm_lst'[d] = rest
      /\ \A e \in Devices : e # d => mp'[e] = mp[e] /\ frm_lst'[e] = frm_lst[e]
  BY <1>0, <1>6
<1>9. FramesOK(mp[d].maxsz, all, rest) /\ Elements(rest) = Elements(taken) \ {fpn}
  BY <1>0, <1>1, <1>3, <1>4, PuttingKeeps
<1>10. StoreInv'
  <2>1. \A e \in Devices : DeviceOK(mp'[e])
    BY <1>7, <1>8 DEF StoreInv, DeviceOK
  <2>2. \A e \in Devices : FramesOK(mp'[e].maxsz, mp'[e].free_fp_list, frm_lst'[e])
    BY <1>7, <1>8, <1>9 DEF StoreInv
  <2> QED
    BY <1>8, <2>1, <2>2 DEF StoreInv
<1>11. Pages' = Pages
  <2>1. \A e \in Devices : mp'[e].maxsz = mp[e].maxsz /\ mp'[e].storage = mp[e].storage
    BY <1>7, <1>8
  <2> QED
    BY <2>1, SamePages
<1>12. PICK held, held2 : /\ held = [e \in Devices |-> Held(e)]
                          /\ held2 = [e \in Devices |-> Held(e)]'
  OBVIOUS
<1>13. held2[d] = held[d] \ {fpn} /\ fpn \in held[d]
  <2>1. held[d] = Elements(taken)
    BY <1>1, <1>12, HeldAndFree
  <2>2. DOMAIN rest = 1..Len(rest)
    BY <1>9 DEF FramesOK
  <2>3. held2[d] = Elements(rest)
    BY <1>8, <1>12, <2>2 DEF Held, Elements
  <2> QED
    BY <1>9, <1>12, <2>1, <2>3
<1>14. \A e \in Devices : e # d => held2[e] = held[e]
  BY <1>8, <1>12 DEF Held
<1>15. held2 = [held EXCEPT ![d] = @ \ {fpn}]
  <2>1. held = [e \in Devices |-> held[e]] /\ held2 = [e \in Devices |-> held2[e]]
    BY <1>12
  <2> QED
    BY <1>13, <1>14, <2>1
<1>16. Store!Put
  BY <1>6, <1>11, <1>12, <1>13, <1>15 DEF Pages, PagesOf, Store!Put
<1> QED
  BY <1>10, <1>16

-----------------------------------------------------------------------------
(* A device comes into being.                                              *)

(* A device of no bytes has no frames. *)
LEMMA NoFrames == Numfp(0) = 0
<1>1. 0 \in 0..PAGING_PAGESZ - 1 /\ FrameStart(0) + 0 = 0
  BY MemphyAssumption, SMT DEF FrameStart
<1> QED
  BY <1>1, AddressOfFrame DEF Numfp

(* The number of frames of a device is a number, also where its size is not
   one that makes sense. *)
LEMMA FramesNumber ==
  ASSUME NEW maxsz \in Int
  PROVE  /\ Numfp(maxsz) \in Int
         /\ IsFiniteSet(0..Numfp(maxsz) - 1)
         /\ 0..Cardinality(0..Numfp(maxsz) - 1) - 1 = 0..Numfp(maxsz) - 1
<1>1. Numfp(maxsz) \in Int
  BY MemphyAssumption, SMT DEF Numfp
<1>2. PICK n : n = Numfp(maxsz) - 1
  OBVIOUS
<1>3. n \in Int /\ 0 \in Int
  BY <1>1, <1>2
<1>4. IsFiniteSet(0..n) /\ Cardinality(0..n) = IF 0 > n THEN 0 ELSE n - 0 + 1
  BY <1>3, FS_Interval
<1> QED
  BY <1>1, <1>2, <1>3, <1>4

(* A device is formatted: the whole of it is in the list. *)
LEMMA FormatFrames ==
  ASSUME NEW maxsz \in Int
  PROVE  FramesOK(maxsz, MEMPHY_format(maxsz).free_fp_list, << >>)
<1>1. Numfp(maxsz) \in Int
  BY FramesNumber
<1>2. PICK m, n, list : /\ m = Numfp(maxsz)
                        /\ n = IF m < 0 THEN 0 ELSE m
                        /\ list = [i \in 1..m |-> i - 1]
  OBVIOUS
<1>3. m \in Int /\ n \in Nat /\ 1..m = 1..n /\ list = [i \in 1..n |-> i - 1]
  BY <1>1, <1>2
<1>4. list \in Seq(Nat) /\ DOMAIN list = 1..n /\ \A i \in 1..n : list[i] = i - 1
  <2>1. \A i \in 1..n : i - 1 \in Nat
    OBVIOUS
  <2> QED
    BY <1>3, <2>1
<1>5. {list[i] : i \in DOMAIN list} = 0..m - 1
  <2>1. \A i \in 1..n : i - 1 \in 0..m - 1
    BY <1>2, <1>3
  <2>2. \A f \in 0..m - 1 : f + 1 \in 1..n /\ (f + 1) - 1 = f
    BY <1>2, <1>3
  <2>3. \A f \in 0..m - 1 : f = list[f + 1] /\ f + 1 \in DOMAIN list
    BY <1>4, <2>2
  <2> QED
    BY <1>4, <2>1, <2>3
<1>6. Distinct(list)
  BY <1>4 DEF Distinct
<1>7. << >> \in Seq(Nat) /\ DOMAIN << >> = {}
  OBVIOUS
<1>8. FramesOK(maxsz, list, << >>)
  BY <1>2, <1>4, <1>5, <1>6, <1>7 DEF FramesOK, Distinct
<1> QED
  BY <1>2, <1>8 DEF MEMPHY_format

(* init_memphy() on a device that was not there. *)
LEMMA CreateStores ==
  ASSUME StoreInv, NEW d \in Devices, mp[d] = Unused, frm_lst[d] = << >>,
         NEW size \in Int, NEW flg, init_memphy(d, size, flg)
  PROVE  /\ Store!Create /\ StoreInv'
         /\ frm_lst' = frm_lst /\ DOMAIN mp' = Devices
         /\ \A e \in Devices : e # d => mp'[e] = mp[e]
<1>0. DOMAIN mp = Devices /\ DOMAIN frm_lst = Devices
  BY DEF StoreInv
<1> DEFINE New(b) == [maxsz |-> size, rdmflg |-> flg, storage |-> [a \in 0..size - 1 |-> b], cursor |-> 0,
                      free_fp_list |-> MEMPHY_format(size).free_fp_list,
                      list_end |-> MEMPHY_format(size).list_end]
<1>a. PICK b \in Bytes : mp' = [mp EXCEPT ![d] = New(b)]
  BY DEF init_memphy
<1>1. PICK r : mp' = [mp EXCEPT ![d] = r] /\ r = New(b)
  BY <1>a
<1>2. frm_lst' = frm_lst /\ last'.call = "init" /\ last'.dev = d
  BY DEF init_memphy
<1>3. /\ DOMAIN mp' = Devices /\ mp'[d] = r
      /\ \A e \in Devices : e # d => mp'[e] = mp[e]
  BY <1>0, <1>1
<1>4. /\ r.maxsz = size /\ r.storage = [a \in 0..size - 1 |-> b]
      /\ r.free_fp_list = MEMPHY_format(size).free_fp_list
      /\ DeviceOK(r)
  BY <1>1 DEF DeviceOK
<1>5. StoreInv'
  <2>1. \A e \in Devices : DeviceOK(mp'[e])
    BY <1>3, <1>4 DEF StoreInv
  <2>2. FramesOK(mp'[d].maxsz, mp'[d].free_fp_list, frm_lst'[d])
    BY <1>2, <1>3, <1>4, FormatFrames
  <2>3. \A e \in Devices : FramesOK(mp'[e].maxsz, mp'[e].free_fp_list, frm_lst'[e])
    BY <1>2, <1>3, <2>2 DEF StoreInv
  <2> QED
    BY <1>0, <1>2, <1>3, <2>1, <2>3 DEF StoreInv
<1>6. PICK pg, pg2 : pg = Pages /\ pg2 = Pages'
  OBVIOUS
<1>7. pg[d] = PagesOf(mp[d]) /\ pg2[d] = PagesOf(r) /\ \A e \in Devices : e # d => pg2[e] = pg[e]
  BY <1>3, <1>6 DEF Pages
<1>8. DOMAIN pg[d] = {}
  <2>1. mp[d].maxsz = 0
    BY DEF Unused
  <2> QED
    BY <1>7, <2>1, NoFrames, PagesShow
<1>9. PICK m : m = Numfp(size)
  OBVIOUS
<1>10. ASSUME NEW f \in 0..m - 1, NEW o \in 0..PAGING_PAGESZ - 1
       PROVE  PagesOf(r)[f][o] = b
  <2>1. FrameStart(f) + o \in 0..size - 1
    BY <1>9, AddressOfFrame, FramesInside, SMTT(30)
  <2>2. PagesOf(r)[f][o] = r.storage[FrameStart(f) + o]
    BY <1>4, <1>9, PagesShow
  <2> QED
    BY <1>4, <2>1, <2>2
<1>11. PagesOf(r) \in [0..m - 1 -> [0..PAGING_PAGESZ - 1 -> Bytes]]
  <2>1. PagesOf(r) = [f \in 0..m - 1 |-> [o \in 0..PAGING_PAGESZ - 1 |-> PagesOf(r)[f][o]]]
    BY <1>4, <1>9, PagesShow
  <2>2. \A f \in 0..m - 1 : [o \in 0..PAGING_PAGESZ - 1 |-> PagesOf(r)[f][o]] \in [0..PAGING_PAGESZ - 1 -> Bytes]
    BY <1>10
  <2> QED
    BY <2>1, <2>2
<1>12. LET n == Store!Cardinality(DOMAIN pg2[d])
       IN  pg2[d] \in [0..n - 1 -> [0..PAGING_PAGESZ - 1 -> Bytes]]
  <2>1. DOMAIN pg2[d] = 0..m - 1
    BY <1>7, <1>11
  <2> QED
    BY <1>7, <1>9, <1>11, <2>1, FramesNumber, SameCardinality
<1>13. [e \in Devices |-> Held(e)]' = [e \in Devices |-> Held(e)]
  BY <1>2 DEF Held
<1>14. Store!Create
  BY <1>2, <1>6, <1>7, <1>8, <1>12, <1>13
  DEF Pages, PagesOf, Store!Create, Store!Frames, Store!Page, Store!Offsets
<1> QED
  BY <1>2, <1>3, <1>5, <1>14

-----------------------------------------------------------------------------
(* The program that comes up.                                              *)

(* The client uses the devices as the store of pages is used. *)
LEMMA ClientStores ==
  ASSUME StoreInv, MemphyNext
  PROVE  (Store!Next \/ UNCHANGED Store!storeVars) /\ StoreInv'
<1>1. ASSUME NEW n \in 1..MaxFrames + 1, alloc_pages_range(n)
      PROVE  (Store!Get \/ UNCHANGED Store!storeVars) /\ StoreInv'
  <2>1. n \in Nat
    BY MemphyAssumption
  <2> QED
    BY <1>1, <2>1, AllocStores
<1>2. ASSUME NEW d \in Devices, NEW addr \in -1..mp[d].maxsz, MEMPHY_read(d, addr)
      PROVE  Store!Read /\ StoreInv'
  BY <1>2, ReadStores
<1>3. ASSUME NEW d \in Devices, NEW addr \in -1..mp[d].maxsz, NEW data \in Bytes,
             MEMPHY_write(d, addr, data)
      PROVE  Store!Write /\ StoreInv'
  BY <1>3, WriteStores
<1>4. ASSUME NEW d \in Devices, MEMPHY_get_freefp(d)
      PROVE  (Store!Get \/ UNCHANGED Store!storeVars) /\ StoreInv'
  BY <1>4, GetStores
<1>5. ASSUME NEW d \in Devices, NEW f \in Held(d), MEMPHY_put_freefp(d, f)
      PROVE  Store!Put /\ StoreInv'
  BY <1>5, PutStores
<1>6. ASSUME NEW d \in Devices, NEW e \in Devices, NEW f \in Held(d), NEW g \in Held(e),
             __swap_cp_page(d, f, e, g)
      PROVE  Store!Copy /\ StoreInv'
  BY <1>6, CopyStores
<1> QED
  BY <1>1, <1>2, <1>3, <1>4, <1>5, <1>6 DEF MemphyNext, Store!Next

(* The sizes are numbers, those that were not read too. *)
LEMMA SizesRead ==
  ASSUME ControlInv, ReadMemorySizes
  PROVE  DOMAIN memsz' = 1..PAGING_MAX_MMSWP + 1 /\ \A i \in DOMAIN memsz' : memsz'[i] \in Int
<1>1. CASE MM_FIXED_MEMSZ
  <2>1. memsz' = FixedSizes
    BY <1>1 DEF ReadMemorySizes
  <2>2. DOMAIN FixedSizes = 1..PAGING_MAX_MMSWP + 1 /\ \A i \in DOMAIN FixedSizes : FixedSizes[i] \in Nat
    BY BootAssumption
  <2> QED
    BY <2>1, <2>2
<1>2. CASE ~MM_FIXED_MEMSZ
  <2> DEFINE L == PAGING_MAX_MMSWP + 1
  <2>1. memsz' = [i \in DOMAIN memsz |-> Scanned(file, SizeConversions, i, memsz[i])]
    BY <1>2 DEF ReadMemorySizes
  <2>2. file \in Seq(Words)
    BY DEF ControlInv, ReadMemorySizes, Goto
  <2>3. /\ L \in Nat /\ DOMAIN SizeConversions = 1..L /\ Len(SizeConversions) = L
        /\ \A i \in 1..L : SizeConversions[i] = "u"
    BY BootAssumption DEF SizeConversions, Times
  <2> HIDE DEF L
  <2>4. /\ Assigned(file, SizeConversions) \in 0..L
        /\ Assigned(file, SizeConversions) <= Len(file)
        /\ \A i \in 1..Assigned(file, SizeConversions) : Matches(SizeConversions[i], file[i])
    BY <2>2, <2>3, AssignedFits
  <2>5. DOMAIN memsz = 1..L /\ \A i \in DOMAIN memsz : memsz[i] \in Int
    BY DEF ControlInv, L
  <2>6. ASSUME NEW i \in 1..L, i <= Assigned(file, SizeConversions)
        PROVE  file[i].num \in Int
    <3>1. i \in 1..Assigned(file, SizeConversions) /\ i \in 1..Len(file)
      BY <2>2, <2>3, <2>4, <2>6
    <3>2. "num" \in DOMAIN file[i]
      BY <2>3, <2>4, <3>1 DEF Matches
    <3>3. file[i] \in Words
      BY <2>2, <3>1
    <3> QED
      BY <3>2, <3>3 DEF Words
  <2>7. ASSUME NEW i \in 1..L PROVE Scanned(file, SizeConversions, i, memsz[i]) \in Int
    BY <2>3, <2>4, <2>5, <2>6, <2>7 DEF Scanned
  <2> QED
    BY <2>1, <2>5, <2>7 DEF L
<1> QED
  BY <1>1, <1>2

(* What is left of a file after a call is words, too. *)
LEMMA RestIsWords ==
  ASSUME NEW words \in Seq(Words), NEW L \in Nat, NEW call, DOMAIN call = 1..L, Len(call) = L
  PROVE  Rest(words, call) \in Seq(Words)
<1>1. Assigned(words, call) \in 0..L
  BY AssignedFits
<1>2. PICK n : n = Assigned(words, call)
  OBVIOUS
<1>3. \A i \in n + 1..Len(words) : words[i] \in Words
  BY <1>1, <1>2
<1>4. n + 1 \in Int /\ Len(words) \in Int
  BY <1>1, <1>2
<1> QED
  BY <1>2, <1>3, <1>4, SubSeqProperties DEF Rest

(* Every step of main() and of the loader. *)
LEMMA BootStep ==
  ASSUME StoreInv, ControlInv, [Next]_vars
  PROVE  (Store!Next \/ UNCHANGED Store!storeVars) /\ StoreInv' /\ ControlInv'
<1>1. ASSUME UNCHANGED memphyVars
      PROVE  UNCHANGED Store!storeVars /\ StoreInv'
  <2>1. mp' = mp /\ frm_lst' = frm_lst /\ last' = last
    BY <1>1 DEF memphyVars
  <2> QED
    BY <2>1 DEF StoreInv, Store!storeVars, Held
<1>2. CASE ReadHeader
  <2>1. UNCHANGED memphyVars /\ UNCHANGED <<disk, memsz, sit>>
    BY <1>2 DEF ReadHeader
  <2>2. phase = "main" /\ phase' = "memory" /\ disk # NoFile /\ file' = Rest(disk, Times(3, "u"))
    BY <1>2 DEF ReadHeader, Goto
  <2>3. disk \in Seq(Words)
    BY <2>2 DEF ControlInv
  <2>4. DOMAIN Times(3, "u") = 1..3 /\ Len(Times(3, "u")) = 3
    BY DEF Times
  <2>5. file' \in Seq(Words)
    BY <2>2, <2>3, <2>4, RestIsWords
  <2> QED
    BY <1>1, <2>1, <2>2, <2>5 DEF ControlInv, memphyVars
<1>3. CASE ReadMemorySizes
  <2>1. UNCHANGED memphyVars /\ UNCHANGED <<disk, sit>> /\ phase = "memory" /\ phase' = "processes"
    BY <1>3 DEF ReadMemorySizes, Goto
  <2> QED
    BY <1>1, <1>3, <2>1, SizesRead DEF ControlInv, memphyVars
<1>4. CASE NoConfig \/ ConfigDone \/ StartThreads \/ NoProgram \/ OpenProgram \/ UnknownOpcode
           \/ ProgramLoaded \/ AllLoaded
  <2>1. /\ UNCHANGED memphyVars /\ UNCHANGED <<disk, memsz, sit>>
        /\ phase' # "memory"
        /\ \/ phase = "processes" /\ phase' = "devices"
           \/ phase' \notin {"main", "memory", "processes", "devices"}
    BY <1>4 DEF NoConfig, ConfigDone, StartThreads, NoProgram, OpenProgram, UnknownOpcode,
                ProgramLoaded, AllLoaded, Goto, configVars
  <2> QED
    BY <1>1, <2>1 DEF ControlInv, memphyVars
<1>5. CASE ReadProcess \/ ReadInstruction
  <2>1. /\ UNCHANGED memphyVars /\ UNCHANGED <<disk, memsz, sit, phase>>
        /\ phase # "memory"
    BY <1>5 DEF ReadProcess, ReadInstruction, configVars
  <2> QED
    BY <1>1, <2>1 DEF ControlInv, memphyVars
<1>6. CASE CreateDevice
  <2>1. /\ phase = "devices" /\ sit \in Devices /\ init_memphy(sit, memsz[sit + 1], TRUE)
        /\ sit' = sit + 1 /\ UNCHANGED <<disk, memsz, phase>>
    BY <1>6 DEF CreateDevice, configVars
  <2>2. sit \in Nat /\ sit >= sit /\ sit + 1 \in DOMAIN memsz
    BY <2>1, BootAssumption DEF ControlInv
  <2>3. memsz[sit + 1] \in Int /\ mp[sit] = Unused /\ frm_lst[sit] = << >>
    BY <2>1, <2>2 DEF ControlInv
  <2>4. /\ Store!Create /\ StoreInv'
        /\ frm_lst' = frm_lst /\ \A e \in Devices : e # sit => mp'[e] = mp[e]
    BY <2>1, <2>3, CreateStores
  <2>5. \A e \in Devices : e >= sit' => e # sit /\ e >= sit
    BY <2>1, <2>2, BootAssumption
  <2>6. ControlInv'
    BY <2>1, <2>2, <2>4, <2>5 DEF ControlInv
  <2> QED
    BY <2>4, <2>6 DEF Store!Next
<1>7. CASE TestProgram
  <2>1. /\ phase = "main" /\ phase' = "test" /\ init_memphy(Mram, TestSize, FALSE)
        /\ UNCHANGED <<disk, memsz, sit>>
    BY <1>7 DEF TestProgram, Goto, configVars
  <2>2. Mram \in Devices /\ Mram >= sit /\ TestSize \in Int
    BY <2>1, BootAssumption DEF ControlInv
  <2>3. mp[Mram] = Unused /\ frm_lst[Mram] = << >>
    BY <2>1, <2>2 DEF ControlInv
  <2>4. Store!Create /\ StoreInv'
    BY <2>1, <2>2, <2>3, CreateStores
  <2>5. ControlInv'
    BY <2>1 DEF ControlInv
  <2> QED
    BY <2>4, <2>5 DEF Store!Next
<1>8. CASE UseDevices
  <2>1. MemphyNext /\ UNCHANGED <<disk, memsz, sit, phase>> /\ phase \in {"run", "test"}
    BY <1>8 DEF UseDevices, configVars
  <2>2. ControlInv'
    BY <2>1 DEF ControlInv
  <2> QED
    BY <2>1, <2>2, ClientStores
<1>9. CASE UNCHANGED vars
  <2>1. UNCHANGED memphyVars /\ UNCHANGED <<disk, memsz, sit, phase, file>>
    BY <1>9 DEF vars, configVars
  <2> QED
    BY <1>1, <2>1 DEF ControlInv, memphyVars
<1> QED
  BY <1>2, <1>3, <1>4, <1>5, <1>6, <1>7, <1>8, <1>9 DEF Next, Terminated

(* Before main() no device is there. *)
LEMMA InitStore == Init => StoreInv /\ ControlInv /\ Store!Init
<1> SUFFICES ASSUME Init PROVE StoreInv /\ ControlInv /\ Store!Init
  OBVIOUS
<1>1. /\ mp = [d \in Devices |-> Unused] /\ frm_lst = [d \in Devices |-> << >>]
      /\ last.call = "none"
  BY DEF Init, MemphyInit
<1>2. FramesOK(0, << >>, << >>)
  <2>1. << >> \in Seq(Nat) /\ DOMAIN << >> = {}
    OBVIOUS
  <2> QED
    BY <2>1, NoFrames DEF FramesOK, Distinct
<1>3. DeviceOK(Unused) /\ Unused.maxsz = 0 /\ Unused.free_fp_list = << >>
  BY DEF Unused, DeviceOK
<1>4. StoreInv
  BY <1>1, <1>2, <1>3 DEF StoreInv
<1>5. ControlInv
  <2>1. /\ sit = 0 /\ phase = "main" /\ memsz = [d \in 1..PAGING_MAX_MMSWP + 1 |-> 0]
        /\ disk \in Disks
    BY DEF Init
  <2> QED
    BY <1>1, <2>1, BootAssumption DEF ControlInv
<1>6. Store!Init
  <2>1. \A d \in Devices : Held(d) = {} /\ DOMAIN Pages[d] = {}
    <3> TAKE d \in Devices
    <3>1. mp[d].maxsz = 0 /\ frm_lst[d] = << >>
      BY <1>1, <1>3
    <3>2. Held(d) = {}
      BY <3>1 DEF Held
    <3> QED
      BY <1>4, <3>1, <3>2, NoFrames, HeldAndFree
  <2> QED
    BY <1>1, <2>1 DEF Pages, PagesOf, Store!Init, Store!Frames
<1> QED
  BY <1>4, <1>5, <1>6

(* Every device hands out frames that nobody holds, a byte that is written is
   what is read at its address and changes no other byte of any frame, a page
   is copied whole, and what lies beyond the frames changes no page: for
   devices of any number and size, random or sequential, and whatever the
   configuration file says, the code of mm-memphy.c implements FrameStore. *)
THEOREM DevicesImplementStore == Spec => ImplementsStore
<1>1. Init => StoreInv /\ ControlInv /\ Store!Init
  BY InitStore
<1>2. StoreInv /\ ControlInv /\ [Next]_vars
        => [Store!Next]_(Store!storeVars) /\ StoreInv' /\ ControlInv'
  BY BootStep
<1> QED
  BY <1>1, <1>2, PTL DEF Spec, ImplementsStore, Store!Spec

-----------------------------------------------------------------------------
(* The configuration.                                                      *)

(* A call whose conversions all match reads the first words of the file. *)
LEMMA CallReads ==
  ASSUME NEW words \in Seq(Words), NEW call \in Seq({"u", "s"}), Len(call) <= Len(words),
         \A i \in 1..Len(call) : Matches(call[i], words[i])
  PROVE  /\ \A i \in 1..Len(call) : \A old : Scanned(words, call, i, old) =
                                    IF call[i] = "u" THEN words[i].num ELSE words[i]
         /\ Rest(words, call) \in Seq(Words)
         /\ Len(Rest(words, call)) = Len(words) - Len(call)
         /\ \A i \in 1..Len(words) - Len(call) : Rest(words, call)[i] = words[Len(call) + i]
<1>0. PICK L : L = Len(call)
  OBVIOUS
<1>1. L \in Nat /\ L <= Len(words) /\ Assigned(words, call) = L
  BY <1>0, AssignedFits
<1>2. Rest(words, call) = SubSeq(words, L + 1, Len(words))
  BY <1>1 DEF Rest
<1>3. L + 1 \in Int /\ Len(words) \in Int /\ \A i \in L + 1..Len(words) : words[i] \in Words
  BY <1>1
<1>4. /\ Rest(words, call) \in Seq(Words)
      /\ Len(Rest(words, call)) = IF L + 1 <= Len(words) THEN Len(words) - (L + 1) + 1 ELSE 0
      /\ \A i \in 1..Len(words) - (L + 1) + 1 : Rest(words, call)[i] = words[L + 1 + i - 1]
  BY <1>2, <1>3, SubSeqProperties
<1>5. Len(words) - (L + 1) + 1 = Len(words) - L /\ \A i \in 1..Len(words) - L : L + 1 + i - 1 = L + i
  BY <1>1, <1>3
<1>6. Len(Rest(words, call)) = Len(words) - L
  <2>1. PICK m, n : m = Len(words) /\ n = Len(Rest(words, call))
    OBVIOUS
  <2>2. m \in Int /\ L \in Int /\ L <= m /\ n = IF L + 1 <= m THEN m - (L + 1) + 1 ELSE 0
    BY <1>1, <1>3, <1>4, <2>1
  <2>3. n = m - L
    BY <2>2
  <2> QED
    BY <2>1, <2>3
<1>7. \A i \in 1..L : \A old : Scanned(words, call, i, old) = IF call[i] = "u" THEN words[i].num ELSE words[i]
  BY <1>1 DEF Scanned
<1> QED
  BY <1>0, <1>4, <1>5, <1>6, <1>7

Loaded == [start_time : Int, path : [word : STRING], prio : Int]
Expected(c) == [i \in 1..Len(c.processes) |-> [c.processes[i] EXCEPT !.path = Word(@)]]

(* The words of a configuration file. *)
LEMMA ConfigWords ==
  ASSUME NEW c \in Configurations
  PROVE  /\ HeaderWords(c) \in Seq(Words) /\ Len(HeaderWords(c)) = 3
         /\ SizeWords(c) \in Seq(Words)
         /\ Len(SizeWords(c)) = IF MM_FIXED_MEMSZ THEN 0 ELSE PAGING_MAX_MMSWP + 1
         /\ ProcessLines(c) \in Seq(Words) /\ Len(ProcessLines(c)) = 3 * Len(c.processes)
         /\ Len(c.processes) \in Nat
         /\ \A k \in 0..Len(c.processes) - 1 :
               LET p == c.processes[k + 1] IN
               /\ ProcessLines(c)[3 * k + 1] = Num(p.start_time)
               /\ ProcessLines(c)[3 * k + 2] = Word(p.path)
               /\ ProcessLines(c)[3 * k + 3] = Num(p.prio)
         /\ Expected(c) \in Seq(Loaded) /\ Len(Expected(c)) = Len(c.processes)
         /\ \A i \in 1..Len(c.processes) :
               LET p == c.processes[i] IN
               Expected(c)[i] = [start_time |-> p.start_time, path |-> Word(p.path), prio |-> p.prio]
<1>1. /\ c.header \in [1..3 -> Int]
      /\ c.sizes \in [1..PAGING_MAX_MMSWP + 1 -> Int]
      /\ c.processes \in Seq([start_time : Int, path : STRING, prio : Int])
  BY BootAssumption
<1>2. PICK ps, N : ps = c.processes /\ N = Len(ps)
  OBVIOUS
<1>3. /\ N \in Nat
      /\ \A i \in 1..N : ps[i] \in [start_time : Int, path : STRING, prio : Int]
  <2>1. \A S : \A s \in Seq(S) : Len(s) \in Nat /\ \A i \in 1..Len(s) : s[i] \in S
    OBVIOUS
  <2>2. ps \in Seq([start_time : Int, path : STRING, prio : Int])
    BY <1>1, <1>2
  <2> QED
    BY <1>2, <2>1, <2>2
<1>4. \A n \in Int : Num(n) \in Words
  BY DEF Num, Words
<1>5. \A w \in STRING : Word(w) \in Words /\ Word(w) \in [word : STRING]
  BY DEF Word, Words
<1>6. HeaderWords(c) \in Seq(Words) /\ Len(HeaderWords(c)) = 3
  <2>1. \A i \in 1..3 : Num(c.header[i]) \in Words
    BY <1>1, <1>4
  <2> QED
    BY <2>1 DEF HeaderWords
<1>7. /\ SizeWords(c) \in Seq(Words)
      /\ Len(SizeWords(c)) = IF MM_FIXED_MEMSZ THEN 0 ELSE PAGING_MAX_MMSWP + 1
  <2>1. \A i \in 1..PAGING_MAX_MMSWP + 1 : Num(c.sizes[i]) \in Words
    BY <1>1, <1>4
  <2>2. PAGING_MAX_MMSWP + 1 \in Nat
    BY BootAssumption
  <2> QED
    BY <2>1, <2>2 DEF SizeWords
<1>8. \A i \in 1..N : LET w == ProcessWords(ps[i]) IN
        /\ w[1] = Num(ps[i].start_time) /\ w[2] = Word(ps[i].path) /\ w[3] = Num(ps[i].prio)
        /\ w[1] \in Words /\ w[2] \in Words /\ w[3] \in Words
  BY <1>3, <1>4, <1>5 DEF ProcessWords
<1>9. \A k \in 0..N - 1 : /\ 3 * k + 1 \in 1..3 * N /\ 3 * k + 2 \in 1..3 * N /\ 3 * k + 3 \in 1..3 * N
                          /\ (3 * k + 1 - 1) \div 3 = k /\ (3 * k + 1 - 1) % 3 = 0
                          /\ (3 * k + 2 - 1) \div 3 = k /\ (3 * k + 2 - 1) % 3 = 1
                          /\ (3 * k + 3 - 1) \div 3 = k /\ (3 * k + 3 - 1) % 3 = 2
  BY <1>3
<1>10. \A j \in 1..3 * N : 1 + ((j - 1) \div 3) \in 1..N /\ (j - 1) % 3 \in {0, 1, 2}
  BY <1>3
<1>11. ProcessLines(c) = [j \in 1..3 * N |-> ProcessWords(ps[1 + ((j - 1) \div 3)])[1 + ((j - 1) % 3)]]
  BY <1>2 DEF ProcessLines
<1>12. ProcessLines(c) \in Seq(Words) /\ Len(ProcessLines(c)) = 3 * N
  <2>1. \A i \in 1..N : \A r \in {0, 1, 2} : ProcessWords(ps[i])[1 + r] \in Words
    BY <1>8
  <2>2. \A j \in 1..3 * N : ProcessWords(ps[1 + ((j - 1) \div 3)])[1 + ((j - 1) % 3)] \in Words
    BY <1>10, <2>1
  <2>3. PICK m, lines : m = 3 * N /\ lines = ProcessLines(c)
    OBVIOUS
  <2>4. m \in Nat /\ DOMAIN lines = 1..m /\ \A j \in 1..m : lines[j] \in Words
    BY <1>3, <1>11, <2>2, <2>3
  <2>5. lines = [j \in 1..m |-> lines[j]]
    BY <1>11, <2>3
  <2>6. lines \in Seq(Words) /\ Len(lines) = m
    <3>1. \A S, f : \A n \in Nat : f = [j \in 1..n |-> f[j]] /\ (\A j \in 1..n : f[j] \in S)
                                     => f \in Seq(S) /\ Len(f) = n
      OBVIOUS
    <3> QED
      BY <2>4, <2>5, <3>1, Zenon
  <2> QED
    BY <2>3, <2>6
<1>13. ASSUME NEW k \in 0..N - 1
       PROVE  /\ ProcessLines(c)[3 * k + 1] = Num(ps[k + 1].start_time)
              /\ ProcessLines(c)[3 * k + 2] = Word(ps[k + 1].path)
              /\ ProcessLines(c)[3 * k + 3] = Num(ps[k + 1].prio)
  <2>1. k + 1 \in 1..N /\ 1 + k = k + 1
    BY <1>3
  <2>2. /\ ProcessLines(c)[3 * k + 1] = ProcessWords(ps[1 + k])[1 + 0]
        /\ ProcessLines(c)[3 * k + 2] = ProcessWords(ps[1 + k])[1 + 1]
        /\ ProcessLines(c)[3 * k + 3] = ProcessWords(ps[1 + k])[1 + 2]
    BY <1>9, <1>11
  <2> QED
    BY <1>8, <2>1, <2>2
<1>14. \A i \in 1..N : /\ [ps[i] EXCEPT !.path = Word(@)] =
                            [start_time |-> ps[i].start_time, path |-> Word(ps[i].path), prio |-> ps[i].prio]
                       /\ [ps[i] EXCEPT !.path = Word(@)] \in Loaded
  BY <1>3, <1>5 DEF Loaded
<1>15. /\ Expected(c) \in Seq(Loaded) /\ Len(Expected(c)) = N
       /\ \A i \in 1..N : Expected(c)[i] =
             [start_time |-> ps[i].start_time, path |-> Word(ps[i].path), prio |-> ps[i].prio]
  <2>1. Expected(c) = [i \in 1..N |-> [ps[i] EXCEPT !.path = Word(@)]]
    BY <1>2 DEF Expected
  <2>2. \A S, f : \A m \in Nat : f = [i \in 1..m |-> f[i]] /\ (\A i \in 1..m : f[i] \in S)
                    => f \in Seq(S) /\ Len(f) = m
    OBVIOUS
  <2>3. \A i \in 1..N : Expected(c)[i] = [ps[i] EXCEPT !.path = Word(@)]
    BY <2>1
  <2>4. Expected(c) = [i \in 1..N |-> Expected(c)[i]]
    BY <2>1
  <2>5. \A i \in 1..N : Expected(c)[i] \in Loaded
    BY <1>14, <2>3
  <2>6. Expected(c) \in Seq(Loaded) /\ Len(Expected(c)) = N
    BY <1>3, <2>2, <2>4, <2>5
  <2> QED
    BY <1>14, <2>3, <2>6
<1> QED
  BY <1>2, <1>3, <1>6, <1>7, <1>12, <1>13, <1>15

(* What is left of the file are the sizes and the lines of all processes ... *)
SizesLeft(c) ==
  LET n == Len(SizeWords(c)) IN
  /\ file \in Seq(Words)
  /\ Len(file) = n + 3 * Len(c.processes)
  /\ \A i \in 1..n : file[i] = SizeWords(c)[i]
  /\ \A i \in 1..3 * Len(c.processes) : file[n + i] = ProcessLines(c)[i]

(* ... and then the lines of the processes that are still to come. *)
LinesLeft(c) ==
  LET k == Len(ld_processes) IN
  /\ file \in Seq(Words)
  /\ Len(file) = 3 * Len(c.processes) - 3 * k
  /\ \A i \in 1..3 * Len(c.processes) - 3 * k : file[i] = ProcessLines(c)[3 * k + i]

LoadedSoFar(c) ==
  /\ ld_processes \in Seq(Loaded)
  /\ Len(ld_processes) <= Len(c.processes)
  /\ \A i \in 1..Len(ld_processes) : ld_processes[i] = Expected(c)[i]

ConfigInv ==
  /\ phase \in {"main", "memory"} => ld_processes = << >>
  /\ \A c \in Configurations : disk = WrittenConfig(c) =>
        /\ phase = "memory" => config = c.header /\ SizesLeft(c)
        /\ phase = "processes" =>
              config = c.header /\ memsz = Sizes(c) /\ LoadedSoFar(c) /\ LinesLeft(c)
        /\ phase = "devices" =>
              /\ config = c.header /\ memsz = Sizes(c) /\ ld_processes = Expected(c)
              /\ \A d \in Devices : d < sit => mp[d].maxsz = Sizes(c)[d + 1]
        /\ Ready =>
              /\ config = c.header /\ ld_processes = Expected(c)
              /\ \A d \in Devices : mp[d].maxsz = Sizes(c)[d + 1]

(* Nothing resizes a device. *)
LEMMA SizesStay ==
  ASSUME StoreInv, MemphyNext
  PROVE  \A d \in Devices : mp'[d].maxsz = mp[d].maxsz
<1>0. DOMAIN mp = Devices /\ \A d \in Devices : DeviceOK(mp[d])
  BY DEF StoreInv
<1>1. ASSUME NEW d \in Devices, NEW r, r.maxsz = mp[d].maxsz,
             mp' = mp \/ mp' = [mp EXCEPT ![d] = r]
      PROVE  \A e \in Devices : mp'[e].maxsz = mp[e].maxsz
  BY <1>0, <1>1
<1>2. ASSUME NEW d \in Devices, NEW addr, MEMPHY_read(d, addr)
      PROVE  \A e \in Devices : mp'[e].maxsz = mp[e].maxsz
  <2>1. PICK r : r = [mp[d] EXCEPT !.cursor = Cursor(d, addr)]
    OBVIOUS
  <2>2. mp' = [mp EXCEPT ![d] = r]
    BY <1>2, <2>1 DEF MEMPHY_read
  <2> QED
    BY <1>0, <2>1, <2>2 DEF DeviceOK
<1>3. ASSUME NEW d \in Devices, NEW addr, NEW data, MEMPHY_write(d, addr, data)
      PROVE  \A e \in Devices : mp'[e].maxsz = mp[e].maxsz
  <2>1. PICK r : r = [mp[d] EXCEPT !.storage[addr] = data, !.cursor = Cursor(d, addr)]
    OBVIOUS
  <2>2. mp' = mp \/ mp' = [mp EXCEPT ![d] = r]
    BY <1>0, <1>3, <2>1 DEF MEMPHY_write, DeviceOK
  <2>3. r.maxsz = mp[d].maxsz
    BY <1>0, <2>1 DEF DeviceOK
  <2> QED
    BY <1>1, <2>2, <2>3
<1>4. ASSUME NEW d \in Devices, NEW n, NEW asked, FollowEnd(d) \/ TakeFrames(d, n, asked)
      PROVE  \A e \in Devices : mp'[e].maxsz = mp[e].maxsz
  <2>1. PICK r : r = [mp[d] EXCEPT !.free_fp_list =
                         SubSeq(mp[d].free_fp_list, n + 1, Len(mp[d].free_fp_list))]
    OBVIOUS
  <2>2. mp' = mp \/ mp' = [mp EXCEPT ![d] = r]
    BY <1>4, <2>1 DEF FollowEnd, TakeFrames
  <2> QED
    BY <1>0, <2>1, <2>2 DEF DeviceOK
<1>5. ASSUME NEW d \in Devices, NEW fpn, MEMPHY_put_freefp(d, fpn)
      PROVE  \A e \in Devices : mp'[e].maxsz = mp[e].maxsz
  <2>1. PICK r : r = [mp[d] EXCEPT !.free_fp_list = <<fpn>> \o @]
    OBVIOUS
  <2>2. mp' = [mp EXCEPT ![d] = r]
    BY <1>5, <1>0, <2>1 DEF MEMPHY_put_freefp
  <2> QED
    BY <1>0, <2>1, <2>2 DEF DeviceOK
<1>6. ASSUME NEW d \in Devices, NEW e \in Devices, NEW f, NEW g, __swap_cp_page(d, f, e, g)
      PROVE  \A x \in Devices : mp'[x].maxsz = mp[x].maxsz
  <2>1. PICK r, first : /\ r = [mp[d] EXCEPT !.cursor = Cursor(d, FrameStart(f) + PAGING_PAGESZ - 1)]
                        /\ first = [mp EXCEPT ![d] = r]
    OBVIOUS
  <2>2. PICK storage, q : q = [first[e] EXCEPT !.cursor = Cursor(e, FrameStart(g) + PAGING_PAGESZ - 1),
                                               !.storage = storage]
                          /\ mp' = [first EXCEPT ![e] = q]
    <3>1. PICK copied : copied = [a \in DOMAIN mp[e].storage |->
            IF a \div PAGING_PAGESZ = g
            THEN mp[d].storage[FrameStart(f) + (a % PAGING_PAGESZ)]
            ELSE mp[e].storage[a]]
      OBVIOUS
    <3>2. first = [mp EXCEPT ![d].cursor = Cursor(d, FrameStart(f) + PAGING_PAGESZ - 1)]
      BY <2>1
    <3>3. mp' = [first EXCEPT ![e].cursor = Cursor(e, FrameStart(g) + PAGING_PAGESZ - 1),
                              ![e].storage = copied]
      BY <1>6, <3>1, <3>2 DEF __swap_cp_page
    <3>4. DOMAIN first = Devices
      BY <1>0, <2>1
    <3> QED
      BY <3>3, <3>4
  <2>3. DOMAIN first = Devices /\ \A x \in Devices : first[x].maxsz = mp[x].maxsz
                                                    /\ DOMAIN first[x] = DOMAIN mp[x]
    BY <1>0, <2>1 DEF DeviceOK
  <2>4. q.maxsz = mp[e].maxsz
    BY <1>0, <2>2, <2>3 DEF DeviceOK
  <2> QED
    BY <2>2, <2>3, <2>4
<1>7. ASSUME NEW n, alloc_pages_range(n) PROVE \A e \in Devices : mp'[e].maxsz = mp[e].maxsz
  <2>1. Mram \in Devices
    BY MemphyAssumption
  <2> QED
    BY <1>4, <1>7, <2>1 DEF alloc_pages_range
<1>8. ASSUME NEW d \in Devices, MEMPHY_get_freefp(d) PROVE \A e \in Devices : mp'[e].maxsz = mp[e].maxsz
  BY <1>4, <1>8 DEF MEMPHY_get_freefp
<1> QED
  BY <1>2, <1>3, <1>5, <1>6, <1>7, <1>8 DEF MemphyNext

(* The words of two parts of a file. *)
LEMMA Joined ==
  ASSUME NEW s \in Seq(Words), NEW t \in Seq(Words)
  PROVE  /\ s \o t \in Seq(Words) /\ Len(s \o t) = Len(s) + Len(t)
         /\ \A i \in 1..Len(s) : (s \o t)[i] = s[i]
         /\ \A i \in 1..Len(t) : (s \o t)[Len(s) + i] = t[i]
<1>0. PICK n, m : n = Len(s) /\ m = Len(t)
  OBVIOUS
<1>1. PICK st : st = s \o t
  OBVIOUS
<1>2. /\ st \in Seq(Words) /\ Len(st) = Len(s) + Len(t)
      /\ \A i \in 1..Len(s) + Len(t) : st[i] = IF i <= Len(s) THEN s[i] ELSE t[i - Len(s)]
  BY <1>1, ConcatProperties
<1>3. /\ \A i \in 1..n : i \in 1..n + m /\ i <= n
      /\ \A i \in 1..m : n + i \in 1..n + m /\ ~(n + i <= n) /\ (n + i) - n = i
  <2>1. n \in Nat /\ m \in Nat
    BY <1>0
  <2> QED
    BY <2>1
<1> QED
  BY <1>0, <1>1, <1>2, <1>3

(* The header is read from the first line. *)
LEMMA HeaderRead ==
  ASSUME ControlInv, ConfigInv, ReadHeader, NEW c \in Configurations, disk = WrittenConfig(c)
  PROVE  config' = c.header /\ SizesLeft(c)'
<1>0. PICK h, call : h = 3 /\ call = Times(3, "u")
  OBVIOUS
<1>1. PICK head, sizes, lines : head = HeaderWords(c) /\ sizes = SizeWords(c) /\ lines = ProcessLines(c)
  OBVIOUS
<1>2. PICK n, m : n = Len(sizes) /\ m = 3 * Len(c.processes)
  OBVIOUS
<1>3. /\ h \in Nat
      /\ head \in Seq(Words) /\ Len(head) = h
      /\ sizes \in Seq(Words) /\ n \in Nat
      /\ lines \in Seq(Words) /\ Len(lines) = m /\ m \in Nat
  BY <1>0, <1>1, <1>2, ConfigWords
<1>4. PICK front : front = head \o sizes
  OBVIOUS
<1>5. /\ front \in Seq(Words) /\ Len(front) = h + n
      /\ \A i \in 1..h : front[i] = head[i]
      /\ \A i \in 1..n : front[h + i] = sizes[i]
  BY <1>2, <1>3, <1>4, Joined
<1>6. /\ disk \in Seq(Words) /\ Len(disk) = (h + n) + m
      /\ \A i \in 1..h + n : disk[i] = front[i]
      /\ \A i \in 1..m : disk[(h + n) + i] = lines[i]
  <2>1. disk = front \o lines
    BY <1>1, <1>4 DEF WrittenConfig
  <2>2. PICK l : l = h + n
    OBVIOUS
  <2>3. l \in Nat /\ Len(front) = l
    BY <1>3, <1>5, <2>2
  <2>4. /\ disk \in Seq(Words) /\ Len(disk) = Len(front) + Len(lines)
        /\ \A i \in 1..Len(front) : disk[i] = front[i]
        /\ \A i \in 1..Len(lines) : disk[Len(front) + i] = lines[i]
    <3>1. front \in Seq(Words) /\ lines \in Seq(Words)
      BY <1>3, <1>5
    <3> QED
      BY <2>1, <3>1, Joined
  <2> QED
    BY <1>3, <2>2, <2>3, <2>4
<1>7. \A i \in 1..h : disk[i] = Num(c.header[i])
  <2>1. \A i \in 1..h : head[i] = Num(c.header[i])
    BY <1>0, <1>1 DEF HeaderWords
  <2>2. \A i \in 1..h : i \in 1..h + n
    BY <1>3
  <2> QED
    BY <1>5, <1>6, <2>1, <2>2
<1>8. call \in Seq({"u", "s"}) /\ Len(call) = h /\ \A i \in 1..h : call[i] = "u"
  <2>1. call = <<"u", "u", "u">>
    BY <1>0 DEF Times
  <2>2. \A i \in 1..h : i = 1 \/ i = 2 \/ i = 3
    BY <1>0
  <2>3. call[1] = "u" /\ call[2] = "u" /\ call[3] = "u" /\ Len(call) = 3 /\ call \in Seq({"u", "s"})
    BY <2>1
  <2> QED
    BY <1>0, <2>2, <2>3
<1>9. \A i \in 1..h : Matches(call[i], disk[i])
  <2>1. \A x : "num" \in DOMAIN Num(x)
    BY DEF Num
  <2> QED
    BY <1>7, <2>1 DEF Matches
<1>10. h <= Len(disk) /\ Len(disk) - h = n + m
  BY <1>3, <1>6
<1>11. /\ \A i \in 1..h : \A old : Scanned(disk, call, i, old) = IF call[i] = "u" THEN disk[i].num ELSE disk[i]
       /\ Rest(disk, call) \in Seq(Words)
       /\ Len(Rest(disk, call)) = Len(disk) - h
       /\ \A i \in 1..Len(disk) - h : Rest(disk, call)[i] = disk[h + i]
  <2>1. Len(call) <= Len(disk) /\ \A i \in 1..Len(call) : Matches(call[i], disk[i])
    BY <1>8, <1>9, <1>10
  <2>2. /\ \A i \in 1..Len(call) : \A old :
              Scanned(disk, call, i, old) = IF call[i] = "u" THEN disk[i].num ELSE disk[i]
        /\ Rest(disk, call) \in Seq(Words)
        /\ Len(Rest(disk, call)) = Len(disk) - Len(call)
        /\ \A i \in 1..Len(disk) - Len(call) : Rest(disk, call)[i] = disk[Len(call) + i]
    BY <1>6, <1>8, <2>1, CallReads
  <2> QED
    BY <1>8, <2>2
<1>12. config' = c.header
  <2>0. \A x : Num(x).num = x
    BY DEF Num
  <2>1. \A i \in 1..h : disk[i].num = c.header[i]
    BY <1>7, <2>0
  <2>2. c.header = [i \in 1..h |-> c.header[i]]
    BY <1>0, BootAssumption
  <2>3. config' = [i \in 1..h |-> Scanned(disk, call, i, config[i])]
    BY <1>0 DEF ReadHeader
  <2>4. \A i \in 1..h : Scanned(disk, call, i, config[i]) = c.header[i]
    BY <1>8, <1>11, <2>1
  <2> QED
    BY <2>2, <2>3, <2>4
<1>13. SizesLeft(c)'
  <2>0. file' = Rest(disk, call)
    BY <1>0 DEF ReadHeader
  <2>1. file' \in Seq(Words) /\ Len(file') = n + m
    BY <1>10, <1>11, <2>0
  <2>2. \A i \in 1..n : file'[i] = sizes[i]
    <3>1. \A i \in 1..n : i \in 1..n + m /\ h + i \in 1..h + n
      BY <1>3
    <3> QED
      BY <1>5, <1>6, <1>10, <1>11, <2>0, <3>1
  <2>3. \A i \in 1..m : file'[n + i] = lines[i]
    <3>1. \A i \in 1..m : n + i \in 1..n + m /\ h + (n + i) = (h + n) + i
      BY <1>3
    <3> QED
      BY <1>6, <1>10, <1>11, <2>0, <3>1
  <2> QED
    BY <1>1, <1>2, <2>1, <2>2, <2>3 DEF SizesLeft
<1> QED
  BY <1>12, <1>13

(* The sizes are read from the second line, where there is one. *)
LEMMA SizesAsWritten ==
  ASSUME ControlInv, ConfigInv, ReadMemorySizes, NEW c \in Configurations, SizesLeft(c)
  PROVE  memsz' = Sizes(c) /\ LoadedSoFar(c)' /\ LinesLeft(c)'
<1>0. ld_processes' = << >> /\ UNCHANGED disk
  BY DEF ReadMemorySizes, ConfigInv, Goto
<1>1. /\ file \in Seq(Words) /\ Len(file) = Len(SizeWords(c)) + 3 * Len(c.processes)
      /\ Len(c.processes) \in Nat
  BY ConfigWords DEF SizesLeft
<1>2. PICK m : m = 3 * Len(c.processes)
  OBVIOUS
<1>3. m \in Nat
  BY <1>1, <1>2
<1>4. Sizes(c) = IF MM_FIXED_MEMSZ THEN FixedSizes ELSE c.sizes
  BY DEF Sizes
<1>5. LoadedSoFar(c)'
  BY <1>0, <1>1 DEF LoadedSoFar
<1>6. ASSUME file' \in Seq(Words), Len(file') = m, \A i \in 1..m : file'[i] = ProcessLines(c)[i]
      PROVE  LinesLeft(c)'
  <2>1. Len(ld_processes') = 0
    BY <1>0
  <2>2. m - 3 * 0 = m /\ \A i \in 1..m : 3 * 0 + i = i
    BY <1>3
  <2> QED
    BY <1>2, <1>6, <2>1, <2>2 DEF LinesLeft
<1>7. CASE MM_FIXED_MEMSZ
  <2>1. memsz' = FixedSizes /\ file' = file
    BY <1>7 DEF ReadMemorySizes
  <2>2. Len(SizeWords(c)) = 0
    BY <1>7, ConfigWords
  <2>3. 0 + m = m /\ \A i \in 1..m : 0 + i = i
    BY <1>3
  <2>4. Len(file) = m /\ \A i \in 1..m : file[i] = ProcessLines(c)[i]
    BY <1>1, <1>2, <2>2, <2>3 DEF SizesLeft
  <2> QED
    BY <1>1, <1>4, <1>5, <1>6, <1>7, <2>1, <2>4
<1>8. CASE ~MM_FIXED_MEMSZ
  <2>1. PICK L, call : L = PAGING_MAX_MMSWP + 1 /\ call = SizeConversions
    OBVIOUS
  <2>2. /\ L \in Nat /\ call \in Seq({"u", "s"}) /\ Len(call) = L
        /\ \A i \in 1..L : call[i] = "u"
    <3>1. L \in Nat /\ call = [i \in 1..L |-> "u"]
      BY <2>1, BootAssumption DEF SizeConversions, Times
    <3>2. \A S : \A x \in S : \A k \in Nat : [i \in 1..k |-> x] \in Seq(S) /\ Len([i \in 1..k |-> x]) = k
      OBVIOUS
    <3>3. call \in Seq({"u", "s"}) /\ Len(call) = L
      BY <3>1, <3>2, Zenon
    <3> QED
      BY <3>1, <3>3
  <2>3. memsz' = [i \in DOMAIN memsz |-> Scanned(file, call, i, memsz[i])] /\ file' = Rest(file, call)
    BY <1>8, <2>1 DEF ReadMemorySizes
  <2>4. Len(SizeWords(c)) = L /\ \A i \in 1..L : SizeWords(c)[i] = Num(c.sizes[i])
    BY <1>8, <2>1, ConfigWords DEF SizeWords
  <2>5. /\ Len(file) = L + m
        /\ \A i \in 1..L : file[i] = Num(c.sizes[i])
        /\ \A i \in 1..m : file[L + i] = ProcessLines(c)[i]
    BY <1>2, <2>4 DEF SizesLeft
  <2>6. L <= Len(file) /\ \A i \in 1..L : Matches(call[i], file[i])
    <3>1. L <= Len(file)
      BY <1>3, <2>2, <2>5
    <3>2. \A n : "num" \in DOMAIN Num(n)
      BY DEF Num
    <3> QED
      BY <2>5, <3>1, <3>2 DEF Matches
  <2>7. /\ \A i \in 1..L : \A old : Scanned(file, call, i, old) = IF call[i] = "u" THEN file[i].num ELSE file[i]
        /\ file' \in Seq(Words)
        /\ Len(file') = Len(file) - L
        /\ \A i \in 1..Len(file) - L : file'[i] = file[L + i]
    <3>1. /\ \A i \in 1..L : \A old : Scanned(file, call, i, old) = IF call[i] = "u" THEN file[i].num ELSE file[i]
          /\ Rest(file, call) \in Seq(Words)
          /\ Len(Rest(file, call)) = Len(file) - L
          /\ \A i \in 1..Len(file) - L : Rest(file, call)[i] = file[L + i]
      BY <1>1, <2>2, <2>6, CallReads
    <3> QED
      BY <2>3, <3>1
  <2>8. memsz' = c.sizes
    <3>0. \A n : Num(n).num = n
      BY DEF Num
    <3>1. \A i \in 1..L : file[i].num = c.sizes[i]
      BY <2>5, <3>0
    <3>2. DOMAIN memsz = 1..L /\ c.sizes = [i \in 1..L |-> c.sizes[i]]
      BY <2>1, BootAssumption DEF ControlInv
    <3>3. \A i \in 1..L : Scanned(file, call, i, memsz[i]) = c.sizes[i]
      BY <2>2, <2>7, <3>1
    <3> QED
      BY <2>3, <3>2, <3>3
  <2>9. Len(file) - L = m
    BY <1>3, <2>2, <2>5
  <2> QED
    BY <1>4, <1>5, <1>6, <1>8, <2>5, <2>7, <2>8, <2>9
<1> QED
  BY <1>7, <1>8

(* A process is read from its own line. *)
LEMMA ProcessRead ==
  ASSUME ReadProcess, NEW c \in Configurations, config = c.header, LoadedSoFar(c), LinesLeft(c)
  PROVE  LoadedSoFar(c)' /\ LinesLeft(c)'
<1>1. PICK k, N, lines : k = Len(ld_processes) /\ N = Len(c.processes) /\ lines = ProcessLines(c)
  OBVIOUS
<1>2. /\ ld_processes \in Seq(Loaded) /\ k \in Nat
      /\ N \in Nat /\ k < N
      /\ file \in Seq(Words) /\ Len(file) = 3 * N - 3 * k
      /\ \A i \in 1..3 * N - 3 * k : file[i] = lines[3 * k + i]
  <2>1. k < num_processes
    BY <1>1 DEF ReadProcess
  <2>2. num_processes = N
    BY <1>1, BootAssumption DEF num_processes
  <2> QED
    BY <1>1, <2>1, <2>2, ConfigWords DEF LoadedSoFar, LinesLeft
<1>3. PICK p : p = c.processes[k + 1]
  OBVIOUS
<1>4. k \in 0..N - 1 /\ k + 1 \in 1..N
  BY <1>2
<1>5. file[1] = Num(p.start_time) /\ file[2] = Word(p.path) /\ file[3] = Num(p.prio)
  <2>1. /\ lines[3 * k + 1] = Num(p.start_time) /\ lines[3 * k + 2] = Word(p.path)
        /\ lines[3 * k + 3] = Num(p.prio)
    BY <1>1, <1>3, <1>4, ConfigWords
  <2>2. 1 \in 1..3 * N - 3 * k /\ 2 \in 1..3 * N - 3 * k /\ 3 \in 1..3 * N - 3 * k
    BY <1>2
  <2> QED
    BY <1>2, <2>1, <2>2
<1>6. PICK h, call : h = 3 /\ call = <<"u", "s", "u">>
  OBVIOUS
<1>7. /\ h \in Nat /\ call \in Seq({"u", "s"}) /\ Len(call) = h
      /\ call[1] = "u" /\ call[2] = "s" /\ call[3] = "u"
  <2>1. call[1] = "u" /\ call[2] = "s" /\ call[3] = "u" /\ Len(call) = 3 /\ call \in Seq({"u", "s"})
    BY <1>6
  <2> QED
    BY <1>6, <2>1
<1>8. h <= Len(file) /\ \A i \in 1..h : Matches(call[i], file[i])
  <2>1. \A x : "num" \in DOMAIN Num(x)
    BY DEF Num
  <2>2. Matches(call[1], file[1]) /\ Matches(call[2], file[2]) /\ Matches(call[3], file[3])
    BY <1>5, <1>7, <2>1 DEF Matches
  <2>3. h <= Len(file) /\ \A i \in 1..h : i = 1 \/ i = 2 \/ i = 3
    BY <1>2, <1>6
  <2> QED
    BY <2>2, <2>3
<1>9. /\ \A i \in 1..h : \A old : Scanned(file, call, i, old) = IF call[i] = "u" THEN file[i].num ELSE file[i]
      /\ Rest(file, call) \in Seq(Words)
      /\ Len(Rest(file, call)) = Len(file) - h
      /\ \A i \in 1..Len(file) - h : Rest(file, call)[i] = file[h + i]
  BY <1>2, <1>7, <1>8, CallReads
<1>10. PICK new : new = [start_time |-> p.start_time, path |-> Word(p.path), prio |-> p.prio]
  OBVIOUS
<1>11. ld_processes' = Append(ld_processes, new)
  <2>1. /\ \A old : Scanned(file, call, 1, old) = p.start_time
        /\ \A old : Scanned(file, call, 2, old) = Word(p.path)
        /\ \A old : Scanned(file, call, 3, old) = p.prio
    <3>1. 1 \in 1..h /\ 2 \in 1..h /\ 3 \in 1..h
      BY <1>6
    <3>2. \A x : Num(x).num = x
      BY DEF Num
    <3>3. \A old : Scanned(file, call, 1, old) = file[1].num
      BY <1>7, <1>9, <3>1
    <3>4. \A old : Scanned(file, call, 2, old) = file[2]
      BY <1>7, <1>9, <3>1
    <3>5. \A old : Scanned(file, call, 3, old) = file[3].num
      BY <1>7, <1>9, <3>1
    <3> QED
      BY <1>5, <3>2, <3>3, <3>4, <3>5
  <2> QED
    BY <1>6, <1>10, <2>1 DEF ReadProcess
<1>12. Expected(c)[k + 1] = new /\ new \in Loaded
  <2>1. Expected(c)[k + 1] = new /\ Expected(c) \in Seq(Loaded) /\ Len(Expected(c)) = N
    BY <1>1, <1>3, <1>4, <1>10, ConfigWords
  <2> QED
    BY <1>4, <2>1
<1>13. /\ ld_processes' \in Seq(Loaded) /\ Len(ld_processes') = k + 1
       /\ \A i \in 1..k : ld_processes'[i] = ld_processes[i]
       /\ ld_processes'[k + 1] = new
  BY <1>1, <1>2, <1>11, <1>12
<1>14. LoadedSoFar(c)'
  <2>1. \A i \in 1..k + 1 : i \in 1..k \/ i = k + 1
    BY <1>2
  <2>2. \A i \in 1..k + 1 : ld_processes'[i] = Expected(c)[i]
    BY <1>1, <1>12, <1>13, <2>1 DEF LoadedSoFar
  <2>3. k + 1 <= N
    BY <1>2
  <2> QED
    BY <1>1, <1>13, <2>2, <2>3 DEF LoadedSoFar
<1>15. LinesLeft(c)'
  <2>1. file' = Rest(file, call)
    BY <1>6 DEF ReadProcess
  <2>2. 3 * N - 3 * (k + 1) = Len(file) - h
    BY <1>2, <1>6
  <2>3. \A i \in 1..3 * N - 3 * (k + 1) :
          /\ i \in 1..Len(file) - h /\ h + i \in 1..3 * N - 3 * k
          /\ 3 * k + (h + i) = 3 * (k + 1) + i
    BY <1>2, <1>6
  <2>4. \A i \in 1..3 * N - 3 * (k + 1) : file'[i] = lines[3 * (k + 1) + i]
    BY <1>2, <1>9, <2>1, <2>3
  <2> QED
    BY <1>1, <1>9, <1>13, <2>1, <2>2, <2>4 DEF LinesLeft
<1> QED
  BY <1>14, <1>15

(* Every step keeps to what the configuration says. *)
LEMMA ConfigKeeps ==
  ASSUME StoreInv, ControlInv, ConfigInv, [Next]_vars
  PROVE  ConfigInv'
<1>1. ASSUME UNCHANGED <<disk, config, memsz, ld_processes, file, sit>>, phase' = phase,
             \A d \in Devices : mp'[d].maxsz = mp[d].maxsz
      PROVE  ConfigInv'
  BY <1>1 DEF ConfigInv, Ready, SizesLeft, LoadedSoFar, LinesLeft
<1>2. CASE ReadHeader
  <2>1. phase = "main" /\ phase' = "memory" /\ UNCHANGED <<disk, ld_processes>>
    BY <1>2 DEF ReadHeader, Goto
  <2> QED
    BY <1>2, <2>1, HeaderRead DEF ConfigInv, Ready
<1>3. CASE ReadMemorySizes
  <2>1. phase = "memory" /\ phase' = "processes" /\ UNCHANGED <<disk, config, ld_processes>>
    BY <1>3 DEF ReadMemorySizes, Goto
  <2>2. ASSUME NEW c \in Configurations, disk = WrittenConfig(c)
        PROVE  config' = c.header /\ memsz' = Sizes(c) /\ LoadedSoFar(c)' /\ LinesLeft(c)'
    <3>1. config = c.header /\ SizesLeft(c)
      BY <2>1, <2>2 DEF ConfigInv
    <3> QED
      BY <1>3, <2>1, <3>1, SizesAsWritten
  <2> QED
    BY <2>1, <2>2 DEF ConfigInv, Ready
<1>4. CASE ReadProcess
  <2>1. phase = "processes" /\ phase' = phase /\ UNCHANGED <<disk, config, memsz>>
    BY <1>4 DEF ReadProcess
  <2>2. ASSUME NEW c \in Configurations, disk = WrittenConfig(c)
        PROVE  config' = c.header /\ memsz' = Sizes(c) /\ LoadedSoFar(c)' /\ LinesLeft(c)'
    <3>1. config = c.header /\ memsz = Sizes(c) /\ LoadedSoFar(c) /\ LinesLeft(c)
      BY <2>1, <2>2 DEF ConfigInv
    <3> QED
      BY <1>4, <2>1, <3>1, ProcessRead
  <2> QED
    BY <2>1, <2>2 DEF ConfigInv, Ready
<1>5. CASE ConfigDone
  <2>1. /\ phase = "processes" /\ phase' = "devices" /\ Len(ld_processes) >= num_processes
        /\ UNCHANGED <<disk, config, memsz, ld_processes, sit, mp>>
    BY <1>5 DEF ConfigDone, Goto, configVars, memphyVars
  <2>2. sit = 0 /\ \A d \in Devices : ~(d < 0)
    BY <2>1, BootAssumption DEF ControlInv
  <2>3. ASSUME NEW c \in Configurations, disk = WrittenConfig(c)
        PROVE  config = c.header /\ memsz = Sizes(c) /\ ld_processes = Expected(c)
    <3>1. config = c.header /\ memsz = Sizes(c) /\ LoadedSoFar(c)
      BY <2>1, <2>3 DEF ConfigInv
    <3>2. num_processes = Len(c.processes)
      BY <3>1, BootAssumption DEF num_processes
    <3>3. /\ ld_processes \in Seq(Loaded) /\ Expected(c) \in Seq(Loaded)
          /\ Len(Expected(c)) = Len(c.processes) /\ Len(c.processes) \in Nat
          /\ Len(ld_processes) <= Len(c.processes)
          /\ \A i \in 1..Len(ld_processes) : ld_processes[i] = Expected(c)[i]
      BY <3>1, ConfigWords DEF LoadedSoFar
    <3>4. Len(ld_processes) = Len(Expected(c))
      <4>1. Len(ld_processes) \in Nat
        BY <3>3
      <4> QED
        BY <2>1, <3>2, <3>3, <4>1
    <3>5. ld_processes = Expected(c)
      BY <3>3, <3>4, SeqEqual
    <3> QED
      BY <3>1, <3>5
  <2> QED
    BY <2>1, <2>2, <2>3 DEF ConfigInv, Ready
<1>6. CASE CreateDevice
  <2>1. /\ phase = "devices" /\ phase' = phase /\ sit \in Devices
        /\ init_memphy(sit, memsz[sit + 1], TRUE)
        /\ sit' = sit + 1 /\ UNCHANGED <<disk, config, memsz, ld_processes>>
    BY <1>6 DEF CreateDevice, configVars
  <2>2. mp'[sit].maxsz = memsz[sit + 1] /\ \A d \in Devices : d # sit => mp'[d] = mp[d]
    BY <2>1 DEF init_memphy, StoreInv
  <2>3. \A d \in Devices : d < sit' => d = sit \/ d < sit
    BY <2>1, BootAssumption
  <2>4. ASSUME NEW c \in Configurations, disk = WrittenConfig(c)
        PROVE  /\ config = c.header /\ memsz = Sizes(c) /\ ld_processes = Expected(c)
               /\ \A d \in Devices : d < sit' => mp'[d].maxsz = Sizes(c)[d + 1]
    <3>1. /\ config = c.header /\ memsz = Sizes(c) /\ ld_processes = Expected(c)
          /\ \A d \in Devices : d < sit => mp[d].maxsz = Sizes(c)[d + 1]
      BY <2>1, <2>4 DEF ConfigInv
    <3>2. ASSUME NEW d \in Devices, d < sit' PROVE mp'[d].maxsz = Sizes(c)[d + 1]
      <4>1. CASE d = sit
        BY <2>2, <3>1, <4>1
      <4>2. CASE d # sit /\ d < sit
        BY <2>2, <3>1, <4>2
      <4> QED
        BY <2>3, <3>2, <4>1, <4>2
    <3> QED
      BY <3>1, <3>2
  <2> QED
    BY <2>1, <2>4 DEF ConfigInv, Ready
<1>7. CASE StartThreads
  <2>1. /\ phase = "devices" /\ phase' = "load" /\ sit \notin Devices
        /\ UNCHANGED <<disk, config, memsz, ld_processes, mp>>
    BY <1>7 DEF StartThreads, Goto, configVars, memphyVars
  <2>2. \A d \in Devices : d < sit
    BY <2>1, BootAssumption DEF ControlInv
  <2> QED
    BY <2>1, <2>2 DEF ConfigInv, Ready
<1>8. CASE NoConfig \/ TestProgram \/ NoProgram \/ UnknownOpcode
  <2>1. UNCHANGED <<disk, ld_processes>> /\ phase' \in {"exit", "test"}
    BY <1>8 DEF NoConfig, TestProgram, NoProgram, UnknownOpcode, Goto, configVars
  <2> QED
    BY <2>1 DEF ConfigInv, Ready
<1>9. CASE OpenProgram \/ ReadInstruction \/ ProgramLoaded \/ AllLoaded
  <2>1. /\ UNCHANGED <<disk, config, ld_processes, mp>>
        /\ Ready /\ phase' \in {"load", "instructions", "run"}
    BY <1>9 DEF OpenProgram, ReadInstruction, ProgramLoaded, AllLoaded, Goto, configVars, memphyVars, Ready
  <2> QED
    BY <2>1 DEF ConfigInv, Ready
<1>10. CASE UseDevices
  <2>1. MemphyNext /\ UNCHANGED <<disk, config, memsz, ld_processes, file, sit>> /\ phase' = phase
    BY <1>10 DEF UseDevices, configVars
  <2> QED
    BY <1>1, <2>1, SizesStay
<1>11. CASE UNCHANGED vars
  BY <1>1, <1>11 DEF vars, configVars, memphyVars
<1> QED
  BY <1>2, <1>3, <1>4, <1>5, <1>6, <1>7, <1>8, <1>9, <1>10, <1>11 DEF Next, Terminated

(* Before main() nothing is read. *)
LEMMA InitConfig == Init => ConfigInv
BY DEF Init, ConfigInv, Ready

(* What a well-formed configuration file says, of any length, is what the
   simulator works with when its threads start: the header, every process with
   its start time, its program and its priority, and the sizes of the devices,
   with and without MM_FIXED_MEMSZ. *)
THEOREM ConfigAsWritten == Spec => []ConfigRead
<1>1. Init => StoreInv /\ ControlInv /\ ConfigInv
  BY InitStore, InitConfig
<1>2. StoreInv /\ ControlInv /\ ConfigInv /\ [Next]_vars => StoreInv' /\ ControlInv' /\ ConfigInv'
  BY BootStep, ConfigKeeps
<1>3. ConfigInv => ConfigRead
  <2> SUFFICES ASSUME ConfigInv, NEW c \in Configurations, disk = WrittenConfig(c), Ready
      PROVE  /\ config = c.header
             /\ ld_processes = [i \in DOMAIN c.processes |-> [c.processes[i] EXCEPT !.path = Word(@)]]
             /\ \A d \in Devices : mp[d].maxsz = Sizes(c)[d + 1]
    BY DEF ConfigRead
  <2>1. DOMAIN c.processes = 1..Len(c.processes)
    <3>1. \A S : \A s \in Seq(S) : DOMAIN s = 1..Len(s)
      OBVIOUS
    <3>2. c.processes \in Seq([start_time : Int, path : STRING, prio : Int])
      BY BootAssumption
    <3> QED
      BY <3>1, <3>2
  <2> QED
    BY <2>1 DEF ConfigInv, Expected
<1> QED
  BY <1>1, <1>2, <1>3, PTL DEF Spec

-----------------------------------------------------------------------------
(* Sequences of sequences.                                                 *)

Flattening(seqs, f, n) == f = [i \in 1..n |-> IF i = 1 THEN seqs[i] ELSE f[i - 1] \o seqs[i]]

(* The function by which FlattenSeq is defined exists. *)
LEMMA FlatteningExists ==
  ASSUME NEW seqs, NEW n \in Nat
  PROVE  \E f : Flattening(seqs, f, n)
<1> DEFINE Bad == {m \in Nat : ~\E f : Flattening(seqs, f, m)}
<1>1. SUFFICES ASSUME Bad # {} PROVE FALSE
  OBVIOUS
<1>2. PICK m \in Bad : \A k \in Bad : m <= k
  <2>1. Bad \in SUBSET Nat
    OBVIOUS
  <2> HIDE DEF Bad
  <2> QED
    BY <1>1, <2>1, Least
<1>3. m \in Nat /\ ~\E f : Flattening(seqs, f, m)
  OBVIOUS
<1>4. CASE m = 0
  <2>1. Flattening(seqs, << >>, 0)
    BY DEF Flattening
  <2> QED
    BY <1>3, <1>4, <2>1
<1>5. CASE m # 0
  <2>1. m - 1 \in Nat /\ ~(m <= m - 1)
    BY <1>3, <1>5
  <2>2. PICK g : Flattening(seqs, g, m - 1)
    BY <1>2, <2>1
  <2> DEFINE f == [i \in 1..m |-> IF i <= m - 1 THEN g[i] ELSE IF i = 1 THEN seqs[i] ELSE g[i - 1] \o seqs[i]]
  <2>3. \A i \in 1..m - 1 : g[i] = IF i = 1 THEN seqs[i] ELSE g[i - 1] \o seqs[i]
    BY <2>2 DEF Flattening
  <2>4. \A i \in 1..m : i # 1 => i - 1 \in 1..m /\ i - 1 <= m - 1
    BY <1>3
  <2>5. \A i \in 1..m : i # 1 => f[i - 1] = g[i - 1]
    BY <2>4
  <2>6. \A i \in 1..m : i <= m - 1 => i \in 1..m - 1
    BY <1>3
  <2>7. \A i \in 1..m : f[i] = IF i = 1 THEN seqs[i] ELSE f[i - 1] \o seqs[i]
    BY <2>3, <2>5, <2>6
  <2>8. f = [i \in 1..m |-> f[i]]
    OBVIOUS
  <2> HIDE DEF f
  <2>9. Flattening(seqs, f, m)
    BY <2>7, <2>8 DEF Flattening
  <2> QED
    BY <1>3, <2>9
<1> QED
  BY <1>4, <1>5

(* What FlattenSeq does, one sequence after the other. *)
LEMMA FlattenSteps ==
  ASSUME NEW S, NEW seqs \in Seq(Seq(S)), Len(seqs) # 0
  PROVE  \E f : /\ FlattenSeq(seqs) = f[Len(seqs)]
                /\ f[1] = seqs[1]
                /\ \A i \in 2..Len(seqs) : f[i] = f[i - 1] \o seqs[i]
<1>1. PICK f : f = CHOOSE g : Flattening(seqs, g, Len(seqs))
  OBVIOUS
<1>2. Len(seqs) \in Nat
  OBVIOUS
<1>3. Flattening(seqs, f, Len(seqs))
  BY <1>1, <1>2, FlatteningExists
<1>4. FlattenSeq(seqs) = f[Len(seqs)]
  BY <1>1, Zenon DEF FlattenSeq, Flattening
<1>5. 1 \in 1..Len(seqs) /\ \A i \in 2..Len(seqs) : i \in 1..Len(seqs) /\ i # 1
  BY <1>2
<1>6. f[1] = seqs[1] /\ \A i \in 2..Len(seqs) : f[i] = f[i - 1] \o seqs[i]
  BY <1>3, <1>5 DEF Flattening
<1> QED
  BY <1>4, <1>6

(* What is left of a sequence after a part that it starts with. *)
LEMMA AfterThePart ==
  ASSUME NEW S, NEW s \in Seq(S), NEW t \in Seq(S)
  PROVE  SubSeq(s \o t, Len(s) + 1, Len(s \o t)) = t
<1>1. PICK n, m, st : n = Len(s) /\ m = Len(t) /\ st = s \o t
  OBVIOUS
<1>2. n \in Nat /\ m \in Nat
  BY <1>1
<1>3. /\ st \in Seq(S) /\ Len(st) = n + m
      /\ \A i \in 1..n + m : st[i] = IF i <= n THEN s[i] ELSE t[i - n]
  BY <1>1, ConcatProperties
<1>4. \A i \in 1..m : n + i \in 1..n + m /\ ~(n + i <= n) /\ (n + i) - n = i /\ n + 1 + i - 1 = n + i
  BY <1>2
<1>5. PICK l : l = n + m
  OBVIOUS
<1>6. l \in Nat /\ Len(st) = l /\ n + 1 \in Int /\ l \in Int /\ l - (n + 1) + 1 = m
      /\ (n + 1 <= l \/ m = 0)
  BY <1>2, <1>3, <1>5
<1>7. \A i \in n + 1..l : st[i] \in S
  BY <1>2, <1>3, <1>5
<1>8. PICK rest : rest = SubSeq(st, n + 1, l)
  OBVIOUS
<1>9. /\ rest \in Seq(S)
      /\ Len(rest) = IF n + 1 <= l THEN l - (n + 1) + 1 ELSE 0
      /\ \A i \in 1..l - (n + 1) + 1 : rest[i] = st[n + 1 + i - 1]
  BY <1>6, <1>7, <1>8, SubSeqProperties
<1>10. Len(rest) = m /\ \A i \in 1..m : rest[i] = t[i]
  BY <1>3, <1>4, <1>6, <1>9
<1>11. rest = t
  BY <1>1, <1>9, <1>10, SeqEqual
<1> QED
  BY <1>1, <1>6, <1>8, <1>11

(* What FlattenSeq() joins can be taken off one by one from the front. *)
LEMMA Remainders ==
  ASSUME NEW S, NEW seqs \in Seq(Seq(S))
  PROVE  \E r : /\ r[0] = FlattenSeq(seqs) /\ r[Len(seqs)] = << >>
                /\ \A k \in 0..Len(seqs) : r[k] \in Seq(S)
                /\ \A k \in 1..Len(seqs) : r[k - 1] = seqs[k] \o r[k]
<1>0. PICK n : n = Len(seqs)
  OBVIOUS
<1>1. n \in Nat /\ \A k \in 1..n : seqs[k] \in Seq(S)
  BY <1>0
<1>4. \A s, t \in Seq(S) : s \o t \in Seq(S)
  OBVIOUS
<1>5. \A s, t, u \in Seq(S) : (s \o t) \o u = s \o (t \o u)
  BY ConcatAssociative, SMTT(30)
<1>2. CASE n = 0
  <2>1. seqs = << >> /\ FlattenSeq(seqs) = seqs
    <3>1. \A T : \A s \in Seq(T) : Len(s) = 0 => s = << >>
      OBVIOUS
    <3>2. Len(seqs) = 0
      BY <1>0, <1>2
    <3>3. FlattenSeq(seqs) = seqs
      BY <3>2, Zenon DEF FlattenSeq
    <3> QED
      BY <3>1, <3>2, <3>3
  <2> DEFINE r == [k \in 0..0 |-> << >>]
  <2>2. r[0] = << >> /\ << >> \in Seq(S)
    OBVIOUS
  <2>3. 1..n = {} /\ 0..n = {0}
    BY <1>2
  <2> HIDE DEF r
  <2> QED
    BY <1>0, <1>2, <2>1, <2>2, <2>3
<1>3. CASE n # 0
  <2>1. PICK g : /\ FlattenSeq(seqs) = g[n] /\ g[1] = seqs[1]
                 /\ \A i \in 2..n : g[i] = g[i - 1] \o seqs[i]
    BY <1>0, <1>3, FlattenSteps
  <2> DEFINE f == [k \in 0..n |-> IF k = 0 THEN << >> ELSE g[k]]
  <2>2. f[0] = << >> /\ f[n] = FlattenSeq(seqs)
    BY <1>1, <1>3, <2>1
  <2>3. \A k \in 1..n : k = 1 \/ (k \in 2..n /\ k - 1 # 0)
    BY <1>1
  <2>4. \A k \in 1..n : f[k] = f[k - 1] \o seqs[k]
    <3> TAKE k \in 1..n
    <3>1. f[k] = g[k] /\ f[k - 1] = IF k = 1 THEN << >> ELSE g[k - 1]
      BY <1>1
    <3>2. seqs[1] = << >> \o seqs[1]
      BY <1>1, <1>3, ConcatEmptySeq
    <3> QED
      BY <2>1, <2>3, <3>1, <3>2
  <2> HIDE DEF f
  <2>5. \A k \in 0..n : f[k] \in Seq(S)
    <3> DEFINE Bad == {k \in 0..n : f[k] \notin Seq(S)}
    <3>1. SUFFICES ASSUME Bad # {} PROVE FALSE
      OBVIOUS
    <3>2. Bad \in SUBSET Nat
      OBVIOUS
    <3>3. PICK k \in Bad : \A j \in Bad : k <= j
      <4> HIDE DEF Bad
      <4> QED
        BY <3>1, <3>2, Least
    <3>4. k \in 1..n /\ f[k - 1] \in Seq(S)
      <4>1. << >> \in Seq(S)
        OBVIOUS
      <4>2. k \in 0..n /\ f[k] \notin Seq(S)
        BY <3>3
      <4>3. k \in 1..n /\ k - 1 \in 0..n /\ ~(k <= k - 1)
        <5>1. k # 0
          BY <2>2, <4>1, <4>2
        <5> QED
          BY <1>1, <4>2, <5>1
      <4> QED
        BY <3>3, <4>3
    <3>5. f[k] \in Seq(S)
      BY <1>1, <1>4, <2>4, <3>4
    <3> QED
      BY <3>3, <3>5
  <2>6. \A k \in 0..n : \E x \in Seq(S) : f[n] = f[k] \o x
    <3> DEFINE Bad == {k \in 0..n : ~\E x \in Seq(S) : f[n] = f[n - k] \o x}
    <3>1. Bad = {}
      <4>1. SUFFICES ASSUME Bad # {} PROVE FALSE
        OBVIOUS
      <4>2. Bad \in SUBSET Nat
        OBVIOUS
      <4>3. PICK k \in Bad : \A j \in Bad : k <= j
        <5> HIDE DEF Bad
        <5> QED
          BY <4>1, <4>2, Least
      <4>4. k # 0
        <5>1. f[n] = f[n] \o << >> /\ << >> \in Seq(S) /\ n - 0 = n
          BY <1>1, <2>5, ConcatEmptySeq
        <5> QED
          BY <4>3, <5>1
      <4>5. k - 1 \in 0..n /\ ~(k <= k - 1) /\ n - k \in 0..n /\ n - (k - 1) \in 1..n
            /\ (n - (k - 1)) - 1 = n - k
        BY <1>1, <4>3, <4>4
      <4>6. PICK x \in Seq(S) : f[n] = f[n - (k - 1)] \o x
        BY <4>3, <4>5
      <4>7. PICK j : j = n - (k - 1)
        OBVIOUS
      <4>8. f[n] = f[j] \o x /\ f[j] = f[n - k] \o seqs[j] /\ j \in 1..n
        BY <2>4, <4>5, <4>6, <4>7
      <4>9. f[n - k] \in Seq(S) /\ seqs[j] \in Seq(S) /\ x \in Seq(S)
        BY <1>1, <2>5, <4>5, <4>6, <4>8
      <4>10. f[n] = f[n - k] \o (seqs[j] \o x) /\ seqs[j] \o x \in Seq(S)
        <5>1. f[n] = (f[n - k] \o seqs[j]) \o x
          BY <4>8, Zenon
        <5>2. (f[n - k] \o seqs[j]) \o x = f[n - k] \o (seqs[j] \o x)
          BY <1>5, <4>9, Zenon
        <5> QED
          BY <1>4, <4>9, <5>1, <5>2, Zenon
      <4> QED
        BY <4>3, <4>10
    <3>2. \A k \in 0..n : n - k \in 0..n /\ n - (n - k) = k
      BY <1>1
    <3> QED
      BY <3>1, <3>2
  <2> DEFINE r == [k \in 0..n |-> SubSeq(f[n], Len(f[k]) + 1, Len(f[n]))]
  <2>7. ASSUME NEW k \in 0..n, NEW x \in Seq(S), f[n] = f[k] \o x
        PROVE  r[k] = x
    <3>1. SubSeq(f[k] \o x, Len(f[k]) + 1, Len(f[k] \o x)) = x
      BY <2>5, AfterThePart
    <3> QED
      BY <2>7, <3>1
  <2> HIDE DEF r
  <2>8. \A k \in 0..n : r[k] \in Seq(S) /\ f[n] = f[k] \o r[k]
    BY <2>6, <2>7
  <2>9. r[0] = f[n]
    <3>1. f[n] = f[0] \o f[n] /\ f[n] \in Seq(S) /\ 0 \in 0..n
      BY <1>1, <2>2, <2>5, ConcatEmptySeq
    <3> QED
      BY <2>7, <3>1
  <2>10. r[n] = << >>
    <3>1. f[n] = f[n] \o << >> /\ << >> \in Seq(S) /\ n \in 0..n
      BY <1>1, <2>5, ConcatEmptySeq
    <3> QED
      BY <2>7, <3>1
  <2>11. ASSUME NEW k \in 1..n PROVE r[k - 1] = seqs[k] \o r[k]
    <3>1. k - 1 \in 0..n /\ k \in 0..n
      BY <1>1
    <3>2. f[n] = (f[k - 1] \o seqs[k]) \o r[k]
      BY <2>4, <2>8, <3>1
    <3>3. f[k - 1] \in Seq(S) /\ seqs[k] \in Seq(S) /\ r[k] \in Seq(S)
      BY <1>1, <2>5, <2>8, <3>1
    <3>4. f[n] = f[k - 1] \o (seqs[k] \o r[k]) /\ seqs[k] \o r[k] \in Seq(S)
      <4>1. (f[k - 1] \o seqs[k]) \o r[k] = f[k - 1] \o (seqs[k] \o r[k])
        BY <1>5, <3>3, Zenon
      <4> QED
        BY <1>4, <3>2, <3>3, <4>1, Zenon
    <3> QED
      BY <2>7, <3>1, <3>4
  <2> QED
    BY <1>0, <2>2, <2>8, <2>9, <2>10, <2>11
<1> QED
  BY <1>2, <1>3

-----------------------------------------------------------------------------
(* The program files.                                                      *)

(* The conversions that succeed are those before the first that does not
   match, or before the end of the file. *)
LEMMA StopsWhere ==
  ASSUME NEW words \in Seq(Words), NEW L \in Nat, NEW call, DOMAIN call = 1..L, Len(call) = L,
         NEW a \in 0..L, a <= Len(words), \A i \in 1..a : Matches(call[i], words[i]),
         a = L \/ a = Len(words) \/ ~Matches(call[a + 1], words[a + 1])
  PROVE  Assigned(words, call) = a
<1>1. PICK n, m : n = Assigned(words, call) /\ m = Len(words)
  OBVIOUS
<1>2. /\ n \in 0..L /\ n <= m /\ m \in Nat
      /\ \A i \in 1..n : Matches(call[i], words[i])
      /\ n = L \/ ~(n + 1 <= m /\ \A i \in 1..n + 1 : Matches(call[i], words[i]))
  <2>1. LET i == Assigned(words, call) IN
        /\ i \in 0..L /\ i <= Len(words) /\ \A j \in 1..i : Matches(call[j], words[j])
        /\ i = L \/ ~(i + 1 <= Len(words) /\ \A j \in 1..i + 1 : Matches(call[j], words[j]))
    BY AssignedMost
  <2>2. \A s \in Seq(Words) : Len(s) \in Nat
    OBVIOUS
  <2> QED
    BY <1>1, <2>1, <2>2
<1>3. ~(n < a)
  <2>1. SUFFICES ASSUME n < a PROVE FALSE
    OBVIOUS
  <2>2. n # L /\ n + 1 <= m /\ \A i \in 1..n + 1 : i \in 1..a
    BY <1>1, <1>2, <2>1
  <2> QED
    BY <1>2, <2>2
<1>4. ~(a < n)
  <2>1. SUFFICES ASSUME a < n PROVE FALSE
    OBVIOUS
  <2>2. a # L /\ a # m /\ a + 1 \in 1..n
    BY <1>2, <2>1
  <2> QED
    BY <1>1, <1>2, <2>2
<1> QED
  BY <1>1, <1>2, <1>3, <1>4

(* What a call leaves when it ends with the first part of a file. *)
LEMMA LeavesTheRest ==
  ASSUME NEW s \in Seq(Words), NEW t \in Seq(Words), NEW call, Assigned(s \o t, call) = Len(s)
  PROVE  Rest(s \o t, call) = t
BY AfterThePart DEF Rest

Numbers(args) == [k \in DOMAIN args |-> Num(args[k])]

(* The words of an instruction: the opcode, and a number for each argument. *)
LEMMA InstructionFormat ==
  ASSUME NEW instruction \in [opcode : STRING, args : Seq(Int)]
  PROVE  LET nums == Numbers(instruction.args) IN
         /\ InstructionWords(instruction) = <<Word(instruction.opcode)>> \o nums
         /\ <<Word(instruction.opcode)>> \in Seq(Words)
         /\ nums \in Seq(Words) /\ Len(nums) = Len(instruction.args)
         /\ \A j \in 1..Len(nums) : nums[j] = Num(instruction.args[j])
         /\ DOMAIN instruction.args = 1..Len(nums)
<1>1. PICK args, n, op : args = instruction.args /\ n = Len(args) /\ op = instruction.opcode
  OBVIOUS
<1>2. args \in Seq(Int) /\ op \in STRING
  BY <1>1
<1>3. n \in Nat /\ DOMAIN args = 1..n /\ \A j \in 1..n : args[j] \in Int
  BY <1>1, <1>2
<1>4. \A j \in 1..n : Num(args[j]) \in Words
  BY <1>3 DEF Num, Words
<1>5. Word(op) \in Words
  BY <1>2 DEF Word, Words
<1>6. Numbers(args) = [k \in 1..n |-> Num(args[k])]
  BY <1>3 DEF Numbers
<1>7. Numbers(args) \in Seq(Words) /\ Len(Numbers(args)) = n
  BY <1>3, <1>4, <1>6
<1>8. \A x \in Words : <<x>> \in Seq(Words)
  OBVIOUS
<1>9. InstructionWords(instruction) = <<Word(op)>> \o Numbers(args)
  BY <1>1 DEF InstructionWords, Numbers
<1> QED
  BY <1>1, <1>3, <1>5, <1>6, <1>7, <1>8, <1>9

(* What is left of a program file after its first instructions. *)
IsRemains(p, r) ==
  /\ r[0] = FlattenSeq([i \in DOMAIN p.text |-> InstructionWords(p.text[i])])
  /\ r[Len(p.text)] = << >>
  /\ \A k \in 0..Len(p.text) : r[k] \in Seq(Words)
  /\ \A k \in 1..Len(p.text) : r[k - 1] = InstructionWords(p.text[k]) \o r[k]
Remains(p) == CHOOSE r : IsRemains(p, r)

(* The remainders of a program file: each starts with the words of the next
   instruction. *)
LEMMA ProgramRemains ==
  ASSUME NEW path \in DOMAIN Programs
  PROVE  /\ IsRemains(Programs[path], Remains(Programs[path]))
         /\ Len(Programs[path].text) \in Nat
         /\ DOMAIN Programs[path].text = 1..Len(Programs[path].text)
         /\ \A k \in 1..Len(Programs[path].text) :
               Programs[path].text[k] \in [opcode : STRING, args : Seq(Int)]
<1>1. PICK p, text, n : p = Programs[path] /\ text = p.text /\ n = Len(text)
  OBVIOUS
<1>2. text \in Seq([opcode : STRING, args : Seq(Int)])
  BY <1>1, ProgramsAssumption
<1>3. \A S : \A s \in Seq(S) : Len(s) \in Nat /\ DOMAIN s = 1..Len(s) /\ \A k \in 1..Len(s) : s[k] \in S
  OBVIOUS
<1>4. n \in Nat /\ DOMAIN text = 1..n /\ \A k \in 1..n : text[k] \in [opcode : STRING, args : Seq(Int)]
  BY <1>1, <1>2, <1>3
<1>5. PICK seqs : seqs = [i \in DOMAIN text |-> InstructionWords(text[i])]
  OBVIOUS
<1>6. \A k \in 1..n : seqs[k] = InstructionWords(text[k]) /\ seqs[k] \in Seq(Words)
  <2> TAKE k \in 1..n
  <2>1. PICK s, t : s = <<Word(text[k].opcode)>> /\ t = Numbers(text[k].args)
    OBVIOUS
  <2>2. InstructionWords(text[k]) = s \o t /\ s \in Seq(Words) /\ t \in Seq(Words)
    BY <1>4, <2>1, InstructionFormat
  <2>3. s \o t \in Seq(Words)
    BY <2>2
  <2> QED
    BY <1>4, <1>5, <2>2, <2>3
<1>7. seqs \in Seq(Seq(Words)) /\ Len(seqs) = n
  <2>1. seqs = [i \in 1..n |-> seqs[i]]
    BY <1>4, <1>5
  <2>2. \A S, f : \A m \in Nat : f = [i \in 1..m |-> f[i]] /\ (\A i \in 1..m : f[i] \in S)
                      => f \in Seq(S) /\ Len(f) = m
    OBVIOUS
  <2> QED
    BY <1>4, <1>6, <2>1, <2>2
<1>8. PICK r : /\ r[0] = FlattenSeq(seqs) /\ r[n] = << >>
               /\ \A k \in 0..n : r[k] \in Seq(Words)
               /\ \A k \in 1..n : r[k - 1] = seqs[k] \o r[k]
  <2>1. \E r : /\ r[0] = FlattenSeq(seqs) /\ r[Len(seqs)] = << >>
               /\ \A k \in 0..Len(seqs) : r[k] \in Seq(Words)
               /\ \A k \in 1..Len(seqs) : r[k - 1] = seqs[k] \o r[k]
    BY <1>7, Remainders
  <2> QED
    BY <1>7, <2>1
<1>9. IsRemains(p, r)
  BY <1>1, <1>5, <1>6, <1>8 DEF IsRemains
<1>10. IsRemains(p, Remains(p))
  BY <1>9, Zenon DEF Remains
<1> QED
  BY <1>1, <1>4, <1>10

\* A sequence, of whatever.
Listing(s) == Len(s) \in Nat /\ s = [i \in 1..Len(s) |-> s[i]]

(* A list that gets one more entry. *)
LEMMA Appended ==
  ASSUME NEW s, Listing(s), NEW e
  PROVE  /\ Listing(Append(s, e)) /\ Len(Append(s, e)) = Len(s) + 1
         /\ Append(s, e)[Len(s) + 1] = e
         /\ \A i \in 1..Len(s) : Append(s, e)[i] = s[i]
<1>1. PICK n, S : n = Len(s) /\ S = {s[i] : i \in 1..n} \cup {e}
  OBVIOUS
<1>2. n \in Nat /\ s = [i \in 1..n |-> s[i]] /\ (\A i \in 1..n : s[i] \in S) /\ e \in S
  BY <1>1 DEF Listing
<1>3. s \in Seq(S)
  <2>1. \A T, f : \A m \in Nat : f = [i \in 1..m |-> f[i]] /\ (\A i \in 1..m : f[i] \in T) => f \in Seq(T)
    OBVIOUS
  <2> QED
    BY <1>2, <2>1
<1>4. PICK t : t = Append(s, e)
  OBVIOUS
<1>5. /\ t \in Seq(S) /\ Len(t) = Len(s) + 1 /\ t[Len(s) + 1] = e
      /\ \A i \in 1..Len(s) : t[i] = s[i]
  BY <1>2, <1>3, <1>4
<1>6. \A q \in Seq(S) : Len(q) \in Nat /\ q = [i \in 1..Len(q) |-> q[i]]
  OBVIOUS
<1> QED
  BY <1>4, <1>5, <1>6 DEF Listing

AsFarAsWritten(text, p) ==
  \A k \in DOMAIN text \cap DOMAIN p.text :
     /\ text[k].opcode = p.text[k].opcode
     /\ \A j \in DOMAIN p.text[k].args : text[k].args[j] = p.text[k].args[j]

(* The processes loaded are as their files say, the one that is being loaded
   is so far, and what is left of its file is what follows the instruction
   that was read last. *)
LoadInv ==
  /\ Listing(procs)
  /\ \A i \in 1..Len(procs) :
        /\ Len(procs[i].text) = Programs[procs[i].path].size
        /\ AsFarAsWritten(procs[i].text, Programs[procs[i].path])
  /\ phase = "instructions" =>
        LET p == Programs[proc.path] IN
        /\ {"path", "size", "text"} \subseteq DOMAIN proc
        /\ proc.path \in DOMAIN Programs
        /\ proc.size = p.size
        /\ Listing(proc.text)
        /\ AsFarAsWritten(proc.text, p)
        /\ file \in Seq(Words)
        /\ Len(proc.text) <= Len(p.text) => file = Remains(p)[Len(proc.text)]

(* A program file is opened: its two numbers are read. *)
LEMMA OpenReads ==
  ASSUME LoadInv, OpenProgram
  PROVE  LoadInv'
<1>1. PICK path, p : path = NextPath /\ p = Programs[path]
  OBVIOUS
<1>2. path \in DOMAIN Programs
  BY <1>1 DEF OpenProgram
<1>3. PICK two, head, call, rest :
        /\ two = 2 /\ head = <<Num(p.priority), Num(p.size)>> /\ call = Times(2, "u")
        /\ rest = FlattenSeq([i \in DOMAIN p.text |-> InstructionWords(p.text[i])])
  OBVIOUS
<1>4. p.priority \in Int /\ p.size \in Nat
  BY <1>1, <1>2, ProgramsAssumption
<1>5. /\ rest \in Seq(Words) /\ rest = Remains(p)[0] /\ Len(p.text) \in Nat
      /\ DOMAIN p.text = 1..Len(p.text)
  <2>1. /\ IsRemains(p, Remains(p)) /\ Len(p.text) \in Nat
        /\ DOMAIN p.text = 1..Len(p.text)
    BY <1>1, <1>2, ProgramRemains
  <2> QED
    BY <1>3, <2>1 DEF IsRemains
<1>6. /\ head \in Seq(Words) /\ Len(head) = two
      /\ head[1] = Num(p.priority) /\ head[2] = Num(p.size)
  <2>1. Num(p.priority) \in Words /\ Num(p.size) \in Words
    BY <1>4 DEF Num, Words
  <2> QED
    BY <1>3, <2>1
<1>7. WrittenProgram(p) = head \o rest
  BY <1>3 DEF WrittenProgram
<1>8. PICK written : written = head \o rest
  OBVIOUS
<1>9. /\ written \in Seq(Words) /\ two <= Len(written)
      /\ written[1] = Num(p.priority) /\ written[2] = Num(p.size)
  <2>1. /\ written \in Seq(Words) /\ Len(written) = Len(head) + Len(rest)
        /\ \A i \in 1..Len(head) : written[i] = head[i]
    BY <1>5, <1>6, <1>8, Joined
  <2>2. 1 \in 1..Len(head) /\ 2 \in 1..Len(head)
    BY <1>3, <1>6
  <2>3. PICK m : m = Len(rest)
    OBVIOUS
  <2>4. m \in Nat
    BY <1>5, <2>3
  <2> QED
    BY <1>3, <1>6, <2>1, <2>2, <2>3, <2>4
<1>10. DOMAIN call = 1..two /\ Len(call) = two /\ call[1] = "u" /\ call[2] = "u"
  <2>1. call = <<"u", "u">>
    BY <1>3 DEF Times
  <2> QED
    BY <1>3, <2>1
<1>11. Assigned(written, call) = two
  <2>1. \A n : "num" \in DOMAIN Num(n)
    BY DEF Num
  <2>2. \A i \in 1..two : Matches(call[i], written[i])
    <3>1. \A i \in 1..two : i = 1 \/ i = 2
      BY <1>3
    <3> QED
      BY <1>9, <2>1, <3>1 DEF Matches
  <2>3. two \in Nat
    BY <1>3
  <2> QED
    BY <1>9, <1>10, <2>2, <2>3, AssignedFits
<1>12. Rest(written, call) = rest /\ Scanned(written, call, 2, 0) = p.size
  <2>1. Rest(written, call) = rest
    BY <1>5, <1>6, <1>8, <1>11, LeavesTheRest
  <2>2. \A n : Num(n).num = n
    BY DEF Num
  <2>3. Scanned(written, call, 2, 0) = written[2].num
    BY <1>3, <1>10, <1>11 DEF Scanned
  <2> QED
    BY <1>9, <2>1, <2>2, <2>3
<1>13. PICK prio, pid : proc' = [pid |-> pid, path |-> path, priority |-> prio,
                                 size |-> p.size, text |-> << >>]
                        /\ file' = rest /\ phase' = "instructions" /\ procs' = procs
  BY <1>1, <1>3, <1>7, <1>8, <1>12 DEF OpenProgram, Goto
<1>14. /\ {"path", "size", "text"} \subseteq DOMAIN proc'
       /\ proc'.path = path /\ proc'.size = p.size /\ proc'.text = << >>
  BY <1>13
<1>15. Len(<< >>) = 0 /\ Listing(<< >>) /\ DOMAIN << >> = {}
  BY DEF Listing
<1>16. AsFarAsWritten(<< >>, p)
  BY <1>15 DEF AsFarAsWritten
<1> QED
  BY <1>1, <1>2, <1>5, <1>13, <1>14, <1>15, <1>16 DEF LoadInv

(* The opcode of the next instruction, and what is left of the file then. *)
LEMMA OpcodeReads ==
  ASSUME NEW w \in STRING, NEW t \in Seq(Words), file = <<Word(w)>> \o t
  PROVE  NextOpcode = Word(w) /\ Rest(file, <<"s">>) = t
<1>1. PICK one, head, call : one = 1 /\ head = <<Word(w)>> /\ call = <<"s">>
  OBVIOUS
<1>2. Word(w) \in Words
  BY DEF Word, Words
<1>3. head \in Seq(Words) /\ Len(head) = one /\ head[1] = Word(w) /\ one \in Nat
  BY <1>1, <1>2
<1>4. PICK written : written = head \o t
  OBVIOUS
<1>5. written \in Seq(Words) /\ one <= Len(written) /\ written[1] = Word(w)
  <2>1. /\ written \in Seq(Words) /\ Len(written) = Len(head) + Len(t)
        /\ \A i \in 1..Len(head) : written[i] = head[i]
    BY <1>3, <1>4, Joined
  <2>2. PICK m : m = Len(t)
    OBVIOUS
  <2>3. m \in Nat /\ 1 \in 1..one
    BY <1>1, <2>2
  <2> QED
    BY <1>1, <1>3, <2>1, <2>2, <2>3
<1>6. DOMAIN call = 1..one /\ Len(call) = one /\ call[1] = "s"
  BY <1>1
<1>7. \A i \in 1..one : Matches(call[i], written[i])
  <2>1. \A i \in 1..one : i = 1
    BY <1>1
  <2> QED
    BY <1>6, <2>1 DEF Matches
<1>8. Assigned(written, call) = one
  BY <1>3, <1>5, <1>6, <1>7, AssignedFits
<1>9. Rest(written, call) = t
  BY <1>3, <1>4, <1>8, LeavesTheRest
<1>10. \A old : Scanned(written, call, 1, old) = Word(w)
  BY <1>1, <1>5, <1>6, <1>8 DEF Scanned
<1> QED
  BY <1>1, <1>4, <1>9, <1>10 DEF NextOpcode

(* The arguments that are there are read, and none of the words after them. *)
LEMMA ArgumentsRead ==
  ASSUME NEW op \in DOMAIN Arity, NEW args \in Seq(Int), Len(args) <= Arity[op],
         NEW t \in Seq(Words), t = << >> \/ \E w \in STRING : t[1] = Word(w)
  PROVE  /\ Rest(Numbers(args) \o t, Arguments(op)) = t
         /\ \A j \in 1..Len(args) : j \in 1..Arity[op] /\ j \in DOMAIN Arguments(op)
              /\ Scanned(Numbers(args) \o t, Arguments(op), j, Unset) = args[j]
<1>1. PICK a, L, call, nums, words : /\ a = Len(args) /\ L = Arity[op] /\ call = Arguments(op)
                                     /\ nums = Numbers(args) /\ words = nums \o t
  OBVIOUS
<1>2. L \in Nat
  <2>1. op \in {"calc", "alloc", "free", "read", "write"}
    BY DEF Arity
  <2> QED
    BY <1>1, <2>1 DEF Arity
<1>3. DOMAIN call = 1..L /\ Len(call) = L /\ \A i \in 1..L : call[i] = "u"
  BY <1>1, <1>2 DEF Arguments, Times
<1>4. a \in Nat /\ a <= L /\ DOMAIN args = 1..a /\ \A j \in 1..a : args[j] \in Int
  BY <1>1
<1>5. nums \in Seq(Words) /\ Len(nums) = a /\ \A j \in 1..a : nums[j] = Num(args[j])
  <2>1. \A j \in 1..a : Num(args[j]) \in Words
    BY <1>4 DEF Num, Words
  <2>2. nums = [j \in 1..a |-> Num(args[j])]
    BY <1>1, <1>4 DEF Numbers
  <2> QED
    BY <1>4, <2>1, <2>2
<1>6. PICK m : m = Len(t)
  OBVIOUS
<1>7. m \in Nat /\ (m = 0 \/ \E w \in STRING : t[1] = Word(w))
  <2>1. m \in Nat
    BY <1>6
  <2>2. Len(<< >>) = 0
    OBVIOUS
  <2> QED
    BY <1>6, <2>1, <2>2
<1>8. /\ words \in Seq(Words) /\ Len(words) = a + m
      /\ \A j \in 1..a : words[j] = Num(args[j])
      /\ \A j \in 1..m : words[a + j] = t[j]
  <2>1. /\ words \in Seq(Words) /\ Len(words) = Len(nums) + Len(t)
        /\ \A j \in 1..Len(nums) : words[j] = nums[j]
        /\ \A j \in 1..Len(t) : words[Len(nums) + j] = t[j]
    BY <1>1, <1>5, Joined
  <2> QED
    BY <1>5, <1>6, <2>1
<1>9. Assigned(words, call) = a
  <2>1. \A j \in 1..a : Matches(call[j], words[j])
    <3>1. \A n : "num" \in DOMAIN Num(n)
      BY DEF Num
    <3> QED
      BY <1>8, <3>1 DEF Matches
  <2>2. a = L \/ a = Len(words) \/ ~Matches(call[a + 1], words[a + 1])
    <3>1. SUFFICES ASSUME a # L, m # 0 PROVE ~Matches(call[a + 1], words[a + 1])
      BY <1>4, <1>8
    <3>2. a + 1 \in 1..L /\ 1 \in 1..m
      BY <1>2, <1>4, <1>7, <3>1
    <3>3. PICK w \in STRING : words[a + 1] = Word(w)
      BY <1>7, <1>8, <3>1, <3>2
    <3>4. "num" \notin DOMAIN Word(w)
      BY DEF Word
    <3> QED
      BY <1>3, <3>2, <3>3, <3>4 DEF Matches
  <2>3. a \in 0..L /\ a <= Len(words)
    BY <1>2, <1>4, <1>7, <1>8
  <2> QED
    BY <1>2, <1>3, <1>8, <2>1, <2>2, <2>3, StopsWhere
<1>10. Rest(words, call) = t
  BY <1>1, <1>5, <1>9, LeavesTheRest
<1>11. ASSUME NEW j \in 1..a
       PROVE  j \in 1..L /\ j \in DOMAIN call /\ Scanned(words, call, j, Unset) = args[j]
  <2>1. j \in 1..L /\ ~(j > a)
    BY <1>2, <1>4
  <2>2. \A n : Num(n).num = n
    BY DEF Num
  <2> QED
    BY <1>3, <1>8, <1>9, <2>1, <2>2 DEF Scanned
<1> QED
  BY <1>1, <1>10, <1>11

(* An instruction is read: the next one of the file while there is one. *)
LEMMA InstructionReads ==
  ASSUME LoadInv, ReadInstruction
  PROVE  LoadInv'
<1>1. PICK path, p, n, text, k :
        /\ path = proc.path /\ p = Programs[path] /\ n = Len(p.text)
        /\ text = proc.text /\ k = Len(text)
  OBVIOUS
<1>2. /\ {"path", "size", "text"} \subseteq DOMAIN proc
      /\ path \in DOMAIN Programs /\ proc.size = p.size
      /\ Listing(text) /\ k \in Nat /\ AsFarAsWritten(text, p)
      /\ file \in Seq(Words)
      /\ k <= n => file = Remains(p)[k]
  BY <1>1 DEF LoadInv, ReadInstruction, Listing
<1>3. /\ IsRemains(p, Remains(p)) /\ n \in Nat /\ DOMAIN p.text = 1..n
      /\ \A i \in 1..n : p.text[i] \in [opcode : STRING, args : Seq(Int)]
  BY <1>1, <1>2, ProgramRemains
<1>4. PICK op, rest, call :
        op = NextOpcode.word /\ rest = Rest(file, <<"s">>) /\ call = Arguments(op)
  OBVIOUS
<1>5. PICK instruction :
        instruction = [opcode |-> op, args |-> [j \in 1..Arity[op] |->
                          IF j \in DOMAIN call THEN Scanned(rest, call, j, Unset) ELSE Unset]]
  OBVIOUS
<1>6. /\ proc' = [proc EXCEPT !.text = Append(text, instruction)]
      /\ file' = Rest(rest, call) /\ phase' = "instructions" /\ procs' = procs
      /\ op \in DOMAIN Arity
  BY <1>1, <1>4, <1>5 DEF ReadInstruction, Known
<1>7. /\ DOMAIN proc' = DOMAIN proc
      /\ proc'.path = path /\ proc'.size = p.size /\ proc'.text = Append(text, instruction)
  BY <1>1, <1>2, <1>6
<1>8. /\ Listing(proc'.text) /\ Len(proc'.text) = k + 1
      /\ proc'.text[k + 1] = instruction
      /\ \A i \in 1..k : proc'.text[i] = text[i]
  BY <1>1, <1>2, <1>7, Appended
<1>9. file' \in Seq(Words)
  <2>1. PICK one, s : one = 1 /\ s = <<"s">>
    OBVIOUS
  <2>2. one \in Nat /\ DOMAIN s = 1..one /\ Len(s) = one
    BY <2>1
  <2>3. rest \in Seq(Words)
    BY <1>2, <1>4, <2>1, <2>2, RestIsWords
  <2>4. PICK L : L = Arity[op]
    OBVIOUS
  <2>5. L \in Nat
    <3>1. op \in {"calc", "alloc", "free", "read", "write"}
      BY <1>6 DEF Arity
    <3> QED
      BY <2>4, <3>1 DEF Arity
  <2>6. DOMAIN call = 1..L /\ Len(call) = L
    BY <1>4, <2>4, <2>5 DEF Arguments, Times
  <2> QED
    BY <1>6, <2>3, <2>5, <2>6, RestIsWords
<1>10. ASSUME k + 1 \in 1..n
       PROVE  /\ file' = Remains(p)[k + 1]
              /\ instruction.opcode = p.text[k + 1].opcode
              /\ \A j \in DOMAIN p.text[k + 1].args : instruction.args[j] = p.text[k + 1].args[j]
  <2>1. PICK w, args, t : /\ w = p.text[k + 1].opcode /\ args = p.text[k + 1].args
                          /\ t = Remains(p)[k + 1]
    OBVIOUS
  <2>2. /\ p.text[k + 1] \in [opcode : STRING, args : Seq(Int)]
        /\ w \in STRING /\ args \in Seq(Int)
    BY <1>3, <1>10, <2>1
  <2>3. k <= n /\ k + 1 \in 0..n /\ (k + 1) - 1 = k
    BY <1>2, <1>3, <1>10
  <2>4. t \in Seq(Words) /\ file = InstructionWords(p.text[k + 1]) \o t
    <3>1. Remains(p)[(k + 1) - 1] = InstructionWords(p.text[k + 1]) \o Remains(p)[k + 1]
      BY <1>1, <1>3, <1>10 DEF IsRemains
    <3>2. Remains(p)[k + 1] \in Seq(Words)
      BY <1>1, <1>3, <2>3 DEF IsRemains
    <3> QED
      BY <1>2, <2>1, <2>3, <3>1, <3>2
  <2>5. /\ Numbers(args) \in Seq(Words)
        /\ file = <<Word(w)>> \o (Numbers(args) \o t) /\ Numbers(args) \o t \in Seq(Words)
    <3>1. PICK a, b : a = <<Word(w)>> /\ b = Numbers(args)
      OBVIOUS
    <3>2. /\ InstructionWords(p.text[k + 1]) = a \o b
          /\ a \in Seq(Words) /\ b \in Seq(Words)
      BY <2>1, <2>2, <3>1, InstructionFormat
    <3>3. (a \o b) \o t = a \o (b \o t)
      BY <2>4, <3>2, ConcatAssociative
    <3>4. b \o t \in Seq(Words)
      BY <2>4, <3>2
    <3> QED
      BY <2>4, <3>1, <3>2, <3>3, <3>4
  <2>6. NextOpcode = Word(w) /\ rest = Numbers(args) \o t
    BY <1>4, <2>2, <2>5, OpcodeReads
  <2>7. op = w
    BY <1>4, <2>6 DEF Word
  <2>8. Len(args) <= Arity[op]
    <3>1. k + 1 \in DOMAIN Programs[path].text
      BY <1>1, <1>3, <1>10
    <3> QED
      BY <1>1, <1>2, <1>6, <2>1, <2>7, <3>1, ProgramsAssumption
  <2>9. t = << >> \/ \E v \in STRING : t[1] = Word(v)
    <3>1. CASE k + 1 = n
      BY <1>1, <1>3, <2>1, <3>1 DEF IsRemains
    <3>2. CASE k + 1 # n
      <4>1. k + 2 \in 1..n /\ k + 2 \in 0..n /\ (k + 2) - 1 = k + 1
        BY <1>2, <1>3, <1>10, <3>2
      <4>2. t = InstructionWords(p.text[k + 2]) \o Remains(p)[k + 2]
            /\ Remains(p)[k + 2] \in Seq(Words)
        BY <1>1, <1>3, <2>1, <4>1 DEF IsRemains
      <4>3. PICK v, a, b, u : /\ v = p.text[k + 2].opcode /\ a = <<Word(v)>>
                              /\ b = Numbers(p.text[k + 2].args) /\ u = Remains(p)[k + 2]
        OBVIOUS
      <4>4. p.text[k + 2] \in [opcode : STRING, args : Seq(Int)]
        BY <1>3, <4>1
      <4>5. /\ InstructionWords(p.text[k + 2]) = a \o b
            /\ a \in Seq(Words) /\ b \in Seq(Words) /\ v \in STRING
        BY <4>3, <4>4, InstructionFormat
      <4>6. (a \o b) \o u = a \o (b \o u) /\ b \o u \in Seq(Words)
        <5>1. u \in Seq(Words)
          BY <4>2, <4>3
        <5>2. (a \o b) \o u = a \o (b \o u)
          BY <4>5, <5>1, ConcatAssociative
        <5> QED
          BY <4>5, <5>1, <5>2
      <4>7. t = a \o (b \o u)
        BY <4>2, <4>3, <4>5, <4>6
      <4>8. 1 \in 1..Len(a) /\ a[1] = Word(v)
        BY <4>3
      <4>9. t[1] = Word(v)
        BY <4>5, <4>6, <4>7, <4>8, Joined
      <4> QED
        BY <4>5, <4>9
    <3> QED
      BY <3>1, <3>2
  <2>10. /\ Rest(rest, call) = t
         /\ \A j \in 1..Len(args) : j \in 1..Arity[op] /\ j \in DOMAIN call
              /\ Scanned(rest, call, j, Unset) = args[j]
    <3>1. /\ Rest(Numbers(args) \o t, Arguments(op)) = t
          /\ \A j \in 1..Len(args) : j \in 1..Arity[op] /\ j \in DOMAIN Arguments(op)
               /\ Scanned(Numbers(args) \o t, Arguments(op), j, Unset) = args[j]
      BY <1>6, <2>2, <2>4, <2>8, <2>9, ArgumentsRead
    <3> QED
      BY <1>4, <2>6, <3>1
  <2>11. DOMAIN args = 1..Len(args)
    BY <2>2
  <2>12. \A j \in DOMAIN args : instruction.args[j] = args[j]
    BY <1>5, <2>10, <2>11
  <2>13. instruction.opcode = op
    BY <1>5
  <2> QED
    BY <1>6, <2>1, <2>7, <2>10, <2>12, <2>13
<1>11. AsFarAsWritten(proc'.text, p)
  <2>1. DOMAIN proc'.text = 1..k + 1 /\ DOMAIN text = 1..k
    BY <1>1, <1>2, <1>8 DEF Listing
  <2> SUFFICES ASSUME NEW i \in 1..k + 1, i \in 1..n
               PROVE  /\ proc'.text[i].opcode = p.text[i].opcode
                      /\ \A j \in DOMAIN p.text[i].args : proc'.text[i].args[j] = p.text[i].args[j]
    BY <1>3, <2>1 DEF AsFarAsWritten
  <2>2. CASE i = k + 1
    BY <1>8, <1>10, <2>2
  <2>3. CASE i # k + 1
    <3>1. i \in 1..k
      BY <1>2, <2>3
    <3> QED
      BY <1>2, <1>3, <1>8, <2>1, <3>1 DEF AsFarAsWritten
  <2> QED
    BY <2>2, <2>3
<1>12. Len(proc'.text) <= n => file' = Remains(p)[Len(proc'.text)]
  <2>1. k + 1 <= n => k + 1 \in 1..n
    BY <1>2, <1>3
  <2> QED
    BY <1>8, <1>10, <2>1
<1>13. /\ Listing(procs')
       /\ \A i \in 1..Len(procs') :
            /\ Len(procs'[i].text) = Programs[procs'[i].path].size
            /\ AsFarAsWritten(procs'[i].text, Programs[procs'[i].path])
  BY <1>6 DEF LoadInv
<1> QED
  BY <1>1, <1>2, <1>7, <1>8, <1>9, <1>11, <1>12, <1>13 DEF LoadInv

(* A process with all its instructions joins those that are loaded. *)
LEMMA LoadedKeep ==
  ASSUME LoadInv, ProgramLoaded
  PROVE  LoadInv'
<1>1. /\ procs' = Append(procs, proc) /\ phase' = "load"
      /\ phase = "instructions" /\ Len(proc.text) = proc.size
  BY DEF ProgramLoaded, Goto
<1>2. /\ Listing(procs)
      /\ Len(proc.text) = Programs[proc.path].size
      /\ AsFarAsWritten(proc.text, Programs[proc.path])
      /\ \A i \in 1..Len(procs) :
            /\ Len(procs[i].text) = Programs[procs[i].path].size
            /\ AsFarAsWritten(procs[i].text, Programs[procs[i].path])
  BY <1>1 DEF LoadInv
<1>3. PICK n : n = Len(procs)
  OBVIOUS
<1>4. n \in Nat
  BY <1>2, <1>3 DEF Listing
<1>5. /\ Listing(procs') /\ Len(procs') = n + 1 /\ procs'[n + 1] = proc
      /\ \A i \in 1..n : procs'[i] = procs[i]
  BY <1>1, <1>2, <1>3, Appended
<1>6. \A i \in 1..n + 1 : i \in 1..n \/ i = n + 1
  BY <1>4
<1>7. \A i \in 1..Len(procs') :
        /\ Len(procs'[i].text) = Programs[procs'[i].path].size
        /\ AsFarAsWritten(procs'[i].text, Programs[procs'[i].path])
  BY <1>2, <1>3, <1>5, <1>6
<1> QED
  BY <1>1, <1>5, <1>7 DEF LoadInv

(* Every step of main() and of the loader. *)
LEMMA LoadKeeps ==
  ASSUME LoadInv, [Next]_vars
  PROVE  LoadInv'
<1>1. ASSUME UNCHANGED procs, phase' # "instructions"
      PROVE  LoadInv'
  BY <1>1 DEF LoadInv
<1>2. ASSUME UNCHANGED <<procs, proc, phase, file>>
      PROVE  LoadInv'
  BY <1>2 DEF LoadInv
<1>3. CASE OpenProgram
  BY <1>3, OpenReads
<1>4. CASE ReadInstruction
  BY <1>4, InstructionReads
<1>5. CASE ProgramLoaded
  BY <1>5, LoadedKeep
<1>6. CASE NoConfig \/ ReadHeader \/ ReadMemorySizes \/ ConfigDone \/ StartThreads \/ TestProgram
           \/ NoProgram \/ UnknownOpcode \/ AllLoaded
  <2>1. UNCHANGED procs /\ phase' # "instructions"
    BY <1>6 DEF NoConfig, ReadHeader, ReadMemorySizes, ConfigDone, StartThreads, TestProgram,
                NoProgram, UnknownOpcode, AllLoaded, Goto, loadVars
  <2> QED
    BY <1>1, <2>1
<1>7. CASE ReadProcess
  <2>1. UNCHANGED <<procs, proc, phase>> /\ phase = "processes"
    BY <1>7 DEF ReadProcess, loadVars
  <2> QED
    BY <1>1, <2>1
<1>8. CASE CreateDevice \/ UseDevices \/ UNCHANGED vars
  <2>1. UNCHANGED <<procs, proc, phase, file>>
    BY <1>8 DEF CreateDevice, UseDevices, vars, loadVars
  <2> QED
    BY <1>2, <2>1
<1> QED
  BY <1>3, <1>4, <1>5, <1>6, <1>7, <1>8 DEF Next, Terminated

(* Before main() nothing is loaded. *)
LEMMA InitLoad == Init => LoadInv
<1> SUFFICES ASSUME Init PROVE LoadInv
  OBVIOUS
<1>1. procs = << >> /\ phase = "main"
  BY DEF Init
<1>2. Listing(<< >>) /\ 1..Len(<< >>) = {}
  BY DEF Listing
<1> QED
  BY <1>1, <1>2 DEF LoadInv

(* A process has as many instructions as its file announces, and they are
   those of the file as far as it goes, for every set of program files:
   nothing of one instruction is read as part of another, also when arguments
   are missing, instructions are fewer or more than announced, and the
   buffers of load() are used again. *)
THEOREM ProgramsLoaded == Spec => []ProgramsAsWritten
<1>1. Init => LoadInv
  BY InitLoad
<1>2. LoadInv /\ [Next]_vars => LoadInv'
  BY LoadKeeps
<1>3. LoadInv => ProgramsAsWritten
  <2> SUFFICES ASSUME LoadInv PROVE ProgramsAsWritten
    OBVIOUS
  <2>1. DOMAIN procs = 1..Len(procs)
    BY DEF LoadInv, Listing
  <2> QED
    BY <2>1 DEF LoadInv, AsFarAsWritten, ProgramsAsWritten
<1> QED
  BY <1>1, <1>2, <1>3, PTL DEF Spec

=============================================================================
