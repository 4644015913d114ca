-------------------------- MODULE VMRegionsProofs --------------------------
(***************************************************************************)
(* The symbols and the free list of a process never share a byte, for any  *)
(* symbols, sizes and page size.                                           *)
(***************************************************************************)
EXTENDS VMRegions, TLAPS, SequenceTheorems

RegInv == TypeOK /\ BelowBrk /\ NoOverlap

-----------------------------------------------------------------------------
(* Arithmetic of the page size.                                            *)

\* PAGING_PAGE_ALIGNSZ of mm.h rounds up: the result is no smaller than the
\* size that is aligned.
LEMMA PageAlignUp ==
    ASSUME NEW sz \in Nat
    PROVE  PageAlign(sz) \in Nat /\ PageAlign(sz) >= sz
<1> DEFINE P == PAGING_PAGESZ
           q == (sz + P - 1) \div P
<1>1. P \in Nat /\ P > 0 BY PageAssumption
<1>2. q \in Nat BY <1>1
<1>3. sz + P - 1 < P * (q + 1) BY <1>1
<1>4. P * (q + 1) = q * P + P BY <1>1, <1>2
<1>5. q * P \in Nat BY <1>1, <1>2
<1> HIDE DEF q
<1>6. q * P >= sz BY <1>1, <1>3, <1>4, <1>5
<1> QED BY <1>5, <1>6 DEF PageAlign, q

-----------------------------------------------------------------------------
(* The invariant.                                                          *)

\* An area starts empty.
LEMMA InitInv == Init => RegInv
<1> SUFFICES ASSUME Init PROVE RegInv OBVIOUS
<1>1. TypeOK
  <2>1. Region(0, 0) \in Regions /\ NoRegion \in Regions BY DEF Region, NoRegion, Regions
  <2>2. vm_freerg_list \in Seq(Regions) BY <2>1 DEF Init
  <2>3. symrgtbl \in [Ids -> Regions] BY <2>1 DEF Init
  <2>4. sbrk \in Nat /\ vm_end \in Nat /\ rgit \in Nat \ {0} /\ taken \in Nat BY DEF Init
  <2>5. pc \in {"idle", "search"} /\ mapped \in SUBSET Nat /\ aborted \in BOOLEAN BY DEF Init
  <2> QED BY <2>1, <2>2, <2>3, <2>4, <2>5 DEF Init, TypeOK
<1>2. BelowBrk
  BY DEF Init, BelowBrk, Inside, Region, NoRegion
<1>3. NoOverlap
  BY DEF Init, NoOverlap, Apart, Region, NoRegion
<1> QED BY <1>1, <1>2, <1>3 DEF RegInv


\* A piece of a free region lies apart from whatever the region lies apart
\* from.
LEMMA ApartPiece ==
    ASSUME NEW r \in Regions, NEW s \in Regions, NEW t \in Regions, Apart(r, s),
           t.rg_start >= r.rg_start, t.rg_end <= r.rg_end
    PROVE  Apart(t, s)
BY DEF Apart, Regions

\* That two regions lie apart does not depend on their order.
LEMMA ApartSymmetric ==
    ASSUME NEW r, NEW s, Apart(r, s)
    PROVE  Apart(s, r)
BY DEF Apart

\* The empty region overlaps nothing.
LEMMA NoRegionApart ==
    ASSUME NEW r \in Regions, r = NoRegion \/ Inside(r)
    PROVE  Apart(NoRegion, r)
BY DEF Apart, Inside, NoRegion, Region, Regions

\* Whatever is cut from the region the search looks at lies apart from every
\* symbol and from every other free region.
LEMMA PieceApart ==
    ASSUME RegInv, Searching, NEW t \in Regions,
           t.rg_start >= vm_freerg_list[rgit].rg_start,
           t.rg_end <= vm_freerg_list[rgit].rg_end
    PROVE  /\ \A i \in Ids : Apart(t, symrgtbl[i])
           /\ \A k \in 1..Len(vm_freerg_list) : k # rgit => Apart(t, vm_freerg_list[k])
<1> USE DEF RegInv
<1>1. PICK it : it = vm_freerg_list[rgit] OBVIOUS
<1>2. \A k \in 1..Len(vm_freerg_list) : vm_freerg_list[k] \in Regions BY DEF TypeOK
<1>3. it \in Regions BY <1>1, <1>2 DEF Searching
<1>4. ASSUME NEW i \in Ids PROVE Apart(t, symrgtbl[i])
  <2>1. symrgtbl[i] \in Regions BY DEF TypeOK
  <2>2. Apart(it, symrgtbl[i]) BY <1>1, ApartSymmetric DEF NoOverlap, Searching
  <2> QED BY <1>1, <1>3, <2>1, <2>2, ApartPiece
<1>5. ASSUME NEW k \in 1..Len(vm_freerg_list), k # rgit PROVE Apart(t, vm_freerg_list[k])
  <2>1. Apart(it, vm_freerg_list[k]) BY <1>1, <1>5 DEF NoOverlap, Searching
  <2> QED BY <1>1, <1>2, <1>3, <2>1, ApartPiece
<1> QED BY <1>4, <1>5

\* The loop of get_free_vmrg_area cuts a piece of size bytes from the region
\* it looks at: what remains of it, and every other region, lies apart from
\* the piece.
LEMMA TakePartInv == RegInv /\ TakePart => RegInv'
<1> SUFFICES ASSUME RegInv, TakePart PROVE RegInv' OBVIOUS
<1> USE DEF RegInv
<1>1. PICK n : n = Len(vm_freerg_list) OBVIOUS
<1>2. PICK it : it = vm_freerg_list[rgit] OBVIOUS
<1>3. n \in Nat /\ DOMAIN vm_freerg_list = 1..n BY <1>1 DEF TypeOK
<1>4. rgit \in 1..n /\ it \in Regions BY <1>1, <1>2, <1>3 DEF TakePart, Searching, TypeOK
<1>5. size \in Nat /\ size > 0 BY SizesAssumption DEF TypeOK
<1>6. newrg' = Region(it.rg_start, it.rg_start + size) BY <1>2 DEF TakePart, Found
<1>7. PICK rest : rest = Region(it.rg_start + size, it.rg_end) OBVIOUS
<1>8. newrg' \in Regions /\ rest \in Regions BY <1>4, <1>5, <1>6, <1>7 DEF Region, Regions
<1>9. vm_freerg_list' = [vm_freerg_list EXCEPT ![rgit] = rest]
  <2>1. [it EXCEPT !.rg_start = @ + size] = rest BY <1>4, <1>7 DEF Region, Regions
  <2>2. vm_freerg_list' = [vm_freerg_list EXCEPT ![rgit] = [it EXCEPT !.rg_start = @ + size]]
    BY <1>2 DEF TakePart
  <2> QED BY <2>1, <2>2
<1>10. vm_freerg_list' \in Seq(Regions) /\ Len(vm_freerg_list') = n
  BY <1>1, <1>4, <1>8, <1>9, ExceptSeq DEF TypeOK
<1>11. \A k \in 1..n : vm_freerg_list'[k] = IF k = rgit THEN rest ELSE vm_freerg_list[k]
  BY <1>3, <1>9
<1>12. UNCHANGED <<symrgtbl, sbrk, vm_end>> BY DEF TakePart, limits
<1>13. TypeOK'
  <2>1. UNCHANGED <<pc, rgid, size, rgit, aborted, mapped>> BY DEF TakePart, args, limits
  <2>2. taken' \in Nat BY DEF TakePart, TypeOK
  <2> QED BY <1>8, <1>10, <1>12, <2>1, <2>2 DEF TypeOK
<1>14. it.rg_start + size < it.rg_end BY <1>2 DEF TakePart
<1>15. Inside(it) BY <1>1, <1>2, <1>4 DEF BelowBrk
<1>16. BelowBrk'
  <2>1. Inside(newrg') BY <1>4, <1>5, <1>6, <1>14, <1>15 DEF Inside, Region, Regions, TypeOK
  <2>2. Inside(rest) BY <1>4, <1>5, <1>7, <1>14, <1>15 DEF Inside, Region, Regions
  <2>3. \A k \in 1..n : Inside(vm_freerg_list'[k])
    BY <1>1, <1>11, <2>2 DEF BelowBrk
  <2> QED BY <1>10, <1>12, <2>1, <2>3 DEF BelowBrk, Inside
<1>17. NoOverlap'
  <2>1. /\ \A i \in Ids : Apart(newrg', symrgtbl[i])
        /\ \A k \in 1..n : k # rgit => Apart(newrg', vm_freerg_list[k])
    BY <1>1, <1>2, <1>4, <1>5, <1>6, <1>8, <1>14, PieceApart DEF Region, Regions, TakePart
  <2>2. /\ \A i \in Ids : Apart(rest, symrgtbl[i])
        /\ \A k \in 1..n : k # rgit => Apart(rest, vm_freerg_list[k])
    BY <1>1, <1>2, <1>4, <1>5, <1>7, <1>8, PieceApart DEF Region, Regions, TakePart
  <2>3. Apart(newrg', rest) BY <1>4, <1>5, <1>6, <1>7 DEF Apart, Region, Regions
  <2>4. ASSUME NEW i \in Ids, NEW k \in 1..n PROVE Apart(symrgtbl[i], vm_freerg_list'[k])
    BY <1>1, <1>11, <2>2, ApartSymmetric DEF NoOverlap
  <2>5. ASSUME NEW k \in 1..n, NEW l \in 1..n, k # l
        PROVE  Apart(vm_freerg_list'[k], vm_freerg_list'[l])
    BY <1>1, <1>11, <2>2, <2>5, ApartSymmetric DEF NoOverlap
  <2>6. ASSUME NEW k \in 1..n PROVE Apart(newrg', vm_freerg_list'[k])
    BY <1>11, <2>1, <2>3
  <2> QED BY <1>10, <1>12, <2>1, <2>4, <2>5, <2>6 DEF NoOverlap, Apart
<1> QED BY <1>13, <1>16, <1>17

\* A region as large as the piece goes away, but for the last of the list,
\* which stays as an empty region.
LEMMA TakeAllInv == RegInv /\ TakeAll => RegInv'
<1> SUFFICES ASSUME RegInv, TakeAll PROVE RegInv' OBVIOUS
<1> USE DEF RegInv
<1>1. PICK n : n = Len(vm_freerg_list) OBVIOUS
<1>2. PICK it : it = vm_freerg_list[rgit] OBVIOUS
<1>3. n \in Nat /\ DOMAIN vm_freerg_list = 1..n BY <1>1 DEF TypeOK
<1>4. rgit \in 1..n /\ it \in Regions BY <1>1, <1>2, <1>3 DEF TakeAll, Searching, TypeOK
<1>5. size \in Nat /\ size > 0 BY SizesAssumption DEF TypeOK
<1>6. it.rg_start + size = it.rg_end BY <1>2 DEF TakeAll
<1>7. newrg' = Region(it.rg_start, it.rg_end) BY <1>2, <1>6 DEF TakeAll, Found
<1>8. newrg' \in Regions BY <1>4, <1>7 DEF Region, Regions
<1>9. UNCHANGED <<symrgtbl, sbrk, vm_end>> BY DEF TakeAll, limits
<1>10. Inside(it) BY <1>1, <1>2, <1>4 DEF BelowBrk
<1>11. Inside(newrg') BY <1>4, <1>7, <1>10 DEF Inside, Region, Regions
<1>12. /\ \A i \in Ids : Apart(newrg', symrgtbl[i])
       /\ \A k \in 1..n : k # rgit => Apart(newrg', vm_freerg_list[k])
  BY <1>1, <1>2, <1>4, <1>7, <1>8, PieceApart DEF Region, Regions, TakeAll
<1>13. TypeOK' <=> vm_freerg_list' \in Seq(Regions)
  <2>1. UNCHANGED <<pc, rgid, size, rgit, aborted, mapped>> BY DEF TakeAll, args, limits
  <2>2. taken' \in Nat BY DEF TakeAll, TypeOK
  <2> QED BY <1>8, <1>9, <2>1, <2>2 DEF TypeOK
<1>14. CASE rgit < n
  <2>1. vm_freerg_list' =
          [j \in 1..n - 1 |-> IF j < rgit THEN vm_freerg_list[j] ELSE vm_freerg_list[j + 1]]
    BY <1>1, <1>14 DEF TakeAll, Without
  <2>2. PICK from : from = [j \in 1..n - 1 |-> IF j < rgit THEN j ELSE j + 1] OBVIOUS
  <2>3. \A j \in 1..n - 1 : from[j] \in 1..n /\ from[j] # rgit BY <1>3, <1>4, <2>2
  <2>4. \A j \in 1..n - 1 : vm_freerg_list'[j] = vm_freerg_list[from[j]] BY <2>1, <2>2
  <2>5. \A k, l \in 1..n - 1 : k # l => from[k] # from[l] BY <1>3, <1>4, <2>2
  <2>6. \A j \in 1..n - 1 : vm_freerg_list'[j] \in Regions
    BY <1>1, <2>3, <2>4 DEF TypeOK
  <2>7. n - 1 \in Nat BY <1>3, <1>4
  <2>8. vm_freerg_list' \in Seq(Regions) /\ Len(vm_freerg_list') = n - 1
    BY <2>1, <2>4, <2>6, <2>7, IsASeq
  <2>9. BelowBrk'
    <3>1. \A j \in 1..n - 1 : Inside(vm_freerg_list'[j])
      BY <1>1, <2>3, <2>4 DEF BelowBrk
    <3> QED BY <1>9, <1>11, <2>8, <3>1 DEF BelowBrk, Inside
  <2>10. NoOverlap'
    <3>1. ASSUME NEW i \in Ids, NEW k \in 1..n - 1 PROVE Apart(symrgtbl[i], vm_freerg_list'[k])
      BY <1>1, <2>3, <2>4 DEF NoOverlap
    <3>2. ASSUME NEW k \in 1..n - 1, NEW l \in 1..n - 1, k # l
          PROVE  Apart(vm_freerg_list'[k], vm_freerg_list'[l])
      BY <1>1, <2>3, <2>4, <2>5, <3>2 DEF NoOverlap
    <3>3. ASSUME NEW k \in 1..n - 1 PROVE Apart(newrg', vm_freerg_list'[k])
      BY <1>12, <2>3, <2>4
    <3> QED BY <1>9, <1>12, <2>8, <3>1, <3>2, <3>3 DEF NoOverlap, Apart
  <2> QED BY <1>13, <2>8, <2>9, <2>10
<1>15. CASE rgit = n
  <2>1. PICK rest : rest = Region(it.rg_end, it.rg_end) OBVIOUS
  <2>2. rest \in Regions BY <1>4, <2>1 DEF Region, Regions
  <2>3. vm_freerg_list' = [vm_freerg_list EXCEPT ![rgit] = rest]
    <3>1. [it EXCEPT !.rg_start = it.rg_end] = rest BY <1>4, <2>1 DEF Region, Regions
    <3>2. vm_freerg_list' = [vm_freerg_list EXCEPT ![rgit] = [it EXCEPT !.rg_start = it.rg_end]]
      BY <1>1, <1>2, <1>3, <1>15 DEF TakeAll
    <3> QED BY <3>1, <3>2
  <2>4. vm_freerg_list' \in Seq(Regions) /\ Len(vm_freerg_list') = n
    BY <1>1, <1>4, <2>2, <2>3, ExceptSeq DEF TypeOK
  <2>5. \A k \in 1..n : vm_freerg_list'[k] = IF k = rgit THEN rest ELSE vm_freerg_list[k]
    BY <1>3, <2>3
  <2>6. BelowBrk'
    <3>1. Inside(rest) BY <1>4, <1>10, <2>1 DEF Inside, Region, Regions
    <3>2. \A k \in 1..n : Inside(vm_freerg_list'[k]) BY <1>1, <2>5, <3>1 DEF BelowBrk
    <3> QED BY <1>9, <1>11, <2>4, <3>2 DEF BelowBrk, Inside
  <2>7. NoOverlap'
    <3>1. /\ \A i \in Ids : Apart(rest, symrgtbl[i])
          /\ \A k \in 1..n : k # rgit => Apart(rest, vm_freerg_list[k])
      <4>1. rest.rg_start >= it.rg_start /\ rest.rg_end <= it.rg_end
        BY <1>4, <1>10, <2>1 DEF Inside, Region, Regions
      <4> QED BY <1>1, <1>2, <2>2, <4>1, PieceApart DEF TakeAll
    <3>2. Apart(newrg', rest) BY <1>4, <1>7, <2>1 DEF Apart, Region, Regions
    <3>3. ASSUME NEW i \in Ids, NEW k \in 1..n PROVE Apart(symrgtbl[i], vm_freerg_list'[k])
      BY <1>1, <2>5, <3>1, ApartSymmetric DEF NoOverlap
    <3>4. ASSUME NEW k \in 1..n, NEW l \in 1..n, k # l
          PROVE  Apart(vm_freerg_list'[k], vm_freerg_list'[l])
      BY <1>1, <2>5, <3>1, <3>4, ApartSymmetric DEF NoOverlap
    <3>5. ASSUME NEW k \in 1..n PROVE Apart(newrg', vm_freerg_list'[k])
      BY <1>12, <2>5, <3>2
    <3> QED BY <1>9, <1>12, <2>4, <3>3, <3>4, <3>5 DEF NoOverlap, Apart
  <2> QED BY <1>13, <2>4, <2>6, <2>7
<1> QED BY <1>3, <1>4, <1>14, <1>15

\* The symbol gets the piece that was found.
LEMMA AllocFreeInv == RegInv /\ AllocFree => RegInv'
<1> SUFFICES ASSUME RegInv, AllocFree PROVE RegInv' OBVIOUS
<1> USE DEF RegInv
<1>1. UNCHANGED <<vm_freerg_list, sbrk, vm_end, mapped, rgid, size, aborted>>
  BY DEF AllocFree, limits, args
<1>2. newrg' = NoRegion /\ NoRegion \in Regions
  BY DEF AllocFree, Return, NoRegion, Region, Regions
<1>3. \A i \in Ids : symrgtbl'[i] = IF i = rgid THEN newrg ELSE symrgtbl[i]
  BY DEF AllocFree, TypeOK
<1>4. TypeOK'
  <2>1. symrgtbl' \in [Ids -> Regions] BY DEF AllocFree, TypeOK
  <2>2. pc' = "idle" /\ rgit' = 1 /\ taken' = 0 BY DEF AllocFree, Return
  <2> QED BY <1>1, <1>2, <2>1, <2>2 DEF TypeOK
<1>5. BelowBrk'
  <2>1. \A i \in Ids : symrgtbl'[i] = NoRegion \/ Inside(symrgtbl'[i]) BY <1>3 DEF BelowBrk
  <2> QED BY <1>1, <1>2, <2>1 DEF BelowBrk, Inside
<1>6. NoOverlap'
  <2>1. \A i, j \in Ids : i # j => Apart(symrgtbl'[i], symrgtbl'[j])
    BY <1>3, ApartSymmetric DEF NoOverlap
  <2>2. \A i \in Ids, k \in 1..Len(vm_freerg_list) : Apart(symrgtbl'[i], vm_freerg_list[k])
    BY <1>3 DEF NoOverlap
  <2>3. \A i \in Ids : Apart(newrg', symrgtbl'[i])
    BY <1>2, <1>4, <1>5, NoRegionApart, <1>1 DEF TypeOK, BelowBrk, Inside
  <2>4. \A k \in 1..Len(vm_freerg_list) : Apart(newrg', vm_freerg_list[k])
    BY <1>2, NoRegionApart DEF TypeOK, BelowBrk
  <2> QED BY <1>1, <2>1, <2>2, <2>3, <2>4 DEF NoOverlap, Apart
<1> QED BY <1>4, <1>5, <1>6

\* The symbol gets the bytes from sbrk on, beyond every region there is.
LEMMA AllocAtBrkInv ==
    ASSUME RegInv, AllocAtBrk, Return, newrg = NoRegion,
           UNCHANGED <<vm_freerg_list, rgid, size, aborted>>,
           vm_end' \in Nat, vm_end' >= sbrk + size, mapped' \in SUBSET Nat
    PROVE  RegInv'
<1> USE DEF RegInv
<1>1. size \in Nat /\ sbrk \in Nat BY SizesAssumption DEF TypeOK
<1>2. PICK new : new = Region(sbrk, sbrk + size) OBVIOUS
<1>3. new \in Regions /\ NoRegion \in Regions BY <1>1, <1>2 DEF Region, Regions, NoRegion
<1>4. \A i \in Ids : symrgtbl'[i] = IF i = rgid THEN new ELSE symrgtbl[i]
  BY <1>2 DEF AllocAtBrk, TypeOK
<1>5. sbrk' = sbrk + size /\ newrg' = NoRegion BY DEF AllocAtBrk, Return
<1>6. TypeOK'
  <2>1. symrgtbl' \in [Ids -> Regions] BY <1>2, <1>3 DEF AllocAtBrk, TypeOK
  <2>2. pc' = "idle" /\ rgit' = 1 /\ taken' = 0 BY DEF Return
  <2>3. sbrk' \in Nat BY <1>1, <1>5
  <2> QED BY <1>3, <1>5, <2>1, <2>2, <2>3 DEF TypeOK
<1>7. ASSUME NEW r \in Regions, Inside(r) PROVE Inside(r)' /\ Apart(r, new)
  BY <1>1, <1>2, <1>5, <1>7 DEF Inside, Apart, Region, Regions
<1>8. Inside(new)' BY <1>1, <1>2, <1>5 DEF Inside, Region
<1>9. BelowBrk'
  <2>1. ASSUME NEW i \in Ids PROVE (symrgtbl[i] = NoRegion \/ Inside(symrgtbl[i]))'
    <3>1. CASE i = rgid BY <1>4, <1>8, <3>1 DEF Inside
    <3>2. CASE i # rgid
      <4>1. symrgtbl[i] \in Regions /\ symrgtbl'[i] = symrgtbl[i] BY <1>4, <3>2 DEF TypeOK
      <4> QED BY <1>7, <4>1 DEF BelowBrk, Inside
    <3> QED BY <3>1, <3>2
  <2>2. ASSUME NEW k \in 1..Len(vm_freerg_list) PROVE Inside(vm_freerg_list[k])'
    BY <1>7 DEF TypeOK, BelowBrk, Inside
  <2> QED BY <1>5, <2>1, <2>2 DEF BelowBrk, Inside
<1>10. NoOverlap'
  <2>1. ASSUME NEW i \in Ids PROVE i # rgid => Apart(symrgtbl[i], new) /\ Apart(new, symrgtbl[i])
    <3>1. symrgtbl[i] \in Regions BY DEF TypeOK
    <3>2. CASE symrgtbl[i] = NoRegion
      BY <1>1, <1>2, <3>2 DEF Apart, NoRegion, Region
    <3>3. CASE Inside(symrgtbl[i]) BY <1>7, <3>1, <3>3, ApartSymmetric
    <3> QED BY <3>2, <3>3 DEF BelowBrk
  <2>2. \A i, j \in Ids : i # j => Apart(symrgtbl'[i], symrgtbl'[j])
    BY <1>4, <2>1 DEF NoOverlap
  <2>3. ASSUME NEW k \in 1..Len(vm_freerg_list) PROVE Apart(new, vm_freerg_list[k])
    BY <1>7, ApartSymmetric DEF TypeOK, BelowBrk
  <2>4. \A i \in Ids, k \in 1..Len(vm_freerg_list) : Apart(symrgtbl'[i], vm_freerg_list[k])
    BY <1>4, <2>3 DEF NoOverlap
  <2>5. Apart(NoRegion, new) BY <1>1, <1>2 DEF Apart, NoRegion, Region
  <2>6. \A i \in Ids : Apart(newrg', symrgtbl'[i])
    BY <1>4, <1>5, <2>5 DEF NoOverlap
  <2>7. \A k \in 1..Len(vm_freerg_list) : Apart(newrg', vm_freerg_list[k])
    BY <1>5 DEF NoOverlap
  <2> QED BY <2>2, <2>4, <2>6, <2>7 DEF NoOverlap, Apart
<1> QED BY <1>6, <1>9, <1>10

\* Taking the gap between sbrk and vm_end keeps all regions below sbrk and apart.
LEMMA AllocGapInv == RegInv /\ AllocGap => RegInv'
<1> SUFFICES ASSUME RegInv, AllocGap PROVE RegInv' OBVIOUS
<1>1. vm_end' = vm_end /\ mapped' = mapped /\ UNCHANGED <<vm_freerg_list, rgid, size, aborted>>
  BY DEF AllocGap, args
<1>2. vm_end >= sbrk + size /\ vm_end \in Nat /\ mapped \in SUBSET Nat
  BY SizesAssumption DEF RegInv, TypeOK, AllocGap, Gap
<1> QED BY <1>1, <1>2, AllocAtBrkInv DEF AllocGap

\* vm_end grows by whole pages, no fewer bytes than are missing.
LEMMA GrowUp ==
    ASSUME TypeOK, BelowBrk, Gap < size
    PROVE  /\ vm_end + PageAlign(size - Gap) \in Nat
           /\ vm_end + PageAlign(size - Gap) >= sbrk + size
           /\ NewPages \in SUBSET Nat
<1>1. size - Gap \in Nat /\ vm_end \in Nat /\ sbrk \in Nat /\ size \in Nat
  BY SizesAssumption DEF TypeOK, BelowBrk, Gap
<1>2. PageAlign(size - Gap) \in Nat /\ PageAlign(size - Gap) >= size - Gap BY <1>1, PageAlignUp
<1>3. NewPages \in SUBSET Nat BY DEF NewPages
<1> QED BY <1>1, <1>2, <1>3 DEF Gap

\* So does growing the area.
LEMMA AllocGrowInv == RegInv /\ AllocGrow => RegInv'
<1> SUFFICES ASSUME RegInv, AllocGrow PROVE RegInv' OBVIOUS
<1>1. UNCHANGED <<vm_freerg_list, rgid, size, aborted>> BY DEF AllocGrow, args
<1>2. vm_end' \in Nat /\ vm_end' >= sbrk + size BY GrowUp DEF RegInv, AllocGrow
<1>3. mapped' \in SUBSET Nat BY GrowUp DEF RegInv, TypeOK, AllocGrow
<1> QED BY <1>1, <1>2, <1>3, AllocAtBrkInv DEF AllocGrow

\* And growing that ends the program.
LEMMA GrowFailsInv == RegInv /\ GrowFails => RegInv'
<1> SUFFICES ASSUME RegInv, GrowFails PROVE RegInv' OBVIOUS
<1> USE DEF RegInv
<1>1. UNCHANGED <<vm_freerg_list, symrgtbl, sbrk, pc, rgid, size, rgit, newrg, taken>>
  BY DEF GrowFails, args
<1>2. vm_end' \in Nat /\ vm_end' >= sbrk
  <2>1. vm_end' \in Nat /\ vm_end' >= sbrk + size BY GrowUp DEF GrowFails
  <2> QED BY <2>1, SizesAssumption DEF TypeOK
<1>3. mapped' \in SUBSET Nat BY GrowUp DEF TypeOK, GrowFails
<1>4. TypeOK' BY <1>1, <1>2, <1>3 DEF TypeOK, GrowFails
<1>5. BelowBrk' BY <1>1, <1>2 DEF BelowBrk, Inside
<1>6. NoOverlap' BY <1>1 DEF NoOverlap, Apart
<1> QED BY <1>4, <1>5, <1>6

\* The region of the symbol goes to the free list, and the symbol has none.
LEMMA FreeInv == ASSUME NEW f \in Ids PROVE RegInv /\ Free(f) => RegInv'
<1> SUFFICES ASSUME RegInv, Free(f) PROVE RegInv' OBVIOUS
<1> USE DEF RegInv
<1>1. PICK n : n = Len(vm_freerg_list) OBVIOUS
<1>2. PICK r : r = symrgtbl[f] OBVIOUS
<1>3. n \in Nat /\ r \in Regions BY <1>1, <1>2 DEF TypeOK
<1>4. Inside(r) BY <1>2 DEF BelowBrk, Free, Resolves, NoRegion, Region
<1>5. vm_freerg_list' = <<r>> \o vm_freerg_list BY <1>2 DEF Free
<1>6. /\ vm_freerg_list' \in Seq(Regions)
      /\ Len(vm_freerg_list') = n + 1
      /\ \A k \in 1..n + 1 :
            vm_freerg_list'[k] = IF k = 1 THEN r ELSE vm_freerg_list[k - 1]
  BY <1>1, <1>3, <1>5, ConcatProperties DEF TypeOK
<1>7. \A i \in Ids : symrgtbl'[i] = IF i = f THEN NoRegion ELSE symrgtbl[i]
  BY DEF Free, TypeOK
<1>8. UNCHANGED <<sbrk, vm_end, mapped, pc, rgid, size, rgit, newrg, taken, aborted>>
  BY DEF Free, limits, args
<1>9. NoRegion \in Regions BY DEF NoRegion, Region, Regions
<1>10. TypeOK'
  <2>1. symrgtbl' \in [Ids -> Regions] BY <1>9 DEF Free, TypeOK
  <2> QED BY <1>6, <1>8, <2>1 DEF TypeOK
<1>11. BelowBrk'
  <2>1. \A k \in 1..n + 1 : Inside(vm_freerg_list'[k])
    BY <1>1, <1>3, <1>4, <1>6 DEF BelowBrk
  <2>2. \A i \in Ids : symrgtbl'[i] = NoRegion \/ Inside(symrgtbl'[i]) BY <1>7 DEF BelowBrk
  <2> QED BY <1>6, <1>8, <2>1, <2>2 DEF BelowBrk, Inside
<1>12. NoOverlap'
  <2>1. \A k \in 1..n : vm_freerg_list[k] \in Regions /\ Inside(vm_freerg_list[k])
    BY <1>1 DEF TypeOK, BelowBrk
  <2>2. \A k \in 1..n : Apart(NoRegion, vm_freerg_list[k]) BY <2>1, NoRegionApart
  <2>3. Apart(NoRegion, r) BY <1>3, <1>4, NoRegionApart
  <2>4. ASSUME NEW i \in Ids PROVE Apart(NoRegion, symrgtbl[i])
    BY NoRegionApart DEF TypeOK, BelowBrk
  <2>5. Apart(NoRegion, NoRegion) BY DEF Apart, NoRegion, Region
  <2>6. \A i, j \in Ids : i # j => Apart(symrgtbl'[i], symrgtbl'[j])
    BY <1>7, <2>4, ApartSymmetric DEF NoOverlap
  <2>7. ASSUME NEW i \in Ids, NEW k \in 1..n + 1 PROVE Apart(symrgtbl'[i], vm_freerg_list'[k])
    <3>1. CASE k = 1 BY <1>2, <1>6, <1>7, <2>3, <3>1 DEF NoOverlap
    <3>2. CASE k # 1
      <4>1. k - 1 \in 1..n /\ vm_freerg_list'[k] = vm_freerg_list[k - 1] BY <1>3, <1>6, <3>2
      <4> QED BY <1>1, <1>7, <2>2, <4>1 DEF NoOverlap
    <3> QED BY <3>1, <3>2
  <2>8. \A k \in 1..n : Apart(r, vm_freerg_list[k]) /\ Apart(vm_freerg_list[k], r)
    BY <1>1, <1>2, ApartSymmetric DEF NoOverlap
  <2>9. ASSUME NEW k \in 1..n + 1, NEW l \in 1..n + 1, k # l
        PROVE  Apart(vm_freerg_list'[k], vm_freerg_list'[l])
    <3>1. CASE k = 1
      <4>1. l - 1 \in 1..n /\ vm_freerg_list'[l] = vm_freerg_list[l - 1] BY <1>3, <1>6, <2>9, <3>1
      <4> QED BY <1>6, <2>8, <3>1, <4>1
    <3>2. CASE l = 1
      <4>1. k - 1 \in 1..n /\ vm_freerg_list'[k] = vm_freerg_list[k - 1] BY <1>3, <1>6, <2>9, <3>2
      <4> QED BY <1>6, <2>8, <3>2, <4>1
    <3>3. CASE k # 1 /\ l # 1
      <4>1. k - 1 \in 1..n /\ vm_freerg_list'[k] = vm_freerg_list[k - 1] BY <1>3, <1>6, <3>3
      <4>2. l - 1 \in 1..n /\ vm_freerg_list'[l] = vm_freerg_list[l - 1] BY <1>3, <1>6, <3>3
      <4>3. k - 1 # l - 1 BY <2>9
      <4> QED BY <1>1, <4>1, <4>2, <4>3 DEF NoOverlap
    <3> QED BY <3>1, <3>2, <3>3
  <2>10. newrg = NoRegion \/ Inside(newrg) BY DEF BelowBrk
  <2>11. \A i \in Ids : Apart(newrg, symrgtbl'[i])
    <3>1. Apart(newrg, NoRegion)
      BY <2>5, <2>10, NoRegionApart, ApartSymmetric DEF TypeOK
    <3> QED BY <1>7, <3>1 DEF NoOverlap
  <2>12. ASSUME NEW k \in 1..n + 1 PROVE Apart(newrg, vm_freerg_list'[k])
    <3>1. CASE k = 1 BY <1>2, <1>6, <3>1 DEF NoOverlap
    <3>2. CASE k # 1
      <4>1. k - 1 \in 1..n /\ vm_freerg_list'[k] = vm_freerg_list[k - 1] BY <1>3, <1>6, <3>2
      <4> QED BY <1>1, <4>1 DEF NoOverlap
    <3> QED BY <3>1, <3>2
  <2> QED BY <1>6, <1>8, <2>6, <2>7, <2>9, <2>11, <2>12 DEF NoOverlap, Apart
<1> QED BY <1>10, <1>11, <1>12

\* The regions and limits stay as they are, and the search is at its start,
\* at another region, or where it was.
LEMMA SearchInv ==
    ASSUME RegInv, UNCHANGED <<vm_freerg_list, symrgtbl, sbrk, vm_end, mapped>>,
           newrg' = newrg \/ newrg' = NoRegion, TypeOK'
    PROVE  RegInv'
<1> USE DEF RegInv
<1>1. BelowBrk' BY DEF BelowBrk, Inside
<1>2. NoOverlap'
  <2>1. CASE newrg' = newrg BY <2>1 DEF NoOverlap, Apart
  <2>2. CASE newrg' = NoRegion
    <3>1. /\ \A i \in Ids : Apart(NoRegion, symrgtbl[i])
          /\ \A k \in 1..Len(vm_freerg_list) : Apart(NoRegion, vm_freerg_list[k])
      BY NoRegionApart DEF TypeOK, BelowBrk
    <3> QED BY <2>2, <3>1 DEF NoOverlap, Apart
  <2> QED BY <2>1, <2>2
<1> QED BY <1>1, <1>2

\* Every step keeps the invariant of the regions.
LEMMA NextInv == RegInv /\ [Next]_vars => RegInv'
<1> SUFFICES ASSUME RegInv, [Next]_vars PROVE RegInv' OBVIOUS
<1>1. ASSUME NEW i \in Ids, NEW sz \in Sizes, CallAlloc(i, sz) PROVE RegInv'
  <2>1. TypeOK'
    BY <1>1 DEF RegInv, TypeOK, CallAlloc, limits, NoRegion, Region, Regions
  <2> QED BY <1>1, <2>1, SearchInv DEF CallAlloc, limits
<1>2. CASE SkipRegion
  <2>1. TypeOK' BY <1>2 DEF RegInv, TypeOK, SkipRegion, limits, args
  <2> QED BY <1>2, <2>1, SearchInv DEF SkipRegion, limits
<1>3. ASSUME NEW i \in Ids, FreeFails(i) PROVE RegInv'
  <2>1. TypeOK' BY <1>3 DEF RegInv, TypeOK, FreeFails, limits, args
  <2> QED BY <1>3, <2>1, SearchInv DEF FreeFails, limits
<1>4. CASE UNCHANGED vars
  <2>1. TypeOK' BY <1>4 DEF RegInv, TypeOK, vars, limits, args
  <2> QED BY <1>4, <2>1, SearchInv DEF vars, limits
<1>5. CASE AccessFails
  <2>1. TypeOK' BY <1>5 DEF RegInv, TypeOK, AccessFails, limits, args
  <2> QED BY <1>5, <2>1, SearchInv DEF AccessFails, limits
<1> QED
  BY <1>1, <1>2, <1>3, <1>4, <1>5, TakePartInv, TakeAllInv, AllocFreeInv, AllocGapInv, AllocGrowInv,
     GrowFailsInv, FreeInv
  DEF Next, AllocStep, Terminated

\* In every reachable state the fields of the area have their types, the
\* regions lie below sbrk and no byte belongs to two of them.
THEOREM RegionsInvariant == Safety => []RegInv
<1> QED BY InitInv, NextInv, PTL DEF Safety

\* No sequence of __alloc and __free makes two symbols share a byte, or a
\* symbol and the free list.
THEOREM RegionsApart == Safety => []NoOverlap
<1>1. RegInv => NoOverlap BY DEF RegInv
<1> QED BY <1>1, RegionsInvariant, PTL

\* Every region of __alloc and __free lies below sbrk, and sbrk below vm_end.
THEOREM RegionsBelowBrk == Safety => []BelowBrk
<1>1. RegInv => BelowBrk BY DEF RegInv
<1> QED BY <1>1, RegionsInvariant, PTL

-----------------------------------------------------------------------------
(* The size of what __alloc gives.                                         *)

SizeInv == RegInv /\ (newrg # NoRegion => newrg.rg_end - newrg.rg_start = size)

\* Every step keeps the size that was promised to __alloc().
LEMMA SizeInvNext == SizeInv /\ [Next]_vars => SizeInv'
<1> SUFFICES ASSUME SizeInv, [Next]_vars PROVE SizeInv' OBVIOUS
<1>1. RegInv' BY NextInv DEF SizeInv
<1>2. CASE TakePart \/ TakeAll
  <2>1. PICK it : it = vm_freerg_list[rgit] OBVIOUS
  <2>2. it \in Regions
    BY <1>2, <2>1 DEF SizeInv, RegInv, TypeOK, TakePart, TakeAll, Searching
  <2>3. newrg' = Region(it.rg_start, it.rg_start + size) /\ size' = size
    BY <1>2, <2>1 DEF TakePart, TakeAll, Found, args
  <2>4. size \in Nat BY SizesAssumption DEF SizeInv, RegInv, TypeOK
  <2> QED BY <1>1, <2>2, <2>3, <2>4 DEF SizeInv, Region, Regions
<1>3. ASSUME UNCHANGED <<newrg, size>> \/ newrg' = NoRegion PROVE SizeInv'
  BY <1>1, <1>3 DEF SizeInv
<1> QED
  BY <1>2, <1>3
  DEF Next, AllocStep, CallAlloc, SkipRegion, AllocFree, AllocGap, AllocGrow, GrowFails, Free,
      FreeFails, AccessFails, Terminated, Return, vars, args

\* Nothing is promised in the beginning.
LEMMA SizeInvInit == Init => SizeInv
BY InitInv DEF SizeInv, Init

\* A symbol that changes gets a region of the size asked for, or loses its own.
LEMMA GivesSize ==
    SizeInv /\ [Next]_vars =>
        [\A i \in Ids : symrgtbl'[i] # symrgtbl[i] /\ symrgtbl'[i] # NoRegion =>
            symrgtbl'[i].rg_end - symrgtbl'[i].rg_start = size]_vars
<1> SUFFICES ASSUME SizeInv, [Next]_vars, NEW i \in Ids,
                    symrgtbl'[i] # symrgtbl[i], symrgtbl'[i] # NoRegion
             PROVE  symrgtbl'[i].rg_end - symrgtbl'[i].rg_start = size
  OBVIOUS
<1>1. size \in Nat /\ sbrk \in Nat /\ symrgtbl \in [Ids -> Regions]
  BY SizesAssumption DEF SizeInv, RegInv, TypeOK
<1>2. CASE AllocFree
  <2>1. symrgtbl'[i] = newrg BY <1>1, <1>2 DEF AllocFree
  <2> QED BY <2>1 DEF SizeInv
<1>3. CASE AllocAtBrk
  <2>1. symrgtbl'[i] = Region(sbrk, sbrk + size) BY <1>1, <1>3 DEF AllocAtBrk
  <2> QED BY <1>1, <2>1 DEF Region
<1>4. ASSUME NEW f \in Ids, Free(f) PROVE FALSE
  BY <1>1, <1>4 DEF Free
<1> QED
  BY <1>2, <1>3, <1>4
  DEF Next, AllocStep, CallAlloc, TakePart, TakeAll, SkipRegion, AllocGap, AllocGrow, GrowFails,
      FreeFails, AccessFails, Terminated, vars

\* A symbol that __alloc gives memory has exactly the bytes it asked for, also
\* when the search has cut several pieces.
THEOREM AllocSize == Safety => AllocGivesSize
<1> QED BY SizeInvInit, SizeInvNext, GivesSize, PTL DEF Safety, AllocGivesSize

-----------------------------------------------------------------------------
(* The pages of what __alloc gives.                                        *)

\* vm_end is the end of a page, and the pages below it are mapped, until an
\* instruction has failed.
WholePages(k) == k \in Nat /\ vm_end = k * PAGING_PAGESZ /\ 0..k - 1 \subseteq mapped

MapInv ==
    /\ RegInv
    /\ \A b \in 0..sbrk - 1 : b \div PAGING_PAGESZ \in mapped
    /\ aborted \/ \E k \in Nat : WholePages(k)

\* A byte below the end of the first k pages lies in one of them.
LEMMA PageOf ==
    ASSUME NEW k \in Nat, NEW b \in Nat, b < k * PAGING_PAGESZ
    PROVE  b \div PAGING_PAGESZ \in 0..k - 1
<1> DEFINE P == PAGING_PAGESZ
           q == b \div P
<1>1. P \in Nat /\ P > 0 BY PageAssumption
<1>2. q \in Nat /\ P * q <= b BY <1>1
<1> HIDE DEF q
<1>3. P * q < k * P BY <1>1, <1>2
<1>4. q < k
  <2>1. SUFFICES ASSUME q >= k PROVE FALSE BY <1>2
  <2>2. q - k \in Nat BY <1>2, <2>1
  <2>3. P * (q - k) \in Nat BY <1>1, <2>2
  <2>4. P * (q - k) = P * q - k * P BY <1>1, <1>2, <2>2
  <2> QED BY <1>1, <1>2, <1>3, <2>3, <2>4
<1> QED BY <1>2, <1>4 DEF q

\* The page of the first byte of a page.
LEMMA FirstPageOf ==
    ASSUME NEW k \in Nat
    PROVE  (k * PAGING_PAGESZ) \div PAGING_PAGESZ = k
BY PageAssumption

\* PAGING_PAGE_ALIGNSZ() gives whole pages.
LEMMA PageAlignPages ==
    ASSUME NEW sz \in Nat
    PROVE  \E m \in Nat : PageAlign(sz) = m * PAGING_PAGESZ
BY PageAssumption DEF PageAlign

\* inc_vma_limit() maps every page between the old vm_end and the new one.
LEMMA GrowMaps ==
    ASSUME MapInv, ~aborted, Gap < size, vm_end' = vm_end + PageAlign(size - Gap),
           mapped' = mapped \cup NewPages
    PROVE  \E k \in Nat : WholePages(k)'
<1>1. PICK k \in Nat : WholePages(k) BY DEF MapInv
<1>2. size - Gap \in Nat
  BY SizesAssumption DEF MapInv, RegInv, TypeOK, BelowBrk, Gap
<1>3. PICK m \in Nat : PageAlign(size - Gap) = m * PAGING_PAGESZ BY <1>2, PageAlignPages
<1>4. k + m \in Nat /\ vm_end' = (k + m) * PAGING_PAGESZ
  BY <1>1, <1>3, PageAssumption DEF WholePages
<1>5. (vm_end + PageAlign(size - Gap)) \div PAGING_PAGESZ = k + m BY <1>4, FirstPageOf
<1>6. vm_end \div PAGING_PAGESZ = k BY <1>1, FirstPageOf DEF WholePages
<1>7. 0..(k + m) - 1 \subseteq mapped'
  <2>1. ASSUME NEW pgn \in 0..(k + m) - 1, pgn >= k PROVE pgn \in NewPages
    BY <1>5, <1>6, <2>1 DEF NewPages
  <2>2. ASSUME NEW pgn \in 0..(k + m) - 1, ~(pgn >= k) PROVE pgn \in mapped
    BY <1>1, <2>2 DEF WholePages
  <2> QED BY <2>1, <2>2
<1> QED BY <1>4, <1>7 DEF WholePages

\* All bytes below vm_end are mapped, those of the new sbrk among them.
LEMMA BelowIsMapped ==
    ASSUME NEW k \in Nat, WholePages(k), NEW b \in Nat, b < vm_end
    PROVE  b \div PAGING_PAGESZ \in mapped
BY PageOf DEF WholePages

\* An empty area has no page to map.
LEMMA MapInvInit == Init => MapInv
<1> SUFFICES ASSUME Init PROVE MapInv OBVIOUS
<1>1. WholePages(0) BY PageAssumption DEF Init, WholePages
<1> QED BY <1>1, InitInv DEF MapInv, Init

\* Every step keeps all pages below vm_end mapped.
LEMMA MapInvNext == MapInv /\ [Next]_vars => MapInv'
<1> SUFFICES ASSUME MapInv, [Next]_vars PROVE MapInv' OBVIOUS
<1>1. RegInv' BY NextInv DEF MapInv
<1>2. ASSUME UNCHANGED <<sbrk, vm_end, mapped>>, aborted' \/ ~aborted PROVE MapInv'
  BY <1>1, <1>2 DEF MapInv, WholePages
<1>3. CASE AllocGap
  <2>1. ~aborted /\ aborted' = aborted /\ UNCHANGED <<vm_end, mapped>>
    BY <1>3 DEF AllocGap, SearchDone
  <2>2. PICK k \in Nat : WholePages(k) BY <2>1 DEF MapInv
  <2>3. PICK n : n = sbrk' OBVIOUS
  <2>4. ASSUME NEW b \in 0..n - 1 PROVE b \div PAGING_PAGESZ \in mapped'
    <3>1. n \in Nat /\ vm_end \in Nat /\ n <= vm_end
      BY <1>1, <2>1, <2>3 DEF RegInv, TypeOK, BelowBrk
    <3>2. b \in Nat /\ b < vm_end BY <3>1
    <3> QED BY <2>1, <2>2, <3>2, BelowIsMapped
  <2> QED BY <1>1, <2>1, <2>2, <2>3, <2>4 DEF MapInv, WholePages
<1>4. CASE AllocGrow
  <2>1. ~aborted BY <1>4 DEF AllocGrow, SearchDone
  <2>2. PICK k \in Nat : WholePages(k)' BY <1>4, <2>1, GrowMaps DEF AllocGrow
  <2>3. PICK n : n = sbrk' OBVIOUS
  <2>4. ASSUME NEW b \in 0..n - 1 PROVE b \div PAGING_PAGESZ \in mapped'
    <3>1. n \in Nat /\ vm_end' \in Nat /\ n <= vm_end'
      BY <1>1, <2>3 DEF RegInv, TypeOK, BelowBrk
    <3>2. b \in Nat /\ b < vm_end' BY <3>1
    <3>3. b \div PAGING_PAGESZ \in 0..k - 1 BY <2>2, <3>2, PageOf DEF WholePages
    <3> QED BY <2>2, <3>3 DEF WholePages
  <2> QED BY <1>1, <2>2, <2>3, <2>4 DEF MapInv
<1>5. CASE GrowFails
  <2>1. mapped \subseteq mapped' /\ sbrk' = sbrk /\ aborted' BY <1>5 DEF GrowFails
  <2> QED BY <1>1, <2>1 DEF MapInv
<1>6. UNCHANGED aborted \/ aborted'
  BY DEF Next, AllocStep, CallAlloc, TakePart, TakeAll, SkipRegion, AllocFree, AllocGap, AllocGrow,
         GrowFails, Free, FreeFails, AccessFails, Terminated, vars
<1>7. AllocGap \/ AllocGrow \/ GrowFails \/ UNCHANGED <<sbrk, vm_end, mapped>>
  BY DEF Next, AllocStep, CallAlloc, TakePart, TakeAll, SkipRegion, AllocFree, Free, FreeFails, AccessFails,
         Terminated, vars, limits
<1>8. ASSUME UNCHANGED <<sbrk, vm_end, mapped>>, UNCHANGED aborted PROVE MapInv'
  BY <1>1, <1>8 DEF MapInv, WholePages
<1> QED BY <1>2, <1>3, <1>4, <1>5, <1>6, <1>7, <1>8

\* A symbol lies below sbrk, and all bytes there are mapped.
LEMMA MapInvMapped == MapInv => MemoryMapped
<1> SUFFICES ASSUME MapInv, NEW i \in Ids, symrgtbl[i] # NoRegion,
                    NEW b \in symrgtbl[i].rg_start..symrgtbl[i].rg_end - 1
             PROVE  b \div PAGING_PAGESZ \in mapped
  BY DEF MemoryMapped
<1>1. symrgtbl[i] \in Regions /\ sbrk \in Nat BY DEF MapInv, RegInv, TypeOK
<1>2. Inside(symrgtbl[i]) BY DEF MapInv, RegInv, BelowBrk
<1>3. b \in 0..sbrk - 1 BY <1>1, <1>2 DEF Inside, Regions
<1> QED BY <1>3 DEF MapInv

\* Every byte of every symbol lies in a page that inc_vma_limit() mapped,
\* however the gap between sbrk and vm_end was used up.
THEOREM SymbolsMapped == Safety => []MemoryMapped
<1> QED BY MapInvInit, MapInvNext, MapInvMapped, PTL DEF Safety

-----------------------------------------------------------------------------
(* Addresses.                                                              *)

\* Division with a remainder.
LEMMA QuotientAndRest ==
    ASSUME NEW p \in Nat, p > 0, NEW x \in Nat
    PROVE  x \div p \in Nat /\ x = (p * (x \div p)) + (x % p) /\ x % p \in 0..p - 1
OBVIOUS

\* The mask of PAGING_PGN() cuts nothing off an address that the bus can carry.
LEMMA PgnIsPage ==
    ASSUME NEW x \in Nat, x < PAGING_MAX_PGN * PAGING_PAGESZ
    PROVE  PAGING_PGN(x) = x \div PAGING_PAGESZ
<1> DEFINE M == PAGING_MAX_PGN
           q == x \div PAGING_PAGESZ
<1>1. M \in Nat /\ M > 0 BY BusAssumption
<1>2. q \in 0..M - 1 BY <1>1, PageOf
<1> HIDE DEF q
<1>3. q % M = q BY <1>1, <1>2
<1> QED BY <1>3 DEF PAGING_PGN, q

\* The page number and the offset of mm.h tell any two addresses apart that
\* the bus can carry.
LEMMA AddressSplit ==
    ASSUME NEW a \in Nat, NEW b \in Nat,
           a < PAGING_MAX_PGN * PAGING_PAGESZ, b < PAGING_MAX_PGN * PAGING_PAGESZ,
           PAGING_PGN(a) = PAGING_PGN(b), PAGING_OFFST(a) = PAGING_OFFST(b)
    PROVE  a = b
<1> DEFINE P == PAGING_PAGESZ
<1>1. P \in Nat /\ P > 0 BY PageAssumption
<1>2. a \div P = b \div P BY PgnIsPage
<1>3. a % P = b % P BY DEF PAGING_OFFST
<1>4. a = (P * (a \div P)) + (a % P) BY <1>1, QuotientAndRest
<1>5. b = (P * (b \div P)) + (b % P) BY <1>1, QuotientAndRest
<1> QED BY ONLY <1>2, <1>3, <1>4, <1>5, Zenon

\* The address right behind the last one of the bus looks like the first one.
LEMMA TopWraps ==
    LET top == PAGING_MAX_PGN * PAGING_PAGESZ
    IN  PAGING_PGN(top) = PAGING_PGN(0) /\ PAGING_OFFST(top) = PAGING_OFFST(0)
<1>1. PICK m, p : m = PAGING_MAX_PGN /\ p = PAGING_PAGESZ OBVIOUS
<1>2. m \in Nat /\ m > 0 /\ p \in Nat /\ p > 0 BY <1>1, PageAssumption, BusAssumption
<1>3. (m * p) \div p = m /\ (m * p) % p = 0 BY <1>2
<1>4. m % m = 0 /\ 0 \div p = 0 /\ 0 % p = 0 /\ 0 % m = 0 BY <1>2
<1> QED BY <1>1, <1>3, <1>4 DEF PAGING_PGN, PAGING_OFFST

=============================================================================
