------------------------------- MODULE Memphy -------------------------------
(***************************************************************************)
(* The physical memory devices of src/src/mm-memphy.c, byte by byte, with  *)
(* the two functions of src/src/mm.c that take frames and copy pages       *)
(* (alloc_pages_range, __swap_cp_page).  A device is random or sequential  *)
(* (rdmflg); a sequential one moves its cursor to the address of each      *)
(* access.  One client at a time: what happens when two CPUs are inside    *)
(* MEMPHY_get_freefp at once is the subject of Paging.tla.                 *)
(***************************************************************************)
EXTENDS Integers, SequencesExt

CONSTANTS
    Devices,
    Bytes,                \* values of a byte
    Mram,                 \* the device that is the RAM
    PAGING_PAGESZ,
    MaxFrames             \* bound: the frames a client asks for at a time

ASSUME MemphyAssumption ==
    /\ PAGING_PAGESZ \in Nat \ {0}
    /\ MaxFrames \in Nat
    /\ Mram \in Devices
    /\ Bytes # {}

VARIABLES
    mp,                   \* struct memphy_struct of each device
    frm_lst,              \* the frames the client got from a device, in order
    last,                 \* history: the last call and its result
    undefined             \* an uninitialized pointer was followed

memphyVars == <<mp, frm_lst, last, undefined>>

\* A list ends in NULL, or in a pointer nobody set.
Unused == [maxsz |-> 0, rdmflg |-> FALSE, storage |-> << >>, cursor |-> 0,
           free_fp_list |-> << >>, list_end |-> "unset"]

MemphyInit ==
    /\ mp = [d \in Devices |-> Unused]
    /\ frm_lst = [d \in Devices |-> << >>]
    /\ last = [call |-> "none"]
    /\ undefined = FALSE

-----------------------------------------------------------------------------
(* init_memphy()                                                           *)

Numfp(maxsz) == maxsz \div PAGING_PAGESZ

\* MEMPHY_format(): frames in order.  The first node's fp_next is set only by
\* a second node, and without any node the list itself stays unset.
MEMPHY_format(maxsz) ==
    [free_fp_list |-> [i \in 1..Numfp(maxsz) |-> i - 1],
     list_end     |-> IF Numfp(maxsz) > 1 THEN "null" ELSE "unset"]

\* The storage is not cleared: b is what the heap held.
init_memphy(d, max_size, randomflg) ==
    /\ \E b \in Bytes :
          LET list == MEMPHY_format(max_size) IN
          mp' = [mp EXCEPT ![d] =
                    [maxsz |-> max_size, rdmflg |-> randomflg,
                     storage |-> [a \in 0..max_size - 1 |-> b], cursor |-> 0,
                     free_fp_list |-> list.free_fp_list, list_end |-> list.list_end]]
    /\ last' = [call |-> "init", dev |-> d]
    /\ UNCHANGED <<frm_lst, undefined>>

-----------------------------------------------------------------------------
(* MEMPHY_read(), MEMPHY_write()                                           *)

\* MEMPHY_mv_csr(): one step after the other, never more than maxsz of them.
MEMPHY_mv_csr(maxsz, offset) ==
    LET csr[n \in Nat] == IF n = 0 THEN 0 ELSE (csr[n - 1] + 1) % maxsz
    IN  csr[IF offset < 0 THEN 0 ELSE Min({offset, maxsz})]

Inside(d, addr) == addr \in 0..mp[d].maxsz - 1

\* The cursor of a random device is left alone.
Cursor(d, addr) ==
    IF mp[d].rdmflg THEN mp[d].cursor ELSE MEMPHY_mv_csr(mp[d].maxsz, addr)

\* A random device refuses an address outside; a sequential one reads whatever
\* lies there.
MEMPHY_read(d, addr) ==
    /\ mp' = [mp EXCEPT ![d].cursor = Cursor(d, addr)]
    /\ \E b \in Bytes :
          /\ Inside(d, addr) => b = mp[d].storage[addr]
          /\ last' = [call |-> "read", dev |-> d, addr |-> addr, value |-> b,
                      stat |-> IF mp[d].rdmflg /\ ~Inside(d, addr) THEN -1 ELSE 0]
    /\ UNCHANGED <<frm_lst, undefined>>

\* Fault: the byte goes to where the cursor was.
WriteAtCursor(d, addr, data) ==
    /\ mp' = IF Inside(d, addr)
             THEN [mp EXCEPT ![d].storage[IF mp[d].rdmflg THEN addr ELSE mp[d].cursor] = data,
                             ![d].cursor = Cursor(d, addr)]
             ELSE mp
    /\ last' = [call |-> "write", dev |-> d, addr |-> addr, value |-> data,
                stat |-> IF Inside(d, addr) THEN 0 ELSE -1]
    /\ UNCHANGED <<frm_lst, undefined>>

\* Writing tests the address for both kinds of device.
MEMPHY_write(d, addr, data) ==
    /\ mp' = IF Inside(d, addr)
             THEN [mp EXCEPT ![d].storage[addr] = data, ![d].cursor = Cursor(d, addr)]
             ELSE mp
    /\ last' = [call |-> "write", dev |-> d, addr |-> addr, value |-> data,
                stat |-> IF Inside(d, addr) THEN 0 ELSE -1]
    /\ UNCHANGED <<frm_lst, undefined>>

FrameStart(fpn) == fpn * PAGING_PAGESZ

\* __swap_cp_page(): one read and one write per byte of the page.
__swap_cp_page(src, srcfpn, dst, dstfpn) ==
    LET copied == [a \in DOMAIN mp[dst].storage |->
            IF a \div PAGING_PAGESZ = dstfpn
            THEN mp[src].storage[FrameStart(srcfpn) + (a % PAGING_PAGESZ)]
            ELSE mp[dst].storage[a]]
        lastByte(fpn) == FrameStart(fpn) + PAGING_PAGESZ - 1
    IN
    /\ mp' = [[mp EXCEPT ![src].cursor = Cursor(src, lastByte(srcfpn))]
                  EXCEPT ![dst].cursor = Cursor(dst, lastByte(dstfpn)), ![dst].storage = copied]
    /\ last' = [call |-> "copy", dev |-> src, srcfpn |-> srcfpn, dst |-> dst, dstfpn |-> dstfpn]
    /\ UNCHANGED <<frm_lst, undefined>>

-----------------------------------------------------------------------------
(* Frames.                                                                 *)

\* The list has run out, and its last pointer is followed: where nobody set
\* it, the heap may have held a NULL there or anything else.
FollowEnd(d) ==
    /\ mp[d].list_end = "unset"
    /\ undefined' = TRUE
    /\ UNCHANGED <<mp, frm_lst, last>>

\* n frames from the front of the list, appended to frm_lst.
TakeFrames(d, n, asked) ==
    LET list == mp[d].free_fp_list IN
    /\ mp' = [mp EXCEPT ![d].free_fp_list = SubSeq(list, n + 1, Len(list))]
    /\ frm_lst' = [frm_lst EXCEPT ![d] = @ \o SubSeq(list, 1, n)]
    /\ last' = [call |-> "get", dev |-> d, asked |-> asked, missing |-> asked - n]
    /\ UNCHANGED undefined

\* One frame, as pg_getpage() asks for it; no frame when there is none.
MEMPHY_get_freefp(d) ==
    IF mp[d].free_fp_list # << >>
    THEN TakeFrames(d, 1, 1)
    ELSE FollowEnd(d) \/ TakeFrames(d, 0, 1)

\* alloc_pages_range(): one frame of the RAM after the other, each appended by
\* enlist_framephy().  When they run out it tells how many are missing.
alloc_pages_range(req_pgnum) ==
    LET there == Len(mp[Mram].free_fp_list) IN
    IF req_pgnum <= there
    THEN TakeFrames(Mram, req_pgnum, req_pgnum)
    ELSE FollowEnd(Mram) \/ TakeFrames(Mram, there, req_pgnum)

\* The client gives a frame back, which is then the first of the list.
MEMPHY_put_freefp(d, fpn) ==
    /\ mp' = [mp EXCEPT ![d].free_fp_list = <<fpn>> \o @]
    /\ frm_lst' = [frm_lst EXCEPT ![d] = RemoveAt(@, CHOOSE i \in DOMAIN @ : @[i] = fpn)]
    /\ last' = [call |-> "put", dev |-> d, fpn |-> fpn]
    /\ UNCHANGED undefined

Held(d) == {frm_lst[d][i] : i \in 1..Len(frm_lst[d])}

\* The client uses any address up to one beyond the end, and copies between
\* frames it holds.
MemphyNext ==
    /\ ~undefined
    /\ \/ \E n \in 1..MaxFrames + 1 : alloc_pages_range(n)
       \/ \E d \in Devices :
          \/ \E addr \in -1..mp[d].maxsz :
                MEMPHY_read(d, addr) \/ \E data \in Bytes : MEMPHY_write(d, addr, data)
          \/ MEMPHY_get_freefp(d)
          \/ \E f \in Held(d) : MEMPHY_put_freefp(d, f)
          \/ \E e \in Devices : \E f \in Held(d), g \in Held(e) : __swap_cp_page(d, f, e, g)

-----------------------------------------------------------------------------
(* Properties.                                                             *)

Store == INSTANCE FrameStore WITH
            PageSize <- PAGING_PAGESZ,
            page <- [d \in Devices |->
                        [f \in 0..mp[d].maxsz \div PAGING_PAGESZ - 1 |->
                            [o \in 0..PAGING_PAGESZ - 1 |-> mp[d].storage[FrameStart(f) + o]]]],
            held <- [d \in Devices |-> Held(d)]

\* Every frame that is handed out is a page of its own, inside the device: no
\* byte of another frame is at its addresses, a frame is given again only
\* after it was put back, and a copied page arrives whole, on random and on
\* sequential devices.
ImplementsStore == Store!Spec

\* "It never goes out of range": an access outside the device fails.
NoAccessOutside ==
    [][last'.call \in {"read", "write"} /\ last' # last =>
          (last'.stat = 0) = Inside(last'.dev, last'.addr)]_memphyVars

=============================================================================
