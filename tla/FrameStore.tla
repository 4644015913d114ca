----------------------------- MODULE FrameStore -----------------------------
(***************************************************************************)
(* What a memory device of src/src/mm-memphy.c promises to the paging code *)
(* above it: frames that are handed out one owner at a time, and one page  *)
(* of bytes behind each frame, which changes only when its own bytes are   *)
(* written.  Nothing is promised of an access that lies in no frame,       *)
(* except that it changes no page.  Memphy.tla models the code and is      *)
(* shown to implement this specification.                                  *)
(***************************************************************************)
EXTENDS Integers, FiniteSets

CONSTANTS
    Devices, Bytes,
    PageSize

VARIABLES
    page,                 \* page[d][f]: the bytes of frame f of device d
    held,                 \* the frames of a device that are given out
    last                  \* the last call, with its arguments and its result

storeVars == <<page, held, last>>

Offsets == 0..PageSize - 1
Page == [Offsets -> Bytes]
Frames(d) == DOMAIN page[d]
InFrame(d, addr) == addr >= 0 /\ addr \div PageSize \in Frames(d)

Init ==
    /\ \A d \in Devices : Frames(d) = {} /\ held[d] = {}
    /\ last.call = "none"

\* A device comes into being, of any size and with any content.
Create ==
    /\ last'.call = "init"
    /\ Frames(last'.dev) = {}
    /\ LET n == Cardinality(DOMAIN page'[last'.dev])
       IN  page'[last'.dev] \in [0..n - 1 -> Page]
    /\ \A d \in Devices : d # last'.dev => page'[d] = page[d]
    /\ UNCHANGED held

\* A byte is written, and no other byte of any frame of any device.
Write ==
    /\ last'.call = "write"
    /\ UNCHANGED held
    /\ LET d == last'.dev
           addr == last'.addr
       IN  IF InFrame(d, addr)
           THEN /\ last'.stat = 0
                /\ page' = [page EXCEPT ![d][addr \div PageSize][addr % PageSize] = last'.value]
           ELSE UNCHANGED page

\* A read gives what was written.
Read ==
    /\ last'.call = "read"
    /\ UNCHANGED <<page, held>>
    /\ LET d == last'.dev
           addr == last'.addr
       IN  InFrame(d, addr) =>
              /\ last'.stat = 0
              /\ last'.value = page[d][addr \div PageSize][addr % PageSize]

\* A page is copied as a whole, into a frame of any device.
Copy ==
    /\ last'.call = "copy"
    /\ page' = [page EXCEPT ![last'.dst][last'.dstfpn] = page[last'.dev][last'.srcfpn]]
    /\ UNCHANGED held

Free(d) == Frames(d) \ held[d]

\* Frames are taken: as many as were asked for, or all that are free, and
\* never one that somebody holds.
Get ==
    /\ last'.call = "get"
    /\ LET d == last'.dev
           got == held'[d] \ held[d]
       IN  /\ got \subseteq Free(d)
           /\ Cardinality(got) = last'.asked - last'.missing
           /\ last'.missing > 0 => got = Free(d)
           /\ held' = [held EXCEPT ![d] = @ \cup got]
    /\ UNCHANGED page

Put ==
    /\ last'.call = "put"
    /\ last'.fpn \in held[last'.dev]
    /\ held' = [held EXCEPT ![last'.dev] = @ \ {last'.fpn}]
    /\ UNCHANGED page

Next == Create \/ Write \/ Read \/ Copy \/ Get \/ Put

Spec == Init /\ [][Next]_storeVars

=============================================================================
