---------------------------- MODULE TimerProofs ----------------------------
(***************************************************************************)
(* Proofs about Timer, for every finite set of devices and every number of *)
(* slots: the inductive invariant, the safety properties that follow from  *)
(* it, and that each step of timer.c is a step of SlotBarrier or none.     *)
(***************************************************************************)
EXTENDS Timer, TLAPS

USE DevicesAssumption, MaxSlotAssumption, FreeAssumption

(* The invariant holds when main starts: nothing is attached yet. *)
LEMMA InitInv == Init => TimerInv
<1> SUFFICES ASSUME Init PROVE TimerInv
  OBVIOUS
<1> USE DEF Init
<1>1. TypeOK
  <2>1. dev_list \in Seq(Devices)
    OBVIOUS
  <2>2. cur \in Nat \ {0}
    OBVIOUS
  <2> QED
    BY <2>1, <2>2 DEF TypeOK, MainPcs, TimerPcs, DevicePcs
<1>2. ListInv
  BY DEF ListInv, Scanning, Releasing, Range
<1>3. LockInv
  BY DEF LockInv
<1>4. FlagInv
  BY DEF FlagInv, Inside, Arrived, ToRelease, Releasing
<1>5. ScanInv
  BY DEF ScanInv, Scanning, Releasing
<1> QED
  BY <1>1, <1>2, <1>3, <1>4, <1>5 DEF TimerInv

(* While the timer thread runs, every device is somewhere in its list. *)
LEMMA Complete ==
  TypeOK /\ ListInv /\ tpc \notin {"none", "exit"}
    => \A d \in Devices : \E i \in 1..Len(dev_list) : dev_list[i] = d
<1> SUFFICES ASSUME TypeOK, ListInv, tpc \notin {"none", "exit"}, NEW d \in Devices
             PROVE  \E i \in 1..Len(dev_list) : dev_list[i] = d
  OBVIOUS
<1>1. mpc \in {"create", "join"}
  BY DEF TypeOK, ListInv, MainPcs
<1>2. d \in Range(dev_list)
  BY <1>1 DEF ListInv
<1> QED
  BY <1>2 DEF Range

(* No step of main, of the timer or of a device leaves the invariant. *)
LEMMA NextInv == TimerInv /\ [Next]_vars => TimerInv'
<1> SUFFICES ASSUME TimerInv, [Next]_vars PROVE TimerInv'
  OBVIOUS
<1> USE DEF TimerInv
<1>1. ASSUME NEW d \in Devices, attach_event(d) PROVE TimerInv'
  <2> USE <1>1 DEF attach_event, timerVars, flags, locks
  <2>1. TypeOK'
    BY DEF TypeOK, MainPcs, TimerPcs, DevicePcs
  <2>2. ListInv'
    BY SMTT(30) DEF TypeOK, ListInv, ScanInv, FlagInv, Range, Scanning, Releasing
  <2>3. LockInv'
    BY DEF TypeOK, ListInv, LockInv, Scanning, Releasing
  <2>4. FlagInv'
    BY DEF TypeOK, ListInv, FlagInv, Inside, Arrived, ToRelease, Scanning, Releasing
  <2>5. ScanInv'
    BY DEF TypeOK, ListInv, FlagInv, ScanInv, NotReported, Scanning, Releasing
  <2> QED
    BY <2>1, <2>2, <2>3, <2>4, <2>5
<1>2. ASSUME NEW d \in Devices, CreateDevice(d) PROVE TimerInv'
  <2> USE <1>2 DEF CreateDevice, timerVars, mainVars, flags, locks
  <2>1. TypeOK'
    BY DEF TypeOK, MainPcs, TimerPcs, DevicePcs
  <2>2. ListInv'
    BY DEF TypeOK, ListInv, Range
  <2>3. LockInv'
    BY DEF TypeOK, ListInv, LockInv, Scanning, Releasing
  <2>4. FlagInv'
    BY DEF TypeOK, FlagInv, Inside, Arrived, ToRelease
  <2>5. ScanInv'
    BY DEF TypeOK, ListInv, FlagInv, ScanInv, NotReported, Scanning, Releasing
  <2> QED
    BY <2>1, <2>2, <2>3, <2>4, <2>5
<1>3. CASE start_timer
  <2> USE <1>3 DEF start_timer, flags, locks
  <2>1. TypeOK'
    BY DEF TypeOK, MainPcs, TimerPcs, DevicePcs
  <2>2. ListInv'
    BY DEF ListInv, Scanning, Releasing
  <2>3. LockInv'
    BY DEF TypeOK, ListInv, LockInv, Scanning, Releasing
  <2>4. FlagInv'
    BY DEF TypeOK, ListInv, FlagInv, Inside, Arrived, ToRelease, Scanning, Releasing
  <2>5. ScanInv'
    BY DEF TypeOK, ListInv, FlagInv, ScanInv, NotReported, Scanning, Releasing
  <2> QED
    BY <2>1, <2>2, <2>3, <2>4, <2>5
<1>4. CASE stop_timer
  <2> USE <1>4 DEF stop_timer, timerVars, flags, locks
  <2>1. TypeOK'
    BY DEF TypeOK, MainPcs, TimerPcs, DevicePcs
  <2>2. ListInv'
    BY DEF ListInv, Scanning, Releasing
  <2>3. LockInv'
    BY DEF TypeOK, ListInv, LockInv, Scanning, Releasing
  <2>4. FlagInv'
    BY DEF TypeOK, ListInv, FlagInv, Inside, Arrived, ToRelease, Scanning, Releasing
  <2>5. ScanInv'
    BY DEF TypeOK, ListInv, FlagInv, ScanInv, NotReported, Scanning, Releasing
  <2> QED
    BY <2>1, <2>2, <2>3, <2>4, <2>5
<1>5. CASE FreeDevices
  <2> USE <1>5 DEF FreeDevices, timerVars, flags, locks
  <2>1. TypeOK'
    BY DEF TypeOK, MainPcs, TimerPcs, DevicePcs
  <2>2. ListInv'
    BY DEF TypeOK, ListInv, ScanInv, FlagInv, Range, Scanning, Releasing
  <2>3. LockInv'
    BY DEF TypeOK, ListInv, LockInv, Scanning, Releasing
  <2>4. FlagInv'
    BY DEF TypeOK, ListInv, FlagInv, Inside, Arrived, ToRelease, Scanning, Releasing
  <2>5. ScanInv'
    BY DEF TypeOK, ListInv, FlagInv, ScanInv, NotReported, Scanning, Releasing
  <2> QED
    BY <2>1, <2>2, <2>3, <2>4, <2>5
<1>6. CASE TimerLoop
  <2> USE <1>6 DEF TimerLoop, mainVars, flags, locks
  <2>1. TypeOK'
    BY DEF TypeOK, MainPcs, TimerPcs, DevicePcs
  <2>2. ListInv'
    <3>1. ASSUME ~timer_stop PROVE 1 \in 1..Len(dev_list)
      <4>1. PICK d \in Devices : TRUE
        OBVIOUS
      <4>2. \E i \in 1..Len(dev_list) : dev_list[i] = d
        BY Complete
      <4> QED
        BY <4>2 DEF TypeOK
    <3> QED
      BY <3>1, ZenonT(30) DEF TypeOK, ListInv, Range, Scanning, Releasing
  <2>3. LockInv'
    BY DEF TypeOK, ListInv, LockInv, Scanning, Releasing
  <2>4. FlagInv'
    <3>1. \A d \in Devices : ~ToRelease(d) /\ ~ToRelease(d)'
      BY DEF ToRelease, Releasing
    <3> QED
      BY <3>1 DEF TypeOK, FlagInv, Inside, Arrived
  <2>5. ScanInv'
    <3>1. CASE timer_stop
      BY <3>1 DEF TypeOK, ListInv, FlagInv, ScanInv, Scanning, Releasing
    <3>2. CASE ~timer_stop
      BY <3>2 DEF TypeOK, ListInv, ScanInv, Scanning, Releasing
    <3> QED
      BY <3>1, <3>2
  <2> QED
    BY <2>1, <2>2, <2>3, <2>4, <2>5
<1>7. CASE TimerLockEvent
  <2> USE <1>7 DEF TimerLockEvent, mainVars, flags
  <2>1. TypeOK'
    BY DEF TypeOK, MainPcs, TimerPcs, DevicePcs
  <2>2. ListInv'
    BY DEF TypeOK, ListInv, ScanInv, FlagInv, Range, Scanning, Releasing
  <2>3. LockInv'
    BY DEF TypeOK, ListInv, LockInv, Scanning, Releasing
  <2>4. FlagInv'
    BY DEF TypeOK, ListInv, FlagInv, Inside, Arrived, ToRelease, Scanning, Releasing
  <2>5. ScanInv'
    BY DEF TypeOK, ListInv, FlagInv, ScanInv, NotReported, Scanning, Releasing
  <2> QED
    BY <2>1, <2>2, <2>3, <2>4, <2>5
<1>8. CASE TimerMustWait
  <2> USE <1>8 DEF TimerMustWait, mainVars, flags, locks, NotReported
  <2>1. TypeOK'
    BY DEF TypeOK, MainPcs, TimerPcs, DevicePcs
  <2>2. ListInv'
    BY DEF TypeOK, ListInv, ScanInv, FlagInv, Range, Scanning, Releasing
  <2>3. LockInv'
    BY DEF TypeOK, ListInv, LockInv, Scanning, Releasing
  <2>4. FlagInv'
    BY DEF TypeOK, ListInv, FlagInv, Inside, Arrived, ToRelease, Scanning, Releasing
  <2>5. ScanInv'
    BY DEF TypeOK, ListInv, FlagInv, ScanInv, NotReported, Scanning, Releasing
  <2> QED
    BY <2>1, <2>2, <2>3, <2>4, <2>5
<1>9. CASE TimerSleep
  <2> USE <1>9 DEF TimerSleep, mainVars, flags
  <2>1. TypeOK'
    BY DEF TypeOK, MainPcs, TimerPcs, DevicePcs
  <2>2. ListInv'
    BY DEF TypeOK, ListInv, Scanning, Releasing
  <2>3. LockInv'
    BY DEF TypeOK, ListInv, LockInv, Scanning, Releasing
  <2>4. FlagInv'
    <3>1. \A e \in Devices : ToRelease(e) <=> ToRelease(e)'
      BY DEF ToRelease, Releasing
    <3> QED
      BY <3>1 DEF TypeOK, FlagInv, Inside, Arrived
  <2>5. ScanInv'
    BY DEF TypeOK, ListInv, FlagInv, ScanInv, NotReported, Scanning, Releasing
  <2> QED
    BY <2>1, <2>2, <2>3, <2>4, <2>5
<1>10. CASE TimerCount
  <2> USE <1>10 DEF TimerCount, mainVars, flags, NotReported
  <2>1. TypeOK'
    <3>0. nfsh' \in Nat /\ nevent' \in Nat
      BY DEF TypeOK
    <3>1. CASE cur = Len(dev_list)
      BY <3>0, <3>1 DEF TypeOK, TimerPcs
    <3>2. CASE cur # Len(dev_list)
      <4>1. cur' = cur + 1 /\ tpc' = "ev_lock"
        BY <3>2
      <4>2. cur' \in Nat \ {0}
        BY <4>1 DEF TypeOK
      <4> QED
        BY <3>0, <4>1, <4>2 DEF TypeOK, TimerPcs
    <3> QED
      BY <3>1, <3>2
  <2>2. ListInv'
    BY DEF TypeOK, ListInv, ScanInv, FlagInv, Range, Scanning, Releasing
  <2>3. LockInv'
    BY DEF TypeOK, ListInv, LockInv, Scanning, Releasing
  <2>4. FlagInv'
    BY DEF TypeOK, ListInv, FlagInv, Inside, Arrived, ToRelease, Scanning, Releasing
  <2>5. ScanInv'
    <3>1. ~NotReported(dev_list[cur]) /\ (nfsh' = nevent' => nfsh = nevent /\ fsh[dev_list[cur]])
      BY DEF TypeOK, ScanInv
    <3>2. \A i \in 1..Len(dev_list) : i < cur + 1 => i < cur \/ i = cur
      BY DEF TypeOK
    <3>3. \A i \in 1..Len(dev_list) : i < cur + 1 => ~NotReported(dev_list[i])
      BY <3>1, <3>2 DEF ScanInv, Scanning
    <3>4. nfsh' = nevent' => \A i \in 1..Len(dev_list) : i < cur + 1 => fsh[dev_list[i]]
      BY <3>1, <3>2 DEF ScanInv, Scanning
    <3>5. nfsh' <= nevent'
      BY DEF TypeOK, ScanInv
    <3>6. CASE cur = Len(dev_list)
      <4>1. \A i \in 1..Len(dev_list) : i < cur + 1
        BY <3>6
      <4>2. \A e \in Devices : \E i \in 1..Len(dev_list) : dev_list[i] = e
        BY Complete
      <4> QED
        BY <3>3, <3>4, <3>5, <3>6, <4>1, <4>2 DEF ScanInv, Scanning, Releasing
    <3>7. CASE cur # Len(dev_list)
      BY <3>3, <3>4, <3>5, <3>7 DEF ScanInv, Scanning, Releasing
    <3> QED
      BY <3>6, <3>7
  <2> QED
    BY <2>1, <2>2, <2>3, <2>4, <2>5
<1>11. CASE TimerTick
  <2> USE <1>11 DEF TimerTick, mainVars, flags, locks
  <2>1. TypeOK'
    BY DEF TypeOK, MainPcs, TimerPcs, DevicePcs
  <2>2. ListInv'
    BY DEF TypeOK, ListInv, ScanInv, FlagInv, Range, Scanning, Releasing
  <2>3. LockInv'
    BY DEF TypeOK, ListInv, LockInv, Scanning, Releasing
  <2>4. FlagInv'
    <3>1. \A e \in Devices : ~ToRelease(e)
      BY DEF ToRelease, Releasing
    <3>2. \A e \in Devices : done[e] \/ fsh[e]
      BY DEF ScanInv, NotReported
    <3>3. \A e \in Devices : done[e] => ToRelease(e)'
      <4>2. cur = 1
        BY DEF ListInv
      <4>3. \A e \in Devices : \E i \in 1..Len(dev_list) : dev_list[i] = e
        BY Complete
      <4> QED
        BY <4>2, <4>3 DEF ToRelease, Releasing
    <3> QED
      BY <3>1, <3>2, <3>3 DEF TypeOK, FlagInv, Inside, Arrived
  <2>5. ScanInv'
    BY DEF TypeOK, ScanInv, Scanning, Releasing
  <2> QED
    BY <2>1, <2>2, <2>3, <2>4, <2>5
<1>12. CASE TimerLockTimer
  <2> USE <1>12 DEF TimerLockTimer, mainVars, flags
  <2>1. TypeOK'
    BY DEF TypeOK, MainPcs, TimerPcs, DevicePcs
  <2>2. ListInv'
    BY DEF TypeOK, ListInv, ScanInv, FlagInv, Range, Scanning, Releasing
  <2>3. LockInv'
    BY DEF TypeOK, ListInv, LockInv, Scanning, Releasing
  <2>4. FlagInv'
    BY DEF TypeOK, ListInv, FlagInv, Inside, Arrived, ToRelease, Scanning, Releasing
  <2>5. ScanInv'
    BY DEF TypeOK, ListInv, FlagInv, ScanInv, NotReported, Scanning, Releasing
  <2> QED
    BY <2>1, <2>2, <2>3, <2>4, <2>5
<1>13. CASE TimerRelease
  <2> USE <1>13 DEF TimerRelease, mainVars
  <2>1. TypeOK'
    <3>1. CASE cur = Len(dev_list)
      BY <3>1 DEF TypeOK, TimerPcs, DevicePcs
    <3>2. CASE cur # Len(dev_list)
      <4>1. cur' = cur + 1 /\ tpc' = "tm_lock"
        BY <3>2
      <4>2. cur' \in Nat \ {0}
        BY <4>1 DEF TypeOK
      <4> QED
        BY <4>1, <4>2 DEF TypeOK, TimerPcs, DevicePcs
    <3> QED
      BY <3>1, <3>2
  <2>2. ListInv'
    BY DEF TypeOK, ListInv, ScanInv, FlagInv, Range, Scanning, Releasing
  <2>3. LockInv'
    BY DEF TypeOK, ListInv, LockInv, Scanning, Releasing
  <2>4. FlagInv'
    <3>0. PICK r \in Devices : r = dev_list[cur]
      BY DEF TypeOK, ListInv, Releasing
    <3> USE <3>0
    <3>1. ToRelease(r) /\ ~done'[r]
      BY DEF ListInv, TypeOK, ToRelease, Releasing
    <3>2. ~ToRelease(r)'
      <4>1. CASE cur = Len(dev_list)
        BY <4>1 DEF ToRelease, Releasing
      <4>2. CASE cur # Len(dev_list)
        <5>1. \A i \in cur + 1..Len(dev_list) : i \in 1..Len(dev_list) /\ i # cur
          BY DEF TypeOK
        <5>2. \A i \in cur + 1..Len(dev_list) : dev_list[i] # r
          BY <5>1 DEF ListInv, Releasing
        <5> QED
          BY <4>2, <5>2 DEF ToRelease
      <4> QED
        BY <4>1, <4>2
    <3>3. \A e \in Devices : e # r => (ToRelease(e) <=> ToRelease(e)')
      BY DEF ListInv, TypeOK, ToRelease, Releasing
    <3>4. pc[r] # "ns_test" /\ pc[r] # "ns_sleep"
      BY <3>1 DEF LockInv
    <3>5. \A e \in Devices : e # r => pc'[e] = pc[e] /\ done'[e] = done[e]
      BY DEF TypeOK
    <3>7. ASSUME NEW e \in Devices, e # r PROVE FlagInv!(e)'
      BY <3>3, <3>5, <3>7 DEF TypeOK, FlagInv, Inside, Arrived
    <3>8. FlagInv!(r)'
      BY <3>1, <3>2, <3>4 DEF TypeOK, FlagInv, Inside, Arrived
    <3> QED
      BY <3>1, <3>7, <3>8 DEF FlagInv
  <2>5. ScanInv'
    BY DEF TypeOK, ListInv, FlagInv, ScanInv, NotReported, Scanning, Releasing
  <2> QED
    BY <2>1, <2>2, <2>3, <2>4, <2>5
<1>14. CASE TimerSpuriousWakeup
  <2> USE <1>14 DEF TimerSpuriousWakeup, mainVars, flags, locks
  <2>1. TypeOK'
    BY DEF TypeOK, MainPcs, TimerPcs, DevicePcs
  <2>2. ListInv'
    BY DEF TypeOK, ListInv, ScanInv, FlagInv, Range, Scanning, Releasing
  <2>3. LockInv'
    BY DEF TypeOK, ListInv, LockInv, Scanning, Releasing
  <2>4. FlagInv'
    BY DEF TypeOK, ListInv, FlagInv, Inside, Arrived, ToRelease, Scanning, Releasing
  <2>5. ScanInv'
    BY DEF TypeOK, ListInv, FlagInv, ScanInv, NotReported, Scanning, Releasing
  <2> QED
    BY <2>1, <2>2, <2>3, <2>4, <2>5
<1>15. ASSUME NEW d \in Devices, CallNextSlot(d) PROVE TimerInv'
  <2> USE <1>15 DEF CallNextSlot, timerVars, mainVars, flags, locks, Step
  <2>1. TypeOK'
    BY DEF TypeOK, MainPcs, TimerPcs, DevicePcs
  <2>2. ListInv'
    BY DEF TypeOK, ListInv, Scanning, Releasing
  <2>3. LockInv'
    BY DEF TypeOK, ListInv, LockInv, Scanning, Releasing
  <2>4. FlagInv'
    BY DEF TypeOK, LockInv, FlagInv, Inside, Arrived, ToRelease
  <2>5. ScanInv'
    BY DEF TypeOK, ListInv, FlagInv, ScanInv, NotReported, Scanning, Releasing
  <2> QED
    BY <2>1, <2>2, <2>3, <2>4, <2>5
<1>16. ASSUME NEW d \in Devices, CallDetach(d) PROVE TimerInv'
  <2> USE <1>16 DEF CallDetach, timerVars, mainVars, flags, locks, Step
  <2>1. TypeOK'
    BY DEF TypeOK, MainPcs, TimerPcs, DevicePcs
  <2>2. ListInv'
    BY DEF TypeOK, ListInv, Scanning, Releasing
  <2>3. LockInv'
    BY DEF TypeOK, ListInv, LockInv, Scanning, Releasing
  <2>4. FlagInv'
    BY DEF TypeOK, LockInv, FlagInv, Inside, Arrived, ToRelease
  <2>5. ScanInv'
    BY DEF TypeOK, ListInv, FlagInv, ScanInv, NotReported, Scanning, Releasing
  <2> QED
    BY <2>1, <2>2, <2>3, <2>4, <2>5
<1>17. ASSUME NEW d \in Devices, DeviceLockEvent(d) PROVE TimerInv'
  <2> USE <1>17 DEF DeviceLockEvent, timerVars, mainVars, flags, Step
  <2>1. TypeOK'
    BY DEF TypeOK, MainPcs, TimerPcs, DevicePcs
  <2>2. ListInv'
    BY DEF TypeOK, ListInv, Scanning, Releasing
  <2>3. LockInv'
    BY DEF TypeOK, ListInv, LockInv, Scanning, Releasing
  <2>4. FlagInv'
    BY DEF TypeOK, LockInv, FlagInv, Inside, Arrived, ToRelease
  <2>5. ScanInv'
    BY DEF TypeOK, ListInv, FlagInv, ScanInv, NotReported, Scanning, Releasing
  <2> QED
    BY <2>1, <2>2, <2>3, <2>4, <2>5
<1>18. ASSUME NEW d \in Devices, SetDone(d) PROVE TimerInv'
  <2> USE <1>18 DEF SetDone, mainVars, Step, SignalTimer
  <2>1. TypeOK'
    BY DEF TypeOK, MainPcs, TimerPcs, DevicePcs
  <2>2. ListInv'
    BY DEF TypeOK, ListInv, Scanning, Releasing
  <2>3. LockInv'
    BY DEF TypeOK, ListInv, LockInv, Scanning, Releasing
  <2>4. FlagInv'
    <3>1. \A e \in Devices : ToRelease(e) <=> ToRelease(e)'
      BY DEF ToRelease, Releasing
    <3> QED
      BY <3>1 DEF TypeOK, FlagInv, Inside, Arrived
  <2>5. ScanInv'
    <3>1. ~NotReported(d)'
      BY DEF NotReported, TypeOK
    <3>2. \A e \in Devices : ~NotReported(e) => ~NotReported(e)'
      BY DEF NotReported, TypeOK
    <3>3. tpc' \in {"ev_sleep", "ev_wait"} => NotReported(dev_list[cur])'
      BY DEF ScanInv, LockInv, NotReported, TypeOK
    <3> QED
      BY <3>1, <3>2, <3>3 DEF TypeOK, ListInv, ScanInv, Scanning, Releasing
  <2> QED
    BY <2>1, <2>2, <2>3, <2>4, <2>5
<1>19. ASSUME NEW d \in Devices, DeviceLockTimer(d) PROVE TimerInv'
  <2> USE <1>19 DEF DeviceLockTimer, timerVars, mainVars, flags, Step
  <2>1. TypeOK'
    BY DEF TypeOK, MainPcs, TimerPcs, DevicePcs
  <2>2. ListInv'
    BY DEF TypeOK, ListInv, Scanning, Releasing
  <2>3. LockInv'
    BY DEF TypeOK, ListInv, LockInv, Scanning, Releasing
  <2>4. FlagInv'
    BY DEF TypeOK, LockInv, FlagInv, Inside, Arrived, ToRelease
  <2>5. ScanInv'
    BY DEF TypeOK, ListInv, FlagInv, ScanInv, NotReported, Scanning, Releasing
  <2> QED
    BY <2>1, <2>2, <2>3, <2>4, <2>5
<1>20. ASSUME NEW d \in Devices, DeviceMustWait(d) PROVE TimerInv'
  <2> USE <1>20 DEF DeviceMustWait, timerVars, mainVars, flags, locks, Step
  <2>1. TypeOK'
    BY DEF TypeOK, MainPcs, TimerPcs, DevicePcs
  <2>2. ListInv'
    BY DEF TypeOK, ListInv, Scanning, Releasing
  <2>3. LockInv'
    BY DEF TypeOK, ListInv, LockInv, Scanning, Releasing
  <2>4. FlagInv'
    BY DEF TypeOK, LockInv, FlagInv, Inside, Arrived, ToRelease
  <2>5. ScanInv'
    BY DEF TypeOK, ListInv, FlagInv, ScanInv, NotReported, Scanning, Releasing
  <2> QED
    BY <2>1, <2>2, <2>3, <2>4, <2>5
<1>21. ASSUME NEW d \in Devices, DeviceSleep(d) PROVE TimerInv'
  <2> USE <1>21 DEF DeviceSleep, timerVars, mainVars, flags, Step
  <2>1. TypeOK'
    BY DEF TypeOK, MainPcs, TimerPcs, DevicePcs
  <2>2. ListInv'
    BY DEF TypeOK, ListInv, Scanning, Releasing
  <2>3. LockInv'
    BY DEF TypeOK, ListInv, LockInv, Scanning, Releasing
  <2>4. FlagInv'
    BY DEF TypeOK, LockInv, FlagInv, Inside, Arrived, ToRelease
  <2>5. ScanInv'
    BY DEF TypeOK, ListInv, FlagInv, ScanInv, NotReported, Scanning, Releasing
  <2> QED
    BY <2>1, <2>2, <2>3, <2>4, <2>5
<1>22. ASSUME NEW d \in Devices, NextSlotReturn(d) PROVE TimerInv'
  <2> USE <1>22 DEF NextSlotReturn, timerVars, mainVars, flags, Step
  <2>1. TypeOK'
    BY DEF TypeOK, MainPcs, TimerPcs, DevicePcs
  <2>2. ListInv'
    BY DEF TypeOK, ListInv, Scanning, Releasing
  <2>3. LockInv'
    BY DEF TypeOK, ListInv, LockInv, Scanning, Releasing
  <2>4. FlagInv'
    BY DEF TypeOK, LockInv, FlagInv, Inside, Arrived, ToRelease
  <2>5. ScanInv'
    BY DEF TypeOK, ListInv, FlagInv, ScanInv, NotReported, Scanning, Releasing
  <2> QED
    BY <2>1, <2>2, <2>3, <2>4, <2>5
<1>23. ASSUME NEW d \in Devices, SetFsh(d) PROVE TimerInv'
  <2> USE <1>23 DEF SetFsh, mainVars, Step, SignalTimer
  <2>1. TypeOK'
    BY DEF TypeOK, MainPcs, TimerPcs, DevicePcs
  <2>2. ListInv'
    BY DEF TypeOK, ListInv, Scanning, Releasing
  <2>3. LockInv'
    BY DEF TypeOK, ListInv, LockInv, Scanning, Releasing
  <2>4. FlagInv'
    <3>1. \A e \in Devices : ToRelease(e) <=> ToRelease(e)'
      BY DEF ToRelease, Releasing
    <3> QED
      BY <3>1 DEF TypeOK, FlagInv, Inside, Arrived
  <2>5. ScanInv'
    BY DEF TypeOK, ListInv, LockInv, FlagInv, ScanInv, NotReported, Scanning, Releasing
  <2> QED
    BY <2>1, <2>2, <2>3, <2>4, <2>5
<1>24. ASSUME NEW d \in Devices, DeviceSpuriousWakeup(d) PROVE TimerInv'
  <2> USE <1>24 DEF DeviceSpuriousWakeup, timerVars, mainVars, flags, locks, Step
  <2>1. TypeOK'
    BY DEF TypeOK, MainPcs, TimerPcs, DevicePcs
  <2>2. ListInv'
    BY DEF TypeOK, ListInv, Scanning, Releasing
  <2>3. LockInv'
    BY DEF TypeOK, ListInv, LockInv, Scanning, Releasing
  <2>4. FlagInv'
    BY DEF TypeOK, LockInv, FlagInv, Inside, Arrived, ToRelease
  <2>5. ScanInv'
    BY DEF TypeOK, ListInv, FlagInv, ScanInv, NotReported, Scanning, Releasing
  <2> QED
    BY <2>1, <2>2, <2>3, <2>4, <2>5
<1>25. CASE UNCHANGED vars
  <2> USE <1>25 DEF vars, timerVars, mainVars, flags, locks
  <2>1. TypeOK'
    BY DEF TypeOK
  <2>2. ListInv'
    BY DEF ListInv, Scanning, Releasing
  <2>3. LockInv'
    BY DEF LockInv
  <2>4. FlagInv'
    BY DEF FlagInv, Inside, Arrived, ToRelease, Releasing
  <2>5. ScanInv'
    BY DEF ScanInv, NotReported, Scanning, Releasing
  <2> QED
    BY <2>1, <2>2, <2>3, <2>4, <2>5
<1> QED
  BY <1>1, <1>2, <1>3, <1>4, <1>5, <1>6, <1>7, <1>8, <1>9, <1>10, <1>11, <1>12, <1>13, <1>14, <1>15, <1>16, <1>17, <1>18, <1>19, <1>20, <1>21, <1>22, <1>23, <1>24, <1>25 DEF Next, MainThread, TimerThread, DeviceThread, Terminated

-----------------------------------------------------------------------------
(* The invariant holds in every reachable state of timer.c. *)
THEOREM Invariance == Safety => []TimerInv
<1>1. QED
  BY InitInv, NextInv, PTL DEF Safety

(* Variables of timer.c keep their types. *)
THEOREM TypeCorrect == Safety => []TypeOK
<1>1. TimerInv => TypeOK
  BY DEF TimerInv
<1> QED
  BY <1>1, Invariance, PTL

(* Time never moves under a device that works in its slot: current_time() is
   stable between two next_slot() calls and the same for every device. *)
THEOREM SlotsAgree == Safety => []SlotAgreement
<1>1. TimerInv => SlotAgreement
  BY DEF TimerInv, FlagInv, SlotAgreement
<1> QED
  BY <1>1, Invariance, PTL

(* No thread sleeps on a condition variable whose signal is already past. *)
THEOREM WakeupsKept == Safety => []NoLostWakeup
<1>1. TimerInv => NoLostWakeup
  BY DEF TimerInv, FlagInv, ScanInv, NoLostWakeup
<1> QED
  BY <1>1, Invariance, PTL

(* The timer thread ends only after every device has detached. *)
THEOREM TimerIsLast == Safety => []TimerOutlivesDevices
<1>1. TimerInv => TimerOutlivesDevices
  BY DEF TimerInv, FlagInv, ScanInv, TimerOutlivesDevices
<1> QED
  BY <1>1, Invariance, PTL

(* A step that keeps the time, and that keeps each device inside, arrived or
   gone as it was, is invisible at the barrier. *)
LEMMA Invisible ==
  ASSUME UNCHANGED time,
         \A e \in Devices : AtOf(e)' = AtOf(e)
  PROVE  UNCHANGED Barrier!barrierVars
  BY DEF Barrier!barrierVars

(* Each step maps to a step of the barrier or leaves it as it is: done = 1 is
   the arrival, _time++ is the opening, and the return of next_slot is the
   return.  Taking and giving locks, sleeping and waking are invisible. *)
LEMMA StepRefines == TimerInv /\ [Next]_vars => [Barrier!Next]_(Barrier!barrierVars)
<1> SUFFICES ASSUME TimerInv, [Next]_vars PROVE [Barrier!Next]_(Barrier!barrierVars)
  OBVIOUS
<1> USE DEF TimerInv
<1>1. ASSUME NEW d \in Devices, attach_event(d) PROVE UNCHANGED Barrier!barrierVars
  BY <1>1, Invisible DEF attach_event, timerVars, AtOf, Arrived, TypeOK
<1>2. ASSUME NEW d \in Devices, CreateDevice(d) PROVE UNCHANGED Barrier!barrierVars
  BY <1>2, Invisible DEF CreateDevice, timerVars, AtOf, Arrived, TypeOK
<1>3. CASE start_timer
  BY <1>3, Invisible DEF start_timer, AtOf, Arrived, TypeOK
<1>4. CASE stop_timer
  BY <1>4, Invisible DEF stop_timer, timerVars, AtOf, Arrived, TypeOK
<1>5. CASE FreeDevices
  BY <1>5, Invisible DEF FreeDevices, timerVars, AtOf, Arrived, TypeOK
<1>6. CASE TimerLoop
  BY <1>6, Invisible DEF TimerLoop, AtOf, Arrived, TypeOK
<1>7. CASE TimerLockEvent
  BY <1>7, Invisible DEF TimerLockEvent, AtOf, Arrived, TypeOK
<1>8. CASE TimerMustWait
  BY <1>8, Invisible DEF TimerMustWait, AtOf, Arrived, TypeOK
<1>9. CASE TimerSleep
  BY <1>9, Invisible DEF TimerSleep, AtOf, Arrived, TypeOK
<1>10. CASE TimerCount
  BY <1>10, Invisible DEF TimerCount, AtOf, Arrived, TypeOK
<1>11. CASE TimerTick
  <2> USE <1>11 DEF TimerTick
  <2>1. \A e \in Devices : ~ToRelease(e)
    BY DEF ToRelease, Releasing
  <2>2. \A e \in Devices : AtOf(e) \in {"waiting", "out"}
    BY <2>1 DEF ScanInv, NotReported, FlagInv, AtOf, Arrived
  <2>3. \A e \in Devices : AtOf(e)' = IF AtOf(e) = "waiting" THEN "go" ELSE AtOf(e)
    BY <2>2 DEF AtOf, Arrived, TypeOK
  <2>4. Barrier!Tick
    BY <2>2, <2>3 DEF Barrier!Tick, Barrier!Open, Barrier!SlotIsOver
  <2> QED
    BY <2>4 DEF Barrier!Next
<1>12. CASE TimerLockTimer
  BY <1>12, Invisible DEF TimerLockTimer, AtOf, Arrived, TypeOK
<1>13. CASE TimerRelease
  BY <1>13, Invisible DEF TimerRelease, AtOf, Arrived, TypeOK
<1>14. CASE TimerSpuriousWakeup
  BY <1>14, Invisible DEF TimerSpuriousWakeup, AtOf, Arrived, TypeOK
<1>15. ASSUME NEW d \in Devices, CallNextSlot(d) PROVE UNCHANGED Barrier!barrierVars
  BY <1>15, Invisible DEF CallNextSlot, timerVars, Step, AtOf, Arrived, TypeOK
<1>16. ASSUME NEW d \in Devices, CallDetach(d) PROVE UNCHANGED Barrier!barrierVars
  BY <1>16, Invisible DEF CallDetach, timerVars, Step, AtOf, Arrived, TypeOK
<1>17. ASSUME NEW d \in Devices, DeviceLockEvent(d) PROVE UNCHANGED Barrier!barrierVars
  BY <1>17, Invisible DEF DeviceLockEvent, timerVars, Step, AtOf, Arrived, TypeOK
<1>18. ASSUME NEW d \in Devices, SetDone(d) PROVE Barrier!Next
  <2> USE <1>18 DEF SetDone, Step
  <2>1. AtOf(d) = "in" /\ AtOf(d)' = "waiting"
    BY DEF AtOf, Arrived, Inside, TypeOK, FlagInv
  <2>2. \A e \in Devices \ {d} : AtOf(e)' = AtOf(e)
    BY DEF AtOf, Arrived, TypeOK
  <2>3. Barrier!Arrive(d) /\ UNCHANGED time
    BY <2>1, <2>2 DEF Barrier!Arrive, mainVars
  <2> QED
    BY <2>3 DEF Barrier!Next
<1>19. ASSUME NEW d \in Devices, DeviceLockTimer(d) PROVE UNCHANGED Barrier!barrierVars
  BY <1>19, Invisible DEF DeviceLockTimer, timerVars, Step, AtOf, Arrived, TypeOK
<1>20. ASSUME NEW d \in Devices, DeviceMustWait(d) PROVE UNCHANGED Barrier!barrierVars
  BY <1>20, Invisible DEF DeviceMustWait, timerVars, Step, AtOf, Arrived, TypeOK
<1>21. ASSUME NEW d \in Devices, DeviceSleep(d) PROVE UNCHANGED Barrier!barrierVars
  BY <1>21, Invisible DEF DeviceSleep, timerVars, Step, AtOf, Arrived, TypeOK
<1>22. ASSUME NEW d \in Devices, NextSlotReturn(d) PROVE Barrier!Next
  <2> USE <1>22 DEF NextSlotReturn, Step, timerVars
  <2>1. AtOf(d) = "go" /\ AtOf(d)' = "in"
    BY DEF AtOf, Arrived, Inside, TypeOK, FlagInv
  <2>2. \A e \in Devices \ {d} : AtOf(e)' = AtOf(e)
    BY DEF AtOf, Arrived, TypeOK
  <2>3. Barrier!Return(d) /\ UNCHANGED time
    BY <2>1, <2>2 DEF Barrier!Return, mainVars
  <2> QED
    BY <2>3 DEF Barrier!Next
<1>23. ASSUME NEW d \in Devices, SetFsh(d) PROVE Barrier!Next
  <2> USE <1>23 DEF SetFsh, Step
  <2>1. AtOf(d) = "in" /\ AtOf(d)' = "out"
    BY DEF AtOf, Arrived, Inside, TypeOK, FlagInv
  <2>2. \A e \in Devices \ {d} : AtOf(e)' = AtOf(e)
    BY DEF AtOf, Arrived, TypeOK
  <2>3. Barrier!Depart(d) /\ UNCHANGED time
    BY <2>1, <2>2 DEF Barrier!Depart, mainVars
  <2> QED
    BY <2>3 DEF Barrier!Next
<1>24. ASSUME NEW d \in Devices, DeviceSpuriousWakeup(d) PROVE UNCHANGED Barrier!barrierVars
  BY <1>24, Invisible DEF DeviceSpuriousWakeup, timerVars, Step, AtOf, Arrived, TypeOK
<1>25. CASE UNCHANGED vars
  BY <1>25, Invisible DEF vars, timerVars, AtOf, Arrived
<1> QED
  BY <1>1, <1>2, <1>3, <1>4, <1>5, <1>6, <1>7, <1>8, <1>9, <1>10, <1>11, <1>12, <1>13, <1>14, <1>15, <1>16, <1>17, <1>18, <1>19, <1>20, <1>21, <1>22, <1>23, <1>24, <1>25 DEF Next, MainThread, TimerThread, DeviceThread, Terminated

(* timer.c implements the safety half of the slot barrier: no device enters a
   slot before every other one has finished or left the slot before. *)
THEOREM RefinesBarrier == Safety => Barrier!Safety
<1>1. Init => Barrier!Init
  BY DEF Init, Barrier!Init, AtOf, Arrived
<1> QED
  BY <1>1, StepRefines, Invariance, PTL DEF Safety, Barrier!Safety

=============================================================================
