---------------------------- MODULE SlotBarrier ----------------------------
(***************************************************************************)
(* What the timer of src/src/timer.c promises to the devices attached to   *)
(* it: simulated time advances one slot at a time, a device that has       *)
(* called next_slot() stays in the call until the slot is over, and a slot *)
(* is over only when every device has called next_slot() or has detached.  *)
(* Locks, condition variables and the timer thread are not visible here;   *)
(* Timer.tla models them and is shown to implement this specification.     *)
(***************************************************************************)
EXTENDS Naturals

CONSTANT Devices          \* the CPU threads and the loader thread

VARIABLES
    at,                   \* where each device is with respect to the slot
    time                  \* the current slot, what current_time() returns

barrierVars == <<at, time>>

\* "in": works inside the current slot; "waiting": in next_slot(), slot not
\* over; "go": the slot is over and the call may return; "out": detached.
Places == {"in", "waiting", "go", "out"}

BarrierTypeOK == at \in [Devices -> Places] /\ time \in Nat

Init == at = [d \in Devices |-> "in"] /\ time = 0

\* next_slot() reports the device's work of this slot as done.
Arrive(d) ==
    /\ at[d] = "in"
    /\ at' = [at EXCEPT ![d] = "waiting"]

\* detach_event(): the device takes no part in later slots.
Depart(d) ==
    /\ at[d] = "in"
    /\ at' = [at EXCEPT ![d] = "out"]

SlotIsOver == \A d \in Devices : at[d] \in {"waiting", "out"}

\* The barrier opens for everyone who waits.
Open ==
    /\ SlotIsOver
    /\ at' = [d \in Devices |-> IF at[d] = "waiting" THEN "go" ELSE at[d]]

Tick == Open /\ time' = time + 1

\* next_slot() returns: the device works in the new slot.
Return(d) ==
    /\ at[d] = "go"
    /\ at' = [at EXCEPT ![d] = "in"]

Next ==
    \/ Tick
    \/ \E d \in Devices : (Arrive(d) \/ Depart(d) \/ Return(d)) /\ UNCHANGED time

\* The safety half: slots are never entered early.
Safety == Init /\ [][Next]_barrierVars

\* A slot that is over ends if someone waits for it, and released devices
\* leave the call.  Nothing forces a device to arrive.
SomeoneWaits == \E d \in Devices : at[d] = "waiting"

Fairness ==
    /\ WF_barrierVars(Tick /\ SomeoneWaits)
    /\ \A d \in Devices : WF_barrierVars(Return(d) /\ UNCHANGED time)

Spec == Safety /\ Fairness

=============================================================================
