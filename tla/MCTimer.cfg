\* Two CPUs and the loader, two slots: every interleaving.
CONSTANTS
    Devices = {cpu0, cpu1, loader}
    MaxSlot = 2
    Free = Free
SPECIFICATION Spec
INVARIANTS
    TimerInv
    SlotAgreement
    NoLostWakeup
    TimerOutlivesDevices
PROPERTIES
    StopTimerReturns
    ImplementsBarrier
