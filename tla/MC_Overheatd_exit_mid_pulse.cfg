CONSTANTS
    ReimuConfTinySPI <- MC_TinySPIOnly
    EnabledValues <- MC_AlwaysEnabled
    IoFaults = FALSE
    ExtSignals <- MC_TermOnly
    BlinkMsec = 500
    LongBits = 32

SPECIFICATION Spec

INVARIANT ExitLeavesNoPulse
