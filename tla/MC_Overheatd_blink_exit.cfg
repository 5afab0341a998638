CONSTANTS
    ReimuConfTinySPI <- MC_TinySPIOnly
    EnabledValues <- MC_AlwaysEnabled
    IoFaults = FALSE
    ExtSignals <- MC_NoSignals
    BlinkMsec = 250
    LongBits = 32

SPECIFICATION Spec

INVARIANT ExitOnlyOnRequest
