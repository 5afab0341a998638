CONSTANTS
    ReimuConfTinySPI <- MC_TinySPIOnly
    EnabledValues <- MC_AlwaysEnabled
    IoFaults = FALSE
    ExtSignals <- MC_AllSignals
    BlinkMsec = 500
    LongBits = 32

SPECIFICATION Spec

INVARIANT BlinkingArmed
