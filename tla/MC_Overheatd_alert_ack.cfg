CONSTANTS
    ReimuConfTinySPI <- MC_TinySPIOnly
    EnabledValues <- MC_AlwaysEnabled
    IoFaults = FALSE
    ExtSignals <- MC_NoSignals
    BlinkMsec = 500
    LongBits = 32

SPECIFICATION FairSpec

PROPERTY AlertAcknowledged
