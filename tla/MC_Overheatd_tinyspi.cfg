CONSTANTS
    ReimuConfTinySPI <- MC_TinySPIOnly
    EnabledValues <- MC_EnabledValues
    IoFaults = FALSE
    ExtSignals <- MC_AllSignals
    BlinkMsec = 500
    LongBits = 32

SPECIFICATION Spec

INVARIANT TypeOK
INVARIANT NoLostStatusChange
INVARIANT LedMatchesTrigger
