CONSTANTS
    ReimuConfTinySPI <- MC_ReimuConfTinySPI
    EnabledValues <- MC_AlwaysEnabled
    IoFaults = TRUE
    ExtSignals <- MC_TermOnly
    BlinkMsec = 500
    LongBits = 64

SPECIFICATION Spec

INVARIANT TypeOK
INVARIANT NoLostStatusChange
INVARIANT LedMatchesTrigger
