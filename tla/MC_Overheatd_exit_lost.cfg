CONSTANTS
    ReimuConfTinySPI <- MC_GpioOnly
    EnabledValues <- MC_AlwaysEnabled
    IoFaults = FALSE
    ExtSignals <- MC_TermOnly
    BlinkMsec = 500
    LongBits = 32

SPECIFICATION FairSpec

PROPERTY ExitHonoured
