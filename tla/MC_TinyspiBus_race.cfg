\* Both overheatd and server_ctl use the bus, and handlers may interleave.
CONSTANTS
    UidApis <- MC_TspiOnly
    KernelPreempt = TRUE
    MaxCommands = 2
SPECIFICATION Spec
PROPERTY AtomicSpec
