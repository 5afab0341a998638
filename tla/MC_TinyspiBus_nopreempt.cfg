\* Both overheatd and server_ctl use the bus, on a kernel that runs each
\* sysfs handler to its end.
CONSTANTS
    UidApis <- MC_TspiOrDbus
    KernelPreempt = FALSE
    MaxCommands = 2
SPECIFICATION Spec
INVARIANT PulseBitsIdle
PROPERTY AtomicSpec
