\* server_ctl reaches the UID LED over DBus or GPIO (or not at all), so
\* overheatd is the only bus client; the kernel may preempt.
CONSTANTS
    UidApis <- MC_OffBusApis
    KernelPreempt = TRUE
    MaxCommands = 3
SPECIFICATION Spec
INVARIANT TypeOK
INVARIANT PulseBitsIdle
PROPERTY AtomicSpec
