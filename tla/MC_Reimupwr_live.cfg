\* Liveness of the power state mirror: GPIO and file I/O work, DBus may
\* fail but eventually answers, the power line and the BMC settle.
CONSTANTS
    ConfDelays <- MC_ConfDelays
    IoFaults = FALSE
    DbusFaults = TRUE
    MaxPowerChanges = 3
    MaxCrashes = 1
SPECIFICATION FairSpec
PROPERTY PowerStateRecorded
