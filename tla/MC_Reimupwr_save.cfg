\* Deferred save under GPIO, file and DBus faults, power changes and BMC
\* power losses.  exit(2) after five failed GPIO reads stops the daemon for
\* good (no restart policy is installed), so the system may stop.
CONSTANTS
    ConfDelays <- MC_ConfDelays
    IoFaults = TRUE
    DbusFaults = TRUE
    MaxPowerChanges = 3
    MaxCrashes = 1
SPECIFICATION Spec
INVARIANT TypeOK
PROPERTY SaveOnlyWhenStable
CHECK_DEADLOCK FALSE
