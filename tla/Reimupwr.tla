------------------------------ MODULE Reimupwr ------------------------------
(***************************************************************************)
(* reimupwr (recipes-mcst/reimu-power-control/files/reimupwr.c): once a   *)
(* second it polls GPIO_POWER_IN, mirrors a changed power-good state to   *)
(* the DBus host state, and, after the power supply discharge delay       *)
(* s_update_delay has passed with the state unchanged, saves it to        *)
(* /var/lib/reimu/last_power_state.                                       *)
(*                                                                         *)
(* The BMC itself may lose power (AC loss) at any step: everything but    *)
(* the saved file is lost and the daemon starts again.  The host power    *)
(* line changes at any time.                                              *)
(***************************************************************************)
EXTENDS Integers

CONSTANTS
    ConfDelays,       \* PS_DISCHARGE_TIME values /etc/auto_power_on may give
    IoFaults,         \* whether GPIO reads and the state file write may fail
    DbusFaults,       \* whether the DBus Set call may fail
    MaxPowerChanges,  \* bound on changes of the host power line
    MaxCrashes        \* bound on BMC power losses

ASSUME ReimupwrAssumption ==
    /\ ConfDelays \subseteq Int
    /\ IoFaults \in BOOLEAN
    /\ DbusFaults \in BOOLEAN
    /\ MaxPowerChanges \in Nat
    /\ MaxCrashes \in Nat

(* s_update_delay as initialised: 10 unless the config gives a number. *)
DefaultUpdateDelay == 10
StartDelays == ConfDelays \cup {DefaultUpdateDelay}

(* "no value yet": old_pgood and the DBus host state before the first set *)
NoPgood == -1

Rpcs == {"Start", "Poll", "Update", "Sleep", "Exited"}

VARIABLES
    rpc,           \* control point of the daemon
    sUpdateDelay,  \* s_update_delay
    oldPgood,      \* old_pgood
    updateDelay,   \* update_delay
    success,       \* success: the last DBus Set went through
    pgood,         \* pgood of the current cycle (NoPgood before the first poll)
    tries,         \* attempts left in poll_pgood()
    savedState,    \* contents of /var/lib/reimu/last_power_state (persistent)
    dbusState,     \* CurrentHostState as last set over DBus
    hwPower,       \* the GPIO_POWER_IN line
    powerChanges,  \* changes of the power line so far
    crashes,       \* BMC power losses so far
    samePolls      \* history: polls in a row, since the start, that read pgood,
                   \* counted until they exceed s_update_delay

daemonVars == <<rpc, sUpdateDelay, oldPgood, updateDelay, success, pgood, tries>>
rvars == <<daemonVars, savedState, dbusState, hwPower, powerChanges, crashes,
           samePolls>>

-----------------------------------------------------------------------------
Init ==
    /\ rpc = "Start"
    /\ sUpdateDelay = DefaultUpdateDelay
    /\ oldPgood = NoPgood
    /\ updateDelay = -1
    /\ success = FALSE
    /\ pgood = NoPgood
    /\ tries = 4
    /\ savedState \in {NoPgood, 0, 1}
    /\ dbusState = NoPgood
    /\ hwPower \in {0, 1}
    /\ powerChanges = 0
    /\ crashes = 0
    /\ samePolls = 0

(* s_update_delay_init(): PS_DISCHARGE_TIME when it is readable and a     *)
(* number, otherwise the default.                                         *)
UpdateDelayInit ==
    /\ rpc = "Start"
    /\ \E d \in StartDelays : sUpdateDelay' = d
    /\ rpc' = "Poll"
    /\ UNCHANGED <<oldPgood, updateDelay, success, pgood, tries, savedState,
                   dbusState, hwPower, powerChanges, crashes, samePolls>>

(* get_gpio_by_name(): the line, or a negative code on a failed read. *)
GpioRead == {hwPower} \cup (IF IoFaults THEN {-1} ELSE {})

(* One attempt of poll_pgood(): a failed read is retried after msleep(100) *)
(* while attempts remain; the fifth failure ends the process (exit(2)).   *)
PollPgood ==
    /\ rpc = "Poll"
    /\ \E r \in GpioRead :
          \/ /\ r >= 0
             /\ pgood' = r
             /\ samePolls' = IF r # pgood THEN 1
                              ELSE IF samePolls <= sUpdateDelay THEN samePolls + 1
                              ELSE samePolls
             /\ rpc' = "Update"
             /\ UNCHANGED tries
          \/ /\ r < 0 /\ tries > 0
             /\ tries' = tries - 1
             /\ UNCHANGED <<rpc, pgood, samePolls>>
          \/ /\ r < 0 /\ tries = 0
             /\ rpc' = "Exited"
             /\ UNCHANGED <<pgood, tries, samePolls>>
    /\ UNCHANGED <<sUpdateDelay, oldPgood, updateDelay, success, savedState,
                   dbusState, hwPower, powerChanges, crashes>>

(* The rest of a cycle of main(): a changed state, or a DBus Set that     *)
(* failed last time, is (re)sent and restarts the deferral; when the      *)
(* deferral reaches 0 the state is written (a failed write only warns);   *)
(* the deferral counts down while it is not negative.                     *)
(* Mutant: a failed DBus Set is not retried while the state is steady. *)
Resend_NoRetry == pgood # oldPgood

(* The state is sent when it changed or the last Set failed. *)
Resend == pgood # oldPgood \/ ~success

(* Mutant: the deferral restarted one second short. *)
Deferral_Short(changed) == IF changed THEN sUpdateDelay - 1 ELSE updateDelay

Deferral(changed) == IF changed THEN sUpdateDelay ELSE updateDelay

Cycle(ok) ==
    /\ rpc = "Update"
    /\ LET changed == Resend
           d == Deferral(changed)
       IN /\ success' = IF changed THEN ok ELSE success
          /\ dbusState' = IF changed /\ ok THEN pgood ELSE dbusState
          /\ oldPgood' = pgood
          /\ \E written \in IF IoFaults THEN BOOLEAN ELSE {TRUE} :
                savedState' = IF d = 0 /\ written THEN pgood ELSE savedState
          /\ updateDelay' = IF d >= 0 THEN d - 1 ELSE d
    /\ rpc' = "Sleep"
    /\ UNCHANGED <<sUpdateDelay, pgood, tries, hwPower, powerChanges, crashes,
                   samePolls>>

(* dbus_set_property_str() succeeds, or fails when DBus may fail. *)
DbusOutcomes == IF DbusFaults THEN BOOLEAN ELSE {TRUE}

(* Mutant: poll_pgood() counting from 5 instead of 4. *)
Sleep_FiveTries ==
    /\ rpc = "Sleep"
    /\ rpc' = "Poll"
    /\ tries' = 5
    /\ UNCHANGED <<sUpdateDelay, oldPgood, updateDelay, success, pgood,
                   savedState, dbusState, hwPower, powerChanges, crashes,
                   samePolls>>

(* msleep(1000), then poll_pgood() starts over with 5 attempts. *)
Sleep ==
    /\ rpc = "Sleep"
    /\ rpc' = "Poll"
    /\ tries' = 4
    /\ UNCHANGED <<sUpdateDelay, oldPgood, updateDelay, success, pgood,
                   savedState, dbusState, hwPower, powerChanges, crashes,
                   samePolls>>

-----------------------------------------------------------------------------
(* The environment: the host power line changes; the BMC loses power and *)
(* boots again, keeping only the saved file (the host state service      *)
(* starts over too).                                                     *)
PowerLineChange ==
    /\ powerChanges < MaxPowerChanges
    /\ hwPower' = 1 - hwPower
    /\ powerChanges' = powerChanges + 1
    /\ UNCHANGED <<daemonVars, savedState, dbusState, crashes, samePolls>>

BmcPowerLoss ==
    /\ crashes < MaxCrashes
    /\ crashes' = crashes + 1
    /\ rpc' = "Start"
    /\ sUpdateDelay' = DefaultUpdateDelay
    /\ oldPgood' = NoPgood
    /\ updateDelay' = -1
    /\ success' = FALSE
    /\ pgood' = NoPgood
    /\ tries' = 4
    /\ dbusState' = NoPgood
    /\ samePolls' = 0
    /\ UNCHANGED <<savedState, hwPower, powerChanges>>

-----------------------------------------------------------------------------
Daemon == UpdateDelayInit \/ PollPgood \/ (\E ok \in DbusOutcomes : Cycle(ok)) \/ Sleep

Next == Daemon \/ PowerLineChange \/ BmcPowerLoss

Spec == Init /\ [][Next]_rvars

(* The daemon is scheduled (weak fairness).  A DBus Set that fails is   *)
(* retried every second; the host state service is assumed to answer    *)
(* eventually, i.e. a Set that is attempted infinitely often succeeds   *)
(* (strong fairness of its successful outcome).                          *)
Fairness == WF_rvars(Daemon) /\ SF_rvars(Cycle(TRUE))

FairSpec == Spec /\ Fairness

-----------------------------------------------------------------------------
(* Type invariant. *)
TypeOK ==
    /\ rpc \in Rpcs
    /\ sUpdateDelay \in StartDelays
    /\ oldPgood \in {NoPgood, 0, 1}
    /\ updateDelay \in Int
    /\ success \in BOOLEAN
    /\ pgood \in {NoPgood, 0, 1}
    /\ tries \in 0..4
    /\ savedState \in {NoPgood, 0, 1}
    /\ dbusState \in {NoPgood, 0, 1}
    /\ hwPower \in {0, 1}
    /\ powerChanges \in 0..MaxPowerChanges
    /\ crashes \in 0..MaxCrashes
    /\ samePolls \in Nat

(* The power supply discharge deferral: a power state is written to      *)
(* last_power_state only after more than s_update_delay polls in a row   *)
(* have read it, so a PGOOD drop caused by an AC loss that takes the BMC *)
(* down within the discharge time is never recorded (main(), lines       *)
(* 294-312).                                                             *)
SaveOnlyWhenStable ==
    [][savedState' # savedState => samePolls > sUpdateDelay]_rvars

(* Once the power line and the BMC stay up and stable, the DBus host     *)
(* state and the saved power state both come to show the power line.   *)
PowerStateRecorded ==
    <>[](dbusState = hwPower /\ savedState = hwPower)

-----------------------------------------------------------------------------
(* Inductive strengthening of SaveOnlyWhenStable: while a deferral runs,  *)
(* the polls since it started all read the state it will save.           *)
DeferralInv ==
    /\ rpc = "Start" => updateDelay < 0
    /\ pgood # NoPgood => samePolls >= 1
    /\ rpc = "Update" => pgood # NoPgood
    /\ (rpc \in {"Sleep", "Poll"} /\ updateDelay >= 0)
          => /\ pgood = oldPgood
             /\ samePolls >= 1
             /\ samePolls + updateDelay >= sUpdateDelay
    /\ (rpc = "Update" /\ pgood = oldPgood /\ success /\ updateDelay >= 0)
          => samePolls + updateDelay >= sUpdateDelay + 1
=============================================================================
