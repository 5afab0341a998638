----------------------------- MODULE Overheatd -----------------------------
(***************************************************************************)
(* The main loop of overheatd (recipes-mcst/overheatd/files/overheatd.c)  *)
(* together with its three asynchronous signal handlers and the hardware  *)
(* it talks to.                                                            *)
(*                                                                         *)
(* The loop is cut into steps at every point where a signal handler can   *)
(* run in between and change a variable the loop reads again later, and   *)
(* at every point where the CPLD behind the TinySPI register files can    *)
(* change its status.  Every nanosleep() is a control point of its own,   *)
(* because a signal that arrives there interrupts it.                     *)
(*                                                                         *)
(* Data are abstracted to what the properties tell apart: the 32-bit      *)
(* alert bitmap to the three bits the decision cascade reads, the         *)
(* TinySPI command register to the two command bits overheatd writes,     *)
(* the temperature scan to "some sensor exceeded the limit".              *)
(***************************************************************************)
EXTENDS Integers, FiniteSets

CONSTANTS
    ReimuConfTinySPI,  \* values the TINYSPI entry of /etc/reimu.conf may have
    EnabledValues,     \* values OVERHEATD_ENABLED may have in each reload
    IoFaults,          \* whether a fatal I/O error (error(code)) may occur
    ExtSignals,        \* signals an operator may send: "TERM" (also HUP, INT), "USR1"
    BlinkMsec,         \* BLINK_MSEC of /etc/overheatd.conf (reload_config rejects < 0)
    LongBits           \* width of C long in the build: 32 (ARM BMC) or 64

ASSUME ConstAssumption ==
    /\ ReimuConfTinySPI \subseteq BOOLEAN /\ ReimuConfTinySPI # {}
    /\ EnabledValues \subseteq BOOLEAN /\ EnabledValues # {}
    /\ IoFaults \in BOOLEAN
    /\ ExtSignals \subseteq {"TERM", "USR1"}
    /\ BlinkMsec \in Nat
    /\ LongBits \in {32, 64}

(* Bits of the alert bitmap read by the decision cascade. *)
THERMAL_SHDN == 0      \* THERMAL_SHDN#, active low
TTRIP        == 15     \* I2CM_TTRIP#, active low
PWROK_MAIN   == 21     \* PWROK_MAIN, active high
AlertBits == {THERMAL_SHDN, TTRIP, PWROK_MAIN}

(* The blink timer period of reload_config(): tv_sec = blink_msec / 1000 *)
(* and tv_nsec = (blink_msec % 1000) * 10000000L, in the width of long.   *)
(* 10000000 = 78125 * 2^7, so tv_nsec is 128 times NsecDiv128 in both   *)
(* widths; with a 32-bit long the product wraps (two's complement), which *)
(* modulo 2^32 is a signed wrap of NsecDiv128 modulo 2^25.                *)
NsecFactor == (BlinkMsec % 1000) * 78125

SignedWrap25(x) ==
    LET w == x % 33554432 IN IF w >= 16777216 THEN w - 33554432 ELSE w

NsecDiv128 == IF LongBits = 32 THEN SignedWrap25(NsecFactor) ELSE NsecFactor

(* timer_settime() fails with EINVAL unless 0 <= tv_nsec < 10^9, i.e.     *)
(* unless tv_nsec / 128 is at most 7812499.                              *)
SettimeValid == NsecDiv128 \in 0..7812499

(* Bits of the TinySPI command register written by overheatd. *)
CMD_ALERT_RESET == 4   \* "00000010\n": resets the TinySPI alert
CMD_LED         == 6   \* "0x00000040\n": overheat LED, lit when cleared
CmdBits == {CMD_ALERT_RESET, CMD_LED}

(* The fallback mask 0x0010a0a5 restricted to AlertBits. *)
GpioAlertMask == {THERMAL_SHDN, TTRIP}

(* LED trigger names; Unset stands for the initial led_trigger "". *)
Unset == "unset"
Triggers == {Unset, "none", "default-on", "timer"}

(* Control points of the main loop; the three sleeps are those of msleep(). *)
SleepPcs == {"PowerSleep", "ResetSleep", "WaitSleep"}
Pcs == {"Reload", "Power", "Alerts", "AlertSet", "AlertClear", "ReadState",
        "Decide", "Temp", "Led", "LedSet", "LedWrite", "Commit", "Exited"}
       \cup SleepPcs

VARIABLES
    pc,             \* control point of main()
    sTinyspi,       \* s_tinyspi: -1 until detect_tinyspi() ran, then 0 or 1
    alerts,         \* alerts: the cached alert bitmap (bits of AlertBits set)
    tinyspiAlert,   \* tinyspi_alert: 2 forces a re-read, else the alert line
    overheatCond,   \* overheat_cond: the latch carried across cycles
    lastDbgState,   \* last_dbg_state
    ledTrigger,     \* led_trigger
    oldLedTrigger,  \* oldledtrigger
    poweredOn,      \* powered_on
    powerTries,     \* i of the GPIO_POWER_IN retry loop
    sleepIntr,      \* the pending nanosleep() was interrupted by a signal
    dbgState,       \* s_dbg_state, written by the SIGUSR1 handler
    exitReq,        \* s_exit_req, written by the SIGTERM/HUP/INT handler
    timerEnable,    \* s_timer_enable, read by the SIGALRM handler
    tspiLed,        \* s_tspi_led, toggled by the SIGALRM handler
    timerReady,     \* s_tspi_timer_ready: timer_create() was called
    timerArmed,     \* s_old_blink_msec = blink_msec: timer_settime() was called
    sysfsTrigger,   \* content of the LED trigger files (GPIO backend)
    hwStatus,       \* CPLD status register (bits of AlertBits set)
    alertLatch,     \* CPLD alert: status changed since the last alert reset
    cmdReg,         \* CPLD command register (bits of CmdBits set)
    lastRead        \* history: the status register value last read

daemon  == <<pc, sTinyspi, alerts, tinyspiAlert, overheatCond, lastDbgState,
             ledTrigger, oldLedTrigger, poweredOn, powerTries, sleepIntr>>
shared  == <<dbgState, exitReq, timerEnable, tspiLed, timerReady, timerArmed>>
hw      == <<sysfsTrigger, hwStatus, alertLatch, cmdReg, lastRead>>
vars    == <<daemon, shared, hw>>

Running == pc # "Exited"

(* The overheat LED of the TinySPI backend is lit when CMD_LED is clear. *)
LedLit == CMD_LED \notin cmdReg

-----------------------------------------------------------------------------
(* TinySPI kernel module: a write to command_bits_set / command_bits_reset *)
(* ORs / clears bits of the command register in one tinyspi_access().     *)
(* Setting CMD_ALERT_RESET clears the CPLD alert (hardware contract).     *)
TinyspiAccess(set, reset) == (cmdReg \cup set) \ reset

CommandBitsSet(b) ==
    /\ cmdReg' = TinyspiAccess({b}, {})
    /\ alertLatch' = IF b = CMD_ALERT_RESET THEN FALSE ELSE alertLatch

CommandBitsReset(b) ==
    /\ cmdReg' = TinyspiAccess({}, {b})
    /\ UNCHANGED alertLatch

(* state_reg_show(): a read-only access returns the CPLD status word. *)
StateRegShow == hwStatus

(* Mutant: the LED polarity inverted. *)
ControlLedTspi_Inverted(status) ==
    IF status = 1 THEN CommandBitsSet(CMD_LED) ELSE CommandBitsReset(CMD_LED)

(* overheat_control_led_tspi(status): status 1 clears CMD_LED (lit). *)
ControlLedTspi(status) ==
    IF status = 1 THEN CommandBitsReset(CMD_LED) ELSE CommandBitsSet(CMD_LED)

-----------------------------------------------------------------------------
Init ==
    /\ pc = "Reload"
    /\ sTinyspi = -1
    /\ alerts = {}
    /\ tinyspiAlert = 2
    /\ overheatCond = FALSE
    /\ lastDbgState = 0
    /\ ledTrigger = Unset
    /\ oldLedTrigger = Unset
    /\ poweredOn = FALSE
    /\ powerTries = 4
    /\ sleepIntr = FALSE
    /\ dbgState = 0
    /\ exitReq = FALSE
    /\ timerEnable = FALSE
    /\ tspiLed = 0
    /\ timerReady = FALSE
    /\ timerArmed = FALSE
    /\ sysfsTrigger = "none"
    /\ hwStatus \in SUBSET AlertBits
    /\ alertLatch \in BOOLEAN
    /\ cmdReg \in {{}, {CMD_LED}}
    /\ lastRead = {}

-----------------------------------------------------------------------------
(* get_conf_bool(): yes/on give 1, no/off give 0; a missing entry (-1) *)
(* or a malformed value (-2) can only occur where the files may be bad.  *)
GetConfBool(values) ==
    {IF v THEN 1 ELSE 0 : v \in values} \cup (IF IoFaults THEN {-1, -2} ELSE {})

(* Main loop.  reload_config(), fatal (error 96) on a negative value;    *)
(* when OVERHEATD_ENABLED, start the cycle: invalidate the cached alerts *)
(* on a debug state change, remember the trigger applied last, and start *)
(* the power probe.                                                      *)
ReloadConfig ==
    /\ pc = "Reload"
    /\ \E enabled \in GetConfBool(EnabledValues) :
          \/ /\ enabled < 0
             /\ pc' = "Exited"
             /\ UNCHANGED <<tinyspiAlert, lastDbgState, oldLedTrigger,
                            ledTrigger, powerTries>>
          \/ /\ enabled = 1
             /\ tinyspiAlert' = IF lastDbgState # dbgState THEN 2 ELSE tinyspiAlert
             /\ lastDbgState' = dbgState
             /\ oldLedTrigger' = ledTrigger
             /\ ledTrigger' = "none"
             /\ powerTries' = 4
             /\ pc' = "Power"
          \/ /\ enabled = 0
             /\ pc' = "WaitSleep"
             /\ UNCHANGED <<tinyspiAlert, lastDbgState, oldLedTrigger,
                            ledTrigger, powerTries>>
    /\ UNCHANGED <<sTinyspi, alerts, overheatCond, poweredOn, sleepIntr,
                   shared, hw>>

(* get_gpio_by_name(): the line value, or a negative code when the      *)
(* gpiotab or the line cannot be read.                                   *)
GpioRead == IF IoFaults THEN {0, 1, -1} ELSE {0, 1}

(* Mutant: the retry loop without its attempt bound. *)
PowerProbe_NoBound ==
    /\ pc = "Power"
    /\ \E r \in GpioRead :
          \/ /\ r >= 0
             /\ poweredOn' = (r = 1)
             /\ pc' = "Alerts"
             /\ UNCHANGED powerTries
          \/ /\ r < 0
             /\ powerTries' = powerTries - 1
             /\ pc' = "PowerSleep"
             /\ UNCHANGED poweredOn
          \/ /\ r < 0 /\ powerTries = 0
             /\ pc' = "Exited"
             /\ UNCHANGED <<poweredOn, powerTries>>
    /\ UNCHANGED <<sTinyspi, alerts, tinyspiAlert, overheatCond, lastDbgState,
                   ledTrigger, oldLedTrigger, sleepIntr, shared, hw>>

(* One attempt of the GPIO_POWER_IN loop; a failed read is retried after *)
(* msleep(100) while attempts remain, and is fatal (error 2) after that.  *)
PowerProbe ==
    /\ pc = "Power"
    /\ \E r \in GpioRead :
          \/ /\ r >= 0
             /\ poweredOn' = (r = 1)
             /\ pc' = "Alerts"
             /\ UNCHANGED powerTries
          \/ /\ r < 0 /\ powerTries > 0
             /\ powerTries' = powerTries - 1
             /\ pc' = "PowerSleep"
             /\ UNCHANGED poweredOn
          \/ /\ r < 0 /\ powerTries = 0
             /\ pc' = "Exited"
             /\ UNCHANGED <<poweredOn, powerTries>>
    /\ UNCHANGED <<sTinyspi, alerts, tinyspiAlert, overheatCond, lastDbgState,
                   ledTrigger, oldLedTrigger, sleepIntr, shared, hw>>

(* detect_tinyspi() (cached), then either the TinySPI alert line decides  *)
(* whether the status register is re-read, or get_alerts_gpio() reads    *)
(* the lines and ORs in the fallback mask.                                *)
(* Mutant: re-read only when forced, ignoring the alert line. *)
AlertsTinySpi_OnlyForced ==
    /\ tinyspiAlert' = IF alertLatch THEN 0 ELSE 1
    /\ pc' = IF tinyspiAlert = 2 THEN "AlertSet" ELSE "Decide"
    /\ UNCHANGED alerts

AlertsTinySpi ==
    /\ tinyspiAlert' = IF alertLatch THEN 0 ELSE 1
    /\ pc' = IF tinyspiAlert = 2 \/ alertLatch THEN "AlertSet" ELSE "Decide"
    /\ UNCHANGED alerts

GetAlertsGpio ==
    /\ \E pwrok \in BOOLEAN :
          alerts' = GpioAlertMask \cup (IF pwrok THEN {PWROK_MAIN} ELSE {})
    /\ pc' = "Decide"
    /\ UNCHANGED tinyspiAlert

DetectTinyspi(conf) ==
    IF sTinyspi = -1 THEN conf ELSE sTinyspi

(* A negative TINYSPI entry is fatal (error 92) on the first detection. *)
ReadAlerts ==
    /\ pc = "Alerts"
    /\ \E conf \in GetConfBool(ReimuConfTinySPI) :
          IF DetectTinyspi(conf) < 0
          THEN /\ pc' = "Exited"
               /\ UNCHANGED <<sTinyspi, alerts, tinyspiAlert>>
          ELSE /\ sTinyspi' = DetectTinyspi(conf)
               /\ IF sTinyspi' = 1 THEN AlertsTinySpi ELSE GetAlertsGpio
    /\ UNCHANGED <<overheatCond, lastDbgState, ledTrigger, oldLedTrigger,
                   poweredOn, powerTries, sleepIntr, shared, hw>>

(* get_alerts_tinyspi(): set CMD_ALERT_RESET, msleep(10), reset it, then *)
(* read state_reg.                                                       *)
(* Mutant: the alert reset is never released before the read. *)
AlertSet_NoClear ==
    /\ pc = "AlertSet"
    /\ CommandBitsSet(CMD_ALERT_RESET)
    /\ pc' = "ReadState"
    /\ UNCHANGED <<sTinyspi, alerts, tinyspiAlert, overheatCond, lastDbgState,
                   ledTrigger, oldLedTrigger, poweredOn, powerTries, sleepIntr,
                   shared, sysfsTrigger, hwStatus, lastRead>>

AlertSet ==
    /\ pc = "AlertSet"
    /\ CommandBitsSet(CMD_ALERT_RESET)
    /\ pc' = "ResetSleep"
    /\ UNCHANGED <<sTinyspi, alerts, tinyspiAlert, overheatCond, lastDbgState,
                   ledTrigger, oldLedTrigger, poweredOn, powerTries, sleepIntr,
                   shared, sysfsTrigger, hwStatus, lastRead>>

AlertClear ==
    /\ pc = "AlertClear"
    /\ CommandBitsReset(CMD_ALERT_RESET)
    /\ pc' = "ReadState"
    /\ UNCHANGED <<sTinyspi, alerts, tinyspiAlert, overheatCond, lastDbgState,
                   ledTrigger, oldLedTrigger, poweredOn, powerTries, sleepIntr,
                   shared, sysfsTrigger, hwStatus, lastRead>>

ReadState ==
    /\ pc = "ReadState"
    /\ alerts' = StateRegShow
    /\ lastRead' = StateRegShow
    /\ pc' = "Decide"
    /\ UNCHANGED <<sTinyspi, tinyspiAlert, overheatCond, lastDbgState,
                   ledTrigger, oldLedTrigger, poweredOn, powerTries, sleepIntr,
                   shared, sysfsTrigger, hwStatus, alertLatch, cmdReg>>

(* The decision cascade, on the alerts after the Critical debug mask,    *)
(* which is applied to the cached variable itself.                       *)
MaskedAlerts == IF dbgState = 2 THEN alerts \ {TTRIP} ELSE alerts

CondAfterShdn(a) == IF THERMAL_SHDN \notin a THEN TRUE ELSE overheatCond

CondAfterTtrip(a) ==
    IF PWROK_MAIN \in a THEN TTRIP \notin a ELSE CondAfterShdn(a)

TriggerAfterTtrip(a) ==
    IF \/ THERMAL_SHDN \notin a
       \/ PWROK_MAIN \in a /\ TTRIP \notin a
    THEN "default-on" ELSE ledTrigger

DecideTrigger(a) ==
    IF TTRIP \notin a /\ PWROK_MAIN \notin a
    THEN IF CondAfterTtrip(a) THEN "default-on" ELSE "none"
    ELSE TriggerAfterTtrip(a)

Decide ==
    /\ pc = "Decide"
    /\ LET a == MaskedAlerts IN
          /\ alerts' = a
          /\ overheatCond' = CondAfterTtrip(a)
          /\ ledTrigger' = DecideTrigger(a)
          /\ pc' = IF ledTrigger' = "none" /\ poweredOn THEN "Temp" ELSE "Led"
    /\ UNCHANGED <<sTinyspi, tinyspiAlert, lastDbgState, oldLedTrigger,
                   poweredOn, powerTries, sleepIntr, shared, hw>>

(* detect_cpus() and the sensor scan; "hot" is that some sensor read     *)
(* exceeded CPU_TEMP_LIMIT.  The Slight debug state fakes limit + 1.     *)
SampleTemperature ==
    /\ pc = "Temp"
    /\ \E hot \in BOOLEAN :
          ledTrigger' = IF hot \/ dbgState = 1 THEN "timer" ELSE ledTrigger
    /\ pc' = "Led"
    /\ UNCHANGED <<sTinyspi, alerts, tinyspiAlert, overheatCond, lastDbgState,
                   oldLedTrigger, poweredOn, powerTries, sleepIntr, shared, hw>>

(* Update the LEDs if the trigger changed: the GPIO backend writes the   *)
(* trigger files, the TinySPI backend starts with tspi_led_init().       *)
(* tspi_led_init(): the timer is created once; it is (re)armed when      *)
(* s_timer_enable is set and the period is not the one armed last         *)
(* (timerArmed: s_old_blink_msec = blink_msec); a rejected period is      *)
(* fatal (error 102).                                                     *)
TspiLedInit ==
    /\ timerReady' = TRUE
    /\ IF timerEnable /\ ~timerArmed
       THEN IF SettimeValid
            THEN /\ timerArmed' = TRUE
                 /\ pc' = "LedSet"
            ELSE /\ pc' = "Exited"
                 /\ UNCHANGED timerArmed
       ELSE /\ pc' = "LedSet"
            /\ UNCHANGED timerArmed
    /\ UNCHANGED sysfsTrigger

SetLedGpio ==
    /\ sysfsTrigger' = ledTrigger
    /\ pc' = "Commit"
    /\ UNCHANGED <<timerReady, timerArmed>>

UpdateLed ==
    /\ pc = "Led"
    /\ IF oldLedTrigger = ledTrigger
       THEN /\ pc' = "Commit"
            /\ UNCHANGED <<timerReady, timerArmed, sysfsTrigger>>
       ELSE IF sTinyspi = 1 THEN TspiLedInit ELSE SetLedGpio
    /\ UNCHANGED <<sTinyspi, alerts, tinyspiAlert, overheatCond, lastDbgState,
                   ledTrigger, oldLedTrigger, poweredOn, powerTries, sleepIntr,
                   dbgState, exitReq, timerEnable, tspiLed,
                   hwStatus, alertLatch, cmdReg, lastRead>>

(* overheat_set_led_tspi(), after tspi_led_init(): "timer" enables the   *)
(* toggling by the timer; any other trigger disables it first, then sets *)
(* s_tspi_led and writes the LED bit.                                    *)
(* Mutant: a trigger other than "timer" leaves the timer toggling. *)
SetLedTspiEnable_KeepTimer ==
    /\ pc = "LedSet"
    /\ timerEnable' = (ledTrigger = "timer" \/ timerEnable)
    /\ pc' = IF ledTrigger = "timer" THEN "Commit" ELSE "LedWrite"
    /\ UNCHANGED <<sTinyspi, alerts, tinyspiAlert, overheatCond, lastDbgState,
                   ledTrigger, oldLedTrigger, poweredOn, powerTries, sleepIntr,
                   dbgState, exitReq, tspiLed, timerReady, timerArmed, hw>>

SetLedTspiEnable ==
    /\ pc = "LedSet"
    /\ timerEnable' = (ledTrigger = "timer")
    /\ pc' = IF ledTrigger = "timer" THEN "Commit" ELSE "LedWrite"
    /\ UNCHANGED <<sTinyspi, alerts, tinyspiAlert, overheatCond, lastDbgState,
                   ledTrigger, oldLedTrigger, poweredOn, powerTries, sleepIntr,
                   dbgState, exitReq, tspiLed, timerReady, timerArmed, hw>>

SetLedTspiWrite ==
    /\ pc = "LedWrite"
    /\ tspiLed' = IF ledTrigger = "default-on" THEN 1 ELSE 0
    /\ ControlLedTspi(tspiLed')
    /\ pc' = "Commit"
    /\ UNCHANGED <<sTinyspi, alerts, tinyspiAlert, overheatCond, lastDbgState,
                   ledTrigger, oldLedTrigger, poweredOn, powerTries, sleepIntr,
                   dbgState, exitReq, timerEnable, timerReady, timerArmed,
                   sysfsTrigger, hwStatus, lastRead>>

(* statefile_commit() of the cycle's report, then msleep(wait_msec). *)
Commit ==
    /\ pc = "Commit"
    /\ pc' = "WaitSleep"
    /\ UNCHANGED <<sTinyspi, alerts, tinyspiAlert, overheatCond, lastDbgState,
                   ledTrigger, oldLedTrigger, poweredOn, powerTries, sleepIntr,
                   shared, hw>>

(* msleep(): a nanosleep() that ran to its end returns to the caller; an *)
(* interrupted one exits when s_exit_req is set and otherwise sleeps the *)
(* remaining time.                                                       *)
AfterSleep(p) ==
    CASE p = "PowerSleep" -> "Power"
      [] p = "ResetSleep" -> "AlertClear"
      [] p = "WaitSleep"  -> "Reload"

SleepElapsed ==
    /\ pc \in SleepPcs
    /\ ~sleepIntr
    /\ pc' = AfterSleep(pc)
    /\ UNCHANGED <<sTinyspi, alerts, tinyspiAlert, overheatCond, lastDbgState,
                   ledTrigger, oldLedTrigger, poweredOn, powerTries, sleepIntr,
                   shared, hw>>

SleepInterrupted ==
    /\ pc \in SleepPcs
    /\ sleepIntr
    /\ sleepIntr' = FALSE
    /\ pc' = IF exitReq THEN "Exited" ELSE pc
    /\ UNCHANGED <<sTinyspi, alerts, tinyspiAlert, overheatCond, lastDbgState,
                   ledTrigger, oldLedTrigger, poweredOn, powerTries,
                   shared, hw>>

(* error(code): a fatal I/O failure at a step that does I/O ends the     *)
(* process before the step's effect.                                     *)
IoPcs == {"Reload", "Alerts", "AlertSet", "AlertClear", "ReadState", "Temp",
          "Led", "LedWrite", "Commit"}

FatalIo ==
    /\ IoFaults
    /\ pc \in IoPcs
    /\ pc' = "Exited"
    /\ UNCHANGED <<sTinyspi, alerts, tinyspiAlert, overheatCond, lastDbgState,
                   ledTrigger, oldLedTrigger, poweredOn, powerTries, sleepIntr,
                   shared, hw>>

-----------------------------------------------------------------------------
(* Signal handlers.  Each runs atomically between two steps of the main   *)
(* loop; one that arrives during a nanosleep() interrupts it.            *)
Interrupt == sleepIntr' = (sleepIntr \/ pc \in SleepPcs)

(* exit_handler(): ignores further termination signals and sets the flag. *)
ExitHandler ==
    /\ "TERM" \in ExtSignals
    /\ Running
    /\ ~exitReq
    /\ exitReq' = TRUE
    /\ Interrupt
    /\ UNCHANGED <<sTinyspi, alerts, tinyspiAlert, overheatCond, lastDbgState,
                   ledTrigger, oldLedTrigger, poweredOn, powerTries, pc,
                   dbgState, timerEnable, tspiLed, timerReady, timerArmed, hw>>

(* Mutant: the debug state advanced without wrapping. *)
SetDbgState_NoWrap ==
    /\ "USR1" \in ExtSignals
    /\ Running
    /\ dbgState' = dbgState + 1
    /\ Interrupt
    /\ UNCHANGED <<sTinyspi, alerts, tinyspiAlert, overheatCond, lastDbgState,
                   ledTrigger, oldLedTrigger, poweredOn, powerTries, pc,
                   exitReq, timerEnable, tspiLed, timerReady, timerArmed, hw>>

(* set_dbg_state(): SIGUSR1 advances the debug state cyclically. *)
SetDbgState ==
    /\ "USR1" \in ExtSignals
    /\ Running
    /\ dbgState' = (dbgState + 1) % 3
    /\ Interrupt
    /\ UNCHANGED <<sTinyspi, alerts, tinyspiAlert, overheatCond, lastDbgState,
                   ledTrigger, oldLedTrigger, poweredOn, powerTries, pc,
                   exitReq, timerEnable, tspiLed, timerReady, timerArmed, hw>>

(* tspi_led_handler(): SIGALRM of the armed blink timer toggles the LED  *)
(* while s_timer_enable is set.                                          *)
TspiLedHandler ==
    /\ Running
    /\ timerArmed
    /\ IF timerEnable
       THEN /\ tspiLed' = 1 - tspiLed
            /\ ControlLedTspi(tspiLed')
       ELSE UNCHANGED <<tspiLed, cmdReg, alertLatch>>
    /\ Interrupt
    /\ UNCHANGED <<sTinyspi, alerts, tinyspiAlert, overheatCond, lastDbgState,
                   ledTrigger, oldLedTrigger, poweredOn, powerTries, pc,
                   dbgState, exitReq, timerEnable, timerReady, timerArmed,
                   sysfsTrigger, hwStatus, lastRead>>

-----------------------------------------------------------------------------
(* The CPLD: its status changes at any time; a change latches the alert  *)
(* unless the alert is being reset (CMD_ALERT_RESET set).                *)
HwStatusChange ==
    /\ \E s \in SUBSET AlertBits \ {hwStatus} : hwStatus' = s
    /\ alertLatch' = (alertLatch \/ CMD_ALERT_RESET \notin cmdReg)
    /\ UNCHANGED <<daemon, shared, sysfsTrigger, cmdReg, lastRead>>

-----------------------------------------------------------------------------
Main ==
    \/ ReloadConfig \/ PowerProbe \/ ReadAlerts \/ AlertSet \/ AlertClear
    \/ ReadState \/ Decide \/ SampleTemperature \/ UpdateLed
    \/ SetLedTspiEnable \/ SetLedTspiWrite \/ Commit
    \/ SleepElapsed \/ SleepInterrupted \/ FatalIo

Signals == ExitHandler \/ SetDbgState \/ TspiLedHandler

Next == Main \/ Signals \/ HwStatusChange

(* The process is scheduled: weak fairness on its steps.  msleep()       *)
(* resumes an interrupted nanosleep() with the remaining time, which only  *)
(* shrinks, so a sleep that keeps being resumed runs out eventually:       *)
(* strong fairness on SleepElapsed.                                        *)
Fairness == WF_vars(Main) /\ SF_vars(SleepElapsed)

Spec == Init /\ [][Next]_vars

FairSpec == Spec /\ Fairness

-----------------------------------------------------------------------------
(* Type invariant. *)
TypeOK ==
    /\ pc \in Pcs
    /\ sTinyspi \in {-1, 0, 1}
    /\ alerts \subseteq AlertBits
    /\ tinyspiAlert \in {0, 1, 2}
    /\ overheatCond \in BOOLEAN
    /\ lastDbgState \in 0..2
    /\ ledTrigger \in Triggers
    /\ oldLedTrigger \in Triggers
    /\ poweredOn \in BOOLEAN
    /\ powerTries \in 0..4
    /\ sleepIntr \in BOOLEAN
    /\ dbgState \in 0..2
    /\ exitReq \in BOOLEAN
    /\ timerEnable \in BOOLEAN
    /\ tspiLed \in {0, 1}
    /\ timerReady \in BOOLEAN
    /\ timerArmed \in BOOLEAN
    /\ sysfsTrigger \in Triggers
    /\ hwStatus \subseteq AlertBits
    /\ alertLatch \in BOOLEAN
    /\ cmdReg \subseteq CmdBits
    /\ lastRead \subseteq AlertBits

(* Steps of get_alerts_tinyspi() between the alert line check and the    *)
(* status register read.                                                 *)
ReadSeqPcs == {"AlertSet", "ResetSleep", "AlertClear", "ReadState"}

(* No lost status change (main(), lines 645-655, and get_alerts_tinyspi): *)
(* whenever overheatd reuses its cached alerts because the TinySPI alert  *)
(* line is not asserted, the CPLD status still equals what it last read.  *)
(* Outside a re-read in progress, and unless a re-read is already forced, *)
(* the status it last read is current or the CPLD alert is pending, so    *)
(* the next cycle re-reads it.                                           *)
NoLostStatusChange ==
    (Running /\ sTinyspi = 1 /\ tinyspiAlert # 2 /\ pc \notin ReadSeqPcs)
        => (lastRead = hwStatus \/ alertLatch)

(* While overheatd runs, the TinySPI alert reset command is asserted only *)
(* between the two writes of get_alerts_tinyspi().                       *)
AlertResetReleased ==
    (Running /\ pc \notin {"ResetSleep", "AlertClear"})
        => CMD_ALERT_RESET \notin cmdReg

(* Until detect_tinyspi() has run, the first alert read is forced. *)
UndetectedForcesRead == sTinyspi = -1 => tinyspiAlert = 2

(* Inductive strengthening of NoLostStatusChange. *)
IInv ==
    /\ TypeOK
    /\ AlertResetReleased
    /\ UndetectedForcesRead
    /\ NoLostStatusChange

(* Control points of a cycle before its LED update, where the LED still  *)
(* shows the trigger applied in the previous cycle.                      *)
PreLedPcs == {"Power", "PowerSleep", "Alerts", "AlertSet", "ResetSleep",
              "AlertClear", "ReadState", "Decide", "Temp", "Led"}

AppliedTrigger == IF pc \in PreLedPcs THEN oldLedTrigger ELSE ledTrigger

(* The overheat LED on the TinySPI backend shows the trigger last applied *)
(* by overheat_set_led_tspi(): lit for "default-on", dark for "none",     *)
(* although the SIGALRM handler toggles the same bit asynchronously.      *)
LedMatchesTrigger ==
    (Running /\ sTinyspi = 1 /\ pc \notin {"LedSet", "LedWrite"})
        => /\ AppliedTrigger = "default-on" => LedLit
           /\ AppliedTrigger = "none" => ~LedLit

(* Blinking is really blinking: once overheat_set_led_tspi("timer") has   *)
(* been applied, the blink timer is armed and its toggling enabled.      *)
BlinkingArmed ==
    (Running /\ sTinyspi = 1 /\ pc \notin {"LedSet", "LedWrite"}
             /\ AppliedTrigger = "timer")
        => timerArmed /\ timerEnable

(* A process exit never leaves the TinySPI alert reset command asserted: *)
(* the daemon exits between cycles, not between the two writes of        *)
(* get_alerts_tinyspi().                                                  *)
ExitLeavesNoPulse ==
    pc = "Exited" => CMD_ALERT_RESET \notin cmdReg

(* With working I/O, overheatd ends only on a termination signal: spec.md *)
(* lists the fatal exits (bad hardware, malformed config, I/O failure,   *)
(* allocation failure); a valid BLINK_MSEC is none of them.  This is     *)
(* about tspi_led_init() arming the blink timer with the period           *)
(* computed in reload_config().                                          *)
ExitOnlyOnRequest ==
    pc = "Exited" => exitReq

(* Every CPLD alert is eventually acknowledged by overheatd's alert reset *)
(* (or the daemon has exited).                                            *)
AlertAcknowledged ==
    (sTinyspi = 1 /\ alertLatch) ~> (~alertLatch \/ pc = "Exited")

(* A termination signal makes the daemon exit (main loop and msleep()). *)
ExitHonoured ==
    exitReq ~> (pc = "Exited")

=============================================================================
