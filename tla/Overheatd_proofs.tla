-------------------------- MODULE Overheatd_proofs --------------------------
(***************************************************************************)
(* Proofs about the overheatd main loop, its signal handlers and the     *)
(* TinySPI hardware, for every value of the constants.                    *)
(***************************************************************************)
EXTENDS Overheatd, TLAPS

(* The unchanged-variable tuples, expanded. *)
USE DEF daemon, shared, hw, vars

(* Constants of the bit layout and the sets of control points. *)
LEMMA BitsDistinct ==
    /\ THERMAL_SHDN \in AlertBits /\ TTRIP \in AlertBits /\ PWROK_MAIN \in AlertBits
    /\ CMD_ALERT_RESET \in CmdBits /\ CMD_LED \in CmdBits
    /\ CMD_ALERT_RESET # CMD_LED
    /\ GpioAlertMask \subseteq AlertBits
  BY DEF THERMAL_SHDN, TTRIP, PWROK_MAIN, AlertBits, CMD_ALERT_RESET, CMD_LED,
         CmdBits, GpioAlertMask

(* The type invariant split by the prover that handles each half: the   *)
(* Boolean flags go to Zenon, the integer and set fields to SMT.         *)
TypeBool ==
    /\ overheatCond \in BOOLEAN /\ poweredOn \in BOOLEAN /\ sleepIntr \in BOOLEAN
    /\ exitReq \in BOOLEAN /\ timerEnable \in BOOLEAN /\ timerReady \in BOOLEAN
    /\ timerArmed \in BOOLEAN /\ alertLatch \in BOOLEAN

TypeData ==
    /\ pc \in Pcs
    /\ sTinyspi \in {-1, 0, 1}
    /\ alerts \subseteq AlertBits
    /\ tinyspiAlert \in {0, 1, 2}
    /\ lastDbgState \in 0..2
    /\ ledTrigger \in Triggers
    /\ oldLedTrigger \in Triggers
    /\ powerTries \in 0..4
    /\ dbgState \in 0..2
    /\ tspiLed \in {0, 1}
    /\ sysfsTrigger \in Triggers
    /\ hwStatus \subseteq AlertBits
    /\ cmdReg \subseteq CmdBits
    /\ lastRead \subseteq AlertBits

(* TypeOK is exactly the two halves. *)
LEMMA TypeSplit == TypeOK <=> TypeBool /\ TypeData
  BY Zenon DEF TypeOK, TypeBool, TypeData

(* Every step of the specification preserves the type invariant. *)
LEMMA TypeStep == TypeBool /\ TypeData /\ [Next]_vars => TypeBool' /\ TypeData'
<1> SUFFICES ASSUME TypeBool, TypeData, [Next]_vars PROVE TypeBool' /\ TypeData'
    OBVIOUS
<1> USE BitsDistinct, ConstAssumption DEF TypeBool, TypeData, Pcs, SleepPcs, Triggers, Unset
<1>1. CASE ReloadConfig
  <2>1. TypeBool' BY <1>1, Zenon DEF ReloadConfig, GetConfBool
  <2>2. TypeData' BY <1>1, SMT DEF ReloadConfig, GetConfBool
  <2>3. QED BY <2>1, <2>2
<1>2. CASE PowerProbe
  <2>1. TypeBool' BY <1>2, Zenon DEF PowerProbe, GpioRead
  <2>2. TypeData' BY <1>2, SMT DEF PowerProbe, GpioRead
  <2>3. QED BY <2>1, <2>2
<1>3. CASE ReadAlerts
  <2>1. TypeBool' BY <1>3, Zenon DEF ReadAlerts, DetectTinyspi, AlertsTinySpi, GetAlertsGpio, GetConfBool
  <2>2. TypeData' BY <1>3, SMT DEF ReadAlerts, DetectTinyspi, AlertsTinySpi, GetAlertsGpio, GetConfBool
  <2>3. QED BY <2>1, <2>2
<1>4. CASE AlertSet
  <2>1. TypeBool' BY <1>4, Zenon DEF AlertSet, CommandBitsSet, TinyspiAccess
  <2>2. TypeData' BY <1>4, SMT DEF AlertSet, CommandBitsSet, TinyspiAccess
  <2>3. QED BY <2>1, <2>2
<1>5. CASE AlertClear
  <2>1. TypeBool' BY <1>5, Zenon DEF AlertClear, CommandBitsReset, TinyspiAccess
  <2>2. TypeData' BY <1>5, SMT DEF AlertClear, CommandBitsReset, TinyspiAccess
  <2>3. QED BY <2>1, <2>2
<1>6. CASE ReadState
  <2>1. TypeBool' BY <1>6, Zenon DEF ReadState, StateRegShow
  <2>2. TypeData' BY <1>6, SMT DEF ReadState, StateRegShow
  <2>3. QED BY <2>1, <2>2
<1>7. CASE Decide
  <2>1. TypeBool' BY <1>7, Zenon DEF Decide, MaskedAlerts, CondAfterShdn, CondAfterTtrip,
                TriggerAfterTtrip, DecideTrigger
  <2>2. TypeData' BY <1>7, SMT DEF Decide, MaskedAlerts, CondAfterShdn, CondAfterTtrip,
                TriggerAfterTtrip, DecideTrigger
  <2>3. QED BY <2>1, <2>2
<1>8. CASE SampleTemperature
  <2>1. TypeBool' BY <1>8, Zenon DEF SampleTemperature
  <2>2. TypeData' BY <1>8, SMT DEF SampleTemperature
  <2>3. QED BY <2>1, <2>2
<1>9. CASE UpdateLed
  <2>1. TypeBool' BY <1>9, Zenon DEF UpdateLed, TspiLedInit, SetLedGpio
  <2>2. TypeData' BY <1>9, SMT DEF UpdateLed, TspiLedInit, SetLedGpio
  <2>3. QED BY <2>1, <2>2
<1>10. CASE SetLedTspiEnable
  <2>1. TypeBool' BY <1>10, Zenon DEF SetLedTspiEnable
  <2>2. TypeData' BY <1>10, SMT DEF SetLedTspiEnable
  <2>3. QED BY <2>1, <2>2
<1>11. CASE SetLedTspiWrite
  <2>0. cmdReg' \in {cmdReg \cup {CMD_LED}, cmdReg \ {CMD_LED}}
    BY <1>11, Zenon DEF SetLedTspiWrite, ControlLedTspi, CommandBitsSet, CommandBitsReset, TinyspiAccess
  <2>1. TypeBool' BY <1>11, Zenon DEF SetLedTspiWrite, Interrupt, ControlLedTspi, CommandBitsSet,
                CommandBitsReset, TinyspiAccess
  <2>2. TypeData' BY <1>11, <2>0, SMT DEF SetLedTspiWrite, Interrupt
  <2>3. QED BY <2>1, <2>2
<1>12. CASE Commit
  <2>1. TypeBool' BY <1>12, Zenon DEF Commit
  <2>2. TypeData' BY <1>12, SMT DEF Commit
  <2>3. QED BY <2>1, <2>2
<1>13. CASE SleepElapsed
  <2>1. TypeBool' BY <1>13, Zenon DEF SleepElapsed, AfterSleep
  <2>2. TypeData' BY <1>13, SMT DEF SleepElapsed, AfterSleep
  <2>3. QED BY <2>1, <2>2
<1>14. CASE SleepInterrupted
  <2>1. TypeBool' BY <1>14, Zenon DEF SleepInterrupted
  <2>2. TypeData' BY <1>14, SMT DEF SleepInterrupted
  <2>3. QED BY <2>1, <2>2
<1>15. CASE FatalIo
  <2>1. TypeBool' BY <1>15, Zenon DEF FatalIo
  <2>2. TypeData' BY <1>15, SMT DEF FatalIo
  <2>3. QED BY <2>1, <2>2
<1>16. CASE ExitHandler
  <2>1. TypeBool' BY <1>16, Zenon DEF ExitHandler, Interrupt
  <2>2. TypeData' BY <1>16, SMT DEF ExitHandler, Interrupt
  <2>3. QED BY <2>1, <2>2
<1>17. CASE SetDbgState
  <2>1. TypeBool' BY <1>17, Zenon DEF SetDbgState, Interrupt
  <2>2. TypeData' BY <1>17, SMT DEF SetDbgState, Interrupt
  <2>3. QED BY <2>1, <2>2
<1>18. CASE TspiLedHandler
  <2>0. cmdReg' \in {cmdReg, cmdReg \cup {CMD_LED}, cmdReg \ {CMD_LED}}
    BY <1>18, Zenon DEF TspiLedHandler, ControlLedTspi, CommandBitsSet, CommandBitsReset, TinyspiAccess
  <2>1. TypeBool' BY <1>18, Zenon DEF TspiLedHandler, Interrupt, ControlLedTspi, CommandBitsSet,
                CommandBitsReset, TinyspiAccess
  <2>2. TypeData' BY <1>18, <2>0, SMT DEF TspiLedHandler, Interrupt
  <2>3. QED BY <2>1, <2>2
<1>19. CASE HwStatusChange
  <2>1. TypeBool' BY <1>19, Zenon DEF HwStatusChange
  <2>2. TypeData' BY <1>19, SMT DEF HwStatusChange
  <2>3. QED BY <2>1, <2>2
<1>20. CASE UNCHANGED vars
    BY <1>20
<1>21. QED
    BY <1>1, <1>2, <1>3, <1>4, <1>5, <1>6, <1>7, <1>8, <1>9, <1>10, <1>11, <1>12, <1>13, <1>14, <1>15, <1>16, <1>17, <1>18, <1>19, <1>20
       DEF Next, Main, Signals

(* The initial states are well typed. *)
LEMMA InitTyped == Init => TypeBool /\ TypeData
<1>1. Init => TypeBool
    BY Zenon DEF Init, TypeBool
<1>2. Init => TypeData
    BY BitsDistinct, SMT DEF Init, TypeData, Pcs, Triggers, Unset
<1>3. QED
    BY <1>1, <1>2

(* Type correctness: every reachable state of overheatd and its hardware *)
(* satisfies TypeOK.                                                     *)
THEOREM TypeCorrect == Spec => []TypeOK
<1>1. Spec => [](TypeBool /\ TypeData)
    BY InitTyped, TypeStep, PTL DEF Spec
<1>2. QED
    BY <1>1, TypeSplit, PTL


-----------------------------------------------------------------------------
(* The safety part of IInv, the strengthening of NoLostStatusChange: the *)
(* alert reset is released outside get_alerts_tinyspi(), and the first   *)
(* read after detection is forced.                                       *)
SafetyInv == AlertResetReleased /\ UndetectedForcesRead /\ NoLostStatusChange

(* Every step preserves SafetyInv in a well-typed state. *)
LEMMA SafetyStep ==
    TypeBool /\ TypeData /\ SafetyInv /\ [Next]_vars => SafetyInv'
<1> SUFFICES ASSUME TypeBool, TypeData, SafetyInv, [Next]_vars PROVE SafetyInv'
    OBVIOUS
<1> USE BitsDistinct DEF TypeBool, TypeData, SafetyInv, AlertResetReleased,
        UndetectedForcesRead, NoLostStatusChange, ReadSeqPcs, Running, Pcs, SleepPcs
<1>1. CASE ReloadConfig
    BY <1>1 DEF ReloadConfig, GetConfBool
<1>2. CASE PowerProbe
    BY <1>2 DEF PowerProbe
<1>3. CASE ReadAlerts
    BY <1>3 DEF ReadAlerts, DetectTinyspi, AlertsTinySpi, GetAlertsGpio, GetConfBool
<1>4. CASE AlertSet
    BY <1>4 DEF AlertSet, CommandBitsSet, TinyspiAccess
<1>5. CASE AlertClear
    BY <1>5 DEF AlertClear, CommandBitsReset, TinyspiAccess
<1>6. CASE ReadState
    BY <1>6 DEF ReadState, StateRegShow
<1>7. CASE Decide
    BY <1>7 DEF Decide
<1>8. CASE SampleTemperature
    BY <1>8 DEF SampleTemperature
<1>9. CASE UpdateLed
    BY <1>9 DEF UpdateLed, TspiLedInit, SetLedGpio
<1>10. CASE SetLedTspiEnable
    BY <1>10 DEF SetLedTspiEnable
<1>11. CASE SetLedTspiWrite
    BY <1>11 DEF SetLedTspiWrite, ControlLedTspi, CommandBitsSet,
                CommandBitsReset, TinyspiAccess
<1>12. CASE Commit
    BY <1>12 DEF Commit
<1>13. CASE SleepElapsed
    BY <1>13 DEF SleepElapsed, AfterSleep
<1>14. CASE SleepInterrupted
    BY <1>14 DEF SleepInterrupted
<1>15. CASE FatalIo
    BY <1>15 DEF FatalIo
<1>16. CASE ExitHandler
    BY <1>16 DEF ExitHandler, Interrupt
<1>17. CASE SetDbgState
    BY <1>17 DEF SetDbgState, Interrupt
<1>18. CASE TspiLedHandler
    BY <1>18 DEF TspiLedHandler, Interrupt, ControlLedTspi, CommandBitsSet,
                CommandBitsReset, TinyspiAccess
<1>19. CASE HwStatusChange
    BY <1>19 DEF HwStatusChange
<1>20. CASE UNCHANGED vars
    BY <1>20
<1>21. QED
    BY <1>1, <1>2, <1>3, <1>4, <1>5, <1>6, <1>7, <1>8, <1>9, <1>10, <1>11, <1>12, <1>13, <1>14, <1>15, <1>16, <1>17, <1>18, <1>19, <1>20
       DEF Next, Main, Signals

(* No lost status change, for every configuration: whenever overheatd    *)
(* reuses the alerts it cached because the TinySPI alert line is quiet   *)
(* (main(), get_alerts_tinyspi()), the CPLD status is still the one it   *)
(* last read, or the alert that forces the next re-read is pending.      *)
THEOREM NoLostStatusChangeHolds == Spec => []NoLostStatusChange
<1>1. Init => SafetyInv
    BY BitsDistinct DEF Init, SafetyInv, AlertResetReleased,
           UndetectedForcesRead, NoLostStatusChange
<1>2. Spec => [](TypeBool /\ TypeData /\ SafetyInv)
    BY <1>1, InitTyped, TypeStep, SafetyStep, PTL DEF Spec
<1>3. QED
    BY <1>2, PTL DEF SafetyInv


-----------------------------------------------------------------------------
(* Inductive strengthening of LedMatchesTrigger: no trigger is applied  *)
(* before detect_tinyspi() has run; a steady trigger is never toggled by *)
(* the blink timer, which overheat_set_led_tspi() has disabled before    *)
(* it writes the LED bit.                                                *)
LedInv ==
    /\ sTinyspi = -1
          => /\ pc \in {"Reload", "WaitSleep", "Power", "PowerSleep", "Alerts", "Exited"}
             /\ oldLedTrigger = Unset
             /\ pc \in {"Reload", "WaitSleep"} => ledTrigger = Unset
    /\ pc = "LedWrite" => ~timerEnable /\ ledTrigger # "timer"
    /\ (Running /\ sTinyspi = 1 /\ pc \notin {"LedSet", "LedWrite"}
               /\ AppliedTrigger \in {"default-on", "none"})
          => ~timerEnable
    /\ LedMatchesTrigger


(* Every step preserves LedInv in a well-typed state. *)
LEMMA LedStep ==
    TypeBool /\ TypeData /\ LedInv /\ [Next]_vars => LedInv'
<1> SUFFICES ASSUME TypeBool, TypeData, LedInv, [Next]_vars PROVE LedInv'
    OBVIOUS
<1> USE BitsDistinct DEF TypeBool, TypeData, LedInv, LedMatchesTrigger, AppliedTrigger,
        PreLedPcs, LedLit, Running, Pcs, SleepPcs, Triggers, Unset
<1>1. CASE ReloadConfig
    BY <1>1 DEF ReloadConfig, GetConfBool
<1>2. CASE PowerProbe
    BY <1>2 DEF PowerProbe
<1>3. CASE ReadAlerts
    BY <1>3 DEF ReadAlerts, DetectTinyspi, AlertsTinySpi, GetAlertsGpio, GetConfBool
<1>4. CASE AlertSet
    BY <1>4 DEF AlertSet, CommandBitsSet, TinyspiAccess
<1>5. CASE AlertClear
    BY <1>5 DEF AlertClear, CommandBitsReset, TinyspiAccess
<1>6. CASE ReadState
    BY <1>6 DEF ReadState, StateRegShow
<1>7. CASE Decide
    BY <1>7 DEF Decide
<1>8. CASE SampleTemperature
    BY <1>8 DEF SampleTemperature
<1>9. CASE UpdateLed
    BY <1>9 DEF UpdateLed, TspiLedInit, SetLedGpio
<1>10. CASE SetLedTspiEnable
    BY <1>10 DEF SetLedTspiEnable
<1>11. CASE SetLedTspiWrite
  <2>1. /\ pc = "LedWrite" /\ pc' = "Commit"
        /\ ~timerEnable /\ ~timerEnable' /\ ledTrigger' = ledTrigger
        /\ ledTrigger # "timer"
        /\ UNCHANGED <<sTinyspi, oldLedTrigger>>
    BY <1>11 DEF SetLedTspiWrite
  <2>2. CASE ledTrigger = "default-on"
    <3>1. cmdReg' = cmdReg \ {CMD_LED}
      BY <1>11, <2>2 DEF SetLedTspiWrite, ControlLedTspi, CommandBitsReset,
         TinyspiAccess
    <3> QED
      BY <2>1, <2>2, <3>1
  <2>3. CASE ledTrigger # "default-on"
    <3>1. cmdReg' = cmdReg \cup {CMD_LED}
      BY <1>11, <2>3 DEF SetLedTspiWrite, ControlLedTspi, CommandBitsSet,
         TinyspiAccess
    <3> QED
      BY <2>1, <2>3, <3>1
  <2> QED
    BY <2>2, <2>3
<1>12. CASE Commit
    BY <1>12 DEF Commit
<1>13. CASE SleepElapsed
    BY <1>13 DEF SleepElapsed, AfterSleep
<1>14. CASE SleepInterrupted
    BY <1>14 DEF SleepInterrupted
<1>15. CASE FatalIo
    BY <1>15 DEF FatalIo
<1>16. CASE ExitHandler
    BY <1>16 DEF ExitHandler, Interrupt
<1>17. CASE SetDbgState
    BY <1>17 DEF SetDbgState, Interrupt
<1>18. CASE TspiLedHandler
    BY <1>18 DEF TspiLedHandler, Interrupt, ControlLedTspi, CommandBitsSet,
                CommandBitsReset, TinyspiAccess
<1>19. CASE HwStatusChange
    BY <1>19 DEF HwStatusChange
<1>20. CASE UNCHANGED vars
    BY <1>20
<1>21. QED
    BY <1>1, <1>2, <1>3, <1>4, <1>5, <1>6, <1>7, <1>8, <1>9, <1>10, <1>11, <1>12, <1>13, <1>14, <1>15, <1>16, <1>17, <1>18, <1>19, <1>20
       DEF Next, Main, Signals

(* The overheat LED shows the trigger last applied, for every            *)
(* configuration and blink period: overheat_set_led_tspi() disables the  *)
(* blink timer before it writes a steady LED, so tspi_led_handler()      *)
(* never toggles a "default-on" or "none" LED.                           *)
THEOREM LedMatchesTriggerHolds == Spec => []LedMatchesTrigger
<1>1. Init => LedInv
    BY BitsDistinct DEF Init, LedInv, LedMatchesTrigger, AppliedTrigger, Running,
           PreLedPcs, Unset
<1>2. Spec => [](TypeBool /\ TypeData /\ LedInv)
    BY <1>1, InitTyped, TypeStep, LedStep, PTL DEF Spec
<1>3. QED
    BY <1>2, PTL DEF LedInv

=============================================================================
