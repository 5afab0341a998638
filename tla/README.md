# Verification of overheatd, reimupwr and the TinySPI interface

This directory holds TLA+ models of three parts of the MCST recipes (`src/meta-mcst/meta-common/recipes-mcst/`):
* the baseboard hardware-health daemon `overheatd` (`overheatd/files/overheatd.c`);
* the power-state daemon `reimupwr` (`reimu-power-control/files/reimupwr.c`);
* the TinySPI kernel module (`tinyspi/files/tinyspi.c`) together with its two clients, `overheatd` and the UID commands of `server_ctl` (`buttonscripts/files/server_ctl.c`).

It also holds TLC configurations for small instances, and TLAPS proofs that hold for every configuration.

## 1. The system

`overheatd` is one single-threaded process. Each cycle of its `for(;;)` loop
(`main`, lines 612-769) does the following:

1. `reload_config()` rereads `/etc/overheatd.conf`. When `OVERHEATD_ENABLED` is off, it only sleeps.
2. It invalidates the cached alerts when the debug state changed since the last cycle (621-625).
3. It probes `GPIO_POWER_IN` with 4 retries, each after `msleep(100)`. The fifth failure is fatal, `error(2)` (632-642).
4. It reads the alert word, through one of two backends:
   * **TinySPI** (`detect_tinyspi()` is true, cached in `s_tinyspi`). The `GPIO_TINYSPI_ALERT` line (active low) says whether the CPLD latched a status change. On the first read, or when the line is asserted, `get_alerts_tinyspi()` pulses `CMD_ALERT_RESET` (0x10): it writes `command_bits_set`, calls `msleep(10)`, writes `command_bits_reset`, then reads `state_reg`. Otherwise the cached `alerts` are reused.
   * **GPIO**. `get_alerts_gpio()` reads eleven lines and ORs in a fixed mask.
5. It runs the decision cascade (662-697) on the alerts. The SIGUSR1 "Critical" debug state first clears bit 15 in place. The cascade sets `led_trigger` and the hysteresis flag `overheat_cond`.
6. If the trigger is still `"none"` and the host is powered, it scans the CPU sensors. Any reading above the limit, or the "Slight" debug state, gives `"timer"` (699-746).
7. If the trigger changed, it updates the LEDs (748-760):
   * TinySPI: `overheat_set_led_tspi()`, which calls `tspi_led_init()`, then enables the blink timer or writes LED bit 0x40;
   * GPIO: it writes the sysfs trigger files.
8. It commits the state file, then sleeps `wait_msec` in `msleep()`.

Three signal handlers run asynchronously on the same thread:

* `exit_handler` (TERM/HUP/INT) sets `s_exit_req` and ignores further termination signals.
* `set_dbg_state` (USR1) cycles `s_dbg_state` through 0, 1, 2.
* `tspi_led_handler` (SIGALRM of the blink timer) toggles the LED bit while `s_timer_enable` is set.

A signal that arrives during `nanosleep()` interrupts it. `msleep()` then exits if `s_exit_req` is set, and otherwise sleeps the remaining time.

The TinySPI kernel module exposes sysfs files. Each store runs
`tinyspi_access()`: it shifts the command and status registers in, ORs in
or clears the requested bits (lines 139-140), and shifts the command word
back out. The CPLD (hardware, not in this repository) latches the alert
line when its status changes. `CMD_ALERT_RESET` acknowledges the alert.

The store handlers first `sscanf()` the written value into a global staging variable (`command_bits_set` or `command_bits_reset`, lines 202-214) and then call `tinyspi_access()` with it. That function works on the static `i_command_reg`, and no lock is taken anywhere.

`server_ctl uid on|off|query|show|switch` reaches the UID LED through whichever API `uid_init()` finds. It prefers the DBus LED manager, then TinySPI when `/etc/reimu.conf` says `TINYSPI=yes`, then the GPIO LED class. Over TinySPI:
* `uid_set_tspi()` pulses bit 0x04 (on) or 0x08 (off) of the same command register: set, `msleep(10)`, reset;
* `uid_get_tspi()` reads `state_reg`.

`server_ctl` runs as a separate process, so its writes can meet overheatd's.

`reimupwr` polls `GPIO_POWER_IN` once a second, with the same 5-attempt retry and `exit(2)`. Each cycle runs `main()`, lines 291-314:
* When the value changed, or the last DBus `Set` failed (`success == 0`), it sets `CurrentHostState` over DBus and restarts `update_delay = s_update_delay`.
* When `update_delay` reaches 0, it writes the state to `/var/lib/reimu/last_power_state`.

`s_update_delay` is `PS_DISCHARGE_TIME` from `/etc/auto_power_on`, 10 s by default. It exists so that an AC loss, which drops PGOOD before the BMC itself loses power, is not recorded as "off".

`rawi2ctool` and `vncpasswd` are one-shot tools.

## 2. Modules

| Module | Models |
|---|---|
| `Overheatd` | The main loop of overheatd as a program counter `pc`, its three signal handlers, the TinySPI sysfs stores it uses, and the CPLD as an environment action. |
| `MC_Overheatd` | Definitions of the constant sets used by the TLC configurations. |
| `Overheatd_proofs` | TLAPS proofs of the type invariant, `NoLostStatusChange` and `LedMatchesTrigger`. |
| `Reimupwr` | reimupwr's `main()` loop, `poll_pgood()` and `s_update_delay_init()`, with the power line and BMC power losses as the environment. |
| `MC_Reimupwr` | The configured delays for TLC. |
| `Reimupwr_proofs` | TLAPS proofs of the type invariant and of `SaveOnlyWhenStable`. |
| `TinyspiAtomic` | The abstract interface: the command register with atomic set, reset and read accesses by several clients. |
| `TinyspiBus` | The sysfs handlers and `tinyspi_access()` step by step, driven by overheatd and `server_ctl`. TLC checks, and TLAPS proves, that it implements `TinyspiAtomic` when handlers cannot interleave. |
| `MC_TinyspiBus` | The sets of UID APIs for TLC. |
| `TinyspiBus_proofs` | TLAPS proofs of the type invariant, `PulseBitsIdle` and the refinement `Spec => AtomicSpec` (the last two when at most one client can be inside a handler). |

### How `Overheatd` corresponds to the code

Each main-loop step that changes state, or that can block or fail, is one action. Its guard is `pc = <step>`, and `pc` follows the control flow of `main`.

| Action | Code |
|---|---|
| `ReloadConfig` | `reload_config()` and lines 617-629 |
| `PowerProbe` | One attempt of the `GPIO_POWER_IN` loop |
| `ReadAlerts` | `detect_tinyspi()` plus the alert-line check (`AlertsTinySpi`) or `get_alerts_gpio()` |
| `AlertSet` / `AlertClear` / `ReadState` | The three sysfs accesses of `get_alerts_tinyspi()`. The `msleep(10)` between the first two is the control point `ResetSleep`. |
| `Decide` | The cascade, split into the operators `MaskedAlerts`, `CondAfterShdn`, `CondAfterTtrip`, `TriggerAfterTtrip` and `DecideTrigger`, following the three `if` blocks |
| `SampleTemperature` | The sensor scan. Whether some sensor is over the limit is a free choice (`hot`). |
| `UpdateLed` | The change test, followed by `tspi_led_init()` (`TspiLedInit`) or `overheat_set_led_gpio()` (`SetLedGpio`) |
| `SetLedTspiEnable` / `SetLedTspiWrite` | `overheat_set_led_tspi()` after `tspi_led_init()` |
| `Commit` | `statefile_commit()` |
| `SleepElapsed` / `SleepInterrupted` | `msleep()` at the three sleeping control points `PowerSleep`, `ResetSleep` and `WaitSleep` |
| `FatalIo` | `error()` at any step that does I/O, when the constant `IoFaults` is TRUE |
| `ExitHandler`, `SetDbgState`, `TspiLedHandler` | The handlers. Each is one atomic step that sets `sleepIntr` when the main loop is sleeping. |
| `HwStatusChange` | The CPLD status changing. It latches the alert unless `CMD_ALERT_RESET` is set. |

Data is abstracted to what the properties tell apart:
* the alert word is the set of the three bits the cascade reads (`THERMAL_SHDN`, `TTRIP`, `PWROK_MAIN`);
* the command register is the set of its bits that are 1;
* LED triggers are strings;
* config values and sensor readings are nondeterministic choices.

`GetConfBool` gives the values `get_conf_bool()` can return for a config entry. A missing entry (-1) or a malformed one (-2) is possible only when `IoFaults` is TRUE. Either is fatal, with `error(96)` in `reload_config()` or `error(92)` in `detect_tinyspi()`.

Because the LED bit is active low, `LedLit` is `CMD_LED \notin cmdReg`.

The history variable `lastRead` records the status word at the last `state_reg` read. It exists only to state `NoLostStatusChange`.

Constants:
* `ReimuConfTinySPI` is the set of possible `TINYSPI` values in `/etc/reimu.conf`;
* `EnabledValues` is the set of possible `OVERHEATD_ENABLED` values;
* `IoFaults` says whether reads and writes may fail;
* `ExtSignals` is the set of external signals that can arrive: `"TERM"` and `"USR1"`.

The blink period is computed as reload_config() computes it (lines 588-590). `tv_nsec = (blink_msec % 1000) * 10000000L` is evaluated at the width `LongBits` of `long`. TLC's integers are 32 bits wide, so the model works with `tv_nsec / 128`:
* `10000000 = 78125 * 2^7`;
* a 32-bit wrap is a signed wrap modulo 2^25 of `(blink_msec % 1000) * 78125`.

`SettimeValid` holds when `tv_nsec` lies in `0..999999999`. Otherwise `timer_settime()` fails, and `TspiLedInit` takes the `error(102)` exit.

### How `Reimupwr` corresponds to the code

| Action | Code |
|---|---|
| `UpdateDelayInit` | `s_update_delay_init()`: a value from `ConfDelays`, or the default 10 |
| `PollPgood` | One attempt of `poll_pgood()`. A failed read is retried while attempts remain; the fifth failure is `exit(2)` (`rpc = "Exited"`). |
| `Cycle(ok)` | The rest of the loop body, lines 294-312. `Resend` is the test at line 294 and `Deferral` the `update_delay` value used at line 302. `ok` is the outcome of `dbus_set_property_str()`. A failed state-file write only warns. |
| `Sleep` | `msleep(1000)`; the next `poll_pgood()` starts with 5 attempts |
| `PowerLineChange`, `BmcPowerLoss` | The environment. A power loss keeps only `savedState` (the file) and restarts the daemon. |

The history variable `samePolls` counts the polls in a row since the last start that read the current `pgood`. It stops counting once it exceeds `s_update_delay`.

### How `TinyspiBus` corresponds to the code

Each client `c` (`"overheatd"`, `"server_ctl"`) runs commands, each a sequence of accesses, from `ClientCommands(c)`:
* overheatd: `AlertPoll` (`get_alerts_tinyspi()`) and the two LED writes;
* server_ctl: the UID commands, for each API that `uid_init()` may reach (`UidApis`).

An access goes through four steps:

| Action | Code |
|---|---|
| `Issue` | entering the sysfs handler; a store `sscanf()`s into the global staging variable |
| `ShiftIn` | the call of `tinyspi_access()` with the staging value (`AccessArgs`), the 64-bit shift-in into `i_command_reg`, and the abort of a read |
| `Modify` | lines 139-140 |
| `ShiftOut` | the 32-bit shift-out to the CPLD |

`KernelPreempt` FALSE means a handler, once entered, runs to its end (`Runnable`). This is the case on a uniprocessor kernel without preemption; the kernel configuration is not part of this repository. Each shift is one atomic step, so the model is optimistic about the wire: two masters toggling the GPIO lines at once would corrupt the frame as well.

The refinement mapping to `TinyspiAtomic` sends `cmd` to the CPLD register `cpldCmd` and `pending[c]` to `kpc[c] # "Idle"`. It keeps the client programs as they are. A write refines `Apply` at `ShiftOut`, a read at `ShiftIn`; the other steps are stutters.

## 3. Properties and runs

The first seven runs use `MC_Overheatd`.

| Run | Configuration | Checks | Result |
|---|---|---|---|
| `tinyspi` | TinySPI backend, config toggling, TERM and USR1 | `TypeOK`, `NoLostStatusChange`, `LedMatchesTrigger` | pass (about 1M states) |
| `faults` | both backends, always enabled, I/O faults, TERM | same three | pass (about 250k states) |
| `alert_ack` | TinySPI, no external signals, `FairSpec` | `AlertAcknowledged` | pass |
| `exit_lost` | GPIO, TERM, `FairSpec` | `ExitHonoured` | **violation** |
| `exit_mid_pulse` | TinySPI, TERM | `ExitLeavesNoPulse` | **violation** |
| `first_blink` | TinySPI, TERM and USR1 | `BlinkingArmed` | **violation** |
| `blink_exit` | TinySPI, `BLINK_MSEC` 250, 32-bit `long` | `ExitOnlyOnRequest` | **violation** |
| `power_save` | `MC_Reimupwr`: delays {0, 2, 10}, GPIO, file and DBus faults, 3 power changes, 1 BMC power loss | `TypeOK`, `SaveOnlyWhenStable` | pass (about 140k states) |
| `power_live` | `MC_Reimupwr`: no I/O faults, DBus faults, `FairSpec` | `PowerStateRecorded` | pass |
| `bus_single` | `MC_TinyspiBus`: server_ctl over DBus/GPIO/none, preemptive kernel, 3 commands each | `TypeOK`, `PulseBitsIdle`, `AtomicSpec` | pass |
| `bus_nopreempt` | both clients on TinySPI (or DBus), handlers run to completion, 2 commands each | `PulseBitsIdle`, `AtomicSpec` | pass |
| `bus_race` | both clients on TinySPI, preemptive kernel | `AtomicSpec` | **violation** |

The properties:

* **NoLostStatusChange.** Whenever overheatd could reuse its cached alerts, either the CPLD status still equals what it last read, or the alert latch is set so that the next cycle re-reads it. It needs several actors to break: the CPLD change must fall in the reset pulse, or between reads, and interact with the `tinyspi_alert` cache and the debug-state invalidation.
* **LedMatchesTrigger.** On the TinySPI backend, outside `overheat_set_led_tspi()`, the LED bit agrees with the trigger last applied. The SIGALRM handler toggles the same bit asynchronously, so this checks that leaving "timer" really stops the toggling.
* **AlertAcknowledged.** Every CPLD alert is eventually acknowledged, or the daemon exits (liveness).
* **ExitHonoured.** A termination signal leads to exit. It is violated: see finding 1.
* **ExitLeavesNoPulse.** The daemon never exits with `CMD_ALERT_RESET` asserted. It is violated: see finding 2.
* **BlinkingArmed.** Once "timer" has been applied, the blink timer is armed and enabled. It is violated: see finding 3.
* **ExitOnlyOnRequest.** The daemon stops only after a termination signal. This checks the fatal-exit list of spec.md against the `error(102)` path. It is violated: see finding 4.
* **SaveOnlyWhenStable** (action property). The saved power state changes only to a value read in more than `s_update_delay` consecutive polls since the last start. An AC loss that drops PGOOD and takes the BMC down within the discharge time therefore never records "off". Breaking it takes a power change, a DBus failure or a restart that interacts with the running deferral.
* **PowerStateRecorded** (liveness). Once the power line and the BMC stop changing, the DBus host state and the saved state both come to equal the power line. This holds even when DBus fails at times, because `success == 0` forces a resend.
* **PulseBitsIdle.** When no client is inside a command, `CMD_ALERT_RESET` and the UID on/off bits are clear in the CPLD. A held `CMD_ALERT_RESET` would keep the alert from ever latching again.
* **AtomicSpec.** `TinyspiBus` implements `TinyspiAtomic` under the refinement mapping: every sysfs access behaves as its documented atomic effect. It is violated under concurrency: see finding 5. No run of the project checks `PulseBitsIdle` on that configuration. Checked there by hand (`INVARIANT PulseBitsIdle` in place of the `PROPERTY` line of `MC_TinyspiBus_race.cfg`), TLC also finds it violated: server_ctl's `sscanf` overwrites overheatd's staged LED mask with `UID_ON`. overheatd's modification of the shared `i_command_reg` then runs after server_ctl's reset and sets `UID_ON` again, and both shift-outs leave it set in the CPLD.

### Findings

1. **A termination signal outside a sleep is lost** (`overheatd.c:82`). `msleep()` tests `s_exit_req` only after an interrupted `nanosleep()`. A TERM delivered while the loop computes sets the flag, and the next sleep is not interrupted. `exit_handler` has already set `SIG_IGN` for all termination signals, so later TERMs cannot interrupt it either. The daemon never exits. TLC shows the lasso.
2. **The exit can happen mid-pulse** (`overheatd.c:481`). A TERM during the `msleep(10)` of `get_alerts_tinyspi()` exits from inside `msleep()` with the CPLD's alert reset still asserted. spec.md promises a clean exit between cycles.
3. **The first blinking episode does not blink** (`overheatd.c:430`, 439-444). `tspi_led_init()` arms the timer only if `s_timer_enable` is already set, but `overheat_set_led_tspi("timer")` sets it after calling `tspi_led_init()`. The timer is armed only on the next trigger change after that.

4. **The blink period overflows and makes the daemon exit** (`overheatd.c:589`, `error(102)` at 432).
   * On a 32-bit `long`, `(250 % 1000) * 10000000` wraps negative, and `500` gives 705 ms instead of 500 ms.
   * On a 64-bit `long`, the default 500 ms gives `tv_nsec` = 5e9.

   An invalid `tv_nsec` makes `timer_settime()` fail. `tspi_led_init()` then exits the first time the LED leaves blinking after a period change. spec.md does not list this among the fatal conditions.
5. **Concurrent TinySPI stores are not atomic** (`tinyspi.c:204`, 139). In the `bus_race` trace:
   1. overheatd's LED-off store parses 0x40 into the global `command_bits_set`;
   2. `server_ctl uid on` overwrites it with 0x04 before overheatd's handler passes it to `tinyspi_access()`;
   3. overheatd's write sets UID_ON instead of the LED bit.

   A `state_reg` read by one client between the other's shift-in and shift-out also reloads `i_command_reg` and can undo a change.
   A pulse bit can also stay set: overheatd writes back `i_command_reg` after `server_ctl` has reset UID_ON, so UID_ON stays asserted after both commands ended. The same interleaving with the roles swapped can leave `CMD_ALERT_RESET` set, which disables the alert latch.

### Bounds

The models are finite without counters beyond:
* `powerTries` in 0..4, the code's retry bound;
* `dbgState` in 0..2.

For `reimupwr`:
* `tries` is in 0..4;
* `MaxPowerChanges` = 3 and `MaxCrashes` = 1 give a change during a deferral, a change back, and a restart in between;
* delays 0, 2 and the default 10 cover saving in the cycle of the change, a deferral shorter than a toggle pattern, and the default.

For `TinyspiBus`, each client runs 2 or 3 commands. That is enough for every pair of accesses of the two clients to interleave.

`hwStatus` ranges over all 8 subsets of the three modelled alert bits, and the CPLD can change at every step. Every combination of the cascade's branches is therefore reached, including changes inside the reset pulse. The `faults` run adds every fatal exit point and every failed power probe up to the fatal one.

### Fairness

`FairSpec` assumes weak fairness of the main loop: the process is scheduled. It also assumes strong fairness of `SleepElapsed`. The reason: `msleep()` resumes an interrupted `nanosleep()` with the remaining time, and that time only shrinks, so a sleep that keeps being resumed does run out. Signals and CPLD changes get no fairness: they may never happen.

`Reimupwr`'s `FairSpec` assumes weak fairness of the daemon's steps and strong fairness of a *successful* DBus `Set`. The code retries every second while `success` is 0. That a host state service which is asked infinitely often eventually answers is an assumption about the environment, not something the code guarantees. The power line and BMC power losses get no fairness; they are bounded.

## 4. Proofs

`Overheatd_proofs`:

* **TypeCorrect**: `Spec => []TypeOK`, for every value of the constants, under `ConstAssumption`. `TypeOK` is split into the Boolean flags (`TypeBool`, proved with Zenon) and the integer, set and string fields (`TypeData`, proved with SMT). `TypeSplit` shows the two halves equal `TypeOK`. `TypeStep` has one case per action.
* **NoLostStatusChangeHolds**: `Spec => []NoLostStatusChange`. The invariant is not inductive as it stands: a CPLD change must latch the alert, which needs the alert reset to be released. The strengthening adds two conjuncts:
  * `AlertResetReleased`: outside `ResetSleep` and `AlertClear`, `CMD_ALERT_RESET` is clear;
  * `UndetectedForcesRead`: before detection, the first read is forced.

  `IInv` (in `Overheatd`) is `TypeOK` together with `SafetyInv`, which is these two plus `NoLostStatusChange`. TLC checked it as an invariant of the `tinyspi` and `faults` configurations before the proof. `SafetyStep` proves that every action preserves it.
* **LedMatchesTriggerHolds**: `Spec => []LedMatchesTrigger`, for every blink period and long width. The LED bit is also toggled by `tspi_led_handler()`, so the invariant alone is not inductive. The strengthening `LedInv` adds three facts:
  * before `detect_tinyspi()` has run, the loop is at `Reload`, `WaitSleep`, `Power`, `PowerSleep`, `Alerts` or has exited, and no trigger has been applied;
  * at `LedWrite` the blink timer is already disabled and the trigger is not `"timer"`;
  * on the TinySPI backend, whenever the applied trigger is `"default-on"` or `"none"`, `s_timer_enable` is clear, so the handler leaves the bit alone.

  The first fact is needed because the GPIO branch of the LED update must not be reachable with an undetected backend. TLC checked `LedInv` as an invariant on the `tinyspi` and `faults` configurations, and on `faults` with every signal and both config values (2.8M states), before the proof. `LedStep` has one case per action; the `LedWrite` case is split by the trigger written.

`Reimupwr_proofs`, under `ReimupwrAssumption` (the delays are any integers, the bounds any naturals):
* **TypeCorrect**: `Spec => []TypeOK`.
* **SaveOnlyWhenStableHolds**: `Spec => SaveOnlyWhenStable`, for every delay, zero and negative ones included.

The strengthening is `DeferralInv` (in `Reimupwr`):
* while a deferral runs (`updateDelay >= 0` after a cycle), `pgood = oldPgood` and `samePolls + updateDelay >= s_update_delay`;
* at the cycle step with the state unchanged and `success` set, the bound is one higher;
* `samePolls >= 1` once a poll has succeeded;
* `updateDelay < 0` at start.

Together these make `update_delay == 0` imply more than `s_update_delay` equal polls. `IInvStep` has one case per action, and `PollPgood` is split by the read's outcome. TLC checked `DeferralInv` on the `power_save` configuration before the proof.

`TinyspiBus_proofs`, for every bound `MaxCommands` (all results but the first take the hypothesis `OneOnBus`: `~KernelPreempt \/ "TSPI" \notin UidApis`, i.e. the kernel runs each sysfs handler to its end, or server_ctl reaches the UID LED over DBus or GPIO):
* **TypeCorrect**: `Spec => []TypeOK`, on any kernel. `TypeInv` adds the shapes of the per-client functions; `CommandsTyped` shows that every client program is a sequence of accesses.
* **PulseBitsIdleHolds**: `Spec => []PulseBitsIdle`.
* **AtomicRefinement**: `Spec => AtomicSpec`. This is the refinement of `TinyspiAtomic` under the mapping of section 2. An access takes effect at its `ShiftOut`, or at the `ShiftIn` that aborts a read. Every other handler step maps to a stutter (`RefineStep`).

Both rest on one inductive invariant, `IInv`:
* `Exclusive`: at most one client is inside a handler;
* `OffBus`: off the bus, server_ctl has nothing to issue;
* `AccessInv`: inside a handler, the staged global still holds the access's value; after the shift-in, `i_command_reg` is the CPLD register; after the modification, it is the register with the access applied (`TA!Effect`);
* `TodoPulses` and `InFlightPulse`: every set of a pulse bit is followed by its reset in the same client's program;
* `PulseOwed`: every pulse bit set in the CPLD has a reset in flight or next in line.

The proof has one lemma per handler step (`StartStep`, `IssueStep`, `ShiftInStep`, `ModifyStep`, `ShiftOutStep`). Further lemmas cover `Tail` (`TailPulses`, from `SequenceTheorems`), the effect of an access (`EffectArgs`) and the client programs (`CommandsPulsed`, `OffBusCommands`).

`OneOnBus` is used at exactly one place: `IssueAlone`, which shows that a client enters a handler only while no other is in one. Without it `IInv` fails: TLC finds it violated in 108 states on the `bus_race` configuration, and the `bus_race` run shows `AtomicSpec` itself violated. TLC checked `IInv` on the `bus_single` and `bus_nopreempt` configurations, and on `bus_nopreempt` with three commands per client (30,235 states), before the proof.

What stays with TLC:
* The liveness properties `AlertAcknowledged` and `PowerStateRecorded`, and the `ExitHonoured` counterexample. They rest on fairness and ENABLED, which the installed provers do not handle.
* The violation runs. They are counterexamples, not theorems.

## 5. Not modelled, and why

* The value of a failed GPIO read in `get_alerts_gpio()`. The `b[i] < 0` check on a `uint32_t` is dead code. The model abstracts the read values to the bits the cascade uses.
* A failing `timer_create()` in `tspi_led_init()`. Its result is ignored, and the model assumes it succeeds.
* An abstract LED/alert specification that `Overheatd` refines. `Overheatd` is checked against its invariants and liveness, not against an abstract spec.
* In `server_ctl`:
  * the power-button and watchdog commands, which are one-shot GPIO pulses and DBus calls with no shared state;
  * `uid_init()` itself, whose outcomes are the constant `UidApis`;
  * the missing terminator of `uid_cmds[]`.
* In `reimupwr`:
  * memory-level defects: `strstr()` on an unterminated buffer, `int*` passed as `long*`, and a DBus reference plus two `atexit()` handlers leaked per `Set`;
  * message texts.
* In the TinySPI module: `command_reg_store/show`, which no client uses, and the GPIO wire protocol.
* Not modelled at all:
  * `rawi2ctool` and `vncpasswd`: one-shot tools without state across calls;
  * the contents of overheatd's state file and logging;
  * the sysfs delay files;
  * async-signal safety of `writefile()` in the SIGALRM handler. Handlers are atomic in the model.
