----------------------------- MODULE TinyspiBus -----------------------------
(***************************************************************************)
(* The tinyspi kernel module (tinyspi.c) as its two user-space clients   *)
(* drive it: overheatd (alert-reset pulse, state read, LED bit) and       *)
(* server_ctl's UID commands (on/off pulses, state read).                 *)
(*                                                                         *)
(* A sysfs store first sscanf()s the written value into a global staging  *)
(* variable (command_bits_set / command_bits_reset), then calls           *)
(* tinyspi_access() with it.  tinyspi_access() shifts the CPLD command    *)
(* register into the static i_command_reg, ORs/clears the bits in it and  *)
(* shifts it back out.  No lock is taken.  Each shift is one step here    *)
(* (the wire is assumed not to be garbled by two masters).                *)
(***************************************************************************)
EXTENDS Naturals, Sequences

CONSTANTS
    UidApis,        \* outcomes uid_init() may reach: "DBUS", "TSPI", "GPIO", "NONE"
    KernelPreempt,  \* whether a sysfs store may be preempted (preemptive or SMP kernel)
    MaxCommands     \* bound on the commands each client runs

ASSUME TinyspiBusAssumption ==
    /\ UidApis \subseteq {"DBUS", "TSPI", "GPIO", "NONE"}
    /\ KernelPreempt \in BOOLEAN
    /\ MaxCommands \in Nat

Clients == {"overheatd", "server_ctl"}

(* Command register bits the clients use: 0x04, 0x08, 0x10, 0x40. *)
Bits == {"UID_ON", "UID_OFF", "ALERT_RESET", "LED"}

(* Bits that are pulsed (set, then reset) rather than held. *)
PulseBits == {"UID_ON", "UID_OFF", "ALERT_RESET"}

VARIABLES
    cpldCmd,      \* the CPLD command register
    iCmd,         \* static i_command_reg of tinyspi_access()
    stagedSet,    \* global command_bits_set
    stagedReset,  \* global command_bits_reset
    arg,          \* arg[c]: <<set, reset>> arguments of c's tinyspi_access() call
    kpc,          \* kpc[c]: where c is in the kernel
    todo,         \* todo[c]: accesses of c's current command still to issue
    req,          \* req[c]: c's access in progress, or last done
    cmds          \* cmds[c]: commands c has started

vars == <<cpldCmd, iCmd, stagedSet, stagedReset, arg, kpc, todo, req, cmds>>

SetReq(b) == [op |-> "set", bits |-> b]
ResetReq(b) == [op |-> "reset", bits |-> b]
ReadReq == [op |-> "read", bits |-> {}]

-----------------------------------------------------------------------------
(* Client programs. *)

(* Mutant: the alert is never released. *)
AlertPoll_NoReset == <<SetReq({"ALERT_RESET"}), ReadReq>>

(* get_alerts_tinyspi(): pulse CMD_ALERT_RESET, then read state_reg. *)
AlertPoll == <<SetReq({"ALERT_RESET"}), ResetReq({"ALERT_RESET"}), ReadReq>>

(* overheat_control_led_tspi(): the LED is lit by clearing bit 0x40. *)
OverheatdCommands == {AlertPoll, <<ResetReq({"LED"})>>, <<SetReq({"LED"})>>}

(* Mutant: the pulse is never released. *)
UidPulse_NoReset(b) == <<SetReq(b)>>

(* uid_set_tspi(): the same bits to command_bits_set, msleep(10), then *)
(* to command_bits_reset.                                              *)
UidPulse(b) == <<SetReq(b), ResetReq(b)>>

(* server_ctl uid on/off/query/show/switch over the API uid_init() *)
(* chose; only TSPI touches the bus.                                *)
UidCommands(api) ==
    IF api = "TSPI"
    THEN {UidPulse({"UID_ON"}), UidPulse({"UID_OFF"}), <<ReadReq>>,
          <<ReadReq>> \o UidPulse({"UID_ON"}), <<ReadReq>> \o UidPulse({"UID_OFF"})}
    ELSE {<< >>}

ClientCommands(c) ==
    IF c = "overheatd" THEN OverheatdCommands
    ELSE UNION {UidCommands(api) : api \in UidApis}

-----------------------------------------------------------------------------
Init ==
    /\ cpldCmd \in SUBSET (Bits \ PulseBits)
    /\ iCmd = {}
    /\ stagedSet = {}
    /\ stagedReset = {}
    /\ arg = [c \in Clients |-> <<{}, {}>>]
    /\ kpc = [c \in Clients |-> "Idle"]
    /\ todo = [c \in Clients |-> << >>]
    /\ req = [c \in Clients |-> ReadReq]
    /\ cmds = [c \in Clients |-> 0]

(* Mutant: a client starts commands without bound. *)
StartCommand_NoBound(c) ==
    /\ todo[c] = << >>
    /\ kpc[c] = "Idle"
    /\ \E s \in ClientCommands(c) : todo' = [todo EXCEPT ![c] = s]
    /\ cmds' = [cmds EXCEPT ![c] = @ + 1]
    /\ UNCHANGED <<cpldCmd, iCmd, stagedSet, stagedReset, arg, kpc, req>>

(* A client process runs one more command. *)
StartCommand(c) ==
    /\ todo[c] = << >>
    /\ kpc[c] = "Idle"
    /\ cmds[c] < MaxCommands
    /\ \E s \in ClientCommands(c) : todo' = [todo EXCEPT ![c] = s]
    /\ cmds' = [cmds EXCEPT ![c] = @ + 1]
    /\ UNCHANGED <<cpldCmd, iCmd, stagedSet, stagedReset, arg, kpc, req>>

(* Without preemption a sysfs handler runs to its end once entered. *)
Runnable(c) == KernelPreempt \/ \A d \in Clients \ {c} : kpc[d] = "Idle"

(* The client's write()/read() enters the sysfs handler; a store        *)
(* sscanf()s its value into the staging global.                         *)
Issue(c) ==
    /\ kpc[c] = "Idle"
    /\ todo[c] # << >>
    /\ Runnable(c)
    /\ LET r == Head(todo[c]) IN
         /\ req' = [req EXCEPT ![c] = r]
         /\ stagedSet' = IF r.op = "set" THEN r.bits ELSE stagedSet
         /\ stagedReset' = IF r.op = "reset" THEN r.bits ELSE stagedReset
    /\ todo' = [todo EXCEPT ![c] = Tail(@)]
    /\ kpc' = [kpc EXCEPT ![c] = "Parsed"]
    /\ UNCHANGED <<cpldCmd, iCmd, arg, cmds>>

(* Mutant: command_bits_reset_store() passing its value as the set mask. *)
AccessArgs_ResetAsSet(r) ==
    CASE r.op = "set"   -> <<stagedSet, {}>>
      [] r.op = "reset" -> <<stagedReset, {}>>
      [] r.op = "read"  -> <<{}, {}>>

(* The arguments each handler passes to tinyspi_access(). *)
AccessArgs(r) ==
    CASE r.op = "set"   -> <<stagedSet, {}>>
      [] r.op = "reset" -> <<{}, stagedReset>>
      [] r.op = "read"  -> <<{}, {}>>

(* tinyspi_access() up to the abort check: shift in the command (and    *)
(* state) register; with nothing to write, abort and return.            *)
ShiftIn(c) ==
    /\ kpc[c] = "Parsed"
    /\ Runnable(c)
    /\ LET a == AccessArgs(req[c]) IN
         /\ arg' = [arg EXCEPT ![c] = a]
         /\ kpc' = [kpc EXCEPT ![c] = IF a = <<{}, {}>> THEN "Idle" ELSE "In"]
    /\ iCmd' = cpldCmd
    /\ UNCHANGED <<cpldCmd, stagedSet, stagedReset, todo, req, cmds>>

(* Mutant: the reset mask is not applied. *)
Modify_NoReset(c) ==
    /\ kpc[c] = "In"
    /\ Runnable(c)
    /\ iCmd' = iCmd \cup arg[c][1]
    /\ kpc' = [kpc EXCEPT ![c] = "Out"]
    /\ UNCHANGED <<cpldCmd, stagedSet, stagedReset, arg, todo, req, cmds>>

(* i_command_reg |= set; i_command_reg &= ~reset. *)
Modify(c) ==
    /\ kpc[c] = "In"
    /\ Runnable(c)
    /\ iCmd' = (iCmd \cup arg[c][1]) \ arg[c][2]
    /\ kpc' = [kpc EXCEPT ![c] = "Out"]
    /\ UNCHANGED <<cpldCmd, stagedSet, stagedReset, arg, todo, req, cmds>>

(* Shift i_command_reg out to the CPLD and return. *)
ShiftOut(c) ==
    /\ kpc[c] = "Out"
    /\ Runnable(c)
    /\ cpldCmd' = iCmd
    /\ kpc' = [kpc EXCEPT ![c] = "Idle"]
    /\ UNCHANGED <<iCmd, stagedSet, stagedReset, arg, todo, req, cmds>>

(* Every client has run all its commands. *)
Done ==
    /\ \A c \in Clients : cmds[c] = MaxCommands /\ todo[c] = << >> /\ kpc[c] = "Idle"
    /\ UNCHANGED vars

Next ==
    \/ \E c \in Clients :
          StartCommand(c) \/ Issue(c) \/ ShiftIn(c) \/ Modify(c) \/ ShiftOut(c)
    \/ Done

Spec == Init /\ [][Next]_vars

-----------------------------------------------------------------------------
(* Type invariant. *)
TypeOK ==
    /\ cpldCmd \subseteq Bits
    /\ iCmd \subseteq Bits
    /\ stagedSet \subseteq Bits
    /\ stagedReset \subseteq Bits
    /\ \A c \in Clients :
          /\ arg[c][1] \subseteq Bits /\ arg[c][2] \subseteq Bits
          /\ kpc[c] \in {"Idle", "Parsed", "In", "Out"}
          /\ cmds[c] \in 0..MaxCommands

(* The pulses of get_alerts_tinyspi() and uid_set_tspi() leave nothing   *)
(* behind: once no client is inside a command, CMD_ALERT_RESET and the   *)
(* UID on/off bits are clear in the CPLD (a held ALERT_RESET keeps the   *)
(* alert latch from ever latching again).                                *)
PulseBitsIdle ==
    (\A c \in Clients : todo[c] = << >> /\ kpc[c] = "Idle")
        => cpldCmd \cap PulseBits = {}

(* The sysfs files behave as documented: every access takes effect on the *)
(* CPLD command register atomically, as in TinyspiAtomic.                 *)
TA == INSTANCE TinyspiAtomic
        WITH cmd <- cpldCmd,
             pending <- [c \in Clients |-> kpc[c] # "Idle"],
             Commands <- [c \in Clients |-> ClientCommands(c)]

AtomicSpec == TA!Spec
=============================================================================
