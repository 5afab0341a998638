---------------------------- MODULE TinyspiAtomic ----------------------------
(***************************************************************************)
(* What the tinyspi sysfs interface promises its clients: the CPLD        *)
(* command register behind command_bits_set / command_bits_reset /        *)
(* state_reg, with every access taking effect atomically.  A write of     *)
(* command_bits_set ORs its bits into the register, a write of            *)
(* command_bits_reset clears them, a read of state_reg leaves it alone.   *)
(*                                                                         *)
(* Each client runs commands, each a sequence of such accesses, one       *)
(* access at a time.                                                      *)
(***************************************************************************)
EXTENDS Naturals, Sequences

CONSTANTS
    Clients,      \* processes using the interface
    Bits,         \* bits of the command register
    Commands,     \* Commands[c]: the access sequences client c may run
    MaxCommands   \* bound on the commands each client runs

VARIABLES
    cmd,      \* the CPLD command register
    todo,     \* todo[c]: accesses of c's current command still to issue
    req,      \* req[c]: c's access in progress, or last done
    pending,  \* pending[c]: req[c] is issued and not yet done
    cmds      \* cmds[c]: commands c has started

avars == <<cmd, todo, req, pending, cmds>>

(* An access: a write of command_bits_set or command_bits_reset, or a    *)
(* read of state_reg.                                                    *)
SetReq(b) == [op |-> "set", bits |-> b]
ResetReq(b) == [op |-> "reset", bits |-> b]
ReadReq == [op |-> "read", bits |-> {}]
Requests == {SetReq(b) : b \in SUBSET Bits} \cup {ResetReq(b) : b \in SUBSET Bits}
              \cup {ReadReq}

(* The documented effect of an access on the command register. *)
Effect(r, c) == CASE r.op = "set"   -> c \cup r.bits
                  [] r.op = "reset" -> c \ r.bits
                  [] r.op = "read"  -> c

Init ==
    /\ cmd \in SUBSET Bits
    /\ todo = [c \in Clients |-> << >>]
    /\ req = [c \in Clients |-> ReadReq]
    /\ pending = [c \in Clients |-> FALSE]
    /\ cmds = [c \in Clients |-> 0]

StartCommand(c) ==
    /\ todo[c] = << >>
    /\ ~pending[c]
    /\ cmds[c] < MaxCommands
    /\ \E s \in Commands[c] : todo' = [todo EXCEPT ![c] = s]
    /\ cmds' = [cmds EXCEPT ![c] = @ + 1]
    /\ UNCHANGED <<cmd, req, pending>>

Issue(c) ==
    /\ ~pending[c]
    /\ todo[c] # << >>
    /\ req' = [req EXCEPT ![c] = Head(todo[c])]
    /\ todo' = [todo EXCEPT ![c] = Tail(@)]
    /\ pending' = [pending EXCEPT ![c] = TRUE]
    /\ UNCHANGED <<cmd, cmds>>

Apply(c) ==
    /\ pending[c]
    /\ cmd' = Effect(req[c], cmd)
    /\ pending' = [pending EXCEPT ![c] = FALSE]
    /\ UNCHANGED <<todo, req, cmds>>

Next == \E c \in Clients : StartCommand(c) \/ Issue(c) \/ Apply(c)

Spec == Init /\ [][Next]_avars
=============================================================================
