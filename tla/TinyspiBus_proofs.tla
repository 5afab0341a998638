-------------------------- MODULE TinyspiBus_proofs --------------------------
(***************************************************************************)
(* Proofs about the tinyspi sysfs interface as overheatd and server_ctl   *)
(* drive it, for every bound on the commands.                             *)
(*                                                                         *)
(* The type invariant holds on every kernel.  The atomicity of the        *)
(* accesses (the refinement of TinyspiAtomic) and the release of every    *)
(* pulse bit hold when at most one client can be inside tinyspi_access()  *)
(* at a time: on a kernel that does not preempt a sysfs handler, or when  *)
(* server_ctl reaches the UID LED by other means than TinySPI.  Run       *)
(* bus_race shows that the refinement fails otherwise.                    *)
(***************************************************************************)
EXTENDS TinyspiBus, SequenceTheorems, TLAPS

(* The accesses a client may issue. *)
Requests == {SetReq(b) : b \in SUBSET Bits} \cup {ResetReq(b) : b \in SUBSET Bits}
              \cup {ReadReq}

KPcs == {"Idle", "Parsed", "In", "Out"}

(* TypeOK with the shapes of the per-client functions the steps update. *)
TypeInv ==
    /\ cpldCmd \subseteq Bits
    /\ iCmd \subseteq Bits
    /\ stagedSet \subseteq Bits
    /\ stagedReset \subseteq Bits
    /\ arg \in [Clients -> (SUBSET Bits) \X (SUBSET Bits)]
    /\ kpc \in [Clients -> KPcs]
    /\ todo \in [Clients -> Seq(Requests)]
    /\ req \in [Clients -> Requests]
    /\ cmds \in [Clients -> 0..MaxCommands]

(* The hypothesis under which tinyspi_access() is never entered twice:   *)
(* the kernel runs a sysfs handler to its end, or server_ctl stays off   *)
(* the bus.                                                              *)
OneOnBus == ~KernelPreempt \/ "TSPI" \notin UidApis

(* At most one client is inside a sysfs handler. *)
Exclusive ==
    \A c, d \in Clients : c # d /\ kpc[c] # "Idle" => kpc[d] = "Idle"

(* server_ctl off the bus never has an access to issue. *)
OffBus ==
    "TSPI" \notin UidApis =>
        todo["server_ctl"] = << >> /\ kpc["server_ctl"] = "Idle"

(* The <<set, reset>> masks an access means to pass to tinyspi_access(). *)
ReqArgs(r) ==
    CASE r.op = "set"   -> <<r.bits, {}>>
      [] r.op = "reset" -> <<{}, r.bits>>
      [] r.op = "read"  -> <<{}, {}>>

(* Inside the handler: the staged global still holds the access's value; *)
(* after the shift-in i_command_reg is the CPLD register; after the      *)
(* modification it is the register with the access applied.              *)
AccessInv(c) ==
    /\ kpc[c] = "Parsed" => AccessArgs(req[c]) = ReqArgs(req[c])
    /\ kpc[c] = "In" => iCmd = cpldCmd /\ arg[c] = ReqArgs(req[c])
    /\ kpc[c] = "Out" => iCmd = TA!Effect(req[c], cpldCmd)

(* A set of pulse bits, which the same client must reset next. *)
PulseSet(r) == r.op = "set" /\ r.bits \cap PulseBits # {}

(* Every pulse in a sequence of accesses is followed by its reset. *)
PulsesReset(s) ==
    \A i \in 1..Len(s) :
        PulseSet(s[i]) => i < Len(s) /\ s[i + 1] = ResetReq(s[i].bits)

TodoPulses(c) == PulsesReset(todo[c])

(* A pulse in the kernel has its reset next in line. *)
InFlightPulse(c) ==
    (kpc[c] # "Idle" /\ PulseSet(req[c])) =>
        todo[c] # << >> /\ Head(todo[c]) = ResetReq(req[c].bits)

(* Access r resets bit b. *)
Resets(r, b) == r.op = "reset" /\ b \in r.bits

(* Client c will reset bit b: it is resetting it now, or next. *)
PendingReset(c, b) ==
    \/ kpc[c] # "Idle" /\ Resets(req[c], b)
    \/ todo[c] # << >> /\ Resets(Head(todo[c]), b)

(* Every pulse bit set in the CPLD has a reset on its way. *)
PulseOwed ==
    \A b \in cpldCmd \cap PulseBits : \E c \in Clients : PendingReset(c, b)

(* The inductive invariant, under OneOnBus. *)
IInv ==
    /\ TypeInv
    /\ Exclusive
    /\ OffBus
    /\ \A c \in Clients : AccessInv(c) /\ TodoPulses(c) /\ InFlightPulse(c)
    /\ PulseOwed

-----------------------------------------------------------------------------
(* The programs of both clients are sequences of accesses. *)
LEMMA CommandsTyped == \A c \in Clients : ClientCommands(c) \subseteq Seq(Requests)
<1>1. \A b \in SUBSET Bits : UidPulse(b) \in Seq(Requests)
  BY DEF UidPulse, Requests
<1>2. \A b \in SUBSET Bits : <<ReadReq>> \o UidPulse(b) \in Seq(Requests)
  BY DEF UidPulse, Requests
<1>3. OverheatdCommands \subseteq Seq(Requests)
  BY DEF OverheatdCommands, AlertPoll, Requests, Bits
<1>4. \A api \in UidApis : UidCommands(api) \subseteq Seq(Requests)
  <2>1. {"UID_ON"} \in SUBSET Bits /\ {"UID_OFF"} \in SUBSET Bits
    BY DEF Bits
  <2>2. <<ReadReq>> \in Seq(Requests) /\ << >> \in Seq(Requests)
    BY DEF Requests
  <2> QED
    BY <1>1, <1>2, <2>1, <2>2 DEF UidCommands
<1> QED
  BY <1>3, <1>4 DEF ClientCommands, Clients

(* Every access is a set, a reset or a read of bits of the register. *)
LEMMA RequestFields ==
    ASSUME NEW r \in Requests
    PROVE  /\ r.op \in {"set", "reset", "read"}
           /\ r.bits \subseteq Bits
           /\ r.op = "read" => r.bits = {}
  BY DEF Requests, SetReq, ResetReq, ReadReq

(* The documented effect of an access is the OR and AND-NOT of the masks *)
(* the access means to pass.                                             *)
LEMMA EffectArgs ==
    ASSUME NEW r \in Requests, NEW x
    PROVE  TA!Effect(r, x) = (x \cup ReqArgs(r)[1]) \ ReqArgs(r)[2]
  BY RequestFields DEF TA!Effect, ReqArgs

(* Both clients' programs release every pulse they set. *)
LEMMA CommandsPulsed == \A c \in Clients : \A s \in ClientCommands(c) : PulsesReset(s)
<1>1. \A b \in {{"UID_ON"}, {"UID_OFF"}} :
        /\ PulsesReset(UidPulse(b))
        /\ PulsesReset(<<ReadReq>> \o UidPulse(b))
  BY DEF PulsesReset, PulseSet, UidPulse, SetReq, ResetReq, ReadReq, PulseBits
<1>2. PulsesReset(<<ReadReq>>) /\ PulsesReset(<< >>)
  BY DEF PulsesReset, PulseSet, ReadReq
<1>3. \A s \in OverheatdCommands : PulsesReset(s)
  <2>1. PulsesReset(AlertPoll)
    BY DEF AlertPoll, PulsesReset, PulseSet, SetReq, ResetReq, ReadReq, PulseBits
  <2>2. PulsesReset(<<ResetReq({"LED"})>>) /\ PulsesReset(<<SetReq({"LED"})>>)
    BY DEF PulsesReset, PulseSet, SetReq, ResetReq, PulseBits
  <2> QED
    BY <2>1, <2>2 DEF OverheatdCommands
<1>4. \A api \in UidApis : \A s \in UidCommands(api) : PulsesReset(s)
  BY <1>1, <1>2 DEF UidCommands
<1> QED
  BY <1>3, <1>4 DEF ClientCommands, Clients

(* Off the bus, server_ctl's commands issue no access. *)
LEMMA OffBusCommands ==
    "TSPI" \notin UidApis => ClientCommands("server_ctl") \subseteq {<< >>}
  BY DEF ClientCommands, UidCommands

(* Every step keeps the shapes of the variables, on any kernel. *)
LEMMA TypeStep == TypeInv /\ [Next]_vars => TypeInv'
<1> SUFFICES ASSUME TypeInv, [Next]_vars PROVE TypeInv'
  OBVIOUS
<1> USE DEF TypeInv
<1>1. ASSUME NEW c \in Clients, StartCommand(c) PROVE TypeInv'
  <2>1. PICK s \in ClientCommands(c) : todo' = [todo EXCEPT ![c] = s]
    BY <1>1 DEF StartCommand
  <2>2. s \in Seq(Requests)
    BY CommandsTyped
  <2>3. /\ cmds[c] < MaxCommands
        /\ cmds' = [cmds EXCEPT ![c] = cmds[c] + 1]
        /\ UNCHANGED <<cpldCmd, iCmd, stagedSet, stagedReset, arg, kpc, req>>
    BY <1>1 DEF StartCommand
  <2>4. todo' \in [Clients -> Seq(Requests)]
    BY <2>1, <2>2
  <2>5. cmds' \in [Clients -> 0..MaxCommands]
    BY <2>3, TinyspiBusAssumption
  <2> QED
    BY <2>3, <2>4, <2>5
<1>2. ASSUME NEW c \in Clients, Issue(c) PROVE TypeInv'
  <2>1. Head(todo[c]) \in Requests /\ Tail(todo[c]) \in Seq(Requests)
    BY <1>2 DEF Issue
  <2> QED
    BY <1>2, <2>1, RequestFields DEF Issue, KPcs
<1>3. ASSUME NEW c \in Clients, ShiftIn(c) PROVE TypeInv'
  <2>1. AccessArgs(req[c]) \in (SUBSET Bits) \X (SUBSET Bits)
    BY RequestFields DEF AccessArgs
  <2> QED
    BY <1>3, <2>1 DEF ShiftIn, KPcs
<1>4. ASSUME NEW c \in Clients, Modify(c) PROVE TypeInv'
  BY <1>4 DEF Modify, KPcs
<1>5. ASSUME NEW c \in Clients, ShiftOut(c) PROVE TypeInv'
  BY <1>5 DEF ShiftOut, KPcs
<1>6. CASE Done \/ UNCHANGED vars
  BY <1>6 DEF Done, vars
<1> QED
  BY <1>1, <1>2, <1>3, <1>4, <1>5, <1>6 DEF Next

(* The initial state is typed. *)
LEMMA InitTyped == Init => TypeInv
  BY TinyspiBusAssumption DEF Init, TypeInv, KPcs, Requests, ReadReq

(* Type correctness of the sysfs interface's state. *)
THEOREM TypeCorrect == Spec => []TypeOK
<1>1. TypeInv => TypeOK
  BY DEF TypeInv, TypeOK, KPcs
<1> QED
  BY <1>1, InitTyped, TypeStep, PTL DEF Spec
-----------------------------------------------------------------------------
(* The initial state satisfies the strengthening. *)
LEMMA InitIInv == Init => IInv
<1> SUFFICES ASSUME Init PROVE IInv
  OBVIOUS
<1>1. TypeInv
  BY InitTyped
<1>2. Exclusive /\ OffBus
  BY DEF Init, Exclusive, OffBus, Clients
<1>3. \A c \in Clients : AccessInv(c) /\ TodoPulses(c) /\ InFlightPulse(c)
  <2> SUFFICES ASSUME NEW c \in Clients
               PROVE  AccessInv(c) /\ TodoPulses(c) /\ InFlightPulse(c)
    OBVIOUS
  <2>1. kpc[c] = "Idle" /\ todo[c] = << >>
    BY DEF Init
  <2>2. PulsesReset(<< >>)
    BY DEF PulsesReset
  <2> QED
    BY <2>1, <2>2 DEF AccessInv, TodoPulses, InFlightPulse
<1>4. PulseOwed
  BY DEF Init, PulseOwed
<1> QED
  BY <1>1, <1>2, <1>3, <1>4 DEF IInv

(* The per-client part of the strengthening. *)
ClientInv(c) == AccessInv(c) /\ TodoPulses(c) /\ InFlightPulse(c)

(* A client inside a handler is the only one there. *)
LEMMA OthersIdle ==
    ASSUME IInv, NEW c \in Clients, kpc[c] # "Idle"
    PROVE  \A d \in Clients \ {c} : kpc[d] = "Idle"
  BY DEF IInv, Exclusive

(* Under OneOnBus a client enters a handler only when no other is in one. *)
LEMMA IssueAlone ==
    ASSUME OneOnBus, IInv, NEW c \in Clients, Issue(c)
    PROVE  /\ \A d \in Clients \ {c} : kpc[d] = "Idle"
           /\ "TSPI" \notin UidApis => c = "overheatd"
<1>1. "TSPI" \notin UidApis =>
        /\ c = "overheatd"
        /\ kpc["server_ctl"] = "Idle"
  BY DEF IInv, OffBus, Issue, Clients
<1>2. CASE ~KernelPreempt
  BY <1>1, <1>2 DEF Issue, Runnable
<1>3. CASE "TSPI" \notin UidApis
  BY <1>1, <1>3 DEF Clients
<1> QED
  BY <1>2, <1>3 DEF OneOnBus

(* A client starting a command: only its todo and count change. *)
LEMMA StartStep ==
    ASSUME IInv, NEW c \in Clients, StartCommand(c)
    PROVE  IInv'
<1>1. TypeInv'
  BY TypeStep DEF IInv, Next
<1>2. PICK s \in ClientCommands(c) : todo' = [todo EXCEPT ![c] = s]
  BY DEF StartCommand
<1>3. /\ todo[c] = << >> /\ kpc[c] = "Idle"
      /\ UNCHANGED <<cpldCmd, iCmd, stagedSet, stagedReset, arg, kpc, req>>
  BY DEF StartCommand
<1>4. PulsesReset(s) /\ ("TSPI" \notin UidApis /\ c = "server_ctl" => s = << >>)
  BY CommandsPulsed, OffBusCommands
<1>5. Exclusive' /\ OffBus'
  BY <1>2, <1>3, <1>4 DEF IInv, Exclusive, OffBus, Clients
<1>6. \A d \in Clients : ClientInv(d)'
  <2> SUFFICES ASSUME NEW d \in Clients PROVE ClientInv(d)'
    OBVIOUS
  <2>1. CASE d = c
    BY <1>2, <1>3, <1>4, <2>1 DEF ClientInv, AccessInv, TodoPulses, InFlightPulse,
       IInv, TypeInv
  <2>2. CASE d # c
    BY <1>2, <1>3, <2>2 DEF ClientInv, AccessInv, TodoPulses, InFlightPulse,
       IInv, TypeInv, AccessArgs
  <2> QED
    BY <2>1, <2>2
<1>7. PulseOwed'
  <2> SUFFICES ASSUME NEW b \in cpldCmd' \cap PulseBits
               PROVE  \E d \in Clients : PendingReset(d, b)'
    BY DEF PulseOwed
  <2>1. PICK d \in Clients : PendingReset(d, b)
    BY <1>3 DEF IInv, PulseOwed
  <2>2. d # c
    BY <1>3, <2>1 DEF PendingReset
  <2> QED
    BY <1>2, <1>3, <2>1, <2>2 DEF PendingReset, IInv, TypeInv
<1> QED
  BY <1>1, <1>5, <1>6, <1>7 DEF IInv, ClientInv


(* Issuing the first access of a well-formed program leaves a well-formed *)
(* rest, whose head is the reset of a pulse just issued.                 *)
LEMMA TailPulses ==
    ASSUME NEW s \in Seq(Requests), s # << >>, PulsesReset(s)
    PROVE  /\ PulsesReset(Tail(s))
           /\ PulseSet(Head(s)) => Tail(s) # << >> /\ Head(Tail(s)) = ResetReq(Head(s).bits)
<1>1. PulsesReset(Tail(s))
  <2> SUFFICES ASSUME NEW i \in 1..Len(Tail(s)), PulseSet(Tail(s)[i])
               PROVE  i < Len(Tail(s)) /\ Tail(s)[i + 1] = ResetReq(Tail(s)[i].bits)
    BY DEF PulsesReset
  <2>1. i + 1 \in 1..Len(s) /\ PulseSet(s[i + 1])
    BY HeadTailProperties
  <2> QED
    BY <2>1 DEF PulsesReset
<1>2. PulseSet(Head(s)) => Tail(s) # << >> /\ Head(Tail(s)) = ResetReq(Head(s).bits)
  <2> SUFFICES ASSUME PulseSet(Head(s))
               PROVE  Tail(s) # << >> /\ Head(Tail(s)) = ResetReq(Head(s).bits)
    OBVIOUS
  <2>1. Head(s) = s[1] /\ 1 \in 1..Len(s)
    OBVIOUS
  <2>2. 1 < Len(s) /\ s[2] = ResetReq(s[1].bits)
    BY <2>1 DEF PulsesReset
  <2>3. /\ Tail(s) \in Seq(Requests)
        /\ Len(Tail(s)) = Len(s) - 1
        /\ Tail(s)[1] = s[2]
    BY <2>2, HeadTailProperties
  <2>4. Tail(s) # << >>
    <3>1. Len(Tail(s)) # 0
      BY <2>2, <2>3
    <3>2. Len(<< >>) = 0
      OBVIOUS
    <3> QED
      BY <3>1, <3>2
  <2>5. Head(Tail(s)) = s[2]
    BY <2>3, <2>4
  <2> QED
    BY <2>1, <2>2, <2>4, <2>5
<1> QED
  BY <1>1, <1>2

(* A client entering a handler alone. *)
LEMMA IssueStep ==
    ASSUME OneOnBus, IInv, NEW c \in Clients, Issue(c)
    PROVE  IInv'
<1> DEFINE r == Head(todo[c])
<1>1. TypeInv'
  BY TypeStep DEF IInv, Next
<1>2. /\ kpc[c] = "Idle" /\ todo[c] # << >>
      /\ req' = [req EXCEPT ![c] = r]
      /\ stagedSet' = IF r.op = "set" THEN r.bits ELSE stagedSet
      /\ stagedReset' = IF r.op = "reset" THEN r.bits ELSE stagedReset
      /\ todo' = [todo EXCEPT ![c] = Tail(todo[c])]
      /\ kpc' = [kpc EXCEPT ![c] = "Parsed"]
      /\ UNCHANGED <<cpldCmd, iCmd, arg, cmds>>
  BY DEF Issue
<1>3. /\ \A d \in Clients \ {c} : kpc[d] = "Idle"
      /\ "TSPI" \notin UidApis => c = "overheatd"
  BY IssueAlone
<1>4. r \in Requests /\ todo[c] \in Seq(Requests)
  BY <1>2 DEF IInv, TypeInv
<1>5. Exclusive' /\ OffBus'
  BY <1>2, <1>3 DEF IInv, TypeInv, Exclusive, OffBus, Clients
<1>6. ClientInv(c)'
  <2>1. AccessInv(c)'
    <3>0. req'[c] = r
      BY <1>2 DEF IInv, TypeInv
    <3>1. (AccessArgs(req[c]) = ReqArgs(req[c]))'
      <4>1. r.op \in {"set", "reset", "read"}
        BY <1>4, RequestFields
      <4>2. CASE r.op = "set"
        BY <1>2, <3>0, <4>2 DEF AccessArgs, ReqArgs
      <4>3. CASE r.op = "reset"
        BY <1>2, <3>0, <4>3 DEF AccessArgs, ReqArgs
      <4>4. CASE r.op = "read"
        BY <1>2, <3>0, <4>4 DEF AccessArgs, ReqArgs
      <4> QED
        BY <4>1, <4>2, <4>3, <4>4
    <3> QED
      BY <1>2, <3>1 DEF AccessInv, IInv, TypeInv
  <2>2. TodoPulses(c)' /\ InFlightPulse(c)'
    <3>1. PulsesReset(todo[c])
      BY DEF IInv, TodoPulses
    <3> QED
      BY <1>2, <1>4, <3>1, TailPulses DEF TodoPulses, InFlightPulse, IInv, TypeInv
  <2> QED
    BY <2>1, <2>2 DEF ClientInv
<1>7. ASSUME NEW d \in Clients \ {c} PROVE ClientInv(d)'
  BY <1>2, <1>3 DEF ClientInv, AccessInv, TodoPulses, InFlightPulse, IInv, TypeInv
<1>8. PulseOwed'
  <2> SUFFICES ASSUME NEW b \in cpldCmd' \cap PulseBits
               PROVE  \E d \in Clients : PendingReset(d, b)'
    BY DEF PulseOwed
  <2>1. PICK d \in Clients : PendingReset(d, b)
    BY <1>2 DEF IInv, PulseOwed
  <2>2. CASE d = c
    <3>1. Resets(r, b)
      BY <1>2, <2>1, <2>2 DEF PendingReset
    <3> QED
      BY <1>2, <3>1 DEF PendingReset, IInv, TypeInv
  <2>3. CASE d # c
    BY <1>2, <2>1, <2>3 DEF PendingReset, IInv, TypeInv
  <2> QED
    BY <2>2, <2>3
<1> QED
  BY <1>1, <1>5, <1>6, <1>7 , <1>8 DEF IInv, ClientInv


(* The shift-in of tinyspi_access(), or its abort when there is nothing *)
(* to write.                                                            *)
LEMMA ShiftInStep ==
    ASSUME IInv, NEW c \in Clients, ShiftIn(c)
    PROVE  IInv'
<1> DEFINE a == AccessArgs(req[c])
<1>1. TypeInv'
  BY TypeStep DEF IInv, Next
<1>2. /\ kpc[c] = "Parsed"
      /\ arg' = [arg EXCEPT ![c] = a]
      /\ kpc' = [kpc EXCEPT ![c] = IF a = <<{}, {}>> THEN "Idle" ELSE "In"]
      /\ iCmd' = cpldCmd
      /\ UNCHANGED <<cpldCmd, stagedSet, stagedReset, todo, req, cmds>>
  BY DEF ShiftIn
<1>3. \A d \in Clients \ {c} : kpc[d] = "Idle"
  BY <1>2, OthersIdle
<1>4. a = ReqArgs(req[c])
  BY <1>2 DEF IInv, AccessInv
<1>5. Exclusive' /\ OffBus'
  BY <1>2, <1>3 DEF IInv, TypeInv, Exclusive, OffBus, Clients
<1>6. ClientInv(c)'
  BY <1>2, <1>4 DEF ClientInv, AccessInv, TodoPulses, InFlightPulse, IInv, TypeInv
<1>7. ASSUME NEW d \in Clients \ {c} PROVE ClientInv(d)'
  BY <1>2, <1>3 DEF ClientInv, AccessInv, TodoPulses, InFlightPulse, IInv, TypeInv
<1>8. PulseOwed'
  <2> SUFFICES ASSUME NEW b \in cpldCmd' \cap PulseBits
               PROVE  \E d \in Clients : PendingReset(d, b)'
    BY DEF PulseOwed
  <2>1. PICK d \in Clients : PendingReset(d, b)
    BY <1>2 DEF IInv, PulseOwed
  <2>2. CASE d = c /\ Resets(req[c], b)
    <3>1. a # <<{}, {}>>
      BY <1>4, <2>2 DEF ReqArgs, Resets
    <3> QED
      BY <1>2, <2>2, <3>1 DEF PendingReset, IInv, TypeInv
  <2>3. CASE ~(d = c /\ Resets(req[c], b))
    BY <1>2, <2>1, <2>3 DEF PendingReset, IInv, TypeInv
  <2> QED
    BY <2>2, <2>3
<1> QED
  BY <1>1, <1>5, <1>6, <1>7, <1>8 DEF IInv, ClientInv


(* i_command_reg |= set; i_command_reg &= ~reset, with the register     *)
(* shifted in by the same call.                                          *)
LEMMA ModifyStep ==
    ASSUME IInv, NEW c \in Clients, Modify(c)
    PROVE  IInv'
<1>1. TypeInv'
  BY TypeStep DEF IInv, Next
<1>2. /\ kpc[c] = "In"
      /\ iCmd' = (iCmd \cup arg[c][1]) \ arg[c][2]
      /\ kpc' = [kpc EXCEPT ![c] = "Out"]
      /\ UNCHANGED <<cpldCmd, stagedSet, stagedReset, arg, todo, req, cmds>>
  BY DEF Modify
<1>3. \A d \in Clients \ {c} : kpc[d] = "Idle"
  BY <1>2, OthersIdle
<1>4. iCmd' = TA!Effect(req[c], cpldCmd)
  <2>1. iCmd = cpldCmd /\ arg[c] = ReqArgs(req[c]) /\ req[c] \in Requests
    BY <1>2 DEF IInv, AccessInv, TypeInv
  <2> QED
    BY <1>2, <2>1, EffectArgs
<1>5. Exclusive' /\ OffBus'
  BY <1>2, <1>3 DEF IInv, TypeInv, Exclusive, OffBus, Clients
<1>6. ClientInv(c)'
  BY <1>2, <1>4 DEF ClientInv, AccessInv, TodoPulses, InFlightPulse, IInv, TypeInv
<1>7. ASSUME NEW d \in Clients \ {c} PROVE ClientInv(d)'
  BY <1>2, <1>3 DEF ClientInv, AccessInv, TodoPulses, InFlightPulse, IInv, TypeInv
<1>8. PulseOwed'
  BY <1>2 DEF PulseOwed, PendingReset, IInv, TypeInv
<1> QED
  BY <1>1, <1>5, <1>6, <1>7, <1>8 DEF IInv, ClientInv

(* The shift-out: the modified register reaches the CPLD. *)
LEMMA ShiftOutStep ==
    ASSUME IInv, NEW c \in Clients, ShiftOut(c)
    PROVE  IInv'
<1>1. TypeInv'
  BY TypeStep DEF IInv, Next
<1>2. /\ kpc[c] = "Out"
      /\ cpldCmd' = iCmd
      /\ kpc' = [kpc EXCEPT ![c] = "Idle"]
      /\ UNCHANGED <<iCmd, stagedSet, stagedReset, arg, todo, req, cmds>>
  BY DEF ShiftOut
<1>3. \A d \in Clients \ {c} : kpc[d] = "Idle"
  BY <1>2, OthersIdle
<1>4. cpldCmd' = TA!Effect(req[c], cpldCmd) /\ req[c] \in Requests
  BY <1>2 DEF IInv, AccessInv, TypeInv
<1>5. Exclusive' /\ OffBus'
  BY <1>2, <1>3 DEF IInv, TypeInv, Exclusive, OffBus, Clients
<1>6. \A d \in Clients : ClientInv(d)'
  BY <1>2, <1>3 DEF ClientInv, AccessInv, TodoPulses, InFlightPulse, IInv, TypeInv
<1>7. PulseOwed'
  <2> SUFFICES ASSUME NEW b \in cpldCmd' \cap PulseBits
               PROVE  \E d \in Clients : PendingReset(d, b)'
    BY DEF PulseOwed
  <2>1. req[c].op \in {"set", "reset", "read"}
    BY <1>4, RequestFields
  <2>2. CASE req[c].op = "set" /\ b \in req[c].bits
    <3>1. PulseSet(req[c])
      BY <2>2 DEF PulseSet
    <3>2. todo[c] # << >> /\ Head(todo[c]) = ResetReq(req[c].bits)
      BY <1>2, <3>1 DEF IInv, InFlightPulse
    <3>3. Resets(Head(todo[c]), b)
      BY <2>2, <3>2 DEF Resets, ResetReq
    <3> QED
      BY <1>2, <3>2, <3>3 DEF PendingReset
  <2>3. CASE ~(req[c].op = "set" /\ b \in req[c].bits)
    <3>1. b \in cpldCmd /\ ~Resets(req[c], b)
      BY <1>4, <2>1, <2>3 DEF TA!Effect, Resets
    <3>2. PICK d \in Clients : PendingReset(d, b)
      BY <3>1 DEF IInv, PulseOwed
    <3>3. d = c => todo[c] # << >> /\ Resets(Head(todo[c]), b)
      BY <3>1, <3>2 DEF PendingReset
    <3> QED
      BY <1>2, <3>2, <3>3 DEF PendingReset, IInv, TypeInv
  <2> QED
    BY <2>2, <2>3
<1> QED
  BY <1>1, <1>5, <1>6, <1>7 DEF IInv, ClientInv


(* The strengthening is inductive when at most one client can be inside *)
(* tinyspi_access() at a time.                                           *)
LEMMA IInvStep ==
    ASSUME OneOnBus, IInv, [Next]_vars
    PROVE  IInv'
<1>1. ASSUME NEW c \in Clients,
             StartCommand(c) \/ Issue(c) \/ ShiftIn(c) \/ Modify(c) \/ ShiftOut(c)
      PROVE  IInv'
  BY <1>1, StartStep, IssueStep, ShiftInStep, ModifyStep, ShiftOutStep
<1>2. CASE Done \/ UNCHANGED vars
  BY <1>2 DEF Done, vars, IInv, TypeInv, Exclusive, OffBus, AccessInv, TodoPulses,
     InFlightPulse, PulseOwed, PendingReset, AccessArgs
<1> QED
  BY <1>1, <1>2 DEF Next

(* The pulses of get_alerts_tinyspi() and uid_set_tspi() are released    *)
(* (PulseBitsIdle) on every run of any length, when the kernel runs each *)
(* sysfs handler to its end or server_ctl stays off the bus.             *)
THEOREM PulseBitsIdleHolds ==
    ASSUME OneOnBus
    PROVE  Spec => []PulseBitsIdle
<1>1. Spec => []IInv
  BY InitIInv, IInvStep, PTL DEF Spec
<1>2. IInv => PulseBitsIdle
  BY DEF IInv, PulseOwed, PendingReset, PulseBitsIdle
<1> QED
  BY <1>1, <1>2, PTL


-----------------------------------------------------------------------------
(* The refinement of TinyspiAtomic: a client is pending while it is     *)
(* inside a handler, and an access takes effect at its shift-out (or at *)
(* the abort of a read).                                                 *)

LEMMA InitRefines == Init => TA!Init
  BY DEF Init, TA!Init, Bits, PulseBits, ReadReq, TA!ReadReq

(* Each step of the handlers is a step of the atomic interface or leaves *)
(* it unchanged.                                                          *)
LEMMA RefineStep ==
    ASSUME IInv, [Next]_vars
    PROVE  [TA!Next]_TA!avars
<1>1. ASSUME NEW c \in Clients, StartCommand(c) PROVE TA!StartCommand(c)
  BY <1>1 DEF StartCommand, TA!StartCommand, IInv, TypeInv
<1>2. ASSUME NEW c \in Clients, Issue(c) PROVE TA!Issue(c)
  BY <1>2 DEF Issue, TA!Issue, IInv, TypeInv
<1>3. ASSUME NEW c \in Clients, ShiftIn(c)
      PROVE  TA!Apply(c) \/ UNCHANGED TA!avars
  <2> DEFINE a == AccessArgs(req[c])
  <2>1. a = ReqArgs(req[c]) /\ req[c] \in Requests
    BY <1>3 DEF ShiftIn, IInv, AccessInv, TypeInv
  <2>2. CASE a = <<{}, {}>>
    <3>1. ReqArgs(req[c])[1] = {} /\ ReqArgs(req[c])[2] = {}
      BY <2>1, <2>2
    <3>2. TA!Effect(req[c], cpldCmd)
            = (cpldCmd \cup ReqArgs(req[c])[1]) \ ReqArgs(req[c])[2]
      BY <2>1, EffectArgs
    <3>3. TA!Effect(req[c], cpldCmd) = cpldCmd
      BY <3>1, <3>2
    <3> QED
      BY <1>3, <2>2, <3>3 DEF ShiftIn, TA!Apply, IInv, TypeInv
  <2>3. CASE a # <<{}, {}>>
    BY <1>3, <2>3 DEF ShiftIn, TA!avars, IInv, TypeInv
  <2> QED
    BY <2>2, <2>3
<1>4. ASSUME NEW c \in Clients, Modify(c) PROVE UNCHANGED TA!avars
  BY <1>4 DEF Modify, TA!avars, IInv, TypeInv
<1>5. ASSUME NEW c \in Clients, ShiftOut(c) PROVE TA!Apply(c)
  <2>1. iCmd = TA!Effect(req[c], cpldCmd)
    BY <1>5 DEF ShiftOut, IInv, AccessInv
  <2> QED
    BY <1>5, <2>1 DEF ShiftOut, TA!Apply, IInv, TypeInv
<1>6. CASE Done \/ UNCHANGED vars
  BY <1>6 DEF Done, vars, TA!avars
<1> QED
  BY <1>1, <1>2, <1>3, <1>4, <1>5, <1>6 DEF Next, TA!Next

(* Every access through the sysfs files takes effect on the CPLD command *)
(* register atomically (AtomicSpec), when the kernel runs each handler   *)
(* to its end or server_ctl stays off the bus.                           *)
THEOREM AtomicRefinement ==
    ASSUME OneOnBus
    PROVE  Spec => AtomicSpec
<1>1. Spec => []IInv
  BY InitIInv, IInvStep, PTL DEF Spec
<1> QED
  BY <1>1, InitRefines, RefineStep, PTL DEF Spec, AtomicSpec, TA!Spec

=============================================================================
