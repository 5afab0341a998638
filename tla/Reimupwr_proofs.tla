--------------------------- MODULE Reimupwr_proofs ---------------------------
(***************************************************************************)
(* Proofs, for every set of configured delays and every bound, that       *)
(* reimupwr keeps its variables typed and never saves a power state that  *)
(* has not been read for longer than the power supply discharge delay.    *)
(***************************************************************************)
EXTENDS Reimupwr, TLAPS

(* TypeOK without its Boolean conjunct: SMT proves the data, Zenon the *)
(* Boolean.                                                            *)
TypeData ==
    /\ rpc \in Rpcs
    /\ sUpdateDelay \in StartDelays
    /\ oldPgood \in {NoPgood, 0, 1}
    /\ updateDelay \in Int
    /\ pgood \in {NoPgood, 0, 1}
    /\ tries \in 0..4
    /\ savedState \in {NoPgood, 0, 1}
    /\ dbusState \in {NoPgood, 0, 1}
    /\ hwPower \in {0, 1}
    /\ powerChanges \in 0..MaxPowerChanges
    /\ crashes \in 0..MaxCrashes
    /\ samePolls \in Nat

LEMMA TypeSplit == TypeOK <=> TypeData /\ success \in BOOLEAN
BY Zenon DEF TypeOK, TypeData

(* The strengthening: types and the deferral bookkeeping together. *)
IInv == TypeData /\ success \in BOOLEAN /\ DeferralInv

LEMMA InitIInv == Init => IInv
<1> SUFFICES ASSUME Init PROVE IInv
  OBVIOUS
<1>1. success \in BOOLEAN
  BY Zenon DEF Init
<1>2. TypeData /\ DeferralInv
  BY ReimupwrAssumption DEF Init, TypeData, DeferralInv, StartDelays,
     DefaultUpdateDelay, NoPgood, Rpcs
<1> QED
  BY <1>1, <1>2 DEF IInv

(* Every step keeps the strengthening. *)
LEMMA IInvStep == IInv /\ [Next]_rvars => IInv'
<1> SUFFICES ASSUME IInv, [Next]_rvars PROVE IInv'
    OBVIOUS
<1> USE ReimupwrAssumption DEF TypeData, StartDelays, DefaultUpdateDelay,
        NoPgood, Rpcs
<1>0. success \in BOOLEAN
  BY DEF IInv
<1>1. CASE UpdateDelayInit
  <2>1. (success \in BOOLEAN)'
    BY <1>0, <1>1, Zenon DEF UpdateDelayInit
  <2>2. (TypeData /\ DeferralInv)'
    BY <1>1 DEF UpdateDelayInit, IInv, DeferralInv
  <2> QED
    BY <2>1, <2>2 DEF IInv
<1>2. CASE PollPgood
  <2>1. PICK r \in GpioRead :
          \/ /\ r >= 0
             /\ pgood' = r
             /\ samePolls' = IF r # pgood THEN 1
                              ELSE IF samePolls <= sUpdateDelay THEN samePolls + 1
                              ELSE samePolls
             /\ rpc' = "Update"
             /\ UNCHANGED tries
          \/ /\ r < 0 /\ tries > 0
             /\ tries' = tries - 1
             /\ UNCHANGED <<rpc, pgood, samePolls>>
          \/ /\ r < 0 /\ tries = 0
             /\ rpc' = "Exited"
             /\ UNCHANGED <<pgood, tries, samePolls>>
    BY <1>2 DEF PollPgood
  <2>2. r \in {0, 1, -1}
    BY DEF GpioRead, IInv
  <2>3. UNCHANGED <<sUpdateDelay, oldPgood, updateDelay, success, savedState,
                    dbusState, hwPower, powerChanges, crashes>>
    BY <1>2 DEF PollPgood
  <2>4. (success \in BOOLEAN)'
    BY <1>0, <2>3, Zenon
  <2>5. (TypeData /\ DeferralInv)'
    <3>1. CASE r >= 0
      <4>1. /\ pgood' = r
            /\ samePolls' = IF r # pgood THEN 1
                             ELSE IF samePolls <= sUpdateDelay THEN samePolls + 1
                             ELSE samePolls
            /\ rpc' = "Update"
            /\ UNCHANGED tries
        BY <2>1, <2>2, <3>1
      <4>2. rpc = "Poll" /\ sUpdateDelay \in Int
        BY <1>2 DEF PollPgood, IInv
      <4>3. TypeData'
        BY <2>2, <2>3, <4>1 DEF IInv
      <4>4. DeferralInv'
        <5>1. CASE r = pgood
          BY <2>2, <2>3, <3>1, <4>1, <4>2, <5>1 DEF IInv, DeferralInv
        <5>2. CASE r # pgood
          BY <2>2, <2>3, <3>1, <4>1, <4>2, <5>2 DEF IInv, DeferralInv
        <5> QED
          BY <5>1, <5>2
      <4> QED
        BY <4>3, <4>4
    <3>2. CASE r < 0
      <4>0. rpc = "Poll"
        BY <1>2 DEF PollPgood
      <4>1. /\ rpc' \in {"Poll", "Exited"}
            /\ tries' \in 0..4
            /\ UNCHANGED <<pgood, samePolls>>
        BY <2>1, <2>2, <3>2, <4>0 DEF IInv
      <4> QED
        BY <2>3, <4>0, <4>1 DEF IInv, DeferralInv
    <3> QED
      BY <3>1, <3>2, <2>2
  <2> QED
    BY <2>4, <2>5 DEF IInv
<1>3. CASE \E ok \in DbusOutcomes : Cycle(ok)
  <2>1. PICK ok \in DbusOutcomes : Cycle(ok)
    BY <1>3
  <2>2. ok \in BOOLEAN
    BY Zenon DEF DbusOutcomes
  <2>3. PICK written \in BOOLEAN :
          savedState' = IF Deferral(Resend) = 0 /\ written THEN pgood ELSE savedState
    BY <2>1 DEF Cycle
  <2>4. /\ rpc = "Update"
        /\ success' = IF Resend THEN ok ELSE success
        /\ dbusState' = IF Resend /\ ok THEN pgood ELSE dbusState
        /\ oldPgood' = pgood
        /\ updateDelay' = IF Deferral(Resend) >= 0 THEN Deferral(Resend) - 1
                                                   ELSE Deferral(Resend)
        /\ rpc' = "Sleep"
        /\ UNCHANGED <<sUpdateDelay, pgood, tries, hwPower, powerChanges,
                       crashes, samePolls>>
    BY <2>1 DEF Cycle
  <2>5. (success \in BOOLEAN)'
    BY <1>0, <2>2, <2>4, Zenon
  <2>6. TypeData'
    BY <2>3, <2>4 DEF IInv, Deferral
  <2>7. DeferralInv'
    BY <2>3, <2>4 DEF IInv, DeferralInv, Deferral, Resend
  <2> QED
    BY <2>5, <2>6, <2>7 DEF IInv
<1>4. CASE Sleep
  <2>1. (success \in BOOLEAN)'
    BY <1>0, <1>4, Zenon DEF Sleep
  <2>2. (TypeData /\ DeferralInv)'
    BY <1>4 DEF Sleep, IInv, DeferralInv
  <2> QED
    BY <2>1, <2>2 DEF IInv
<1>5. CASE PowerLineChange
  <2>1. (success \in BOOLEAN)'
    BY <1>0, <1>5, Zenon DEF PowerLineChange, daemonVars
  <2>2. (TypeData /\ DeferralInv)'
    BY <1>5 DEF PowerLineChange, daemonVars, IInv, DeferralInv
  <2> QED
    BY <2>1, <2>2 DEF IInv
<1>6. CASE BmcPowerLoss
  <2>1. (success \in BOOLEAN)'
    BY <1>6, Zenon DEF BmcPowerLoss
  <2>2. (TypeData /\ DeferralInv)'
    BY <1>6 DEF BmcPowerLoss, IInv, DeferralInv
  <2> QED
    BY <2>1, <2>2 DEF IInv
<1>7. CASE UNCHANGED rvars
  <2>1. (success \in BOOLEAN)'
    BY <1>0, <1>7, Zenon DEF rvars, daemonVars
  <2>2. (TypeData /\ DeferralInv)'
    BY <1>7 DEF rvars, daemonVars, IInv, DeferralInv
  <2> QED
    BY <2>1, <2>2 DEF IInv
<1> QED
  BY <1>1, <1>2, <1>3, <1>4, <1>5, <1>6, <1>7 DEF Next, Daemon

(* Type correctness of reimupwr's state. *)
THEOREM TypeCorrect == Spec => []TypeOK
<1>1. Spec => []IInv
  BY InitIInv, IInvStep, PTL DEF Spec
<1> QED
  BY <1>1, TypeSplit, PTL DEF IInv

(* A step that changes the saved file writes a state polled in more than *)
(* s_update_delay polls in a row.                                       *)
LEMMA SaveStep ==
    IInv /\ [Next]_rvars => (savedState' # savedState => samePolls > sUpdateDelay)
<1> SUFFICES ASSUME IInv, [Next]_rvars, savedState' # savedState
             PROVE samePolls > sUpdateDelay
    OBVIOUS
<1> USE ReimupwrAssumption DEF IInv, TypeData, DeferralInv, StartDelays,
        DefaultUpdateDelay, NoPgood
<1>1. PICK ok \in DbusOutcomes : Cycle(ok)
  BY DEF Next, Daemon, UpdateDelayInit, PollPgood, Sleep, PowerLineChange,
         BmcPowerLoss, rvars
<1>2. PICK written \in BOOLEAN :
        savedState' = IF Deferral(Resend) = 0 /\ written THEN pgood ELSE savedState
  BY <1>1 DEF Cycle
<1>3. rpc = "Update" /\ Deferral(Resend) = 0
  BY <1>1, <1>2 DEF Cycle
<1>4. CASE Resend
  BY <1>3, <1>4 DEF Deferral
<1>5. CASE ~Resend
  BY <1>3, <1>5 DEF Deferral, Resend
<1> QED
  BY <1>4, <1>5

(* The discharge deferral of main() (SaveOnlyWhenStable) holds for every *)
(* configured delay, including zero and negative ones.                   *)
THEOREM SaveOnlyWhenStableHolds == Spec => SaveOnlyWhenStable
<1>1. Spec => []IInv
  BY InitIInv, IInvStep, PTL DEF Spec
<1> QED
  BY <1>1, SaveStep, PTL DEF Spec, SaveOnlyWhenStable
=============================================================================
