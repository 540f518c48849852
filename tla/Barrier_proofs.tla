--------------------------- MODULE Barrier_proofs ---------------------------
(***************************************************************************)
(* Proofs about Barrier, for any set of receivers.                         *)
(***************************************************************************)
EXTENDS Barrier, TLAPS

(* No variable ever leaves its type, whichever receivers run and whenever  *)
(* the switch is turned.                                                   *)
THEOREM TypeCorrect == Spec => []TypeOK
<1> USE DEF TypeOK
<1>1. Init => TypeOK
  BY DEF Init, Points, Commands, Replies, Relays, Pulses
<1>2. TypeOK /\ [Next]_vars => TypeOK'
  <2> SUFFICES ASSUME TypeOK, [Next]_vars
               PROVE  TypeOK'
    OBVIOUS
  <2>1. ASSUME NEW r \in Receivers, Accept(r)
        PROVE  TypeOK'
    BY <2>1 DEF Accept, Goto, Points, Commands
  <2>2. ASSUME NEW r \in Receivers, Refuse(r)
        PROVE  TypeOK'
    BY <2>2 DEF Refuse, Replies
  <2>3. ASSUME NEW r \in Receivers, Handle(r)
        PROVE  TypeOK'
    <3>1. CASE TestJoinable(r)
      BY <3>1 DEF TestJoinable, Goto, Points
    <3>2. CASE EnterJoin(r)
      BY <3>2 DEF EnterJoin, Goto, Points
    <3>3. CASE LeaveJoin(r)
      BY <3>3 DEF LeaveJoin, Goto, Points, Pulses
    <3>4. CASE DriveUp(r)
      BY <3>4 DEF DriveUp, Goto, Points, SetOn, SetOff, Relays
    <3>5. CASE DriveDown(r)
      BY <3>5 DEF DriveDown, Goto, Points, SetOn, SetOff, Relays
    <3>6. CASE NoMove(r)
      BY <3>6 DEF NoMove, Goto, Points
    <3>7. CASE Spawn(r)
      BY <3>7 DEF Spawn, Goto, Points, Pulses
    <3>8. CASE Answer(r)
      BY <3>8 DEF Answer, Goto, Points, Replies, Commands
    <3>9. CASE SpawnThrows(r)
      BY <3>9 DEF SpawnThrows, Goto, Points
    <3> QED
      BY <2>3, <3>1, <3>2, <3>3, <3>4, <3>5, <3>6, <3>7, <3>8, <3>9 DEF Handle
  <2>4. CASE Pulse
    BY <2>4 DEF Pulse, ReleaseUp, ReleaseDown, SetOff, Pulses
  <2>5. CASE TurnSwitch
    BY <2>5 DEF TurnSwitch
  <2>6. CASE UNCHANGED vars
    BY <2>6 DEF vars
  <2> QED
    BY <2>1, <2>2, <2>3, <2>4, <2>5, <2>6 DEF Next
<1> QED
  BY <1>1, <1>2, PTL DEF Spec

(***************************************************************************)
(* An energised relay is owed a release.  The invariant is inductive with  *)
(* TypeOK and MoveHasDirection: no step takes a relay's owner away without *)
(* releasing the relay or passing it to another owner.                     *)
(***************************************************************************)
OwedInv == MoveHasDirection /\ EnergisedIsOwed

LEMMA OwedInvHolds == Spec => []OwedInv
<1> USE DEF OwedInv, MoveHasDirection, EnergisedIsOwed, UpIsOwed, DownIsOwed, Relays
<1>1. Init => OwedInv
  BY DEF Init
<1>2. TypeOK /\ OwedInv /\ [Next]_vars => OwedInv'
  <2> SUFFICES ASSUME TypeOK, OwedInv, [Next]_vars
               PROVE  OwedInv'
    OBVIOUS
  <2> USE DEF TypeOK
  <2>1. ASSUME NEW r \in Receivers, Accept(r)
        PROVE  OwedInv'
    <3>1. /\ \A s \in Receivers \ {r} : cmd'[s] = cmd[s] /\ pc'[s] = pc[s]
          /\ pc[r] = "idle" /\ pc'[r] = "joinable"
          /\ UNCHANGED <<energised, pulse, alive>>
      BY <2>1 DEF Accept, Goto
    <3> QED
      BY <3>1
  <2>2. ASSUME NEW r \in Receivers, Refuse(r)
        PROVE  OwedInv'
    BY <2>2 DEF Refuse
  <2>3. ASSUME NEW r \in Receivers, Handle(r)
        PROVE  OwedInv'
    <3>1. CASE TestJoinable(r)
      BY <3>1 DEF TestJoinable, Goto
    <3>2. CASE EnterJoin(r)
      <4>1. /\ \A s \in Receivers \ {r} : pc'[s] = pc[s]
            /\ pc[r] = "join" /\ pc'[r] \in {"join", "joining"}
            /\ UNCHANGED <<cmd, energised, pulse>> /\ alive
        BY <3>2 DEF EnterJoin, Goto
      <4> QED
        BY <4>1
    <3>3. CASE LeaveJoin(r)
      BY <3>3 DEF LeaveJoin, Goto
    <3>4. CASE DriveUp(r)
      BY <3>4 DEF DriveUp, Goto, SetOn, SetOff
    <3>5. CASE DriveDown(r)
      <4>1. cmd[r] \in {"raise", "lower"}
        BY <3>5 DEF DriveDown, Commands
      <4>2. CASE cmd[r] = "raise"
        BY <3>5, <4>2 DEF DriveDown, Goto, SetOff
      <4>3. CASE cmd[r] = "lower"
        BY <3>5, <4>3 DEF DriveDown, Goto, SetOn
      <4> QED
        BY <4>1, <4>2, <4>3
    <3>6. CASE NoMove(r)
      BY <3>6 DEF NoMove, Goto
    <3>7. CASE Spawn(r)
      <4>1. CASE pulse = "none"
        BY <3>7, <4>1 DEF Spawn, Goto
      <4>2. CASE pulse # "none"
        BY <3>7, <4>2 DEF Spawn
      <4> QED
        BY <4>1, <4>2
    <3>8. CASE Answer(r)
      BY <3>8 DEF Answer, Goto
    <3>9. CASE SpawnThrows(r)
      BY <3>9 DEF SpawnThrows, Goto
    <3> QED
      BY <2>3, <3>1, <3>2, <3>3, <3>4, <3>5, <3>6, <3>7, <3>8, <3>9 DEF Handle
  <2>4. CASE Pulse
    BY <2>4 DEF Pulse, ReleaseUp, ReleaseDown, SetOff
  <2>5. CASE TurnSwitch
    BY <2>5 DEF TurnSwitch
  <2>6. CASE UNCHANGED vars
    BY <2>6 DEF vars
  <2> QED
    BY <2>1, <2>2, <2>3, <2>4, <2>5, <2>6 DEF Next
<1> QED
  BY <1>1, <1>2, TypeCorrect, PTL DEF Spec

(* Every energised relay has a pulse or a receiver that will release it,   *)
(* whether or not the two receivers run together.                          *)
THEOREM OwedHolds == Spec => []EnergisedIsOwed
<1>1. OwedInv => EnergisedIsOwed
  BY DEF OwedInv
<1> QED
  BY <1>1, OwedInvHolds, PTL

(***************************************************************************)
(* While the switch is turned only between moves, the receiver in          *)
(* BalusTrade is the one that holds the lane, so the join it makes leaves  *)
(* no pulse behind and every relay released (EnergisedIsOwed).             *)
(***************************************************************************)
LEMMA OneAtATimeHolds == Spec => []OneAtATime
<1> USE DEF OneAtATime, HandlerHoldsLane, JoinedBeforeMove
<1>1. Init => OneAtATime
  BY DEF Init, Relays
<1>2. TypeOK /\ OwedInv /\ OneAtATime /\ [Next]_vars => OneAtATime'
  <2> SUFFICES ASSUME TypeOK, OwedInv, OneAtATime, [Next]_vars, ~ turned'
               PROVE  OneAtATime'
    OBVIOUS
  <2> USE DEF TypeOK
  <2>0. ~ turned
    BY DEF Next, Handle, Pulse, Accept, Refuse, TestJoinable, EnterJoin, LeaveJoin,
           DriveUp, DriveDown, NoMove, Spawn, SpawnThrows, Answer, ReleaseUp, ReleaseDown,
           TurnSwitch, vars
  <2> USE <2>0
  <2>a. \A r, s \in Receivers : pc[r] # "idle" /\ pc[s] # "idle" => r = s
    OBVIOUS
  <2>1. ASSUME NEW r \in Receivers, Accept(r)
        PROVE  OneAtATime'
    BY <2>1 DEF Accept, Goto, Relays
  <2>2. ASSUME NEW r \in Receivers, Refuse(r)
        PROVE  OneAtATime'
    BY <2>2 DEF Refuse, Relays
  <2>3. ASSUME NEW r \in Receivers, Handle(r)
        PROVE  OneAtATime'
    <3>1. CASE TestJoinable(r)
      BY <3>1 DEF TestJoinable, Goto, Relays
    <3>2. CASE EnterJoin(r)
      <4>1. ~ JoinThrows(r)
        BY <3>2, <2>a DEF EnterJoin, JoinThrows
      <4> QED
        BY <3>2, <4>1 DEF EnterJoin, Goto, Relays
    <3>3. CASE LeaveJoin(r)
      BY <3>3, <2>a DEF LeaveJoin, Goto, Relays
    <3>4. CASE DriveUp(r)
      <4>1. "down" \notin energised
        BY <3>4, <2>a DEF DriveUp, OwedInv, EnergisedIsOwed, DownIsOwed
      <4> QED
        BY <3>4, <4>1 DEF DriveUp, Goto, Relays, SetOn, SetOff
    <3>5. CASE DriveDown(r)
      <4>1. cmd[r] # "raise" => "up" \notin energised
        BY <3>5, <2>a DEF DriveDown, OwedInv, EnergisedIsOwed, UpIsOwed
      <4> QED
        BY <3>5, <4>1 DEF DriveDown, Goto, Relays, SetOn, SetOff
    <3>6. CASE NoMove(r)
      BY <3>6 DEF NoMove, Goto, Relays
    <3>7. CASE Spawn(r)
      BY <3>7, <2>a DEF Spawn, Goto, Relays
    <3>8. CASE Answer(r)
      BY <3>8 DEF Answer, Goto, Relays
    <3>9. CASE SpawnThrows(r)
      <4>1. pc'[r] = "threw" /\ \A s \in Receivers \ {r} : pc'[s] = pc[s]
        BY <3>9 DEF SpawnThrows, Goto
      <4> QED
        BY <3>9, <4>1 DEF SpawnThrows, Relays, NoThread
    <3> QED
      BY <2>3, <3>1, <3>2, <3>3, <3>4, <3>5, <3>6, <3>7, <3>8, <3>9 DEF Handle
  <2>4. CASE Pulse
    BY <2>4 DEF Pulse, ReleaseUp, ReleaseDown, SetOff, Relays
  <2>5. CASE TurnSwitch
    BY <2>5 DEF TurnSwitch, Relays, NoThread
  <2>6. CASE UNCHANGED vars
    BY <2>6 DEF vars, Relays, NoThread
  <2> QED
    BY <2>1, <2>2, <2>3, <2>4, <2>5, <2>6 DEF Next
<1> QED
  BY <1>1, <1>2, TypeCorrect, OwedInvHolds, PTL DEF Spec

(* The two relays are never energised together while the switch is turned  *)
(* only between moves.                                                     *)
THEOREM InterlockHolds == Spec => []Interlock
<1>1. OneAtATime => Interlock
  BY DEF OneAtATime, Interlock
<1> QED
  BY <1>1, OneAtATimeHolds, PTL

(* Nothing BalusTrade does with balustradeThread ends the process while    *)
(* the switch is turned only between moves.                                *)
THEOREM NeverTerminatesHolds == Spec => []NeverTerminates
<1>1. OneAtATime => NeverTerminates
  BY DEF OneAtATime, NeverTerminates
<1> QED
  BY <1>1, OneAtATimeHolds, PTL
=============================================================================
