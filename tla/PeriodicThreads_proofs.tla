------------------------ MODULE PeriodicThreads_proofs ------------------------
(***************************************************************************)
(* Proofs about the two threads of IMachine that look round periodically:  *)
(* TimerThread with the panel (DisplayTimer), for any receivers, delay and *)
(* number of fees, and VehicleThread (CoilReporter), for any coils,        *)
(* computers and events.  The two share no variable.                       *)
(***************************************************************************)
EXTENDS DisplayTimer, CoilReporter, TLAPS

(***************************************************************************)
(* TimerThread and the panel.                                              *)
(***************************************************************************)

(* The row that is written next is one of those that are left. *)
LEMMA NextIsLeft ==
    ASSUME NEW rows \in SUBSET Rows, rows # {}
    PROVE  Next1(rows) \in rows
<1>1. \E x \in rows : \A y \in rows : x <= y
  <2>1. rows \subseteq {1, 2, 3, 4}
    BY DEF Rows
  <2>2. CASE 1 \in rows
    BY <2>1, <2>2
  <2>3. CASE 1 \notin rows /\ 2 \in rows
    BY <2>1, <2>3
  <2>4. CASE 1 \notin rows /\ 2 \notin rows /\ 3 \in rows
    BY <2>1, <2>4
  <2>5. CASE 1 \notin rows /\ 2 \notin rows /\ 3 \notin rows
    <3>1. rows = {4}
      BY <2>1, <2>5
    <3> QED
      BY <3>1
  <2> QED
    BY <2>2, <2>3, <2>4, <2>5
<1> QED
  BY <1>1 DEF Next1

(* No variable leaves its type. *)
THEOREM TypeCorrect == Spec => []TypeOK
<1> USE DelayAssumption, FeesAssumption DEF TypeOK, Threads, Rows, Blank
<1>1. Init => TypeOK
  <2> SUFFICES ASSUME Init
               PROVE  TypeOK
    OBVIOUS
  <2>1. MaxFees \in Nat /\ MaxFees + 1 \in 0..MaxFees + 1 /\ 0 \in 0..MaxFees
    OBVIOUS
  <2>2. screen \in [Rows -> 0..Blank] /\ fee \in [Receivers -> 0..MaxFees]
    BY <2>1 DEF Init
  <2>3. pc \in [Threads -> {"idle", "lock", "write"}]
    BY DEF Init
  <2>4. left \in SUBSET Rows /\ owner \in Threads \cup {Free}
    BY DEF Init
  <2>5. fees \in 0..MaxFees /\ age \in 0..Delay /\ defaultOn \in BOOLEAN
    BY <2>1 DEF Init
  <2> QED
    BY <2>2, <2>3, <2>4, <2>5
<1>2. TypeOK /\ [Next]_vars => TypeOK'
  <2> SUFFICES ASSUME TypeOK, [Next]_vars
               PROVE  TypeOK'
    OBVIOUS
  <2>1. ASSUME NEW r \in Receivers, FeeArrives(r)
        PROVE  TypeOK'
    BY <2>1 DEF FeeArrives, Goto
  <2>2. ASSUME NEW r \in Receivers, LockForFee(r)
        PROVE  TypeOK'
    <3>1. left' \subseteq 1..4
      BY <2>2 DEF LockForFee
    <3>2. UNCHANGED <<fee, fees, screen>> /\ owner' = r /\ age' = 0 /\ defaultOn' = FALSE
          /\ pc' = [pc EXCEPT ![r] = "write"]
      BY <2>2 DEF LockForFee, Goto
    <3>3. left' \in SUBSET Rows /\ 0 \in 0..Delay
      BY <3>1
    <3> QED
      BY <3>2, <3>3
  <2>3. ASSUME NEW r \in Receivers, WriteFeeRow(r)
        PROVE  TypeOK'
    <3>1. Next1(left) \in left /\ fee[r] \in 0..Blank
      BY <2>3, NextIsLeft DEF WriteFeeRow
    <3> QED
      BY <2>3, <3>1 DEF WriteFeeRow
  <2>4. ASSUME NEW r \in Receivers, FeeDone(r)
        PROVE  TypeOK'
    BY <2>4 DEF FeeDone, Goto
  <2>5. CASE SeeDelayPassed
    BY <2>5 DEF SeeDelayPassed, Goto
  <2>6. CASE LockForDefault
    BY <2>6 DEF LockForDefault, Goto
  <2>7. CASE WriteDefaultRow
    <3>1. Next1(left) \in left /\ 0 \in 0..Blank
      BY <2>7, NextIsLeft DEF WriteDefaultRow
    <3> QED
      BY <2>7, <3>1 DEF WriteDefaultRow
  <2>8. CASE DefaultDone
    BY <2>8 DEF DefaultDone, Goto
  <2>9. CASE Tick
    BY <2>9 DEF Tick, Goto
  <2>10. CASE UNCHANGED vars
    BY <2>10 DEF vars
  <2> QED
    BY <2>1, <2>2, <2>3, <2>4, <2>5, <2>6, <2>7, <2>8, <2>9, <2>10
       DEF Next, Fee, TimerThread
<1> QED
  BY <1>1, <1>2, PTL DEF Spec

(* displayMutex: a thread is writing exactly while it is the owner. *)
LockInv == \A t \in Threads : pc[t] = "write" <=> owner = t

(* What the owner has written so far, and the flag meanwhile.              *)
WriteInv ==
    /\ \A r \in Receivers :
          /\ pc[r] # "idle" => fee[r] # 0
          /\ owner = r => ~defaultOn /\ \A x \in (1..3) \ left : screen[x] = fee[r]
    /\ owner = Timer => ~defaultOn /\ \A x \in Rows \ left : screen[x] = 0

Inv == LockInv /\ WriteInv /\ FlagTellsScreen

(* Under displayMutex the flag tells what the panel shows whenever nobody  *)
(* writes it.                                                              *)
THEOREM FlagTellsScreenHolds == Spec => []FlagTellsScreen
<1> USE TimerAssumption, FreeAssumption, FeesAssumption
        DEF Inv, LockInv, WriteInv, FlagTellsScreen, Threads, Rows, Blank, Free
<1>1. Init => Inv
  BY DEF Init
<1>2. TypeOK /\ Inv /\ [Next]_vars => Inv'
  <2> SUFFICES ASSUME TypeOK, Inv, [Next]_vars
               PROVE  Inv'
    OBVIOUS
  <2> USE DEF TypeOK
  <2>1. ASSUME NEW r \in Receivers, FeeArrives(r)
        PROVE  Inv'
    BY <2>1 DEF FeeArrives, Goto
  <2>2. ASSUME NEW r \in Receivers, LockForFee(r)
        PROVE  Inv'
    BY <2>2 DEF LockForFee, Goto
  <2>3. ASSUME NEW r \in Receivers, WriteFeeRow(r)
        PROVE  Inv'
    BY <2>3 DEF WriteFeeRow, Goto
  <2>4. ASSUME NEW r \in Receivers, FeeDone(r)
        PROVE  Inv'
    BY <2>4 DEF FeeDone, Goto
  <2>5. CASE SeeDelayPassed
    BY <2>5 DEF SeeDelayPassed, Goto
  <2>6. CASE LockForDefault
    BY <2>6 DEF LockForDefault, Goto
  <2>7. CASE WriteDefaultRow
    BY <2>7 DEF WriteDefaultRow, Goto
  <2>8. CASE DefaultDone
    BY <2>8 DEF DefaultDone, Goto
  <2>9. CASE Tick
    BY <2>9 DEF Tick, Goto
  <2>10. CASE UNCHANGED vars
    BY <2>10 DEF vars
  <2> QED
    BY <2>1, <2>2, <2>3, <2>4, <2>5, <2>6, <2>7, <2>8, <2>9, <2>10
       DEF Next, Fee, TimerThread
<1>3. Inv => FlagTellsScreen
  OBVIOUS
<1> QED
  BY <1>1, <1>2, <1>3, TypeCorrect, PTL DEF Spec

(***************************************************************************)
(* VehicleThread and the coils.                                            *)
(***************************************************************************)

LEMMA NextSeqInRange ==
    ASSUME txseq \in 0..89
    PROVE  NextSeq \in 0..89 /\ NextSeq \div 10 \in 1..8 /\ NextSeq \div 10 # txseq \div 10
BY DEF NextSeq

LEMMA NextCoilInRange ==
    ASSUME i \in Coils, phase = "report", NextCoil
    PROVE  i' \in Coils /\ phase' \in {"idle", "report"}
BY CoilsAssumption DEF NextCoil, Coils

LEMMA ViewIsSent ==
    ASSUME CoilTypeOK, NEW c \in {0, 1}, NEW state \in States, SendTo(c, state)
    PROVE  view' \in [Clients -> States \cup {Nothing}]
BY DEF SendTo, CoilTypeOK

LEMMA CoilTypeStep == CoilTypeOK /\ [CoilNext]_coilVars => CoilTypeOK'
<1> SUFFICES ASSUME CoilTypeOK, [CoilNext]_coilVars PROVE CoilTypeOK'
  OBVIOUS
<1>0. Encoded \in States
  BY DEF Encoded, CoilTypeOK
<1>1. CASE UNCHANGED coilVars
  BY <1>1 DEF CoilTypeOK, coilVars
<1>2. CASE StartRound
  BY <1>2 DEF StartRound, CoilTypeOK, env
<1>3. CASE ReadCoil
  <2>1. GetIOValue(i) \in {-1, 0, 1}
    BY DEF GetIOValue, CoilTypeOK, States
  <2>2. new' \in [Coils -> {-1, 0, 1}]
    BY <1>3, <2>1 DEF ReadCoil, CoilTypeOK
  <2>3. i' \in Coils /\ phase' \in {"read", "report"} /\ manual' \in {0, 1}
    BY <1>3, CoilsAssumption DEF ReadCoil, CoilTypeOK, Coils
  <2> QED  BY <1>3, <2>2, <2>3 DEF ReadCoil, CoilTypeOK, env
<1>4. CASE Forget
  BY <1>4 DEF Forget, CoilTypeOK, env, Forgotten
<1>5. CASE ReportChange
  <2>1. i' \in Coils /\ phase' \in {"idle", "report"}
    BY <1>5, NextCoilInRange DEF ReportChange, CoilTypeOK
  <2>2. view' \in [Clients -> States \cup {Nothing}]
    BY <1>0, <1>5, ViewIsSent DEF ReportChange, CoilTypeOK
  <2>3. old' \in [Coils -> {-1, 0, 1}] /\ txseq' \in 0..89
    BY <1>5, NextSeqInRange DEF ReportChange, CoilTypeOK
  <2> QED  BY <1>0, <1>5, <2>1, <2>2, <2>3 DEF ReportChange, CoilTypeOK, env
<1>6. CASE ReportSwitch
  <2>1. i' \in Coils /\ phase' \in {"idle", "report"}
    BY <1>6, NextCoilInRange DEF ReportSwitch, CoilTypeOK
  <2>2. view' \in [Clients -> States \cup {Nothing}]
    BY <1>6, ViewIsSent DEF ReportSwitch, CoilTypeOK
  <2> QED  BY <1>6, <2>1, <2>2 DEF ReportSwitch, CoilTypeOK, env
<1>7. CASE NoReport
  <2>1. i' \in Coils /\ phase' \in {"idle", "report"}
    BY <1>7, NextCoilInRange DEF NoReport, CoilTypeOK
  <2> QED  BY <1>7, <2>1 DEF NoReport, CoilTypeOK, env
<1>8. CASE Environment
  <2>1. events' \in 0..MaxEvents
    BY <1>8, EventsAssumption DEF Environment, CoilChanges, TurnSwitch, Connect, Leave, Event, CoilTypeOK
  <2>2. CASE CoilChanges
    BY <2>1, <2>2 DEF CoilChanges, CoilTypeOK, States
  <2>3. CASE TurnSwitch
    BY <2>1, <2>3 DEF TurnSwitch, CoilTypeOK
  <2>4. CASE Connect
    BY <2>1, <2>4 DEF Connect, CoilTypeOK
  <2>5. CASE Leave
    BY <2>1, <2>5 DEF Leave, CoilTypeOK
  <2> QED  BY <1>8, <2>2, <2>3, <2>4, <2>5 DEF Environment
<1> QED
  BY <1>1, <1>2, <1>3, <1>4, <1>5, <1>6, <1>7, <1>8 DEF CoilNext, VehicleThread

LEMMA CoilTypeStart == CoilInit => CoilTypeOK
BY CoilsAssumption, EventsAssumption DEF CoilInit, CoilTypeOK, States, Coils, Nothing, Forgotten

(* The arrays of the coils and the sequence number keep their ranges.      *)
THEOREM CoilTypeCorrect == CoilSpec => []CoilTypeOK
BY CoilTypeStart, CoilTypeStep, PTL DEF CoilSpec

(* TxSEQ / 10 runs through 1 to 8 and is never what it was for the change  *)
(* before, although TxSEQ starts again at 16.                              *)
THEOREM SequenceBytesDiffer == CoilSpec => ChangesAreNumbered
<1>1. CoilTypeOK /\ [CoilNext]_coilVars =>
         [ReportChange => /\ txseq' \div 10 \in 1..8
                          /\ txseq' \div 10 # txseq \div 10]_coilVars
  BY NextSeqInRange DEF CoilTypeOK, ReportChange
<1> QED  BY <1>1, CoilTypeCorrect, PTL DEF CoilSpec, ChangesAreNumbered
===============================================================================
