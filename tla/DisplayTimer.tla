---------------------------- MODULE DisplayTimer ----------------------------
(***************************************************************************)
(* Who writes the fee display: DisplayControl, for a fee frame of one of   *)
(* the two receivers, and TimerThread, which puts the default lines back   *)
(* ten seconds after the last fee (src/src/IMachine.cpp).  Both hold       *)
(* displayMutex while they write, a line every 450 ms.                     *)
(***************************************************************************)
EXTENDS Naturals

CONSTANTS
    Receivers,      \* the receiver threads
    Timer,          \* TimerThread
    Delay,          \* bound: ten seconds, in clock ticks
    MaxFees         \* bound: fees received

ASSUME TimerAssumption == Timer \notin Receivers
ASSUME FreeAssumption == "free" \notin Receivers \cup {Timer}
ASSUME DelayAssumption == Delay \in Nat \ {0}
ASSUME FeesAssumption == MaxFees \in Nat

Free == "free"
Rows == 1..4                     \* the lines of the panel
Threads == Receivers \cup {Timer}

VARIABLES
    pc,          \* "idle", "lock" or "write", for each thread
    owner,       \* the thread that holds displayMutex, or Free
    left,        \* the rows the owner still has to write
    fee,         \* the number of the fee each receiver writes
    fees,        \* fees received so far
    age,         \* ticks since lastPlayTime, up to Delay
    defaultOn,   \* displayingDefaultContent
    screen       \* what each row was last told to show: a fee, 0 for default

vars == <<pc, owner, left, fee, fees, age, defaultOn, screen>>

Blank == MaxFees + 1             \* what a row shows before it is written

TypeOK ==
    /\ pc \in [Threads -> {"idle", "lock", "write"}]
    /\ owner \in Threads \cup {Free}
    /\ left \in SUBSET Rows
    /\ fee \in [Receivers -> 0..MaxFees]
    /\ fees \in 0..MaxFees
    /\ age \in 0..Delay
    /\ defaultOn \in BOOLEAN
    /\ screen \in [Rows -> 0..Blank]

(* lastPlayTime starts at the epoch of the steady clock, which has run     *)
(* since the machine was switched on.                                      *)
Init ==
    /\ pc = [t \in Threads |-> "idle"]
    /\ owner = Free /\ left = {}
    /\ fee = [r \in Receivers |-> 0] /\ fees = 0
    /\ age \in 0..Delay
    /\ defaultOn = FALSE
    /\ screen = [x \in Rows |-> Blank]

Goto(t, p) == pc' = [pc EXCEPT ![t] = p]

Next1(rows) == CHOOSE x \in rows : \A y \in rows : x <= y

(***************************************************************************)
(* DisplayControl.                                                         *)
(***************************************************************************)
FeeArrives(r) ==
    /\ pc[r] = "idle" /\ fees < MaxFees
    /\ fees' = fees + 1
    /\ fee' = [fee EXCEPT ![r] = fees + 1]
    /\ Goto(r, "lock")
    /\ UNCHANGED <<owner, left, age, defaultOn, screen>>

(* Mutants: a row too many, or the flag is left set. *)
LockForFiveRows(r) ==
    /\ pc[r] = "lock" /\ owner = Free
    /\ owner' = r
    /\ defaultOn' = FALSE
    /\ age' = 0
    /\ left' \in {1..3, 1..5}
    /\ Goto(r, "write")
    /\ UNCHANGED <<fee, fees, screen>>

LockKeepingFlag(r) ==
    /\ pc[r] = "lock" /\ owner = Free
    /\ owner' = r
    /\ age' = 0
    /\ left' \in {1..3, 1..4}
    /\ Goto(r, "write")
    /\ UNCHANGED <<fee, fees, defaultOn, screen>>

(* With the lock taken the flag and the time are set before the rows are   *)
(* written: three of them for a frame of mode 0x44, four for 0x64.         *)
LockForFee(r) ==
    /\ pc[r] = "lock" /\ owner = Free
    /\ owner' = r
    /\ defaultOn' = FALSE
    /\ age' = 0
    /\ left' \in {1..3, 1..4}
    /\ Goto(r, "write")
    /\ UNCHANGED <<fee, fees, screen>>

WriteFeeRow(r) ==
    /\ owner = r /\ left # {}
    /\ screen' = [screen EXCEPT ![Next1(left)] = fee[r]]
    /\ left' = left \ {Next1(left)}
    /\ UNCHANGED <<pc, owner, fee, fees, age, defaultOn>>

(* Mutant: the lock is kept. *)
FeeKeepsLock(r) ==
    /\ owner = r /\ left = {}
    /\ Goto(r, "idle")
    /\ UNCHANGED <<owner, left, fee, fees, age, defaultOn, screen>>

FeeDone(r) ==
    /\ owner = r /\ left = {}
    /\ owner' = Free
    /\ Goto(r, "idle")
    /\ UNCHANGED <<left, fee, fees, age, defaultOn, screen>>

(***************************************************************************)
(* TimerThread.                                                            *)
(***************************************************************************)

(* Every 100 ms it looks at lastPlayTime, without the lock. *)
SeeDelayPassed ==
    /\ pc[Timer] = "idle" /\ age = Delay
    /\ Goto(Timer, "lock")
    /\ UNCHANGED <<owner, left, fee, fees, age, defaultOn, screen>>

(* Mutant: the flag is read the wrong way round. *)
LockWhenShown ==
    /\ pc[Timer] = "lock" /\ owner = Free
    /\ IF ~ defaultOn
         THEN Goto(Timer, "idle") /\ UNCHANGED <<owner, left>>
         ELSE Goto(Timer, "write") /\ owner' = Timer /\ left' = Rows
    /\ UNCHANGED <<fee, fees, age, defaultOn, screen>>

LockForDefault ==
    /\ pc[Timer] = "lock" /\ owner = Free
    /\ IF defaultOn
         THEN Goto(Timer, "idle") /\ UNCHANGED <<owner, left>>
         ELSE Goto(Timer, "write") /\ owner' = Timer /\ left' = Rows
    /\ UNCHANGED <<fee, fees, age, defaultOn, screen>>

WriteDefaultRow ==
    /\ owner = Timer /\ left # {}
    /\ screen' = [screen EXCEPT ![Next1(left)] = 0]
    /\ left' = left \ {Next1(left)}
    /\ UNCHANGED <<pc, owner, fee, fees, age, defaultOn>>

DefaultDone ==
    /\ owner = Timer /\ left = {}
    /\ defaultOn' = TRUE
    /\ owner' = Free
    /\ Goto(Timer, "idle")
    /\ UNCHANGED <<left, fee, fees, age, screen>>

(* Time passes. *)
Tick ==
    /\ age < Delay
    /\ age' = age + 1
    /\ UNCHANGED <<pc, owner, left, fee, fees, defaultOn, screen>>

(***************************************************************************)
(* The specification.                                                      *)
(***************************************************************************)

Fee(r) == LockForFee(r) \/ WriteFeeRow(r) \/ FeeDone(r)

TimerThread == SeeDelayPassed \/ LockForDefault \/ WriteDefaultRow \/ DefaultDone

Next ==
    \/ \E r \in Receivers : FeeArrives(r) \/ Fee(r)
    \/ TimerThread
    \/ Tick

Spec == Init /\ [][Next]_vars

(* Threads run and time passes.  A receiver that waits for the mutex gets  *)
(* it: TimerThread leaves it alone for 100 ms at a time, and the other     *)
(* receiver between two frames.                                            *)
FairSpec ==
    /\ Spec
    /\ \A r \in Receivers : WF_vars(Fee(r))
    /\ WF_vars(TimerThread)
    /\ WF_vars(Tick)

(***************************************************************************)
(* Properties.                                                             *)
(***************************************************************************)

(* Nobody writes: then the flag tells the truth about the panel.  All four *)
(* rows show the default when it is set; when it is not, the first three   *)
(* rows show one fee together (or nothing has been written yet).           *)
FlagTellsScreen ==
    owner = Free =>
        IF defaultOn
          THEN \A x \in Rows : screen[x] = 0
          ELSE \E f \in 1..Blank : \A x \in 1..3 : screen[x] = f

(* "lock displayMutex so that access to the content shown is thread-safe"  *)
(* (src/src/IMachine.cpp:233): the default lines replace what is shown     *)
(* only when no fee has come in the last ten seconds.                      *)
DefaultOnlyAfterDelay ==
    [][LockForDefault /\ owner' = Timer => age = Delay]_vars

(* Ten seconds after the last fee the default lines come back, unless      *)
(* another fee comes first.                                                *)
DefaultComesBack == age = Delay ~> (defaultOn \/ age < Delay)

(* A receiver that waits to show a fee gets it on the panel, whatever the  *)
(* other receiver and TimerThread write in between.                        *)
EveryFeeIsShown ==
    \A r \in Receivers :
        pc[r] = "lock" ~> (owner = r /\ screen[1] = fee[r])
=============================================================================
