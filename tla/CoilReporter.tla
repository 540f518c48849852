---------------------------- MODULE CoilReporter ----------------------------
(***************************************************************************)
(* VehicleThread of src/src/IMachine.cpp: every 10 ms it reads the coils   *)
(* of the lane and the mode switch, and reports to the computer the switch *)
(* gives the lane to.  The computers connect and leave at any time, also   *)
(* between the reports of one round.                                       *)
(*                                                                         *)
(* Computer 0 is the robot (Client1), computer 1 the manned booth          *)
(* (Client2), as the switch reads.  The byte Oput[2] that carries the      *)
(* state of the coils is modelled as the function it encodes.              *)
(***************************************************************************)
EXTENDS Integers

CONSTANTS
    N,           \* the number of coils (three in the code)
    Broken,      \* those whose pin never opened: GetIOValue() is -1
    Clients,     \* the computers that ever connect, out of 0 and 1
    MaxEvents    \* bound: changes of coils, switch and connections

ASSUME CoilsAssumption == N \in Nat \ {0}
ASSUME BrokenAssumption == Broken \subseteq 1..N
ASSUME ClientsAssumption == Clients \subseteq {0, 1}
ASSUME EventsAssumption == MaxEvents \in Nat

Coils == 1..N
States == [Coils -> {0, 1}]
Forgotten == [k \in Coils |-> -1]
Nothing == Forgotten           \* what a computer knows that was told nothing

VARIABLES
    coil,       \* the coils as they are
    switch,     \* the switch as it is: the computer it gives the lane to
    isOpen,     \* the computers connected to their TcpServer
    view,       \* the last report each has received since it connected
    new, old,   \* newIOStatus, oldIOStatus
    manual, manualOld,   \* manualSwitchStatus, ManualSwitchStatusOld
    oput,       \* Oput[2]
    txseq,      \* TxSEQ
    phase,      \* "idle" between rounds, "read" or "report"
    i,          \* the coil that is read or reported next
    events      \* changes of the environment so far

env == <<coil, switch, isOpen, events>>
coilVars == <<coil, switch, isOpen, view, new, old, manual, manualOld, oput, txseq, phase, i, events>>

CoilTypeOK ==
    /\ coil \in States /\ switch \in {0, 1}
    /\ isOpen \subseteq Clients
    /\ view \in [Clients -> States \cup {Nothing}]
    /\ new \in [Coils -> {-1, 0, 1}] /\ old \in [Coils -> {-1, 0, 1}]
    /\ manual \in {0, 1} /\ manualOld \in {0, 1}
    /\ oput \in States
    /\ txseq \in 0..89
    /\ phase \in {"idle", "read", "report"}
    /\ i \in Coils
    /\ events \in 0..MaxEvents

CoilInit ==
    /\ coil \in States /\ switch \in {0, 1}
    /\ isOpen = {}
    /\ view = [c \in Clients |-> Nothing]
    /\ new = [k \in Coils |-> 0] /\ old = [k \in Coils |-> 0]
    /\ manual = 0 /\ manualOld = 0
    /\ oput = [k \in Coils |-> 0]
    /\ txseq = 0
    /\ phase = "idle" /\ i = 1
    /\ events = 0

(***************************************************************************)
(* VehicleThread.                                                          *)
(***************************************************************************)

(* A round starts when any computer is connected. *)
StartRound ==
    /\ phase = "idle" /\ isOpen # {}
    /\ phase' = "read"
    /\ UNCHANGED <<env, view, new, old, manual, manualOld, oput, txseq, i>>

(* A pin that never opened, or cannot be read, is neither 0 nor 1. *)
GetIOValue(k) == IF k \in Broken THEN -1 ELSE coil[k]

(* The coils are read one after the other, and then the switch. *)
ReadCoil ==
    /\ phase = "read"
    /\ new' = [new EXCEPT ![i] = GetIOValue(i)]
    /\ IF i < N THEN i' = i + 1 /\ UNCHANGED <<phase, manual>>
                ELSE i' = 1 /\ phase' = "report" /\ manual' = switch
    /\ UNCHANGED <<env, view, old, manualOld, oput, txseq>>

(* When none is, everything is forgotten, to be reported again later. *)
Forget ==
    /\ phase = "idle" /\ isOpen = {}
    /\ old # Forgotten
    /\ old' = Forgotten
    /\ UNCHANGED <<env, view, new, manual, manualOld, oput, txseq, phase, i>>

(* Mutant: one coil too many. *)
NextCoilOver ==
    IF i <= N THEN i' = i + 1 /\ UNCHANGED phase
              ELSE i' = 1 /\ phase' = "idle"

NextCoil ==
    IF i < N THEN i' = i + 1 /\ UNCHANGED phase
             ELSE i' = 1 /\ phase' = "idle"

(* CommunicationSend: a report to a computer that is not connected is lost. *)
SendTo(c, state) ==
    view' = IF c \in isOpen THEN [view EXCEPT ![c] = state] ELSE view

(* The state is encoded anew only when every coil could be read.           *)
Encoded == IF new \in States THEN new ELSE oput

(* Mutant: the sequence starts again one too late. *)
NextSeqLate == IF txseq \div 10 > 8 THEN 16 ELSE txseq + 10

(* The sequence byte is TxSEQ / 10. *)
NextSeq == IF txseq \div 10 = 8 THEN 16 ELSE txseq + 10

(* Mutants: only a coil that becomes occupied, or whose state was known.  *)
Risen(k) == new[k] # -1 /\ new[k] > old[k]

ChangedFromKnown(k) == new[k] # -1 /\ old[k] # -1 /\ new[k] # old[k]

Changed(k) == new[k] # -1 /\ new[k] # old[k]

(* Coil i has changed: the state goes to the computer that has the lane.   *)
ReportChange ==
    /\ phase = "report" /\ Changed(i)
    /\ oput' = Encoded
    /\ old' = [old EXCEPT ![i] = new[i]]
    /\ txseq' = NextSeq
    /\ SendTo(manual, Encoded)
    /\ NextCoil
    /\ UNCHANGED <<env, new, manual, manualOld>>

(* Coil i has not, but the switch has been turned: the newest state goes   *)
(* to the computer that now has the lane.                                  *)
ReportSwitch ==
    /\ phase = "report" /\ ~ Changed(i)
    /\ manual # manualOld
    /\ manualOld' = manual
    /\ SendTo(manual, oput)
    /\ NextCoil
    /\ UNCHANGED <<env, new, old, manual, oput, txseq>>

NoReport ==
    /\ phase = "report" /\ ~ Changed(i)
    /\ manual = manualOld
    /\ NextCoil
    /\ UNCHANGED <<env, view, new, old, manual, manualOld, oput, txseq>>

(***************************************************************************)
(* The lane and the computers.                                             *)
(***************************************************************************)
Event == events < MaxEvents /\ events' = events + 1

CoilChanges ==
    /\ Event
    /\ \E k \in Coils : coil' = [coil EXCEPT ![k] = 1 - @]
    /\ UNCHANGED <<switch, isOpen, view, new, old, manual, manualOld, oput, txseq, phase, i>>

(* A hand on the switch is slower than two rounds of 10 ms. *)
TurnSwitch ==
    /\ Event
    /\ isOpen = {} \/ manualOld = switch
    /\ switch' = 1 - switch
    /\ UNCHANGED <<coil, isOpen, view, new, old, manual, manualOld, oput, txseq, phase, i>>

Connect ==
    /\ Event
    /\ \E c \in Clients \ isOpen : /\ isOpen' = isOpen \cup {c}
                                   /\ view' = [view EXCEPT ![c] = Nothing]
    /\ UNCHANGED <<coil, switch, new, old, manual, manualOld, oput, txseq, phase, i>>

Leave ==
    /\ Event
    /\ \E c \in isOpen : isOpen' = isOpen \ {c}
    /\ UNCHANGED <<coil, switch, view, new, old, manual, manualOld, oput, txseq, phase, i>>

(***************************************************************************)
(* The specification.                                                      *)
(***************************************************************************)
VehicleThread == StartRound \/ ReadCoil \/ Forget \/ ReportChange \/ ReportSwitch \/ NoReport

Environment == CoilChanges \/ TurnSwitch \/ Connect \/ Leave

CoilNext == VehicleThread \/ Environment

CoilSpec == CoilInit /\ [][CoilNext]_coilVars

CoilFairSpec == CoilSpec /\ WF_coilVars(VehicleThread)

(***************************************************************************)
(* Properties.                                                             *)
(***************************************************************************)
HasLane(c) == c \in isOpen /\ switch = c

(* Once the lane and the computers are left alone, the computer that has   *)
(* the lane has no wrong picture of the coils: what it was told last is    *)
(* how they are, in particular after the switch was turned: "after the     *)
(* switch send the newest state to the one switched to"                    *)
(* (src/src/IMachine.cpp:332).  A computer that has been told nothing is   *)
(* another matter: see FreshClientLearns.                                  *)
NeverLeftWrong ==
    <>[](\A c \in Clients : HasLane(c) => view[c] \in {coil, Nothing})

(* A computer that connects after the thread has seen none connected is    *)
(* told the state of the coils, without any of them changing.              *)
FreshClientLearns ==
    \A c \in Clients :
        (old = Forgotten /\ phase = "idle" /\ HasLane(c))
            ~> (view[c] = coil \/ ~ HasLane(c))

(* Every report of a change has a sequence byte from 1 to 8, and not the   *)
(* one of the change before.                                               *)
ChangesAreNumbered ==
    [][ReportChange => /\ txseq' \div 10 \in 1..8
                       /\ txseq' \div 10 # txseq \div 10]_coilVars
=============================================================================
