------------------------------ MODULE Barrier ------------------------------
(***************************************************************************)
(* The electric barrier arm of the lane (src/src/IMachine.cpp).            *)
(*                                                                         *)
(* One receiver thread per controlling computer (TcpserverFunc1 and        *)
(* TcpserverFunc2, the threads that run CommunicationAnalysis) may execute *)
(* BalusTrade.  A move energises one of two relays and hands a one-second  *)
(* pulse to the thread balustradeThread, which releases both relays.  The  *)
(* only thing that orders two moves is the join of the previous pulse at   *)
(* the top of BalusTrade; nothing orders two receivers but the mode switch *)
(* that lets one of them in.                                               *)
(*                                                                         *)
(* A receiver's program point in BalusTrade is pc; each action is one      *)
(* access to state that another thread can also reach.                     *)
(***************************************************************************)
EXTENDS Naturals

CONSTANTS
    Receivers,    \* the receiver threads, one per controlling computer
    NoOne         \* the switch cannot be read (GetIOValue() = -1)

ASSUME NoOneAssumption == NoOne \notin Receivers

Relays   == {"up", "down"}
Commands == {"lower", "raise", "other"}      \* Cmd[1] = 0, 1, anything else
Points   == {"idle", "joinable", "join", "joining",
             "driveUp", "driveDown", "spawn", "threw", "answer"}
Pulses   == {"none", "sleeping", "upReleased", "ended"}
Replies  == {"none", "refused", "unknown", "raise", "lower"}

VARIABLES
    mode,      \* IO4_manualSwitchStatus, as the receiver it lets in
    pc,        \* where each receiver is
    cmd,       \* the command each receiver is executing
    reply,     \* Result[1] of the last reply sent to each computer
    opened,    \* the relays whose Gpio::isOpen is true
    energised, \* the relays that are driven
    pulse,     \* the thread behind balustradeThread, "none" when not joinable
    alive,     \* FALSE once std::terminate has ended the process
    turned     \* has the switch ever been turned during a move?

vars == <<mode, pc, cmd, reply, opened, energised, pulse, alive, turned>>

TypeOK ==
    /\ mode \in Receivers \cup {NoOne}
    /\ pc \in [Receivers -> Points]
    /\ cmd \in [Receivers -> Commands]
    /\ reply \in [Receivers -> Replies]
    /\ opened \subseteq Relays
    /\ energised \subseteq opened
    /\ pulse \in Pulses
    /\ alive \in BOOLEAN
    /\ turned \in BOOLEAN

(* IMachine's constructor initialises nothing, so IO4_manualSwitchStatus   *)
(* starts as whatever the memory held; a Gpio whose pin is out of range or *)
(* whose sysfs file is missing never opens.                                *)
Init ==
    /\ mode \in Receivers \cup {NoOne}
    /\ pc = [r \in Receivers |-> "idle"]
    /\ cmd = [r \in Receivers |-> "other"]
    /\ reply = [r \in Receivers |-> "none"]
    /\ opened \in SUBSET Relays
    /\ energised = {}
    /\ pulse = "none"
    /\ alive = TRUE
    /\ turned = FALSE

Goto(r, p) == pc' = [pc EXCEPT ![r] = p]

(* Mutant: the pin is written whether it is open or not. *)
SetOnUnchecked(x) == energised' = energised \cup {x}

(* Gpio::SetOn and SetOff: nothing is written unless the pin is open.      *)
SetOn(x)  == energised' = energised \cup ({x} \cap opened)
SetOff(x) == energised' = energised \ ({x} \cap opened)

(***************************************************************************)
(* The receiver threads.                                                   *)
(***************************************************************************)

(* A barrier frame arrives while its sender holds the lane.                *)
Accept(r) ==
    /\ alive /\ pc[r] = "idle"
    /\ mode = r
    /\ \E c \in Commands : cmd' = [cmd EXCEPT ![r] = c]
    /\ Goto(r, "joinable")
    /\ UNCHANGED <<mode, reply, opened, energised, pulse, alive, turned>>

(* A barrier frame from the computer that does not hold the lane: it is    *)
(* answered with the zeroed Result and nothing else happens.               *)
Refuse(r) ==
    /\ alive /\ pc[r] = "idle"
    /\ mode # r
    /\ reply' = [reply EXCEPT ![r] = "refused"]
    /\ UNCHANGED <<mode, pc, cmd, opened, energised, pulse, alive, turned>>

(* Mutants: the previous pulse is never waited for, or only while it runs. *)
NeverJoins(r) ==
    /\ alive /\ pc[r] = "joinable"
    /\ Goto(r, "driveUp")
    /\ UNCHANGED <<mode, cmd, reply, opened, energised, pulse, alive, turned>>

JoinsRunning(r) ==
    /\ alive /\ pc[r] = "joinable"
    /\ Goto(r, IF pulse \in {"none", "ended"} THEN "driveUp" ELSE "join")
    /\ UNCHANGED <<mode, cmd, reply, opened, energised, pulse, alive, turned>>

(* if (balustradeThread.joinable())                                        *)
TestJoinable(r) ==
    /\ alive /\ pc[r] = "joinable"
    /\ Goto(r, IF pulse = "none" THEN "driveUp" ELSE "join")
    /\ UNCHANGED <<mode, cmd, reply, opened, energised, pulse, alive, turned>>

(* balustradeThread.join() throws, and no one catches, when the thread has *)
(* been joined since the test or when another receiver is waiting for it.  *)
JoinThrows(r) ==
    \/ pulse = "none"
    \/ \E s \in Receivers \ {r} : pc[s] = "joining"

EnterJoin(r) ==
    /\ alive /\ pc[r] = "join"
    /\ IF JoinThrows(r)
         THEN alive' = FALSE /\ UNCHANGED pc
         ELSE Goto(r, "joining") /\ UNCHANGED alive
    /\ UNCHANGED <<mode, cmd, reply, opened, energised, pulse, turned>>

LeaveJoin(r) ==
    /\ alive /\ pc[r] = "joining"
    /\ pulse = "ended"
    /\ pulse' = "none"
    /\ Goto(r, "driveUp")
    /\ UNCHANGED <<mode, cmd, reply, opened, energised, alive, turned>>

(* Balustrade_up->SetOn() to raise, SetOff() to lower.                     *)
DriveUp(r) ==
    /\ alive /\ pc[r] = "driveUp"
    /\ cmd[r] # "other"
    /\ IF cmd[r] = "raise" THEN SetOn("up") ELSE SetOff("up")
    /\ Goto(r, "driveDown")
    /\ UNCHANGED <<mode, cmd, reply, opened, pulse, alive, turned>>

(* Balustrade_down->SetOff() to raise, SetOn() to lower.                   *)
DriveDown(r) ==
    /\ alive /\ pc[r] = "driveDown"
    /\ IF cmd[r] = "raise" THEN SetOff("down") ELSE SetOn("down")
    /\ Goto(r, "spawn")
    /\ UNCHANGED <<mode, cmd, reply, opened, pulse, alive, turned>>

(* Any other command byte moves nothing.                                   *)
NoMove(r) ==
    /\ alive /\ pc[r] = "driveUp"
    /\ cmd[r] = "other"
    /\ Goto(r, "answer")
    /\ UNCHANGED <<mode, cmd, reply, opened, energised, pulse, alive, turned>>

(* balustradeThread = std::thread(...): assigning over a joinable thread   *)
(* terminates the process.                                                 *)
Spawn(r) ==
    /\ alive /\ pc[r] = "spawn"
    /\ IF pulse = "none"
         THEN pulse' = "sleeping" /\ Goto(r, "answer") /\ UNCHANGED alive
         ELSE alive' = FALSE /\ UNCHANGED <<pulse, pc>>
    /\ UNCHANGED <<mode, cmd, reply, opened, energised, turned>>

(* No thread can be made: std::thread throws, nobody catches, and the      *)
(* process ends with the relay on.                                         *)
SpawnThrows(r) ==
    /\ alive /\ pc[r] = "spawn"
    /\ Goto(r, "threw") /\ alive' = FALSE
    /\ UNCHANGED <<mode, cmd, reply, opened, energised, pulse, turned>>

(* CommunicationSend of Result; the byte that tells the position is left 0 *)
(* for a command that moves nothing.                                       *)
Answer(r) ==
    /\ alive /\ pc[r] = "answer"
    /\ reply' = [reply EXCEPT ![r] = IF cmd[r] = "other" THEN "unknown" ELSE cmd[r]]
    /\ Goto(r, "idle")
    /\ UNCHANGED <<mode, cmd, opened, energised, pulse, alive, turned>>

(***************************************************************************)
(* Balustrade_Thread: one second after its start it releases both relays.  *)
(***************************************************************************)
(* Mutants: a relay is left out, or the pulse is repeated. *)
SkipUp ==
    /\ alive /\ pulse = "sleeping"
    /\ pulse' = "upReleased"
    /\ UNCHANGED <<mode, pc, cmd, reply, opened, energised, alive, turned>>

SkipDown ==
    /\ alive /\ pulse = "upReleased"
    /\ pulse' = "ended"
    /\ UNCHANGED <<mode, pc, cmd, reply, opened, energised, alive, turned>>

PulseAgain ==
    /\ alive /\ pulse = "upReleased"
    /\ SetOff("down")
    /\ pulse' = "sleeping"
    /\ UNCHANGED <<mode, pc, cmd, reply, opened, alive, turned>>

ReleaseUp ==
    /\ alive /\ pulse = "sleeping"
    /\ SetOff("up")
    /\ pulse' = "upReleased"
    /\ UNCHANGED <<mode, pc, cmd, reply, opened, alive, turned>>

ReleaseDown ==
    /\ alive /\ pulse = "upReleased"
    /\ SetOff("down")
    /\ pulse' = "ended"
    /\ UNCHANGED <<mode, pc, cmd, reply, opened, alive, turned>>

(* VehicleThread copies the switch into IO4_manualSwitchStatus.            *)
TurnSwitch ==
    /\ alive
    /\ \E m \in Receivers \cup {NoOne} : m # mode /\ mode' = m
    /\ turned' = (turned \/ \E r \in Receivers : pc[r] # "idle")
    /\ UNCHANGED <<pc, cmd, reply, opened, energised, pulse, alive>>

(***************************************************************************)
(* The specification.                                                      *)
(***************************************************************************)
Handle(r) ==
    \/ TestJoinable(r) \/ EnterJoin(r) \/ LeaveJoin(r)
    \/ DriveUp(r) \/ DriveDown(r) \/ NoMove(r)
    \/ Spawn(r) \/ SpawnThrows(r) \/ Answer(r)

Pulse == ReleaseUp \/ ReleaseDown

Next ==
    \/ \E r \in Receivers : Accept(r) \/ Refuse(r) \/ Handle(r)
    \/ Pulse
    \/ TurnSwitch

(* A running thread is eventually scheduled; nothing makes a frame arrive  *)
(* or the operator turn the switch.                                        *)
Fairness ==
    /\ \A r \in Receivers : WF_vars(Handle(r))
    /\ WF_vars(Pulse)

Spec == Init /\ [][Next]_vars

FairSpec == Spec /\ Fairness

(***************************************************************************)
(* Properties.                                                             *)
(***************************************************************************)

(* As long as the switch is turned only between moves, the raising and the *)
(* lowering relay are never energised together: the join at the top of     *)
(* BalusTrade makes the previous pulse release its relay first.            *)
Interlock == ~ turned => energised # Relays

NoThread == \E r \in Receivers : pc[r] = "threw"

(* As long as the switch is turned only between moves, no join and no      *)
(* assignment of balustradeThread ends the process; only a thread that     *)
(* could not be made does.                                                 *)
NeverTerminates == ~ turned => alive \/ NoThread

(* While the process lives an energised relay is owed a release: by the    *)
(* pulse that has not reached that relay yet, or by a receiver that        *)
(* energised it and has yet to start its pulse.  It is what keeps the      *)
(* motor from being driven for ever, whichever receivers are in            *)
(* BalusTrade; a process that ends leaves its relays as they are.          *)
UpIsOwed ==
    "up" \in energised =>
        \/ pulse = "sleeping"
        \/ \E r \in Receivers : pc[r] \in {"driveDown", "spawn"} /\ cmd[r] = "raise"

DownIsOwed ==
    "down" \in energised =>
        \/ pulse \in {"sleeping", "upReleased"}
        \/ \E r \in Receivers : pc[r] = "spawn" /\ cmd[r] = "lower"

EnergisedIsOwed == alive => UpIsOwed /\ DownIsOwed

(* What EnergisedIsOwed needs to be inductive: a receiver past its first   *)
(* relay has a command that names a direction.                             *)
MoveHasDirection ==
    \A r \in Receivers : pc[r] \in {"driveDown", "spawn"} => cmd[r] # "other"

(* What Interlock and NeverTerminates need to be inductive when the switch *)
(* is not turned during a move: whoever is in BalusTrade holds the lane,   *)
(* and it has joined the previous pulse before it touches a relay.         *)
HandlerHoldsLane ==
    \A r \in Receivers : pc[r] # "idle" => mode = r

JoinedBeforeMove ==
    \A r \in Receivers :
        /\ pc[r] \in {"driveUp", "driveDown", "spawn"} => pulse = "none"
        /\ pc[r] \in {"join", "joining"} => pulse # "none"

OneAtATime ==
    ~ turned => /\ HandlerHoldsLane
                /\ JoinedBeforeMove
                /\ energised # Relays
                /\ alive \/ NoThread

(* A relay that is energised is released, unless the process ends first.   *)
EveryPulseEnds ==
    \A x \in Relays : x \in energised ~> (x \notin energised \/ ~ alive)

(* A receiver that enters BalusTrade comes back to its socket, even when   *)
(* it has to wait for the previous pulse, unless the process ends.         *)
ReceiverReturns ==
    \A r \in Receivers : pc[r] # "idle" ~> (pc[r] = "idle" \/ ~ alive)
=============================================================================
