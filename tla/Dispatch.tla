------------------------------ MODULE Dispatch ------------------------------
(***************************************************************************)
(* CommunicationAnalysis, the handlers behind it and their answers, for    *)
(* both receivers at once, with the voice handler of Speech.  The switch   *)
(* of the lane says whose frames are obeyed and may be turned at any time. *)
(*                                                                         *)
(* A frame is [code, head, dev, bcc, arg]: byte 8; byte 9, or \hA0 for the *)
(* whole preamble of a device frame; byte 13; whether the inner checksum   *)
(* is right; and the byte that the handler looks at, or the text's codes.  *)
(***************************************************************************)
EXTENDS Speech, Sequences

CONSTANTS
    Frames,       \* the frames that the computers send
    StackTypes,   \* what an unassigned Type may hold
    MaxFrames,    \* bound: frames that are received
    MaxTurns      \* bound: times the switch is turned

ASSUME FramesAssumption ==
    /\ Frames # {} /\ StackTypes \subseteq 0..255
    /\ MaxFrames \in Nat /\ MaxTurns \in Nat

Nothing == [code |-> 0]

VARIABLES
    lane,       \* whose frames IO4_manualSwitchStatus lets through, or None
    frames,     \* frames received so far
    turns,      \* times the switch was turned
    frame,      \* Cmd of each receiver
    point,      \* where it stands in CommunicationAnalysis
    type,       \* Type
    result,     \* the first two bytes of Result
    light,      \* the pin of the traffic light
    lamp,       \* the pin of the alarm lamp
    did,        \* whether a handler has run for the frame
    late        \* frames obeyed since the lane was taken away

dispatchVars == <<lane, frames, turns, frame, point, type, result, light, lamp, did, late>>
vars == <<speechVars, dispatchVars>>

TypeOK ==
    /\ SpeechTypeOK
    /\ lane \in Callers \cup {None}
    /\ frames \in 0..MaxFrames /\ turns \in 0..MaxTurns
    /\ frame \in [Callers -> Frames \cup {Nothing}]
    /\ point \in [Callers -> {"idle", "gate", "analyse", "voice", "answer"}]
    /\ type \in [Callers -> 0..255]
    /\ result \in [Callers -> (0..255) \X (0..255)]
    /\ light \in {"red", "green"} /\ lamp \in {"off", "on"}
    /\ did \in [Callers -> BOOLEAN] /\ late \in [Callers -> Nat]
    /\ \A c \in Callers : step[c] # "out" <=> point[c] = "voice"

Init ==
    /\ SpeechInit
    /\ lane \in Callers \cup {None}
    /\ frames = 0 /\ turns = 0
    /\ frame = [c \in Callers |-> Nothing]
    /\ point = [c \in Callers |-> "idle"]
    /\ type = [c \in Callers |-> 0]
    /\ result = [c \in Callers |-> <<0, 0>>]
    /\ light = "red" /\ lamp = "off"
    /\ did = [c \in Callers |-> FALSE]
    /\ late = [c \in Callers |-> 0]

(***************************************************************************)
(* CommunicationAnalysis.                                                  *)
(***************************************************************************)
Goto(c, to) == point' = [point EXCEPT ![c] = to]

(* Which handler a frame gets to: Cmd is byte 9 on for a device frame, and *)
(* byte 8 on for the others.                                               *)
Handler(f) ==
    LET first == IF f.code = \hA4 THEN f.head ELSE f.code
    IN  CASE first = \hA0 /\ f.bcc -> f.dev
          [] first \in {\hA3, \hAE} -> first
          [] OTHER -> 0

(* Voices that are on their way; for the bound only. *)
Voices == {c \in Callers : point[c] \in {"gate", "analyse"} /\ Handler(frame[c]) = \h53}

(* A right frame arrives. *)
Receive(c) ==
    /\ point[c] = "idle" /\ frames < MaxFrames
    /\ frames' = frames + 1
    /\ \E f \in Frames :
          /\ Handler(f) = \h53 => calls + Cardinality(Voices) < MaxCalls
          /\ frame' = [frame EXCEPT ![c] = f]
    /\ Goto(c, "gate")
    /\ UNCHANGED <<speechVars, lane, turns, type, result, light, lamp, did, late>>

(* The function returns: its locals are gone. *)
Return(c) ==
    /\ Goto(c, "idle")
    /\ frame' = [frame EXCEPT ![c] = Nothing]
    /\ type' = [type EXCEPT ![c] = 0]
    /\ result' = [result EXCEPT ![c] = <<0, 0>>]
    /\ did' = [did EXCEPT ![c] = FALSE]
    /\ UNCHANGED <<speechVars, lane, frames, turns, light, lamp, late>>

Commands == {\hA4, \hA3, \hAE}

(* Coil frames, heartbeats and what is not known are only logged. *)
LogOnly(c) == point[c] = "gate" /\ frame[c].code \notin Commands /\ Return(c)

(* Type, which a device frame is given only when it is let through. *)
TypeOfDevice ==
    [d \in {\h44, \h64, \h07, \h53} |-> IF d = \h07 THEN \hDF ELSE \hD4]

TypeOf(f) == CASE f.code = \hA3 -> \hD3
               [] f.code = \hAE -> \hDE
               [] f.code = \hA4 -> TypeOfDevice[f.dev]

(* Mutant: everybody is let through. *)
PassAll(c) ==
    /\ point[c] = "gate" /\ frame[c].code \in Commands
    /\ frame[c].code = \hA4 => frame[c].dev \in DOMAIN TypeOfDevice
    /\ type' = [type EXCEPT ![c] = TypeOf(frame[c])]
    /\ Goto(c, "analyse")
    /\ UNCHANGED <<speechVars, lane, frames, turns, frame, result, light, lamp, did, late>>

(* The client has the lane. *)
Pass(c) ==
    /\ point[c] = "gate" /\ frame[c].code \in Commands /\ lane = c
    /\ frame[c].code = \hA4 => frame[c].dev \in DOMAIN TypeOfDevice
    /\ type' = [type EXCEPT ![c] = TypeOf(frame[c])]
    /\ Goto(c, "analyse")
    /\ UNCHANGED <<speechVars, lane, frames, turns, frame, result, light, lamp, did, late>>

(* It has, but the device is not known: no answer. *)
Unsupported(c) ==
    /\ point[c] = "gate" /\ frame[c].code = \hA4 /\ lane = c
    /\ frame[c].dev \notin DOMAIN TypeOfDevice
    /\ Return(c)

(* It has not. *)
Refuse(c) ==
    /\ point[c] = "gate" /\ frame[c].code \in Commands /\ lane # c
    /\ \E t \in IF frame[c].code = \hA4 THEN StackTypes ELSE {TypeOf(frame[c])} :
          type' = [type EXCEPT ![c] = t]
    /\ Goto(c, "answer")
    /\ UNCHANGED <<speechVars, lane, frames, turns, frame, result, light, lamp, did, late>>

(***************************************************************************)
(* Analysis and the handlers.                                              *)
(***************************************************************************)

(* The handler has run, late or not, and leaves its two bytes. *)
Done(c, bytes) ==
    /\ result' = [result EXCEPT ![c] = bytes]
    /\ did' = [did EXCEPT ![c] = TRUE]
    /\ late' = IF lane = c THEN late ELSE [late EXCEPT ![c] = @ + 1]

At(c, handlers) == point[c] = "analyse" /\ Handler(frame[c]) \in handlers

NotHandled(c) ==
    /\ At(c, {0}) /\ Goto(c, "answer")
    /\ UNCHANGED <<speechVars, lane, frames, turns, frame, type, result, light, lamp, did,
                   late>>

(* BalusTrade, as its caller sees it: the relays are in Barrier.  The      *)
(* \hD3 of its answer is overwritten by the command's first byte.          *)
BalusTrade(c) ==
    /\ At(c, {\hA3}) /\ Goto(c, "answer")
    /\ Done(c, <<\hA3, CASE frame[c].arg = 0 -> 3 [] frame[c].arg = 1 -> 2 [] OTHER -> 0>>)
    /\ UNCHANGED <<speechVars, lane, frames, turns, frame, type, light, lamp>>

TrafficControl(c) ==
    /\ At(c, {\hAE}) /\ Goto(c, "answer")
    /\ light' = CASE frame[c].arg = 0 -> "green" [] frame[c].arg = 1 -> "red" [] OTHER -> light
    /\ Done(c, <<\hDE, IF frame[c].arg = 1 THEN 1 ELSE 0>>)
    /\ UNCHANGED <<speechVars, lane, frames, turns, frame, type, lamp>>

(* Cmd is byte 13 on here, which is \h07. *)
FlashLightControl(c) ==
    /\ At(c, {\h07}) /\ Goto(c, "answer")
    /\ lamp' = IF frame[c].dev = 1 THEN "on" ELSE "off"
    /\ Done(c, <<\hDF, IF frame[c].dev = 1 THEN 3 ELSE 4>>)
    /\ UNCHANGED <<speechVars, lane, frames, turns, frame, type, light>>

(* DisplayControl, as its caller sees it: success is never set, and every  *)
(* fee is answered as not shown.  The rows and their lock are in           *)
(* DisplayTimer.                                                           *)
DisplayControl(c) ==
    /\ At(c, {\h44, \h64}) /\ Goto(c, "answer")
    /\ Done(c, <<\hD4, 3>>)
    /\ UNCHANGED <<speechVars, lane, frames, turns, frame, type, light, lamp>>

(* DisplayVoice up to its call of speech_playback. *)
DisplayVoice(c) ==
    /\ At(c, {\h53}) /\ Goto(c, "voice")
    /\ late' = IF lane = c THEN late ELSE [late EXCEPT ![c] = @ + 1]
    /\ BeginSpeech(c)
    /\ UNCHANGED <<lane, frames, turns, frame, type, result, light, lamp, did>>

SpeechStep(c) ==
    /\ point[c] = "voice"
    /\ GetInstance(c) \/ NewInstance(c) \/ Lock(c) \/ Join(c) \/ Kill(c)
    /\ UNCHANGED dispatchVars

(* It returns, or throws into the catch of DisplayVoice. *)
VoiceStarted(c) ==
    /\ Spawn(c) /\ Goto(c, "answer")
    /\ result' = [result EXCEPT ![c] = <<\hD4, 4>>]
    /\ did' = [did EXCEPT ![c] = TRUE]
    /\ UNCHANGED <<lane, frames, turns, frame, type, light, lamp, late>>

VoiceFailed(c) ==
    /\ SpawnThrows(c) /\ Goto(c, "answer")
    /\ result' = [result EXCEPT ![c] = <<\hD4, 5>>]
    /\ did' = [did EXCEPT ![c] = TRUE]
    /\ UNCHANGED <<lane, frames, turns, frame, type, light, lamp, late>>

(***************************************************************************)
(* CommunicationSend sends the two bytes of Result; Type itself is never   *)
(* sent, but a Type of \hB0 makes a heartbeat of any answer.               *)
(***************************************************************************)
Message(t, bytes) == IF t = \hB0 THEN <<\hB0>> ELSE bytes

(* Mutant: Result outlives the frame. *)
SendAndKeep(c) ==
    /\ point[c] = "answer" /\ Goto(c, "idle")
    /\ frame' = [frame EXCEPT ![c] = Nothing]
    /\ type' = [type EXCEPT ![c] = 0]
    /\ did' = [did EXCEPT ![c] = FALSE]
    /\ UNCHANGED <<speechVars, lane, frames, turns, result, light, lamp, late>>

CommunicationSend(c) == point[c] = "answer" /\ Return(c)

(* What it sends. *)
Answer(c) == Message(type[c], result[c])

TurnSwitch ==
    /\ turns < MaxTurns
    /\ turns' = turns + 1
    /\ lane' \in Callers \ {lane}
    /\ late' = [c \in Callers |-> 0]
    /\ UNCHANGED <<speechVars, frames, frame, point, type, result, light, lamp, did>>

CommunicationAnalysis(c) ==
    \/ LogOnly(c) \/ Pass(c) \/ Unsupported(c) \/ Refuse(c)
    \/ NotHandled(c) \/ BalusTrade(c) \/ TrafficControl(c) \/ FlashLightControl(c)
    \/ DisplayControl(c) \/ DisplayVoice(c) \/ SpeechStep(c)
    \/ VoiceStarted(c) \/ VoiceFailed(c) \/ CommunicationSend(c)

Background ==
    /\ \/ \E i \in Instances : SpeechThread(i)
       \/ \E n \in Calls : StartSound(n) \/ EndSound(n)
    /\ UNCHANGED dispatchVars

Next ==
    \/ \E c \in Callers : Receive(c) \/ CommunicationAnalysis(c)
    \/ TurnSwitch \/ Background

Spec == Init /\ [][Next]_vars

(* Receivers and speech threads run.                                       *)
FairSpec ==
    /\ Spec
    /\ \A c \in Callers : WF_vars(CommunicationAnalysis(c))
    /\ \A i \in Instances : WF_vars(SpeechThread(i) /\ UNCHANGED dispatchVars)

(***************************************************************************)
(* Properties.                                                             *)
(***************************************************************************)

Answers(c) == point[c] = "answer" /\ point'[c] = "idle"

(* From its answer a computer can tell whether its frame was obeyed: two   *)
(* zeros, or a heartbeat, come back exactly when no handler has run for    *)
(* this very frame, whatever earlier frames and the other computer's left; *)
(* and the heartbeat only for a device frame refused at the gate, whose    *)
(* Type was never assigned.  (What the other bytes say of the device is    *)
(* not to be relied on: a fee that is shown is answered as not shown.)     *)
AnswersAreEarned ==
    [][\A c \in Callers : Answers(c) =>
          /\ did[c] <=> Answer(c) \notin {<<0, 0>>, <<\hB0>>}
          /\ Answer(c) = <<\hB0>> => frame[c].code = \hA4]_vars

(* When the lane is taken from a computer, at most one more of its frames  *)
(* is obeyed.                                                              *)
OneLateCommand == \A c \in Callers : late[c] <= 1

(* A receiver comes back from every frame, unless a speech thread could    *)
(* not be made: then the mutex is never released and voices block.         *)
EveryFrameEnds ==
    \A c \in Callers :
        point[c] # "idle" ~> (point[c] = "idle" \/ \E i \in Instances : Stuck(i))
=============================================================================
