--------------------------- MODULE FrameReceiver ---------------------------
(***************************************************************************)
(* ReceiveCmd1 and ReceiveCmd2 of src/src/IMachine.cpp: the loop that cuts *)
(* the byte stream of a controlling computer into frames.  The two         *)
(* functions differ in their server and in what they log; one instance of  *)
(* this module is one of them.                                             *)
(*                                                                         *)
(* A byte is the pair <<k, o>>: offset o of the k-th frame the computer    *)
(* sends.  Only the bytes the loop looks at have a value (Byte).  The      *)
(* buffer Recv_Data is the sequence data and, past it, bytes that hold     *)
(* what the stack held, or 0 once memset has run.  Its first pos bytes are *)
(* valid; the others are left over, and the loop does read them.           *)
(*                                                                         *)
(* Over four bytes and more a checksum is right exactly on a whole frame   *)
(* that was sent with a right one: a chance match of the one-byte XOR is   *)
(* left out, and so are two FF bytes in a row anywhere but at the start of *)
(* a frame.  Over fewer bytes BCCDataCheck compares a single byte with the *)
(* XOR of none, and the model does just that.  Only Command_Len as the     *)
(* stack left it can ask for so few.                                       *)
(***************************************************************************)
EXTENDS Integers, SequencesExt, FiniteSetsExt

CONSTANTS
    Streams,       \* the sequences of frames a computer may send
    Cuts,          \* the offsets at which TCP may cut a frame in two
    StackLens,     \* the values Command_Len may find on the stack
    StackBytes,    \* the values the bytes of Recv_Data may find there
    VoiceLen,      \* the length of a voice frame
    VoiceHigh,     \* its byte 6
    ConnectionsFail \* may the connection be lost or replaced?

Kinds == {"display3", "display4", "flash", "voice", "barrier", "traffic", "heartbeat",
          "noise"}      \* bytes that are no frame at all

Frames == [kind : Kinds, good : BOOLEAN]

ASSUME StreamsAssumption == Streams \subseteq Seq(Frames)
ASSUME CutsAssumption == Cuts \subseteq Nat \ {0}
ASSUME StackAssumption == StackLens \subseteq Int /\ StackBytes \subseteq 0..255
ASSUME VoiceAssumption == VoiceLen \in 19..263 /\ VoiceHigh \in 0..254

FrameLen == [display3 |-> 58, display4 |-> 87, flash |-> 23, voice |-> VoiceLen,
             barrier |-> 11, traffic |-> 11, heartbeat |-> 9, noise |-> 5]

(* Frames for a device behind the fee display carry the prefix A0 B0 C0 D0 *)
(* and a second command byte.                                              *)
Boxed    == {"display3", "display4", "flash", "voice"}
CodeByte == [display3 |-> \h44, display4 |-> \h64, flash |-> \h07, voice |-> \h53]
TypeByte(kind) == CASE kind \in Boxed     -> \hA4
                    [] kind = "barrier"   -> \hA3
                    [] kind = "traffic"   -> \hAE
                    [] OTHER              -> 0

VARIABLES
    stream,     \* the frames the computer sends
    wire,       \* their bytes that recv has not returned yet
    pc,         \* "recv", "find", "check" or "next"
    data,       \* Recv_Data, as far as it was written
    past,       \* its bytes past that
    pos, index1, index2, commandLen,   \* the loop's variables of these names
    delivered   \* the frames handed to CommunicationAnalysis after a checksum, in order

vars == <<stream, wire, pc, data, past, pos, index1, index2, commandLen, delivered>>

Bytes(frame, k) == [o \in 1..FrameLen[frame.kind] |-> <<k, o - 1>>]

Whole == FlattenSeq([k \in DOMAIN stream |-> Bytes(stream[k], k)])

TypeOK ==
    /\ stream \in Streams
    /\ pc \in {"recv", "find", "check", "next"}
    /\ {wire, data} \subseteq Seq((DOMAIN stream) \X Nat)
    /\ past \in StackBytes \cup {0}
    /\ pos \in 0..Len(data)
    /\ index1 \in -1..Len(data)
    /\ index2 \in Int /\ index2 <= pos
    /\ index2 < 0 => pc \in {"check", "next"} /\ commandLen < 0
    /\ commandLen \in StackLens \cup 9..(255 + 19)
    /\ delivered \in Seq(DOMAIN stream)

Init ==
    /\ stream \in Streams
    /\ wire = Whole
    /\ pc = "recv"
    /\ data = <<>> /\ past \in StackBytes
    /\ pos = 0 /\ index1 = -1 /\ index2 = 0
    /\ commandLen \in StackLens
    /\ delivered = <<>>

(***************************************************************************)
(* What the loop reads.  Positions count from 0, as in the code.           *)
(***************************************************************************)
Byte(k, o) ==
    LET kind == stream[k].kind IN
    IF kind = "noise" THEN 0
    ELSE CASE o \in {0, 1}                  -> \hFF
           [] o = 3 /\ kind = "heartbeat"   -> \h90
           [] o = 5 /\ kind = "heartbeat"   -> 2
           [] o = 6 /\ kind = "voice"       -> VoiceHigh
           [] o = 7 /\ kind # "heartbeat"   -> FrameLen[kind] - 9
           [] o = 8                         -> TypeByte(kind)
           [] o \in 9..12 /\ kind \in Boxed -> \hA0 + 16 * (o - 9)
           [] o = 13 /\ kind \in Boxed      -> CodeByte[kind]
           [] OTHER                         -> 0

ByteAt(buf, i, rest) ==
    IF i < Len(buf) THEN Byte(buf[i + 1][1], buf[i + 1][2]) ELSE rest

At(i) == ByteAt(data, i, past)

(* The positions, from the given one on, where a valid FF FF starts.       *)
Headers(from) == {i \in from..(pos - 2) : At(i) = \hFF /\ At(i + 1) = \hFF}

(* Mutant: the command byte of a four-line display frame is forgotten.     *)
OneDisplayCode == [code \in {\h44, \h07} |-> IF code = \h44 THEN 58 ELSE 23]

(* The length of the frame at position i, by its command bytes; when none  *)
(* is recognised, Command_Len keeps the value it had.                      *)
LengthOfCode ==
    [code \in {\h44, \h64, \h07} |-> CASE code = \h44 -> 58
                                        [] code = \h64 -> 87
                                        [] code = \h07 -> 23]

LengthAt(i) ==
    LET code == At(i + 13)
        type == At(i + 8) IN
    IF code \in DOMAIN LengthOfCode THEN LengthOfCode[code]
    ELSE IF type = \hAE             THEN 11
    ELSE IF code = \h53             THEN At(i + 6) + 19
    ELSE IF type = \hA3             THEN 11
    ELSE IF At(i + 3) = \h90  THEN 9
    ELSE commandLen

(* Mutant: every frame passes. *)
ChecksumIgnored(i, n) == {TRUE}

(* The answers BCCDataCheck may give for the n bytes at position i.  Of    *)
(* fewer than four it compares the byte at i + n - 1 with the XOR of none; *)
(* below the array that byte is anything.                                  *)
ChecksumAnswers(i, n) ==
    LET k == data[i + 1][1] IN
    IF n > 3 THEN {stream[k].good /\ SubSeq(data, i + 1, i + n) = Bytes(stream[k], k)}
    ELSE IF i + n > 0 THEN {At(i + n - 1) = 0}
    ELSE BOOLEAN

(* The look at what follows a frame: is it visibly too short to be one?    *)
TooShort(buf, rest, n) ==
    LET B(o) == ByteAt(buf, o, rest) IN
    IF \A j \in 0..3 : B(9 + j) = \hA0 + 16 * j THEN B(7) + 9 > n
    ELSE IF B(3) = \h90                          THEN B(5) + 7 > n
    ELSE B(7) > n

(***************************************************************************)
(* The steps of the loop.                                                  *)
(***************************************************************************)

(* recv returns the first n bytes on the wire.  TCP joins frames and cuts  *)
(* them where it likes, here at the offsets in Cuts.                       *)
CutPoints ==
    {n \in 1..Len(wire) : n < Len(wire) => wire[n + 1][2] \in Cuts \cup {0}}

Recv(n) ==
    /\ pc = "recv"
    /\ wire' = SubSeq(wire, n + 1, Len(wire))
    /\ data' = SubSeq(data, 1, pos) \o SubSeq(wire, 1, n)
                                    \o SubSeq(data, pos + n + 1, Len(data))
    /\ pos' = pos + n
    /\ pc' = IF pos + n < 4 THEN "recv" ELSE "find"
    /\ UNCHANGED <<stream, past, index1, index2, commandLen, delivered>>

(* Find_Frame, no header and none from before: everything is dropped.      *)
FindNothing ==
    /\ pc = "find"
    /\ Headers(index2) = {} /\ index1 < 0
    /\ pos' = 0 /\ index2' = 0
    /\ pc' = "recv"
    /\ UNCHANGED <<stream, wire, data, past, index1, commandLen, delivered>>

(* Find_Frame.  When the search fails but Index1 is left from an earlier   *)
(* one, the length is looked up where the search ended.                    *)
FindHeader ==
    /\ pc = "find"
    /\ LET found == Headers(index2) IN
       LET i     == IF found # {} THEN Min(found) ELSE Max({index2, pos - 1})
           start == IF found # {} THEN i ELSE index1 IN
         /\ start >= 0
         /\ index1' = start
         /\ IF pos - start < 7
              THEN pc' = "recv" /\ UNCHANGED <<index2, commandLen>>
              ELSE /\ commandLen' = LengthAt(i)
                   /\ IF commandLen' > pos - start
                        THEN pc' = "recv" /\ UNCHANGED index2
                        ELSE /\ pc' = "check"
                             /\ index2' = IF commandLen' < pos - start
                                            THEN start + commandLen' ELSE 0
    /\ UNCHANGED <<stream, wire, data, past, pos, delivered>>

(* The checksum is right: CommunicationAnalysis executes the command that  *)
(* starts at Index1.  After fewer than four bytes no checksum was taken,   *)
(* and what is executed may be a part of a frame, or one executed before.  *)
Deliver ==
    /\ pc = "check"
    /\ TRUE \in ChecksumAnswers(index1, commandLen)
    /\ IF commandLen > 3
         THEN delivered' = Append(delivered, data[index1 + 1][1])
         ELSE UNCHANGED delivered
    /\ pc' = "next"
    /\ UNCHANGED <<stream, wire, data, past, pos, index1, index2, commandLen>>

(* Mutant: a frame that is wrong takes what follows it along. *)
DropAll ==
    /\ pc = "check"
    /\ FALSE \in ChecksumAnswers(index1, commandLen)
    /\ index2' = 0 /\ pos' = 0
    /\ pc' = "recv"
    /\ UNCHANGED <<stream, wire, data, past, index1, commandLen, delivered>>

(* The checksum is wrong: go on at the next header, or drop everything;    *)
(* Recv_Data keeps its bytes, and Index1 its value in the second case.     *)
Resync ==
    /\ pc = "check"
    /\ FALSE \in ChecksumAnswers(index1, commandLen)
    /\ LET found == Headers(index1 + 1) IN
         IF found # {}
           THEN /\ index1' = -1 /\ index2' = Min(found)
                /\ pc' = "find"
                /\ UNCHANGED pos
           ELSE /\ index2' = 0 /\ pos' = 0
                /\ pc' = "recv"
                /\ UNCHANGED index1
    /\ UNCHANGED <<stream, wire, data, past, commandLen, delivered>>

(* The valid bytes after the frame. *)
Following == IF index2 = 0 THEN <<>> ELSE SubSeq(data, index2 + 1, pos)

(* A negative Index2 takes neither of the two branches.                    *)
MoveToFront ==
    /\ IF index2 < 0 THEN UNCHANGED <<data, past, pos>>
                     ELSE data' = Following /\ past' = 0 /\ pos' = Len(Following)
    /\ pc' = IF pos' < 4 \/ TooShort(data', past', pos') THEN "recv" ELSE "find"

(* Mutant: Index2 is left as it was. *)
ShiftOnly ==
    /\ pc = "next"
    /\ MoveToFront
    /\ index1' = -1 /\ UNCHANGED index2
    /\ UNCHANGED <<stream, wire, commandLen, delivered>>

(* After a frame: nothing follows, or what follows moves to the front of a *)
(* cleared buffer and is searched unless it is visibly incomplete.         *)
Shift ==
    /\ pc = "next"
    /\ MoveToFront
    /\ index1' = -1 /\ index2' = 0
    /\ UNCHANGED <<stream, wire, commandLen, delivered>>

(***************************************************************************)
(* Failures of the connection.                                             *)
(***************************************************************************)

(* The bytes of a frame sent in part are not sent again: the computer goes *)
(* on with a later frame, at position n + 1 of the wire.                   *)
ResumePoints ==
    {n \in 0..Len(wire) : n < Len(wire) => wire[n + 1][2] = 0}

(* recv returns 0 or fails: the function returns, and is called again once *)
(* a client is connected.  Its local variables start afresh, except those  *)
(* it does not initialise: they hold what is on the stack.                 *)
ConnectionLost(n) ==
    /\ ConnectionsFail /\ pc = "recv" /\ wire # <<>>
    /\ wire' = SubSeq(wire, n + 1, Len(wire))
    /\ pos' = 0 /\ index1' = -1 /\ index2' = 0
    /\ commandLen' \in StackLens \cup {commandLen}
    /\ data' \in {data, <<>>} /\ past' \in StackBytes \cup {past}
    /\ UNCHANGED <<stream, pc, delivered>>

(* While a command is executed, AcceptThread puts a new connection in the  *)
(* place of the old one: the next recv reads from it and nothing is reset. *)
ConnectionReplaced(n) ==
    /\ ConnectionsFail /\ pc = "next" /\ n > 0
    /\ wire' = SubSeq(wire, n + 1, Len(wire))
    /\ UNCHANGED <<stream, pc, data, past, pos, index1, index2, commandLen, delivered>>

(***************************************************************************)
(* The specification.                                                      *)
(***************************************************************************)
Receive == \E n \in CutPoints : Recv(n)

Step == Receive \/ FindNothing \/ FindHeader \/ Deliver \/ Resync \/ Shift

Fail == \E n \in ResumePoints : ConnectionLost(n) \/ ConnectionReplaced(n)

Next == Step \/ Fail

Spec == Init /\ [][Next]_vars /\ WF_vars(Step)

(***************************************************************************)
(* Properties.                                                             *)
(***************************************************************************)

(* What is executed after a checksum over four bytes or more. *)
ExecutedInOrder ==
    /\ \A i \in DOMAIN delivered : stream[delivered[i]].good
    /\ \A i, j \in DOMAIN delivered : i < j => delivered[i] < delivered[j]

(* Whatever is left in the buffer by cut, wrong or lost frames, the loop   *)
(* makes up, repeats and reorders nothing: what it executes after taking a *)
(* checksum are whole right frames, each at most once and in the order     *)
(* they were sent.  It gets to execute bytes without one only by a         *)
(* Command_Len that nothing but the stack has set.                         *)
DeliveredSoundly ==
    /\ ExecutedInOrder
    /\ pc = "check" /\ commandLen <= 3 => commandLen \in StackLens

(* The frames sent with a right checksum. *)
GoodFrames == {k \in DOMAIN stream : stream[k].good}

(* The channel of frames the rest of the program is written for: every     *)
(* frame with a right checksum is executed, in order, and none is lost.    *)
Channel == INSTANCE FrameChannel
             WITH todo <- GoodFrames \ Range(delivered), done <- delivered

ChannelSpec == Channel!Spec

(* "This data frame is wrong, look for a second header"                    *)
(* (src/src/IMachine.cpp:1566): bytes are given up only for a frame whose  *)
(* checksum is wrong.                                                      *)
OnlyWrongFramesGivenUp ==
    [][Resync => ~ stream[data[index1 + 1][1]].good]_vars

(* A search that finds no header never falls back on a header of an        *)
(* earlier buffer.                                                         *)
NoLeftoverHeader ==
    pc = "find" => index1 < 0 \/ Headers(index2) # {}
=============================================================================
