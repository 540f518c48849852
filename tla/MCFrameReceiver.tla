-------------------------- MODULE MCFrameReceiver --------------------------
(* FrameReceiver for short streams. *)
EXTENDS FrameReceiver

Good(kind) == [kind |-> kind, good |-> TRUE]
Bad(kind)  == [kind |-> kind, good |-> FALSE]

StreamsOf(frames, n) == UNION {[1..m -> frames] : m \in 1..n}

(* Frames that arrive whole or cut where the loop can still tell them; of  *)
(* the wrong ones only short ones, whose bytes cannot be taken for others, *)
(* and bytes that are no frame.                                            *)
TameStreams ==
    StreamsOf({Good("display3"), Good("barrier"), Good("heartbeat"), Bad("traffic")}, 3)
    \cup StreamsOf({Good(kind) : kind \in Kinds \ {"noise"}} \cup {Bad("noise")}, 2)
TameCuts == {2, 3, 6, 14, 20}

(* Anything: wrong frames of any kind, frames cut anywhere that matters.   *)
WildStreams ==
    StreamsOf({Good("display3"), Good("barrier"), Bad("display3"), Good("heartbeat")}, 3)
    \cup StreamsOf({Good("voice"), Good("heartbeat")}, 2)
WildCuts == {3, 6, 8, 10, 12, 14}

(* A heartbeat and then display frames, all right, cut before the command  *)
(* byte.  A display frame that comes first is not hurt by the stack.       *)
CutStreams == {<<Good("heartbeat")>> \o s : s \in StreamsOf({Good("display3")}, 2)}
CutCuts    == {10}
CutStackLens == {58}

NoStackLens   == {9}
SomeStackLens == {-1, 0, 3, 9, 58}

ZeroBytes     == {0}
SomeBytes     == {0, 68}     \* 0x44 is the command byte of a display frame
=============================================================================
