---------------------------- MODULE FrameChannel ----------------------------
(***************************************************************************)
(* What the program above ReceiveCmd1 and ReceiveCmd2 relies on: frames    *)
(* arrive one by one, in the order they were sent, and none is lost.  A    *)
(* frame is its number among those that are sent.                          *)
(***************************************************************************)
EXTENDS Naturals, Sequences

VARIABLES
    todo,   \* the frames still to arrive
    done    \* the frames that have arrived, in order

vars == <<todo, done>>

Init == done = <<>>

Arrive ==
    \E next \in todo :
        /\ \A other \in todo : next <= other
        /\ done' = Append(done, next)
        /\ todo' = todo \ {next}

Next == Arrive

Steps == Init /\ [][Next]_vars

Spec == Steps /\ WF_vars(Arrive)
=============================================================================
