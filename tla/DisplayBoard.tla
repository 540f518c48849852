---------------------------- MODULE DisplayBoard ----------------------------
(***************************************************************************)
(* What the fee display promises its users, whatever happens in between:   *)
(* each line of the panel moves forward through the contents that were put *)
(* on it, may skip some, never goes back, and in the end shows the last.   *)
(* Contents are numbered in the order they are put.                        *)
(***************************************************************************)
EXTENDS Naturals

CONSTANT Lines      \* the lines of the panel

VARIABLES
    wanted,    \* the last content put on each line, 0 for none
    panel      \* the content each line shows

vars == <<wanted, panel>>

Init ==
    /\ wanted = [l \in Lines |-> 0]
    /\ panel = [l \in Lines |-> 0]

Put(l) ==
    /\ wanted' = [wanted EXCEPT ![l] = @ + 1]
    /\ UNCHANGED panel

Show(l) ==
    /\ \E v \in (panel[l] + 1)..wanted[l] : panel' = [panel EXCEPT ![l] = v]
    /\ UNCHANGED wanted

Next == \E l \in Lines : Put(l) \/ Show(l)

Spec == Init /\ [][Next]_vars /\ \A l \in Lines : WF_vars(Show(l))
=============================================================================
