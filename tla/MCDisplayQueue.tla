--------------------------- MODULE MCDisplayQueue ---------------------------
(* DisplayQueue with two lines, under all circumstances. *)
EXTENDS DisplayQueue

MCLines  == 1..2
MCBoot   == <<1, 2>>
MCWorlds == [tcp : BOOLEAN, linkFails : BOOLEAN, earlyWriter : BOOLEAN]
=============================================================================
