------------------------------ MODULE MCLogger ------------------------------
(* Logger on the 29th of January and the 28th of February 2024, which have *)
(* the same sum: who reads month and day apart while one is put in the     *)
(* place of the other gets the 28th of January or the 29th of February.    *)
EXTENDS Logger

MCDates == <<<<2024, 1, 29>>, <<2024, 2, 28>>>>
=============================================================================
