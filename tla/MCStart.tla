------------------------------ MODULE MCStart ------------------------------
(* Start for all files of up to MaxLines lines out of these.               *)
EXTENDS Start

CONSTANT MaxLines

Header(s) == <<"[", s, "]">>
Item(k, v) == <<k, "=", v>>
Panel == <<"Led", "=", "ttyS5", ",", "9600">>

Lines == { Header("Serial"), Header("socket"), Item("communication", "2"), Panel,
           Item("RobortPort", "6000"), <<"Led">> }

(* Blanks and comments, a second value, a text for a number, a mode there  *)
(* is not, a device without its port or a port without a device, headers   *)
(* that are not whole, blanks between words, a key of two words; and pins: *)
(* none, one that there is not, and another.                               *)
Odd == { <<>>, <<" ">>, <<"#", "Led">>, <<"communication", " ", "=", "2", " ", "#", "=">>,
         Item("communication", "0"), Item("communication", "two"), Item("communication", "1"),
         Item("LedMode", "1"), Item("LedMode", "2"), <<"communication", "=">>,
         <<"Led", "=", "ttyS5", ",">>, Item("Led", "ttyS5"), <<"Led", "=">>,
         <<"Led", "=", ",", "9600">>, <<"[", "]">>, <<"[", "socket">>, <<"[", " ", "]">>,
         <<"Led", "=", "ttyS5", " ", ",", "9600">>, <<"Led", "=", "ttyS5", ",", ",">>,
         <<"communication", "x", "=", "2">>, <<"[", " ", "Serial", " ", "]">>,
         <<"[", "Serial", "2", "]", "#">> }

Complete == << Header("Serial"), Item("communication", "2"), Panel >>

Pins(k, v) == << Header("IOCardOut"), Item(k, v) >> \o Complete

MCFiles ==
    {NoFile} \cup UNION {[1..n -> Lines] : n \in 0..MaxLines}
             \cup {InsertAt(Complete, i, x) : i \in 1..4, x \in Odd}
             \cup {Pins(k, v) : k \in {"FlashLight", "TrafficLed"}, v \in {"0", "5", "12"}}

(* The file that does not count is the same, none, or a complete one, and  *)
(* the board may be at fault if there is nothing wrong with the file.      *)
MCInit ==
    /\ called \in {"path", "name", "long"} /\ fault \in Faults
    /\ LET counts == IF called = "path" THEN "home" ELSE "cwd"
           other  == IF called = "path" THEN "cwd" ELSE "home"
       IN  \E f \in Files :
             \E g \in IF fault # <<>> \/ called = "long" THEN {NoFile} ELSE {f, NoFile, Complete} :
               /\ fault # <<>> => f = Complete \/ IsPrefix(<<Header("IOCardOut")>>, f)
               /\ files = (counts :> f) @@ (other :> g)
    /\ Init

MCSpec == MCInit /\ [][Next]_vars

MCPinNumbers == {"1", "2", "3", "4", "5", "7"}
MCNumbers == MCPinNumbers \cup {"0", "12", "5000", "5001", "6000", "9600"}
MCFaults == {<<>>} \cup {<<"in", "4">>, <<"out", "1">>, <<"out", "5">>} \X {"export", "direction"}
=============================================================================
