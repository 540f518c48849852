----------------------------- MODULE MCDispatch -----------------------------
EXTENDS Dispatch

Device(dev, bcc) == [code |-> \hA4, head |-> \hA0, dev |-> dev, bcc |-> bcc, arg |-> 1]
Plain(code, arg) == [code |-> code, head |-> arg, dev |-> 0, bcc |-> FALSE, arg |-> arg]

(* Each handler, a wrong inner checksum, an unknown device, a device frame *)
(* whose preamble is wrong in a way that looks like the arm, and a coil    *)
(* frame.                                                                  *)
MCFrames ==
    { Device(\h44, TRUE), Device(\h07, TRUE), Device(\h53, TRUE), Device(\h53, FALSE),
      Device(\h99, TRUE),
      [code |-> \hA4, head |-> \hA3, dev |-> \h44, bcc |-> FALSE, arg |-> 1],
      Plain(\hA3, 0), Plain(\hAE, 0), Plain(\hAC, 0) }

MCStackTypes == {\hB0, \hD4}
=============================================================================
