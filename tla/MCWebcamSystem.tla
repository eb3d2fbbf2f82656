--------------------------- MODULE MCWebcamSystem ---------------------------
EXTENDS WebcamSystem

Tc(subservice, tcDataLen, rate) ==
  [rq |-> [subservice |-> subservice, tcDataLen |-> tcDataLen, byte |-> 0],
   rate |-> rate]

CONSTANTS r24, r30

Set(rate) == Tc(2, 8, rate)
Get       == Tc(3, 0, NoFrameRate)
Dump      == Tc(4, 0, NoFrameRate)

\* The commands of main.cpp, and two rates in a row.
MCScripts == {<<Set(r24), Get, Dump>>, <<Set(r24), Set(r30)>>}

MCRequests == {Set(r24).rq, Get.rq, Dump.rq}
=============================================================================
