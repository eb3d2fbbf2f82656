--------------------- MODULE MCWebcamCommandingService ---------------------
EXTENDS WebcamCommandingService, TLC

Rq(subservice, tcDataLen, byte) ==
  [subservice |-> subservice, tcDataLen |-> tcDataLen, byte |-> byte]

\* A frame rate with and without its double, a dump of the frame rate.
MCRequests == {Rq(2, 8, 0), Rq(2, 0, 0), Rq(4, 0, 0)}

\* A dump of an unknown parameter, a dump with too much data and a telemetry
\* subservice sent as a telecommand.
MCOddRequests == {Rq(4, 1, 7), Rq(4, 2, 1), Rq(130, 0, 0), Rq(3, 0, 0)}

\* Elements of the store are interchangeable.
SlotSymmetry == Permutations(Slots)
=============================================================================
