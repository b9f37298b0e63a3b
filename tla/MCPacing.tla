------------------------------ MODULE MCPacing ------------------------------
(* Pacing with one sending thread, and with two.                           *)
EXTENDS Pacing

CONSTANTS t1, t2

MCClockZeros == {0, 3}
OneThread == {t1}
TwoThreads == {t1, t2}
=============================================================================
