------------------------------ MODULE MCTimers ------------------------------
EXTENDS Timers

CONSTANTS t1, t2, i1

\* With four-bit integers: -1 stands for 0, 8 is too large and stands for 1.
SmallDelays == {-1, 2, 8}
=============================================================================
