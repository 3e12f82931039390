---------------------------- MODULE MCCoreIsolate ----------------------------
EXTENDS CoreIsolate

CONSTANTS r1, r2, r3, u1

\* One response of the first set is larger than the queue, the others fit into it
\* together.
OneBig == [op \in Ops |-> IF op = r2 THEN 16 ELSE 3]
=============================================================================
