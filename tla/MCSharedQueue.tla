---------------------------- MODULE MCSharedQueue ----------------------------
EXTENDS SharedQueue

\* Lengths on both sides of the four-byte boundary, and the empty response.
MCRecords == {<<>>, <<1>>, <<1, 0, 1, 1>>, <<1, 1, 0, 1, 0>>}
=============================================================================
