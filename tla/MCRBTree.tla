------------------------------ MODULE MCRBTree ------------------------------
EXTENDS RBTree

CONSTANT MaxKey

MCKeys == 1 .. MaxKey
=============================================================================
