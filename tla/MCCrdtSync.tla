---------------------------- MODULE MCCrdtSync ----------------------------
\* CrdtSync for TLC: the writing regions are interchangeable.
EXTENDS CrdtSync, TLC

WriterSymmetry == Permutations(Writers)
=============================================================================
