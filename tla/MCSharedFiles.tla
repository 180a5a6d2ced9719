---------------------------- MODULE MCSharedFiles ----------------------------
EXTENDS SharedFiles, TLC

CONSTANTS d1, d2
Alike == Permutations({d1, d2})
=============================================================================
