--------------------------- MODULE MCTmpfsService ---------------------------
EXTENDS TmpfsInvariants
=============================================================================
