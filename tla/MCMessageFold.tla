--------------------------- MODULE MCMessageFold ---------------------------
EXTENDS MessageFold, TLC

FoldSymmetry == Permutations(Agents)
=============================================================================
