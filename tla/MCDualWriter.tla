---------------------------- MODULE MCDualWriter ----------------------------
(* Small instances of DualWriter: run tasks c1 and c2 of one worker.        *)
EXTENDS DualWriter, TLC

CONSTANTS c1, c2

TaskSymmetry == Permutations(Tasks)
=============================================================================
