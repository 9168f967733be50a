---------------------------- MODULE MCStateFile ----------------------------
(* Three processes, a file of every version there is: the third one opens   *)
(* what two others have raced for.                                          *)
EXTENDS StateFile, TLC

AllFiles == 0 .. 4

AnyProcess == Permutations(Process)
=============================================================================
