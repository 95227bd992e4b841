-------------------------- MODULE MCToolOperations --------------------------
(***************************************************************************)
(* Small instances of ToolOperations.                                      *)
(***************************************************************************)
EXTENDS ToolOperations, TLC

CONSTANTS r1, r2, k1, k2, create, update, read, denied, malformed

\* Calls are interchangeable in the safety runs.
CallSymmetry == Permutations(Calls)
=============================================================================
