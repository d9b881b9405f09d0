------------------------------ MODULE MCIngest ------------------------------
(***************************************************************************)
(* Small instances of Ingest.  No definition tells one personal message    *)
(* from another, so the safety run may exchange them.                      *)
(***************************************************************************)
EXTENDS Ingest, TLC

CONSTANTS m1, m2, m3, m4

PersonalPermutations == Permutations(Personal)
=============================================================================
