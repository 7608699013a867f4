---------------------------- MODULE MCRunBuffer ----------------------------
(* The thieves of a run buffer are alike.                                  *)
EXTENDS RunBuffer, TLC

ThiefSymmetry == Permutations(Thieves)

=============================================================================
