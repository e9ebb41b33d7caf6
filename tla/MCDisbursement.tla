---------------------------- MODULE MCDisbursement ----------------------------
(* Disbursement with interchangeable people. *)
EXTENDS Disbursement, TLC

MCSymmetry == Permutations(People)
=============================================================================
