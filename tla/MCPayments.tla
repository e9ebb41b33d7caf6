------------------------------ MODULE MCPayments ------------------------------
(***************************************************************************)
(* CampaignPayments with donations of different amounts, so that a mix-up  *)
(* of two of them shows in the totals.                                     *)
(***************************************************************************)
EXTENDS CampaignPayments

CONSTANTS Small, Large     \* the two donations

MCAmount == [p \in Payments |-> IF p = Small THEN 1 ELSE 2]
=============================================================================
