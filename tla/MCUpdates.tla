------------------------------- MODULE MCUpdates -------------------------------
(* CampaignUpdates with interchangeable updates and operators. *)
EXTENDS CampaignUpdates, TLC

MCSymmetry == Permutations(Updates) \cup Permutations(Operators)
=============================================================================
