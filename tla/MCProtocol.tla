------------------------------ MODULE MCProtocol ------------------------------
(* ZakatProtocol with interchangeable accounts, batches and periods. *)
EXTENDS ZakatProtocol, TLC

MCSymmetry == Permutations(People) \cup Permutations(Periods)
=============================================================================
