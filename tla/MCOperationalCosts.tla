------------------------- MODULE MCOperationalCosts -------------------------
(***************************************************************************)
(* Two rows, one panjar of 3, one officer, one report.  What may be typed: *)
(* most of the panjar with a receipt, and a talangan without one.          *)
(***************************************************************************)
EXTENDS OperationalCosts, TLC

CONSTANTS ahmad, advance, nota

MCContents == {[amount |-> 2, fund |-> advance, receipt |-> nota],
               [amount |-> 1, fund |-> ahmad, receipt |-> NoReceipt]}

MCAdvance == [p \in Panjars |-> 3]

MCPeriod == [k \in Reports |-> 0..1]

MCSymmetry == Permutations(Items)
=============================================================================
