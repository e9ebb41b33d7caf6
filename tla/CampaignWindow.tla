----------------------------- MODULE CampaignWindow -----------------------------
(***************************************************************************)
(* What donations rely on: when a campaign accepts new checkouts, and for  *)
(* which published version.  CampaignReview implements it, and the         *)
(* campaign of CampaignPayments moves in the same way: what was shut opens *)
(* again only for a newer version, so a donation intent that names another *)
(* version than the open one belongs to material that has been replaced.   *)
(***************************************************************************)
EXTENDS Naturals

VARIABLES window,     \* "open" or "shut"
          published   \* the version shown to the public, 0 before the first

windowVars == <<window, published>>

WindowInit == window = "shut" /\ published = 0

Open == /\ window = "shut" /\ window' = "open"
        /\ published' > published

Close == /\ window = "open" /\ window' = "shut"
         /\ UNCHANGED published

WindowNext == Open \/ Close

WindowSpec == WindowInit /\ [][WindowNext]_windowVars
=============================================================================
