----------------------------- MODULE EvidenceLog -----------------------------
(***************************************************************************)
(* What the campaign outbox promises to the readers of a campaign or of a  *)
(* donation receipt, with no drain, lease, transaction or retry in sight:  *)
(* an event is queued once, its commitment is written to the registry, and *)
(* only then may it be shown as confirmed, for ever.                       *)
(***************************************************************************)
CONSTANT Events

VARIABLES stage,     \* "absent", "queued" or "confirmed", as a reader sees it
          recorded   \* the events whose own commitment the registry holds

logVars == <<stage, recorded>>

LogTypeOK == /\ stage \in [Events -> {"absent", "queued", "confirmed"}]
             /\ recorded \subseteq Events

LogInit == /\ stage = [e \in Events |-> "absent"]
           /\ recorded = {}

Queue(e) == /\ stage[e] = "absent"
            /\ stage' = [stage EXCEPT ![e] = "queued"]
            /\ UNCHANGED recorded

Record(e) == /\ stage[e] # "absent"
             /\ recorded' = recorded \cup {e}
             /\ UNCHANGED stage

\* A commitment nobody has relied on may still be dropped by the chain.
Drop(e) == /\ stage[e] = "queued"
           /\ recorded' = recorded \ {e}
           /\ UNCHANGED stage

Confirm(e) == /\ stage[e] = "queued"
              /\ e \in recorded
              /\ stage' = [stage EXCEPT ![e] = "confirmed"]
              /\ UNCHANGED recorded

LogNext == \E e \in Events : Queue(e) \/ Record(e) \/ Drop(e) \/ Confirm(e)

LogSpec == LogInit /\ [][LogNext]_logVars
==============================================================================
