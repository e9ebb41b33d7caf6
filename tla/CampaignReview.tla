---------------------------- MODULE CampaignReview ----------------------------
(***************************************************************************)
(* The life of a campaign proposal: drafted and submitted by its owner,    *)
(* examined, published, reopened and stopped by operators.  Each request   *)
(* is one transaction; an operator decides on the version of the page he   *)
(* loaded earlier.  The public sees publicSnapshot, not the proposal.      *)
(*                                                                         *)
(* A material stands for the fields, documents and cover of a proposal;    *)
(* of endsAt only whether it has passed is kept.                           *)
(***************************************************************************)
EXTENDS Naturals

CONSTANTS
    Owner,         \* the fundraiser
    Operators,     \* users with the role OPERATOR; Owner may have become one
    Materials,
    Consented,     \* the materials with consent given
    NoMaterial,
    MaxVersions    \* bound: submissions of the proposal

ASSUME ReviewAssumption ==
    /\ Consented \subseteq Materials
    /\ NoMaterial \notin Materials
    /\ MaxVersions \in Nat \ {0}

VARIABLES
    status, version, draft, ends,   \* the campaign; ends: "future" or "past"
    frozen,                         \* versions: the material of each
    verdict, examiner,              \* reviewNotes: the decision on a version, and whose
    shown, shownVersion,            \* publicSnapshot
    events,                         \* the enqueued evidence events
    seen                            \* the page each operator has open

vars == <<status, version, draft, ends, frozen, verdict, examiner, shown,
          shownVersion, events, seen>>

Versions == 1..MaxVersions
Statuses == {"DRAFT", "SUBMITTED", "REVISION_REQUESTED", "REJECTED", "APPROVED",
             "PUBLISHED", "SUSPENDED", "CLOSED", "CANCELLED"}
Verdicts == {"none", "APPROVE", "REQUEST_REVISION", "REJECT"}
Events   == [kind : {"APPROVAL", "PUBLISH", "REOPEN", "STATUS"}, version : 0..MaxVersions,
             material : Materials \cup {NoMaterial}, verdict : Verdicts]
Nothing  == [version |-> 0, material |-> NoMaterial]

TypeOK ==
    /\ status \in Statuses /\ version \in 0..MaxVersions
    /\ draft \in Materials /\ ends \in {"future", "past"}
    /\ frozen \in [Versions -> Materials \cup {NoMaterial}]
    /\ verdict \in [Versions -> Verdicts]
    /\ examiner \in [Versions -> Operators \cup {Owner}]
    /\ shown \in Materials \cup {NoMaterial} /\ shownVersion \in 0..MaxVersions
    /\ events \subseteq Events
    /\ seen \in [Operators -> [version : 0..MaxVersions,
                               material : Materials \cup {NoMaterial}]]
    /\ \A v \in Versions : frozen[v] = NoMaterial <=> v > version

Init ==
    /\ status = "DRAFT" /\ version = 0 /\ draft \in Materials /\ ends = "future"
    /\ frozen = [v \in Versions |-> NoMaterial]
    /\ verdict = [v \in Versions |-> "none"]
    /\ examiner = [v \in Versions |-> Owner]
    /\ shown = NoMaterial /\ shownVersion = 0
    /\ events = {}
    /\ seen = [o \in Operators |-> Nothing]

\* enqueue: the event commits to the frozen material of the current version and
\* to the review notes on it, as they are in the same transaction.
Witness(kind, verdicts) ==
    events' = events \cup
        {[kind |-> kind, version |-> version,
          material |-> IF version = 0 THEN NoMaterial ELSE frozen[version],
          verdict |-> IF version = 0 THEN "none" ELSE verdicts[version]]}

(***************************************************************************)
(* The owner.                                                              *)
(***************************************************************************)
\* Faulty variant: an approved proposal may still be edited.
EditableLonger == status \in {"DRAFT", "REVISION_REQUESTED", "APPROVED"}

Editable == status \in {"DRAFT", "REVISION_REQUESTED"}

\* PATCH, and the upload of a document or a cover.
Edit ==
    /\ Editable
    /\ draft' \in Materials /\ ends' \in {ends, "future"}
    /\ UNCHANGED <<status, version, frozen, verdict, examiner, shown, shownVersion,
                   events, seen>>

\* Faulty variant: a revision is submitted under the version it revises.
SubmitSameVersion ==
    /\ Editable
    /\ draft \in Consented /\ ends = "future"
    /\ version' = (IF version = 0 THEN 1 ELSE version) /\ status' = "SUBMITTED"
    /\ frozen' = [frozen EXCEPT ![version'] = draft]
    /\ UNCHANGED <<draft, ends, verdict, examiner, shown, shownVersion, events, seen>>

Submit ==
    /\ Editable
    /\ draft \in Consented /\ ends = "future"
    /\ version < MaxVersions
    /\ version' = version + 1 /\ status' = "SUBMITTED"
    /\ frozen' = [frozen EXCEPT ![version + 1] = draft]
    /\ UNCHANGED <<draft, ends, verdict, examiner, shown, shownVersion, events, seen>>

(***************************************************************************)
(* The operators.                                                          *)
(***************************************************************************)
Load(o) ==
    /\ status # "DRAFT"
    /\ seen' = [seen EXCEPT ![o] = [version |-> version, material |-> draft]]
    /\ UNCHANGED <<status, version, draft, ends, frozen, verdict, examiner, shown,
                   shownVersion, events>>

\* Faulty variant: expectedVersion is not compared.
CurrentIgnored(o) == o # Owner /\ seen[o].version > 0

\* expectedVersion, at least 1, is the current one, and the proposal another's.
Current(o) == o # Owner /\ seen[o].version > 0 /\ seen[o].version = version

Decide(decision) ==
    \/ decision = "REQUEST_REVISION" /\ status' = "REVISION_REQUESTED"
    \/ decision = "REJECT" /\ status' = "REJECTED"
    \/ decision = "APPROVE" /\ status' = "APPROVED"

Review(o, decision) ==
    /\ Current(o) /\ status = "SUBMITTED"
    /\ Decide(decision)
    /\ verdict' = [verdict EXCEPT ![version] = decision]
    /\ examiner' = [examiner EXCEPT ![version] = o]
    /\ IF decision = "APPROVE" THEN Witness("APPROVAL", verdict') ELSE UNCHANGED events
    /\ UNCHANGED <<version, draft, ends, frozen, shown, shownVersion, seen>>

\* Faulty variant: a snapshot that exists is kept.
PublishKeepsSnapshot(o) ==
    /\ Current(o) /\ status = "APPROVED" /\ ends = "future"
    /\ status' = "PUBLISHED"
    /\ shown' = (IF shown = NoMaterial THEN draft ELSE shown) /\ shownVersion' = version
    /\ Witness("PUBLISH", verdict)
    /\ UNCHANGED <<version, draft, ends, frozen, verdict, examiner, seen>>

PublishCampaign(o) ==
    /\ Current(o) /\ status = "APPROVED" /\ ends = "future"
    /\ status' = "PUBLISHED"
    /\ shown' = draft /\ shownVersion' = version
    /\ Witness("PUBLISH", verdict)
    /\ UNCHANGED <<version, draft, ends, frozen, verdict, examiner, seen>>

\* The note of a reopening leaves the earlier decision in the notes.
Reopen(o) ==
    /\ Current(o) /\ status \in {"APPROVED", "PUBLISHED", "SUSPENDED"}
    /\ status' = "REVISION_REQUESTED"
    /\ Witness("REOPEN", verdict)
    /\ UNCHANGED <<version, draft, ends, frozen, verdict, examiner, shown,
                   shownVersion, seen>>

\* An operator may set the status to a new one, from those the code allows.
Stoppable(new) ==
    \/ new = "CANCELLED" /\ status \in {"DRAFT", "SUBMITTED", "REVISION_REQUESTED",
                                         "APPROVED", "PUBLISHED", "SUSPENDED"}
    \/ new = "SUSPENDED" /\ status = "PUBLISHED"
    \/ new = "CLOSED" /\ status \in {"PUBLISHED", "SUSPENDED"}

\* No version is asked for, and any operator may do it, the owner included.
SetStatus(new) ==
    /\ Stoppable(new)
    /\ status' = new
    /\ Witness("STATUS", verdict)
    /\ UNCHANGED <<version, draft, ends, frozen, verdict, examiner, shown,
                   shownVersion, seen>>

EndPasses ==
    /\ ends = "future"
    /\ ends' = "past"
    /\ UNCHANGED <<status, version, draft, frozen, verdict, examiner, shown,
                   shownVersion, events, seen>>

Next ==
    \/ Edit \/ Submit \/ EndPasses
    \/ \E o \in Operators : \/ Load(o) \/ PublishCampaign(o) \/ Reopen(o)
                            \/ \E decision \in Verdicts \ {"none"} : Review(o, decision)
    \/ \E new \in {"SUSPENDED", "CLOSED", "CANCELLED"} : SetStatus(new)

Spec == Init /\ [][Next]_vars

(***************************************************************************)
(* Properties.                                                             *)
(***************************************************************************)
\* What the public sees is the material of a version that an operator other
\* than the owner approved, through every reopening and resubmission.
PublicIsApproved ==
    shownVersion # 0 => /\ frozen[shownVersion] = shown
                        /\ verdict[shownVersion] = "APPROVE"
                        /\ examiner[shownVersion] \in Operators \ {Owner}

\* While a campaign is PUBLISHED, the version a donation is tied to is the one
\* its donor is shown.
DonorsSeeWhatTheyFund ==
    status = "PUBLISHED" => shownVersion = version /\ shown = draft

\* The evidence of an approval or a publication commits to the frozen material
\* of its version together with the approval, and both exist for what is public.
EvidenceCommits ==
    /\ \A e \in events : e.kind \in {"APPROVAL", "PUBLISH"} =>
          e.material = frozen[e.version] /\ e.verdict = "APPROVE"
    /\ shownVersion # 0 => \A kind \in {"APPROVAL", "PUBLISH"} :
          \E e \in events : e.kind = kind /\ e.version = shownVersion

\* Whoever approves a version has loaded exactly the material that is approved,
\* although the owner may have revised the proposal since.
ApprovedAsExamined ==
    [][\A v \in Versions : verdict[v] # "APPROVE" /\ verdict'[v] = "APPROVE" =>
          /\ seen[examiner'[v]].material = frozen[v]
          /\ seen[examiner'[v]].version = v]_vars

\* The campaign accepts donations as CampaignWindow says: once shut, by an
\* operator or by time, only a newer version opens it again.
Window == INSTANCE CampaignWindow WITH
              window <- IF status = "PUBLISHED" /\ ends = "future" THEN "open" ELSE "shut",
              published <- shownVersion

WindowSpec == Window!WindowSpec
=============================================================================
