--------------------------- MODULE CampaignUpdates ---------------------------
(***************************************************************************)
(* The news and realization reports of a published campaign: drafted by    *)
(* its fundraiser, examined by an operator (reports only), published,      *)
(* corrected by later ones, withdrawn.  Each request is one transaction;   *)
(* what an operator decides on is the revision he loaded earlier.          *)
(*                                                                         *)
(* The content of an update is its used amount, 0 when it has none, and    *)
(* one attachment.  Titles, texts and dates are left out.                  *)
(***************************************************************************)
EXTENDS Integers, FiniteSets, Functions

CONSTANTS
    Updates,       \* the updates a campaign may have: MAX_UPDATES of them
    NoUpdate,
    Operators,
    Amounts,       \* the used amounts a report may state
    MaxCollected,  \* bound: confirmed donations
    MaxRefunds,    \* bound: refunds of confirmed donations
    MaxRevisions   \* bound: submissions of one update

ASSUME UpdatesAssumption ==
    /\ IsFiniteSet(Updates)
    /\ NoUpdate \notin Updates
    /\ Amounts \subseteq Nat \ {0}
    /\ MaxCollected \in Nat /\ MaxRefunds \in Nat /\ MaxRevisions \in Nat

VARIABLES
    campaign,                    \* "PUBLISHED" stands for any status but CANCELLED
    collected, refunds,          \* collectedAmount; refunds made so far
    status, kind, used, file,    \* updates[u]; file: visibility of its attachment
    corrects, superseder,        \* correctsId, supersededById
    revision, released,          \* released: the attachment's published flag
    seen                         \* what each operator has loaded

moneyVars == <<campaign, collected, refunds>>
vars == <<moneyVars, status, kind, used, file, corrects, superseder, revision,
          released, seen>>

Statuses == {"ABSENT", "DRAFT", "SUBMITTED", "REVISION_REQUESTED", "PUBLISHED",
             "REJECTED", "WITHDRAWN"}
Kinds    == {"NEWS", "REALIZATION"}
Files    == {"none", "PRIVATE", "PUBLIC"}
Nothing  == [update |-> NoUpdate, revision |-> 0, used |-> 0, file |-> "none"]

TypeOK ==
    /\ campaign \in {"PUBLISHED", "CANCELLED"}
    /\ collected \in 0..MaxCollected /\ refunds \in 0..MaxRefunds
    /\ status \in [Updates -> Statuses]
    /\ kind \in [Updates -> Kinds]
    /\ used \in [Updates -> Amounts \cup {0}]
    /\ file \in [Updates -> Files]
    /\ corrects \in [Updates -> Updates \cup {NoUpdate}]
    /\ superseder \in [Updates -> Updates \cup {NoUpdate}]
    /\ revision \in [Updates -> 0..MaxRevisions]
    /\ released \in [Updates -> {"no", "yes"}]
    /\ seen \in [Operators -> [update : Updates \cup {NoUpdate}, revision : 0..MaxRevisions,
                               used : Amounts \cup {0}, file : Files]]
    /\ \A u \in Updates : used[u] # 0 <=> kind[u] = "REALIZATION"

Init ==
    /\ campaign = "PUBLISHED" /\ collected = 0 /\ refunds = 0
    /\ status = [u \in Updates |-> "ABSENT"]
    /\ kind = [u \in Updates |-> "NEWS"]
    /\ used = [u \in Updates |-> 0]
    /\ file = [u \in Updates |-> "none"]
    /\ corrects = [u \in Updates |-> NoUpdate]
    /\ superseder = [u \in Updates |-> NoUpdate]
    /\ revision = [u \in Updates |-> 0]
    /\ released = [u \in Updates |-> "no"]
    /\ seen = [o \in Operators |-> Nothing]

(***************************************************************************)
(* The campaign around its updates (CampaignPayments, CampaignReview).     *)
(***************************************************************************)
Collect ==
    /\ collected < MaxCollected
    /\ collected' = collected + 1
    /\ UNCHANGED <<campaign, refunds, status, kind, used, file, corrects,
                   superseder, revision, released, seen>>

Refund ==
    /\ collected > 0 /\ refunds < MaxRefunds
    /\ collected' = collected - 1 /\ refunds' = refunds + 1
    /\ UNCHANGED <<campaign, status, kind, used, file, corrects, superseder,
                   revision, released, seen>>

Cancel ==
    /\ campaign = "PUBLISHED"
    /\ campaign' = "CANCELLED"
    /\ UNCHANGED <<collected, refunds, status, kind, used, file, corrects,
                   superseder, revision, released, seen>>

Reportable == campaign # "CANCELLED"

(***************************************************************************)
(* What the checks compute.                                                *)
(***************************************************************************)
Counted(u) == kind[u] = "REALIZATION" /\ status[u] = "PUBLISHED" /\ superseder[u] = NoUpdate

Reported == SumFunctionOnSet(used, {u \in Updates : Counted(u)})

\* Faulty variant: what is superseded already may be corrected again.
TargetOnce(k, target) ==
    target # NoUpdate => kind[target] = k /\ status[target] = "PUBLISHED"

\* correctionTarget accepts the target of an update of kind k.
Correctable(k, target) ==
    target # NoUpdate =>
        kind[target] = k /\ status[target] = "PUBLISHED" /\ superseder[target] = NoUpdate

Replaced(u) == IF corrects[u] = NoUpdate THEN 0 ELSE used[corrects[u]]

\* Faulty variant: the room is compared at the submission only.
WithinCollectedOnce(u) ==
    kind[u] = "REALIZATION" /\ status[u] # "SUBMITTED" =>
        (Reported - Replaced(u)) + used[u] <= collected

WithinCollected(u) ==
    kind[u] = "REALIZATION" => (Reported - Replaced(u)) + used[u] <= collected

\* Faulty variant: what is published can still be touched up.
EditableLonger(u) == status[u] \in {"DRAFT", "REVISION_REQUESTED", "PUBLISHED"}

Editable(u) == status[u] \in {"DRAFT", "REVISION_REQUESTED"}

(***************************************************************************)
(* The fundraiser.                                                         *)
(***************************************************************************)
Content(k) == IF k = "REALIZATION" THEN Amounts ELSE {0}

CreateUpdate(u) ==
    /\ Reportable /\ status[u] = "ABSENT"
    /\ \E k \in Kinds, target \in Updates \cup {NoUpdate} :
          /\ Correctable(k, target)
          /\ \E amount \in Content(k) : used' = [used EXCEPT ![u] = amount]
          /\ kind' = [kind EXCEPT ![u] = k]
          /\ corrects' = [corrects EXCEPT ![u] = target]
    /\ status' = [status EXCEPT ![u] = "DRAFT"]
    /\ UNCHANGED <<moneyVars, file, superseder, revision, released, seen>>

\* PATCH of the used amount; neither the kind nor the target can be patched.
EditUpdate(u) ==
    /\ Editable(u)
    /\ \E amount \in Content(kind[u]) \ {used[u]} : used' = [used EXCEPT ![u] = amount]
    /\ UNCHANGED <<moneyVars, status, kind, file, corrects, superseder, revision,
                   released, seen>>

\* Faulty variant: news may carry a private attachment, as reports may.
AttachAny(u) ==
    /\ Editable(u) /\ file[u] = "none"
    /\ \E visibility \in {"PRIVATE", "PUBLIC"} : file' = [file EXCEPT ![u] = visibility]
    /\ UNCHANGED <<moneyVars, status, kind, used, corrects, superseder, revision,
                   released, seen>>

Attach(u) ==
    /\ Editable(u) /\ file[u] = "none"
    /\ \E visibility \in {"PRIVATE", "PUBLIC"} :
          /\ kind[u] = "NEWS" => visibility = "PUBLIC"
          /\ file' = [file EXCEPT ![u] = visibility]
    /\ UNCHANGED <<moneyVars, status, kind, used, corrects, superseder, revision,
                   released, seen>>

Detach(u) ==
    /\ Editable(u) /\ file[u] # "none"
    /\ file' = [file EXCEPT ![u] = "none"]
    /\ UNCHANGED <<moneyVars, status, kind, used, corrects, superseder, revision,
                   released, seen>>

DeleteUpdate(u) ==
    /\ status[u] = "DRAFT" /\ revision[u] = 0
    /\ status' = [status EXCEPT ![u] = "ABSENT"]
    /\ kind' = [kind EXCEPT ![u] = "NEWS"]
    /\ used' = [used EXCEPT ![u] = 0]
    /\ file' = [file EXCEPT ![u] = "none"]
    /\ corrects' = [corrects EXCEPT ![u] = NoUpdate]
    /\ UNCHANGED <<moneyVars, superseder, revision, released, seen>>

\* publish(): the target is looked up again, at the moment of publication.
Publish(u, release) ==
    /\ Correctable(kind[u], corrects[u])
    /\ released' = [released EXCEPT ![u] = release]
    /\ superseder' = IF corrects[u] = NoUpdate THEN superseder
                     ELSE [superseder EXCEPT ![corrects[u]] = u]
    /\ status' = [status EXCEPT ![u] = "PUBLISHED"]

Submittable(u) ==
    /\ Reportable /\ Editable(u) /\ WithinCollected(u) /\ revision[u] < MaxRevisions

SubmitNews(u) ==
    /\ Submittable(u) /\ kind[u] = "NEWS"
    /\ Publish(u, IF file[u] = "none" THEN "no" ELSE "yes")
    /\ revision' = [revision EXCEPT ![u] = @ + 1]
    /\ UNCHANGED <<moneyVars, kind, used, file, corrects, seen>>

SubmitReport(u) ==
    /\ Submittable(u) /\ kind[u] = "REALIZATION" /\ Correctable(kind[u], corrects[u])
    /\ status' = [status EXCEPT ![u] = "SUBMITTED"]
    /\ revision' = [revision EXCEPT ![u] = @ + 1]
    /\ UNCHANGED <<moneyVars, kind, used, file, corrects, superseder, released, seen>>

(***************************************************************************)
(* The operators, none of them the fundraiser.                             *)
(***************************************************************************)
Load(o, u) ==
    /\ status[u] = "SUBMITTED"
    /\ seen' = [seen EXCEPT ![o] = [update |-> u, revision |-> revision[u],
                                    used |-> used[u], file |-> file[u]]]
    /\ UNCHANGED <<moneyVars, status, kind, used, file, corrects, superseder,
                   revision, released>>

\* Faulty variant: expectedRevision is not compared.
ExaminesAny(o, u) == seen[o].update = u /\ status[u] = "SUBMITTED"

\* The decision names the revision that was loaded; the page stays open after it.
Examines(o, u) == /\ seen[o].update = u
                  /\ status[u] = "SUBMITTED" /\ revision[u] = seen[o].revision

ReviewPublish(o, u) ==
    /\ Examines(o, u)
    /\ Reportable /\ WithinCollected(u)
    /\ \E release \in IF file[u] = "PUBLIC" THEN {"no", "yes"} ELSE {"no"} :
          Publish(u, release)
    /\ UNCHANGED <<moneyVars, kind, used, file, corrects, revision, seen>>

ReviewRefuse(o, u) ==
    /\ Examines(o, u)
    /\ \E outcome \in {"REJECTED", "REVISION_REQUESTED"} :
          status' = [status EXCEPT ![u] = outcome]
    /\ UNCHANGED <<moneyVars, kind, used, file, corrects, superseder, revision,
                   released, seen>>

\* A withdrawn correction no longer replaces the record it corrected.
Withdraw(u) ==
    /\ status[u] = "PUBLISHED"
    /\ status' = [status EXCEPT ![u] = "WITHDRAWN"]
    /\ superseder' = [v \in Updates |-> IF superseder[v] = u THEN NoUpdate
                                                             ELSE superseder[v]]
    /\ UNCHANGED <<moneyVars, kind, used, file, corrects, revision, released, seen>>

Next ==
    \/ Collect \/ Refund \/ Cancel
    \/ \E u \in Updates : \/ CreateUpdate(u) \/ EditUpdate(u) \/ Attach(u) \/ Detach(u)
                          \/ DeleteUpdate(u) \/ SubmitNews(u) \/ SubmitReport(u)
                          \/ Withdraw(u)
    \/ \E o \in Operators, u \in Updates :
          Load(o, u) \/ ReviewPublish(o, u) \/ ReviewRefuse(o, u)

Spec == Init /\ [][Next]_vars

(***************************************************************************)
(* Properties.                                                             *)
(***************************************************************************)
Publishes(u) == status[u] # "PUBLISHED" /\ status'[u] = "PUBLISHED"

\* The two links of a correction agree, whatever was corrected, corrected again
\* or withdrawn in between: a record is replaced by exactly its one published
\* correction, of its own kind.
SupersessionAgrees ==
    \A u, v \in Updates :
        /\ superseder[u] = v <=> status[v] = "PUBLISHED" /\ corrects[v] = u
        /\ superseder[u] = v => kind[u] = kind[v] /\ status[u] \in {"PUBLISHED", "WITHDRAWN"}

\* The public record is corrected and withdrawn, never edited: no published
\* or withdrawn update changes its content or disappears.
PublicRecordStays ==
    [][\A u \in Updates : status[u] \in {"PUBLISHED", "WITHDRAWN"} =>
          /\ status'[u] \in {status[u], "WITHDRAWN"}
          /\ used'[u] = used[u] /\ file'[u] = file[u] /\ released'[u] = released[u]
          /\ kind'[u] = kind[u] /\ corrects'[u] = corrects[u]]_vars

\* A report is published as an operator loaded it, although its fundraiser may
\* have been revising it in the meantime.
PublishedAsExamined ==
    [][\A u \in Updates : Publishes(u) /\ kind[u] = "REALIZATION" =>
          \E o \in Operators : /\ seen[o].update = u
                               /\ seen[o].used = used'[u] /\ seen[o].file = file'[u]]_vars

\* The reported total fits the donations whenever a report is published, and it
\* comes to exceed them only by a refund or by the withdrawal of a correction,
\* never by a correction, by news or by any order of submissions and decisions.
OverrunsHaveACause ==
    [][/\ (\E u \in Updates : Publishes(u) /\ kind[u] = "REALIZATION") => Reported' <= collected
       /\ Reported <= collected /\ Reported' > collected' =>
             \/ collected' < collected
             \/ \E u \in Updates : /\ status[u] = "PUBLISHED" /\ status'[u] = "WITHDRAWN"
                                    /\ corrects[u] # NoUpdate]_vars

\* No attachment is public that its fundraiser did not propose as public: news
\* releases all it carries unexamined, reports what an operator opted in to.
OnlyProposedIsPublic ==
    \A u \in Updates : released[u] = "yes" => file[u] = "PUBLIC"

\* README: of the reported amount, "total tidak boleh melebihi donasi
\* terkonfirmasi" (the total must not exceed the confirmed donations).
ReportedWithinCollected == Reported <= collected
=============================================================================
