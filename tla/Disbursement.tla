----------------------------- MODULE Disbursement -----------------------------
(***************************************************************************)
(* One disbursement proposal: drafted, examined, decided, handed over in   *)
(* parts, revised while it is in force, cancelled or closed.  A decision   *)
(* takes three requests: a challenge that fixes what is signed, the check  *)
(* of the signed challenge by the route, and the transaction that spends   *)
(* it; other requests run between them.  Every other request is one        *)
(* transaction, and mutateOnce makes its repetition change nothing.        *)
(*                                                                         *)
(* Of a proposal, what is kept is the amount of each aid line.  A person   *)
(* stands for an officer with his accounts.  Who holds which mandate is    *)
(* not modelled: any person may try anything.                              *)
(***************************************************************************)
EXTENDS Naturals, FiniteSets

CONSTANTS
    Lines,          \* the aid lines
    Goods,          \* those of goods; the others are of money
    People, NoOne,
    NotFrozen,      \* in place of the lines of a version that was not frozen
    MaxRight,       \* bound: the amount of a line
    MaxVersion,     \* bound: versions of the proposal
    MaxRevisions,   \* bound: revisions proposed
    MaxChallenges   \* bound: challenges outstanding at once

ASSUME DisbursementAssumption ==
    /\ Goods \subseteq Lines /\ NoOne \notin People
    /\ NotFrozen \notin [Lines -> 1..MaxRight]
    /\ MaxRight \in Nat \ {0} /\ MaxVersion \in Nat \ {0}
    /\ MaxRevisions \in Nat /\ MaxChallenges \in Nat

VARIABLES
    status, version,       \* the proposal
    lines,                 \* its aid lines
    basis,                 \* "approved" once each line has an approved value
    contributors,          \* proposal_draft_contributors, per version
    frozen,                \* proposal_versions: the lines of a version
    decisions,             \* proposal_decisions
    realized,              \* what was handed over of each line
    active, held,          \* activeRevisionId, heldAidLineIds
    revisions,             \* proposal_revisions
    challenges,            \* decision challenges that are not spent
    pending                \* decisions that passed the route's checks

draftVars == <<status, version, lines, basis, contributors>>
recordVars == <<frozen, decisions>>
revisionVars == <<active, held, revisions>>
decisionVars == <<challenges, pending>>
vars == <<draftVars, recordVars, realized, revisionVars, decisionVars>>

Versions  == 1..MaxVersion
Numbers   == 1..MaxRevisions
Rights    == [Lines -> 1..MaxRight]
Bases     == {"requested", "approved"}
Acts      == {"APPROVE", "REJECT", "CANCEL", "CLOSE_REMAINDER"}
Statuses  == {"ABSENT", "DRAFT", "SUBMITTED", "UNDER_EXAMINATION", "READY_FOR_DECISION",
              "REVISION_REQUIRED", "WITHDRAWN", "APPROVED", "REJECTED", "CANCELLED",
              "REMAINDER_CLOSED"}
Persons   == People \cup {NoOne}

Revisions  == {r \in [status : Statuses, to : 0..MaxVersion, lines : Rights, by : Persons,
                     examiner : Persons] :
                   r.to = 0 <=> r.status = "ABSENT"}
\* A challenge signs an act on these lines of this version.
Challenges == [v : Versions, act : Acts, lines : Rights, basis : Bases, who : People]
\* rev is the revision a decision approves, 0 for one on the proposal itself.
Decisions  == [v : Versions, act : Acts, lines : Rights, signed : Rights, who : Persons,
               rev : 0..MaxRevisions]
Requests   == [ch : Challenges, rev : 0..MaxRevisions]

TypeOK ==
    /\ status \in Statuses /\ version \in 0..MaxVersion
    /\ version = 0 <=> status = "ABSENT"
    /\ lines \in Rights /\ basis \in Bases
    /\ contributors \in [Versions -> SUBSET People]
    /\ frozen \in [Versions -> Rights \cup {NotFrozen}]
    /\ decisions \subseteq Decisions
    /\ realized \in [Lines -> 0..MaxRight]
    /\ active \in 0..MaxRevisions /\ held \subseteq Lines
    /\ revisions \in [Numbers -> Revisions]
    /\ challenges \subseteq Challenges /\ pending \subseteq Requests

Least == [l \in Lines |-> 1]
NoRevision == [status |-> "ABSENT", to |-> 0, lines |-> Least, by |-> NoOne,
               examiner |-> NoOne]

Init ==
    /\ status = "ABSENT" /\ version = 0
    /\ lines = Least /\ basis = "requested"
    /\ contributors = [v \in Versions |-> {}]
    /\ frozen = [v \in Versions |-> NotFrozen]
    /\ decisions = {}
    /\ realized = [l \in Lines |-> 0]
    /\ active = 0 /\ held = {}
    /\ revisions = [n \in Numbers |-> NoRevision]
    /\ challenges = {} /\ pending = {}

(***************************************************************************)
(* Drafting.  A draft is saved over its version; only a proposal in the    *)
(* hands of its examiners is refused, so that one in force can be saved    *)
(* over as well.  Saving drops what was approved.                          *)
(***************************************************************************)
Examined == {"SUBMITTED", "UNDER_EXAMINATION", "READY_FOR_DECISION"}
Editable == {"DRAFT", "REVISION_REQUIRED"}

\* The contributors of the version that p saves: when nothing was changed those of
\* the version before, otherwise p; what is not modelled may have changed.
Credited(p, r) == {{p}} \cup IF r = lines /\ basis = "requested" THEN {contributors[version]}
                                                                ELSE {}

Create(p, r) ==
    /\ status = "ABSENT"
    /\ status' = "DRAFT" /\ version' = 1 /\ lines' = r
    /\ contributors' = [contributors EXCEPT ![1] = {p}]
    /\ UNCHANGED <<basis, recordVars, realized, revisionVars, decisionVars>>

Save(p, r) ==
    /\ status \notin Examined \cup {"ABSENT"} /\ version < MaxVersion
    /\ version' = version + 1 /\ lines' = r /\ basis' = "requested"
    \* The rows are inserted with no provision for one that exists.
    /\ \E C \in Credited(p, r) :
           /\ C \cap contributors[version + 1] = {}
           /\ contributors' = [contributors EXCEPT ![version + 1] = @ \cup C]
    /\ UNCHANGED <<status, recordVars, realized, revisionVars, decisionVars>>

Delete ==
    /\ status = "DRAFT" /\ \A v \in Versions : frozen[v] = NotFrozen
    /\ status' = "ABSENT" /\ version' = 0 /\ lines' = Least
    /\ contributors' = [v \in Versions |-> {}]
    /\ UNCHANGED <<basis, recordVars, realized, revisionVars, decisionVars>>

(***************************************************************************)
(* Submission and examination.                                             *)
(***************************************************************************)
\* A version that was frozen before is submitted as the next one.
SubmittedVersion == IF frozen[version] = NotFrozen THEN version ELSE version + 1

Freeze(v) ==
    /\ status \in Editable /\ v <= MaxVersion
    /\ version' = v
    /\ frozen' = [frozen EXCEPT ![v] = lines]
    /\ contributors' = [contributors EXCEPT ![v] = @ \cup contributors[version]]

Submit ==
    /\ Freeze(SubmittedVersion)
    /\ status' = "SUBMITTED"
    /\ UNCHANGED <<lines, basis, decisions, realized, revisionVars, decisionVars>>

\* On a decision taken outside the application, where the policy allows it.
Publish ==
    /\ Freeze(SubmittedVersion)
    /\ status' = "APPROVED" /\ basis' = "approved"
    /\ decisions' = decisions \cup {[v |-> SubmittedVersion, act |-> "APPROVE", lines |-> lines,
                                     signed |-> lines, who |-> NoOne, rev |-> 0]}
    /\ UNCHANGED <<lines, realized, revisionVars, decisionVars>>

Move(from, to) ==
    /\ status \in from /\ status' = to
    /\ UNCHANGED <<version, lines, basis, contributors, recordVars, realized, revisionVars,
                   decisionVars>>

Withdraw         == Move({"SUBMITTED", "UNDER_EXAMINATION"}, "WITHDRAWN")
StartExamination == Move({"SUBMITTED"}, "UNDER_EXAMINATION")
Return           == Move({"SUBMITTED", "UNDER_EXAMINATION"}, "REVISION_REQUIRED")
MarkReady        == Move({"SUBMITTED", "UNDER_EXAMINATION"}, "READY_FOR_DECISION")

(***************************************************************************)
(* Handing over.                                                           *)
(***************************************************************************)
\* The right a line carries: money without an approved value has none, goods
\* fall back to the quantity requested.
Cap(l) == IF basis = "approved" \/ l \in Goods THEN lines[l] ELSE 0

Fits(l, amount) == realized[l] + amount <= Cap(l)

Realize(l, amount) ==
    /\ status = "APPROVED" /\ l \notin held /\ Fits(l, amount)
    /\ realized' = [realized EXCEPT ![l] = @ + amount]
    /\ UNCHANGED <<draftVars, recordVars, revisionVars, decisionVars>>

NothingRealized == \A l \in Lines : realized[l] = 0

(***************************************************************************)
(* Revisions of a proposal in force.                                       *)
(***************************************************************************)
Live == {"SUBMITTED", "UNDER_EXAMINATION", "REVISION_REQUIRED", "READY_FOR_DECISION"}

\* Faulty variant: nothing is compared with what was handed over.
NoFloor(r) == TRUE

\* A right may not fall below what was handed over.
Floor(r) == \A l \in Lines : realized[l] <= r[l]

\* What a revision changes waits for its decision.
Changed(r) == {l \in Lines : r[l] # lines[l]}

Propose(p, n, r) ==
    /\ status = "APPROVED" /\ active = 0 /\ Floor(r) /\ version < MaxVersion
    /\ revisions[n].status = "ABSENT" /\ \A m \in 1..(n - 1) : revisions[m].status # "ABSENT"
    /\ revisions' = [revisions EXCEPT ![n] = [status |-> "SUBMITTED", to |-> version + 1,
                         lines |-> r, by |-> p, examiner |-> NoOne]]
    /\ active' = n /\ held' = Changed(r)
    /\ UNCHANGED <<draftVars, recordVars, realized, decisionVars>>

WithdrawRevision(n) ==
    /\ revisions[n].status \in Live
    /\ revisions' = [revisions EXCEPT ![n].status = "WITHDRAWN"]
    /\ IF active = n THEN active' = 0 /\ held' = {} ELSE UNCHANGED <<active, held>>
    /\ UNCHANGED <<draftVars, recordVars, realized, decisionVars>>

MoveRevision(n, from, to) ==
    /\ revisions[n].status \in from
    /\ revisions' = [revisions EXCEPT ![n].status = to]
    /\ UNCHANGED <<draftVars, recordVars, realized, active, held, decisionVars>>

StartRevisionExamination(p, n) ==
    /\ revisions[n].status \in {"SUBMITTED", "REVISION_REQUIRED"}
    /\ revisions' = [revisions EXCEPT ![n].status = "UNDER_EXAMINATION", ![n].examiner = p]
    /\ UNCHANGED <<draftVars, recordVars, realized, active, held, decisionVars>>

ReturnRevision(n)    == MoveRevision(n, {"UNDER_EXAMINATION"}, "REVISION_REQUIRED")
MarkRevisionReady(n) == MoveRevision(n, {"UNDER_EXAMINATION"}, "READY_FOR_DECISION")

\* Faulty variant: what is up for decision can still be amended.
AmendableLate(n) == revisions[n].status \in {"REVISION_REQUIRED", "READY_FOR_DECISION"}

Amendable(n) == revisions[n].status = "REVISION_REQUIRED"

\* The answer to a returned revision, by whoever may manage disbursements.
\* The revision keeps its creator; no column names who amended it.
Amend(n, r) ==
    /\ Amendable(n) /\ Floor(r)
    /\ revisions' = [revisions EXCEPT ![n].status = "SUBMITTED", ![n].lines = r,
                         ![n].examiner = NoOne]
    /\ held' = Changed(r)
    /\ UNCHANGED <<draftVars, recordVars, realized, active, decisionVars>>

(***************************************************************************)
(* Decisions, first step: a challenge is issued to who may decide.         *)
(***************************************************************************)
ContributorsTo(v) == UNION {contributors[w] : w \in 1..v}

Open(act) ==
    \/ act \in {"APPROVE", "REJECT"} /\ status = "READY_FOR_DECISION"
    \/ act = "CANCEL" /\ status = "APPROVED" /\ NothingRealized
    \/ act = "CLOSE_REMAINDER" /\ status = "APPROVED" /\ ~NothingRealized

\* What the routes require of a decision on the proposal, when it is asked for
\* and again when it comes back signed.
Decidable(p, act) == Open(act) /\ p \notin ContributorsTo(version)

\* An approval grants each line at most what it asks; the other acts sign the
\* lines as they are.
Proposable(act, r, b) ==
    IF act = "APPROVE" THEN b = "approved" /\ \A l \in Lines : r[l] <= lines[l]
                       ELSE b = basis /\ r = lines

\* Faulty variant: who examined a revision may decide on it.
UnexaminedSeparate(p, n) == p \notin ContributorsTo(version) \cup {revisions[n].by}

\* Neither who contributed to the proposal nor the revision's creator or
\* examiner may decide on it.
Separate(p, n) ==
    p \notin ContributorsTo(version) \cup {revisions[n].by, revisions[n].examiner}

RevisionDecidable(p, n) == revisions[n].status = "READY_FOR_DECISION" /\ Separate(p, n)

Issue(ch) ==
    /\ Cardinality(challenges) < MaxChallenges
    /\ challenges' = challenges \cup {ch}
    /\ UNCHANGED <<draftVars, recordVars, realized, revisionVars, pending>>

AskDecision(p, act, r, b) ==
    /\ Decidable(p, act) /\ Proposable(act, r, b)
    /\ Issue([v |-> version, act |-> act, lines |-> r, basis |-> b, who |-> p])

AskRevisionDecision(p, n, act) ==
    /\ RevisionDecidable(p, n) /\ act \in {"APPROVE", "REJECT"}
    /\ Issue([v |-> revisions[n].to, act |-> act, lines |-> revisions[n].lines,
              basis |-> "requested", who |-> p])

\* A challenge that is never answered, or a request that is refused.
Lapse(ch) ==
    /\ challenges' = challenges \ {ch}
    /\ pending' = {q \in pending : q.ch # ch}
    /\ UNCHANGED <<draftVars, recordVars, realized, revisionVars>>

(***************************************************************************)
(* Second step: the route checks what came back signed.                    *)
(***************************************************************************)
Accept(ch, n) ==
    /\ pending' = pending \cup {[ch |-> ch, rev |-> n]}
    /\ UNCHANGED <<draftVars, recordVars, realized, revisionVars, challenges>>

VerifyDecision(ch) ==
    /\ ch.v = version /\ Decidable(ch.who, ch.act) /\ Proposable(ch.act, ch.lines, ch.basis)
    /\ Accept(ch, 0)

\* The challenge is compared with the revision's target version and lines, and
\* with nothing else of it.
VerifyRevisionDecision(ch, n) ==
    /\ ch.v = revisions[n].to /\ RevisionDecidable(ch.who, n)
    /\ ch.lines = revisions[n].lines /\ ch.basis = "requested"
    /\ Accept(ch, n)

(***************************************************************************)
(* Third step: one transaction spends the challenge and decides.           *)
(***************************************************************************)
Spend(ch) ==
    /\ ch \in challenges
    /\ challenges' = challenges \ {ch}
    /\ pending' = {q \in pending : q.ch # ch}

\* The unique index: one decision of a kind on a version.
Record(v, ch, r, n) ==
    /\ \A d \in decisions : ~(d.v = v /\ d.act = ch.act)
    /\ decisions' = decisions \cup {[v |-> v, act |-> ch.act, lines |-> r, signed |-> ch.lines,
                                     who |-> ch.who, rev |-> n]}

Decide(q) ==
    /\ q.rev = 0 /\ q.ch.act \in {"APPROVE", "REJECT"}
    /\ Spend(q.ch)
    /\ version = q.ch.v /\ status = "READY_FOR_DECISION"
    /\ IF q.ch.act = "APPROVE"
       THEN status' = "APPROVED" /\ lines' = q.ch.lines /\ basis' = "approved"
       ELSE status' = "REJECTED" /\ UNCHANGED <<lines, basis>>
    /\ Record(version, q.ch, lines', 0)
    /\ UNCHANGED <<version, contributors, frozen, realized, revisionVars>>

\* Faulty variant: the count of the route's check is trusted.
StillEnds(act) == TRUE

\* Counted again in the transaction.
Ends(act) ==
    IF act = "CANCEL" THEN NothingRealized
                      ELSE ~NothingRealized /\ \E l \in Lines : realized[l] < Cap(l)

\* Faulty variant: a revision under way is left as it is.
LeaveRevision == UNCHANGED revisions

\* A revision under way ends with its proposal.
EndRevision ==
    revisions' = [n \in Numbers |-> IF n = active THEN [revisions[n] EXCEPT !.status = "WITHDRAWN"]
                                                  ELSE revisions[n]]

Terminate(q) ==
    /\ q.rev = 0 /\ q.ch.act \in {"CANCEL", "CLOSE_REMAINDER"}
    /\ Spend(q.ch)
    /\ version = q.ch.v /\ status = "APPROVED" /\ Ends(q.ch.act)
    /\ status' = IF q.ch.act = "CANCEL" THEN "CANCELLED" ELSE "REMAINDER_CLOSED"
    /\ EndRevision /\ active' = 0 /\ held' = {}
    /\ Record(version, q.ch, lines, 0)
    /\ UNCHANGED <<version, lines, basis, contributors, frozen, realized>>

\* Faulty variant: a revision rewrites the version in force.
ApproveInPlace(n, ch) ==
    /\ Floor(revisions[n].lines)
    /\ revisions' = [revisions EXCEPT ![n].status = "APPROVED"]
    /\ version' = version /\ lines' = revisions[n].lines /\ basis' = "approved"
    /\ frozen' = [frozen EXCEPT ![version] = revisions[n].lines]
    /\ Record(revisions[n].to, ch, revisions[n].lines, n)

ApproveRevision(n, ch) ==
    /\ Floor(revisions[n].lines) /\ frozen[revisions[n].to] = NotFrozen
    /\ revisions' = [revisions EXCEPT ![n].status = "APPROVED"]
    /\ version' = revisions[n].to /\ lines' = revisions[n].lines /\ basis' = "approved"
    /\ frozen' = [frozen EXCEPT ![revisions[n].to] = revisions[n].lines]
    /\ Record(revisions[n].to, ch, revisions[n].lines, n)

\* Whatever is not an approval rejects; neither the proposal's status nor its
\* version is looked at.
DecideRevision(q) ==
    /\ q.rev # 0
    /\ Spend(q.ch)
    /\ revisions[q.rev].status = "READY_FOR_DECISION"
    /\ IF q.ch.act = "APPROVE" THEN ApproveRevision(q.rev, q.ch)
       ELSE /\ revisions' = [revisions EXCEPT ![q.rev].status = "REJECTED"]
            /\ UNCHANGED <<version, lines, basis, recordVars>>
    /\ active' = 0 /\ held' = {}
    /\ UNCHANGED <<status, contributors, realized>>

(***************************************************************************)
Drafting == \/ \E p \in People, r \in Rights : Create(p, r) \/ Save(p, r)
            \/ Delete
Examining == Submit \/ Publish \/ Withdraw \/ StartExamination \/ Return \/ MarkReady
HandingOver == \E l \in Lines, amount \in 1..MaxRight : Realize(l, amount)
Revising ==
    \E n \in Numbers :
        \/ \E p \in People, r \in Rights : Propose(p, n, r) \/ Amend(n, r)
        \/ \E p \in People : StartRevisionExamination(p, n)
        \/ WithdrawRevision(n) \/ ReturnRevision(n) \/ MarkRevisionReady(n)
Deciding ==
    \/ \E p \in People, act \in Acts, r \in Rights, b \in Bases : AskDecision(p, act, r, b)
    \/ \E p \in People, n \in Numbers, act \in Acts : AskRevisionDecision(p, n, act)
    \/ \E ch \in challenges : VerifyDecision(ch) \/ Lapse(ch)
    \/ \E ch \in challenges, n \in Numbers : VerifyRevisionDecision(ch, n)
    \/ \E q \in pending : Decide(q) \/ Terminate(q) \/ DecideRevision(q)

Next == Drafting \/ Examining \/ HandingOver \/ Revising \/ Deciding

Spec == Init /\ [][Next]_vars

(***************************************************************************)
(* Properties.                                                             *)
(***************************************************************************)
\* However handovers, revisions and retried decisions interleave: as long as
\* nobody saves over a proposal in force, no line has more handed over than was
\* approved for it (recordRealizations, recordRevisionDecision).
RealizedWithinRights ==
    basis = "approved" => \A l \in Lines : realized[l] <= lines[l]

\* A proposal knows of a revision exactly while the revision is under way, only
\* a proposal in force has one, and unless it was saved over since, exactly the
\* lines the revision changes are held back from handovers.
RevisionIsHeld ==
    /\ \A n \in Numbers : revisions[n].status \in Live <=> active = n
    /\ active # 0 => status = "APPROVED"
    /\ active = 0 => held = {}
    /\ active # 0 /\ basis = "approved" => held = Changed(revisions[active].lines)

\* The rights an approval put into force are those that were signed, although
\* the proposal and its revisions move between the signature and the transaction
\* (recordProposalDecision, recordRevisionDecision).  Of a termination it would be
\* false: a revision decided over a plain save brings the version back to one for
\* which a cancellation was signed, on other lines.
DecidedAsSigned == \A d \in decisions : d.act = "APPROVE" => d.lines = d.signed

\* Nobody approved a version he had contributed to, nor a revision he had created
\* or was its last examiner, whatever was saved in between
\* (separationOfDutiesRefusal, revisionContributors).
ApproverIsIndependent ==
    \A d \in decisions : d.act = "APPROVE" =>
        IF d.rev = 0 THEN d.who \notin ContributorsTo(d.v)
        ELSE d.who \notin ContributorsTo(d.v - 1) \cup {revisions[d.rev].by, revisions[d.rev].examiner}

\* A frozen version is never rewritten and a decision never taken back: revisions
\* and resubmissions go to a version of their own.
RecordStays ==
    [][ /\ \A v \in Versions : frozen[v] # NotFrozen => frozen'[v] = frozen[v]
        /\ decisions \subseteq decisions' ]_vars

\* Only a proposal with nothing handed over is cancelled, only one with something
\* handed over is closed, and neither takes another handover, revision or
\* decision, however many requests were under way.
TerminationStands ==
    [][ /\ status # "CANCELLED" /\ status' = "CANCELLED" => NothingRealized
        /\ status # "REMAINDER_CLOSED" /\ status' = "REMAINDER_CLOSED" => ~NothingRealized
        /\ status \in {"CANCELLED", "REMAINDER_CLOSED"} =>
               UNCHANGED <<status, realized, active, decisions>> ]_vars

\* A change of the rights after the approval takes a revision and another
\* approval: the rights in force are those of some approval.
RightsAreDecided ==
    status = "APPROVED" =>
        \E d \in decisions : d.act = "APPROVE" /\ \A l \in Lines : Cap(l) = d.lines[l]
=============================================================================
