-------------------------- MODULE DisbursementProofs --------------------------
(***************************************************************************)
(* Proofs about Disbursement, for any lines, people and bounds.            *)
(***************************************************************************)
EXTENDS Disbursement, TLAPS

USE DisbursementAssumption DEF DisbursementAssumption

(***************************************************************************)
(* The inductive invariant, in named parts.                                *)
(***************************************************************************)
Unapproved == {"ABSENT", "DRAFT", "SUBMITTED", "UNDER_EXAMINATION", "READY_FOR_DECISION",
               "REVISION_REQUIRED", "WITHDRAWN", "REJECTED"}

\* Until it is approved a proposal has granted and handed over nothing, and what
\* was frozen of it is behind its version.
BeforeApproval ==
    status \in Unapproved =>
        /\ basis = "requested" /\ NothingRealized
        /\ \A v \in Versions : v > version => frozen[v] = NotFrozen

Settled == {"READY_FOR_DECISION", "APPROVED", "REJECTED", "WITHDRAWN"}

\* The lines of a revision up for decision, or past it, are those of every
\* request that passed the route's checks.
PendingFits ==
    \A q \in pending : q.rev # 0 =>
        /\ revisions[q.rev].lines = q.ch.lines
        /\ revisions[q.rev].status \in Settled

\* What has left the draft was frozen.
StartedIsFrozen ==
    \/ status \notin {"ABSENT", "DRAFT"} \/ pending # {} \/ decisions # {}
    \/ \E n \in Numbers : revisions[n].status # "ABSENT"
    => \E v \in Versions : frozen[v] # NotFrozen

\* A version the proposal is past for good: not even a revision leads back to it.
Past(w) == w <= version /\ (active # 0 => w < revisions[active].to)

\* A request to decide on the proposal.
OnProposal(q) == q.rev = 0 /\ q.ch.act \in {"APPROVE", "REJECT"}

DecidedIsPast ==
    /\ \A q \in pending : OnProposal(q) => Past(q.ch.v)
    /\ \A d \in decisions : d.act = "APPROVE" /\ d.rev = 0 => Past(d.v)
    /\ \A n \in Numbers : revisions[n].status # "ABSENT" => Past(revisions[n].to - 1)

\* Who asks to decide had no part in what he decides on.
RequestsAreIndependent ==
    \A q \in pending :
        /\ OnProposal(q) => q.ch.who \notin ContributorsTo(q.ch.v)
        /\ q.rev # 0 => q.ch.who \notin ContributorsTo(revisions[q.rev].to - 1)
                            \cup {revisions[q.rev].by, revisions[q.rev].examiner}

\* An approved revision is decided on, at its own version.
RevisionsAreSettled ==
    \A d \in decisions : d.act = "APPROVE" /\ d.rev # 0 =>
        d.v = revisions[d.rev].to /\ revisions[d.rev].status \in Settled

(***************************************************************************)
(* Types.                                                                  *)
(***************************************************************************)
LEMMA DraftingKeepsTypes == TypeOK /\ Drafting => TypeOK'
<1> SUFFICES ASSUME TypeOK, Drafting PROVE TypeOK'
  OBVIOUS
<1> USE DEF TypeOK, draftVars, recordVars, revisionVars, decisionVars, Versions, Statuses, Bases
<1>1. ASSUME NEW p \in People, NEW r \in Rights, Create(p, r) PROVE TypeOK'
  BY <1>1 DEF Create
<1>2. ASSUME NEW p \in People, NEW r \in Rights, Save(p, r) PROVE TypeOK'
  <2>1. \A C \in Credited(p, r) : C \subseteq People
    <3>1. version \in Versions
      BY <1>2 DEF Save
    <3> QED BY <3>1 DEF Credited
  <2> QED BY <1>2, <2>1 DEF Save
<1>3. ASSUME Delete PROVE TypeOK'
  BY <1>3 DEF Delete, Least, Rights
<1> QED BY <1>1, <1>2, <1>3 DEF Drafting

LEMMA FreezeTypes ==
    ASSUME TypeOK, Freeze(SubmittedVersion)
    PROVE  /\ SubmittedVersion \in Versions
           /\ version' = SubmittedVersion
           /\ contributors' \in [Versions -> SUBSET People]
           /\ frozen' \in [Versions -> Rights \cup {NotFrozen}]
  BY DEF TypeOK, Freeze, SubmittedVersion, Versions, Editable

LEMMA ExaminingKeepsTypes == TypeOK /\ Examining => TypeOK'
<1> SUFFICES ASSUME TypeOK, Examining PROVE TypeOK'
  OBVIOUS
<1> USE DEF TypeOK, draftVars, recordVars, revisionVars, decisionVars, Statuses, Bases
<1>1. CASE Submit
  BY <1>1, FreezeTypes DEF Submit, Versions
<1>2. CASE Publish
  <2>1. /\ SubmittedVersion \in Versions /\ version' = SubmittedVersion
        /\ contributors' \in [Versions -> SUBSET People]
        /\ frozen' \in [Versions -> Rights \cup {NotFrozen}]
    BY <1>2, FreezeTypes DEF Publish
  <2> DEFINE d == [v |-> SubmittedVersion, act |-> "APPROVE", lines |-> lines,
                   signed |-> lines, who |-> NoOne, rev |-> 0]
  <2>2. d \in Decisions
    BY <2>1 DEF Decisions, Acts, Persons
  <2>3. decisions' = decisions \cup {d}
    BY <1>2 DEF Publish
  <2> HIDE DEF d
  <2> QED BY <1>2, <2>1, <2>2, <2>3 DEF Publish, Versions
<1>3. CASE Withdraw \/ StartExamination \/ Return \/ MarkReady
  BY <1>3 DEF Withdraw, StartExamination, Return, MarkReady, Move
<1> QED BY <1>1, <1>2, <1>3 DEF Examining

LEMMA HandingOverKeepsTypes == TypeOK /\ HandingOver => TypeOK'
<1> SUFFICES ASSUME TypeOK, NEW l \in Lines, NEW amount \in 1..MaxRight, Realize(l, amount)
             PROVE  TypeOK'
  BY DEF HandingOver
<1>1. realized[l] + amount \in 0..MaxRight
  <2>1. Cap(l) \in 0..MaxRight
    BY DEF TypeOK, Cap, Rights
  <2>2. realized[l] \in Nat /\ realized[l] + amount <= Cap(l)
    BY DEF TypeOK, Realize, Fits
  <2> QED BY <2>1, <2>2
<1>2. realized' \in [Lines -> 0..MaxRight]
  BY <1>1 DEF TypeOK, Realize
<1> QED BY <1>2 DEF TypeOK, Realize, draftVars, recordVars, revisionVars, decisionVars

LEMMA RevisingKeepsTypes == TypeOK /\ Revising => TypeOK'
<1> SUFFICES ASSUME TypeOK, NEW n \in Numbers,
                    \/ \E p \in People, r \in Rights : Propose(p, n, r) \/ Amend(n, r)
                    \/ \E p \in People : StartRevisionExamination(p, n)
                    \/ WithdrawRevision(n) \/ ReturnRevision(n) \/ MarkRevisionReady(n)
             PROVE  TypeOK'
  BY DEF Revising
<1> USE DEF TypeOK, draftVars, recordVars, revisionVars, decisionVars, Statuses, Numbers
<1>r. revisions[n] \in Revisions
  OBVIOUS
<1>1. ASSUME NEW p \in People, NEW r \in Rights, Propose(p, n, r) PROVE TypeOK'
  <2> DEFINE rev == [status |-> "SUBMITTED", to |-> version + 1, lines |-> r, by |-> p,
                     examiner |-> NoOne]
  <2>1. rev \in Revisions
    BY <1>1 DEF Propose, Revisions, Persons
  <2>2. revisions' = [revisions EXCEPT ![n] = rev]
    BY <1>1 DEF Propose
  <2> HIDE DEF rev
  <2>3. revisions' \in [Numbers -> Revisions]
    BY <2>1, <2>2
  <2> QED BY <1>1, <2>3 DEF Propose, Changed
<1>2. ASSUME NEW p \in People, NEW r \in Rights, Amend(n, r) PROVE TypeOK'
  <2> DEFINE rev == [revisions[n] EXCEPT !.status = "SUBMITTED", !.lines = r,
                         !.examiner = NoOne]
  <2>0. rev \in Revisions
    BY <1>2, <1>r DEF Revisions, Persons, Amend, Amendable
  <2>e. revisions' = [revisions EXCEPT ![n] = rev]
    BY <1>2 DEF Amend
  <2> HIDE DEF rev
  <2>1. revisions' \in [Numbers -> Revisions]
    BY <2>0, <2>e
  <2> QED BY <1>2, <2>1 DEF Amend, Changed
<1>3. ASSUME NEW p \in People, StartRevisionExamination(p, n) PROVE TypeOK'
  <2>1. revisions' \in [Numbers -> Revisions]
    BY <1>3, <1>r DEF StartRevisionExamination, Revisions, Persons
  <2> QED BY <1>3, <2>1 DEF StartRevisionExamination
<1>4. CASE WithdrawRevision(n)
  <2>1. revisions' \in [Numbers -> Revisions]
    BY <1>4, <1>r DEF WithdrawRevision, Revisions, Live
  <2> QED BY <1>4, <2>1 DEF WithdrawRevision
<1>5. ASSUME NEW to \in Statuses \ {"ABSENT"}, revisions[n].status # "ABSENT",
             revisions' = [revisions EXCEPT ![n].status = to],
             UNCHANGED <<draftVars, recordVars, realized, active, held, decisionVars>>
      PROVE  TypeOK'
  <2>1. revisions' \in [Numbers -> Revisions]
    BY <1>5, <1>r DEF Revisions
  <2> QED BY <1>5, <2>1
<1>6. CASE ReturnRevision(n)
  BY <1>5, <1>6 DEF ReturnRevision, MoveRevision
<1>7. CASE MarkRevisionReady(n)
  BY <1>5, <1>7 DEF MarkRevisionReady, MoveRevision
<1> QED BY <1>1, <1>2, <1>3, <1>4, <1>6, <1>7

LEMMA AskingKeepsTypes ==
    ASSUME TypeOK, NEW ch \in Challenges, Issue(ch)
    PROVE  TypeOK'
  BY DEF TypeOK, Issue, draftVars, recordVars, revisionVars

LEMMA RecordTypes ==
    ASSUME TypeOK, NEW v \in Versions, NEW ch \in Challenges, NEW r \in Rights,
           NEW n \in 0..MaxRevisions, Record(v, ch, r, n)
    PROVE  decisions' \subseteq Decisions
<1> DEFINE d == [v |-> v, act |-> ch.act, lines |-> r, signed |-> ch.lines, who |-> ch.who,
                 rev |-> n]
<1>1. d \in Decisions
  BY DEF Challenges, Decisions, Persons
<1>2. decisions' = decisions \cup {d}
  BY DEF Record
<1> HIDE DEF d
<1> QED BY <1>1, <1>2 DEF TypeOK

LEMMA DecideKeepsTypes ==
    ASSUME TypeOK, RevisionIsHeld, NEW q \in pending, Decide(q) \/ Terminate(q) \/ DecideRevision(q)
    PROVE  TypeOK'
<1> USE DEF TypeOK, draftVars, recordVars, revisionVars, decisionVars
<1>q. q.ch \in Challenges /\ q.rev \in 0..MaxRevisions /\ q.ch.lines \in Rights /\ q.ch.v \in Versions
  BY DEF Requests, Challenges
<1>s. challenges' \subseteq Challenges /\ pending' \subseteq Requests
  BY DEF Decide, Terminate, DecideRevision, Spend
<1>1. CASE Decide(q)
  <2>1. lines' \in Rights /\ basis' \in Bases /\ status' \in {"APPROVED", "REJECTED"}
    BY <1>1, <1>q DEF Decide, Bases
  <2>2. decisions' \subseteq Decisions
    BY <1>1, <1>q, <2>1, RecordTypes DEF Decide
  <2> QED BY <1>1, <1>s, <2>1, <2>2 DEF Decide, Statuses
<1>2. CASE Terminate(q)
  <2>1. revisions' \in [Numbers -> Revisions]
    <3>1. ASSUME active \in Numbers
          PROVE  [revisions[active] EXCEPT !.status = "WITHDRAWN"] \in Revisions
      <4>1. revisions[active].status \in Live /\ revisions[active] \in Revisions
        BY <3>1 DEF RevisionIsHeld
      <4> QED BY <4>1 DEF Revisions, Statuses, Live
    <3> QED BY <1>2, <3>1 DEF Terminate, EndRevision
  <2>2. decisions' \subseteq Decisions
    BY <1>2, <1>q, RecordTypes DEF Terminate
  <2> QED BY <1>2, <1>s, <2>1, <2>2 DEF Terminate, Statuses
<1>3. CASE DecideRevision(q)
  <2> DEFINE n == q.rev
  <2>1. n \in Numbers /\ n \in 0..MaxRevisions
    BY <1>3, <1>q DEF DecideRevision, Numbers
  <2>2. revisions[n] \in Revisions /\ revisions[n].status = "READY_FOR_DECISION"
    BY <1>3, <2>1 DEF DecideRevision
  <2>3. revisions[n].to \in Versions /\ revisions[n].lines \in Rights
    BY <2>2 DEF Revisions, Versions
  <2>a. status = "APPROVED"
    BY <2>1, <2>2 DEF RevisionIsHeld, Live, Numbers
  <2> HIDE DEF n
  <2>4. CASE q.ch.act = "APPROVE"
    <3>1. /\ ApproveRevision(n, q.ch) /\ active' = 0 /\ held' = {}
          /\ UNCHANGED <<status, contributors, realized>>
      BY <1>3, <2>4 DEF DecideRevision, n
    <3>2. revisions' \in [Numbers -> Revisions]
      BY <2>1, <2>2, <3>1 DEF ApproveRevision, Revisions, Statuses
    <3>3. frozen' \in [Versions -> Rights \cup {NotFrozen}]
      BY <2>3, <3>1 DEF ApproveRevision
    <3>4. decisions' \subseteq Decisions
      BY <1>q, <2>1, <2>3, <3>1, RecordTypes DEF ApproveRevision
    <3> QED BY <1>s, <2>a, <2>3, <3>1, <3>2, <3>3, <3>4 DEF ApproveRevision, Versions, Bases
  <2>5. CASE q.ch.act # "APPROVE"
    <3>1. revisions' \in [Numbers -> Revisions]
      BY <1>3, <2>1, <2>2, <2>5 DEF DecideRevision, Revisions, Statuses, n
    <3> QED BY <1>3, <1>s, <2>5, <3>1 DEF DecideRevision
  <2> QED BY <2>4, <2>5
<1> QED BY <1>1, <1>2, <1>3

\* A challenge asked for, checked or given up changes nothing else.
Quiet == UNCHANGED <<draftVars, recordVars, realized, revisionVars>>

LEMMA DecidingCases ==
    Deciding => Quiet \/ \E q \in pending : Decide(q) \/ Terminate(q) \/ DecideRevision(q)
  BY DEF Deciding, Quiet, AskDecision, AskRevisionDecision, Issue, VerifyDecision,
         VerifyRevisionDecision, Accept, Lapse

\* Until it is decided a revision changes nothing of its proposal.
LEMMA RevisingFrame ==
    Revising => UNCHANGED <<status, version, lines, basis, contributors, frozen, decisions,
                            realized, challenges, pending>>
<1> SUFFICES ASSUME NEW n \in Numbers,
                    \/ \E p \in People, r \in Rights : Propose(p, n, r) \/ Amend(n, r)
                    \/ \E p \in People : StartRevisionExamination(p, n)
                    \/ WithdrawRevision(n) \/ ReturnRevision(n) \/ MarkRevisionReady(n)
             PROVE  UNCHANGED <<status, version, lines, basis, contributors, frozen, decisions,
                                realized, challenges, pending>>
  BY DEF Revising
<1> USE DEF draftVars, recordVars, decisionVars
<1>1. ASSUME NEW p \in People, NEW r \in Rights, Propose(p, n, r) \/ Amend(n, r)
      PROVE  UNCHANGED <<status, version, lines, basis, contributors, frozen, decisions,
                         realized, challenges, pending>>
  BY <1>1 DEF Propose, Amend
<1>2. CASE \E p \in People : StartRevisionExamination(p, n)
  BY <1>2 DEF StartRevisionExamination
<1>3. CASE WithdrawRevision(n) \/ ReturnRevision(n) \/ MarkRevisionReady(n)
  BY <1>3 DEF WithdrawRevision, ReturnRevision, MarkRevisionReady, MoveRevision
<1> QED BY <1>1, <1>2, <1>3

LEMMA DecidingKeepsTypes == TypeOK /\ RevisionIsHeld /\ Deciding => TypeOK'
<1> SUFFICES ASSUME TypeOK, RevisionIsHeld, Deciding PROVE TypeOK'
  OBVIOUS
<1>1. ASSUME NEW p \in People, NEW act \in Acts, NEW r \in Rights, NEW b \in Bases,
             AskDecision(p, act, r, b)
      PROVE  TypeOK'
  <2> DEFINE ch == [v |-> version, act |-> act, lines |-> r, basis |-> b, who |-> p]
  <2>1. version \in Versions
    BY <1>1 DEF AskDecision, Decidable, Open, TypeOK, Versions
  <2>2. ch \in Challenges
    BY <2>1 DEF Challenges
  <2>3. Issue(ch)
    BY <1>1 DEF AskDecision
  <2> QED BY <2>2, <2>3, AskingKeepsTypes
<1>2. ASSUME NEW p \in People, NEW n \in Numbers, NEW act \in Acts, AskRevisionDecision(p, n, act)
      PROVE  TypeOK'
  <2> DEFINE ch == [v |-> revisions[n].to, act |-> act, lines |-> revisions[n].lines,
                    basis |-> "requested", who |-> p]
  <2>1. revisions[n] \in Revisions /\ revisions[n].status = "READY_FOR_DECISION"
    BY <1>2 DEF AskRevisionDecision, RevisionDecidable, TypeOK
  <2>2. ch \in Challenges
    BY <2>1 DEF Challenges, Revisions, Versions, Bases
  <2>3. Issue(ch)
    BY <1>2 DEF AskRevisionDecision
  <2> QED BY <2>2, <2>3, AskingKeepsTypes
<1>3. ASSUME NEW ch \in challenges, NEW n \in 0..MaxRevisions, Accept(ch, n)
      PROVE  TypeOK'
  <2>1. [ch |-> ch, rev |-> n] \in Requests
    BY DEF TypeOK, Requests
  <2> QED BY <1>3, <2>1 DEF Accept, TypeOK, draftVars, recordVars, revisionVars
<1>4. ASSUME NEW ch \in challenges, VerifyDecision(ch) \/ Lapse(ch) PROVE TypeOK'
  <2>1. CASE VerifyDecision(ch)
    BY <1>3, <2>1 DEF VerifyDecision
  <2>2. CASE Lapse(ch)
    BY <2>2 DEF Lapse, TypeOK, draftVars, recordVars, revisionVars
  <2> QED BY <1>4, <2>1, <2>2
<1>5. ASSUME NEW ch \in challenges, NEW n \in Numbers, VerifyRevisionDecision(ch, n)
      PROVE  TypeOK'
  BY <1>3, <1>5 DEF VerifyRevisionDecision, Numbers
<1> QED BY <1>1, <1>2, <1>4, <1>5, DecideKeepsTypes DEF Deciding

(***************************************************************************)
(* A proposal and its revision.                                            *)
(***************************************************************************)
LEMMA HeldInit == Init => RevisionIsHeld
  BY DEF Init, RevisionIsHeld, NoRevision, Live, Numbers

\* A step that moves one revision, or withdraws the one under way.
LEMMA OneMoves ==
    ASSUME TypeOK, RevisionIsHeld, NEW n \in Numbers,
           \A m \in Numbers : m # n => revisions'[m] = revisions[m],
           revisions'[n].status \in Live <=> active' = n,
           active' = active \/ {active, active'} \subseteq {0, n}
    PROVE  \A m \in Numbers : revisions'[m].status \in Live <=> active' = m
<1> SUFFICES ASSUME NEW m \in Numbers, m # n
             PROVE  revisions'[m].status \in Live <=> active' = m
  OBVIOUS
<1>1. revisions'[m].status \in Live <=> active = m
  BY DEF RevisionIsHeld
<1>2. m # 0
  BY DEF Numbers
<1> QED BY <1>1, <1>2

LEMMA HeldStep == TypeOK /\ RevisionIsHeld /\ BeforeApproval /\ [Next]_vars => RevisionIsHeld'
<1> SUFFICES ASSUME TypeOK, RevisionIsHeld, BeforeApproval, [Next]_vars PROVE RevisionIsHeld'
  OBVIOUS
<1> USE DEF RevisionIsHeld, Changed, draftVars, recordVars, revisionVars, decisionVars
<1>a. active \in 0..MaxRevisions /\ revisions \in [Numbers -> Revisions]
  BY DEF TypeOK
<1>1. CASE Drafting
  <2>1. UNCHANGED revisionVars /\ (active # 0 => status' = status /\ basis' = "requested")
    BY <1>1 DEF Drafting, Create, Save, Delete
  <2> QED BY <2>1
<1>2. CASE Examining
  <2>1. UNCHANGED revisionVars /\ status \in Examined \cup Editable
    BY <1>2 DEF Examining, Submit, Publish, Freeze, Withdraw, StartExamination, Return, MarkReady,
                Move, Examined, Editable
  <2>2. active = 0
    BY <2>1 DEF Examined, Editable
  <2> QED BY <2>1, <2>2
<1>3. CASE HandingOver \/ Quiet \/ UNCHANGED vars
  <2>1. UNCHANGED <<status, basis, lines, revisionVars>>
    BY <1>3 DEF HandingOver, Realize, Quiet, vars
  <2> QED BY <2>1
<1>4. CASE Revising
  <2>0. PICK n \in Numbers :
          \/ \E p \in People, r \in Rights : Propose(p, n, r) \/ Amend(n, r)
          \/ \E p \in People : StartRevisionExamination(p, n)
          \/ WithdrawRevision(n) \/ ReturnRevision(n) \/ MarkRevisionReady(n)
    BY <1>4 DEF Revising
  <2>n. n # 0 /\ revisions[n] \in Revisions /\ n \in Numbers
    BY <1>a DEF Numbers
  <2>1. ASSUME NEW p \in People, NEW r \in Rights, Propose(p, n, r) PROVE RevisionIsHeld'
    <3>1. /\ revisions'[n].status \in Live /\ revisions'[n].lines = r
          /\ \A m \in Numbers : m # n => revisions'[m] = revisions[m]
          /\ active = 0 /\ active' = n
      BY <1>a, <2>1 DEF Propose, Live
    <3>2. \A m \in Numbers : revisions'[m].status \in Live <=> active' = m
      BY <3>1, OneMoves
    <3> QED BY <2>1, <2>n, <3>1, <3>2 DEF Propose
  <2>2. ASSUME NEW p \in People, NEW r \in Rights, Amend(n, r) PROVE RevisionIsHeld'
    <3>1. /\ revisions'[n].status \in Live /\ revisions'[n].lines = r
          /\ \A m \in Numbers : m # n => revisions'[m] = revisions[m]
          /\ active = n /\ active' = n
      BY <1>a, <2>2, <2>n DEF Amend, Amendable, Live, Revisions
    <3>2. \A m \in Numbers : revisions'[m].status \in Live <=> active' = m
      BY <3>1, OneMoves
    <3>3. status' = "APPROVED" /\ lines' = lines /\ held' = {l \in Lines : r[l] # lines[l]}
      BY <2>2, <2>n, <3>1 DEF Amend
    <3> QED BY <2>n, <3>1, <3>2, <3>3
  <2>3. ASSUME revisions[n].status \in Live, revisions'[n].status \in Live,
               revisions'[n].lines = revisions[n].lines,
               \A m \in Numbers : m # n => revisions'[m] = revisions[m],
               UNCHANGED <<status, lines, basis, active, held>>
        PROVE  RevisionIsHeld'
    <3>1. active = n
      BY <2>3
    <3>2. \A m \in Numbers : revisions'[m].status \in Live <=> active' = m
      BY <2>3, <3>1, OneMoves
    <3> QED BY <2>3, <3>1, <3>2
  <2>4. CASE \E p \in People : StartRevisionExamination(p, n)
    BY <1>a, <2>3, <2>4, <2>n DEF StartRevisionExamination, Live, Revisions
  <2>5. CASE ReturnRevision(n)
    BY <1>a, <2>3, <2>5, <2>n DEF ReturnRevision, MoveRevision, Live, Revisions
  <2>6. CASE MarkRevisionReady(n)
    BY <1>a, <2>3, <2>6, <2>n DEF MarkRevisionReady, MoveRevision, Live, Revisions
  <2>7. CASE WithdrawRevision(n)
    <3>1. /\ revisions'[n].status = "WITHDRAWN"
          /\ \A m \in Numbers : m # n => revisions'[m] = revisions[m]
          /\ active = n /\ active' = 0 /\ held' = {}
      BY <1>a, <2>7, <2>n DEF WithdrawRevision, Revisions
    <3>2. \A m \in Numbers : revisions'[m].status \in Live <=> active' = m
      BY <2>n, <3>1, OneMoves DEF Live
    <3> QED BY <3>1, <3>2
  <2> QED BY <2>0, <2>1, <2>2, <2>4, <2>5, <2>6, <2>7
<1>5. ASSUME NEW q \in pending, Decide(q) PROVE RevisionIsHeld'
  <2>1. UNCHANGED revisionVars /\ status # "APPROVED"
    BY <1>5 DEF Decide
  <2> QED BY <2>1
<1>6. ASSUME NEW q \in pending, Terminate(q) PROVE RevisionIsHeld'
  <2>1. active' = 0 /\ held' = {}
    BY <1>6 DEF Terminate
  <2>2. ASSUME NEW n \in Numbers PROVE revisions'[n].status \notin Live
    <3>1. revisions[n] \in Revisions
      BY <1>a
    <3> QED BY <1>6, <3>1 DEF Terminate, EndRevision, Live, Revisions
  <2> QED BY <2>1, <2>2 DEF Numbers
<1>7. ASSUME NEW q \in pending, DecideRevision(q) PROVE RevisionIsHeld'
  <2>1. q.rev \in Numbers
    BY <1>7 DEF DecideRevision, TypeOK, Requests, Numbers
  <2>2. q.rev = active /\ active' = 0 /\ held' = {}
    BY <1>7, <2>1 DEF DecideRevision, Live
  <2>3. PICK s \in {"APPROVED", "REJECTED"} : revisions' = [revisions EXCEPT ![q.rev].status = s]
    BY <1>7 DEF DecideRevision, ApproveRevision
  <2>4. /\ revisions'[q.rev].status \notin Live
        /\ \A m \in Numbers : m # q.rev => revisions'[m] = revisions[m]
    BY <1>a, <2>1, <2>3 DEF Live, Revisions
  <2>5. \A m \in Numbers : revisions'[m].status \in Live <=> active' = m
    BY <2>1, <2>2, <2>4, OneMoves DEF Numbers
  <2> QED BY <2>2, <2>5
<1> QED BY <1>1, <1>2, <1>3, <1>4, <1>5, <1>6, <1>7, DecidingCases DEF Next

(***************************************************************************)
(* Rights.                                                                 *)
(***************************************************************************)
\* Only an approval leaves the states before it.
LEMMA RevisionDecided ==
    ASSUME TypeOK, RevisionIsHeld, NEW q \in pending, DecideRevision(q)
    PROVE  /\ status = "APPROVED" /\ q.rev \in Numbers /\ q.rev = active
           /\ revisions[q.rev] \in Revisions /\ revisions[q.rev].status = "READY_FOR_DECISION"
<1>1. q.rev \in Numbers
  BY DEF DecideRevision, TypeOK, Requests, Numbers
<1> QED BY <1>1 DEF DecideRevision, RevisionIsHeld, Live, Numbers, TypeOK

LEMMA BeforeStep ==
    TypeOK /\ RevisionIsHeld /\ BeforeApproval /\ [Next]_vars => BeforeApproval'
<1> SUFFICES ASSUME TypeOK, RevisionIsHeld, BeforeApproval, [Next]_vars, status' \in Unapproved
             PROVE  /\ basis' = "requested" /\ NothingRealized'
                    /\ \A v \in Versions : v > version' => frozen'[v] = NotFrozen
  BY DEF BeforeApproval
<1> USE DEF BeforeApproval, NothingRealized, Unapproved, draftVars, recordVars, revisionVars, decisionVars
<1>a. version \in 0..MaxVersion /\ frozen \in [Versions -> Rights \cup {NotFrozen}]
  BY DEF TypeOK
<1>1. CASE Drafting
  <2>1. status \in Unapproved /\ UNCHANGED <<realized, frozen>>
    BY <1>1 DEF Drafting, Create, Save, Delete
  <2>2. basis' = "requested"
    BY <1>1, <2>1 DEF Drafting, Create, Save, Delete
  <2>3. version' \in Nat /\ (version' >= version \/ \A v \in Versions : frozen[v] = NotFrozen)
    BY <1>1, <1>a, <2>1 DEF Drafting, Create, Save, Delete, TypeOK
  <2> QED BY <1>a, <2>1, <2>2, <2>3 DEF Versions
<1>2. CASE Submit
  <2>1. version' = SubmittedVersion /\ frozen' = [frozen EXCEPT ![SubmittedVersion] = lines]
        /\ status \in Editable
    BY <1>2 DEF Submit, Freeze
  <2>2. version' \in Nat /\ version' >= version
    BY <1>a, <2>1 DEF SubmittedVersion
  <2>3. \A v \in Versions : v > version => frozen[v] = NotFrozen
    BY <2>1 DEF Editable
  <2>4. \A v \in Versions : v > version' => frozen'[v] = NotFrozen
    BY <1>a, <2>1, <2>2, <2>3 DEF Versions
  <2>5. UNCHANGED <<basis, realized>> /\ status \in Unapproved
    BY <1>2, <2>1 DEF Submit, Editable
  <2> QED BY <2>4, <2>5
<1>3. CASE Publish
  BY <1>3 DEF Publish
<1>4. CASE Withdraw \/ StartExamination \/ Return \/ MarkReady
  BY <1>4 DEF Withdraw, StartExamination, Return, MarkReady, Move
<1>5. CASE HandingOver \/ Quiet \/ UNCHANGED vars
  BY <1>5 DEF HandingOver, Realize, Quiet, vars
<1>6. CASE Revising
  BY <1>6, RevisingFrame
<1>7. ASSUME NEW q \in pending, Decide(q) \/ Terminate(q)
      PROVE  /\ basis' = "requested" /\ NothingRealized'
             /\ \A v \in Versions : v > version' => frozen'[v] = NotFrozen
  BY <1>7 DEF Decide, Terminate
<1>8. ASSUME NEW q \in pending, DecideRevision(q) PROVE FALSE
  BY <1>8, RevisionDecided DEF DecideRevision
<1> QED BY <1>1, <1>2, <1>3, <1>4, <1>5, <1>6, <1>7, <1>8, DecidingCases DEF Next, Examining

LEMMA RightsStep ==
    TypeOK /\ RevisionIsHeld /\ BeforeApproval /\ RealizedWithinRights /\ [Next]_vars
        => RealizedWithinRights'
<1> SUFFICES ASSUME TypeOK, RevisionIsHeld, BeforeApproval, RealizedWithinRights, [Next]_vars,
                    basis' = "approved", NEW l \in Lines
             PROVE  realized'[l] <= lines'[l]
  BY DEF RealizedWithinRights
<1> USE DEF RealizedWithinRights, draftVars, recordVars, revisionVars, decisionVars
<1>a. /\ realized[l] \in Nat /\ lines[l] \in Nat \ {0}
      /\ status \in Unapproved => realized[l] = 0
  BY DEF TypeOK, Rights, BeforeApproval, NothingRealized
<1>1. CASE Drafting
  <2>1. basis' = basis /\ basis # "approved"
    BY <1>1 DEF Drafting, Create, Save, Delete, BeforeApproval, Unapproved
  <2> QED BY <2>1
<1>2. CASE Examining
  <2>1. UNCHANGED <<lines, realized>> /\ status \in Unapproved
    BY <1>2 DEF Examining, Submit, Publish, Freeze, Editable, Withdraw, StartExamination, Return,
                MarkReady, Move, Unapproved
  <2> QED BY <1>a, <2>1
<1>3. ASSUME NEW k \in Lines, NEW amount \in 1..MaxRight, Realize(k, amount)
      PROVE  realized'[l] <= lines'[l]
  <2>1. realized' = [realized EXCEPT ![k] = realized[k] + amount] /\ UNCHANGED <<lines, basis>>
    BY <1>3 DEF Realize
  <2>2. realized[k] + amount <= lines[k]
    BY <1>3, <2>1 DEF Realize, Fits, Cap
  <2> QED BY <1>a, <2>1, <2>2 DEF TypeOK
<1>4. CASE Quiet \/ UNCHANGED vars \/ Revising
  <2>1. UNCHANGED <<lines, basis, realized>>
    BY <1>4, RevisingFrame DEF Quiet, vars
  <2> QED BY <2>1
<1>5. ASSUME NEW q \in pending, Decide(q) PROVE realized'[l] <= lines'[l]
  <2>1. realized'[l] = 0
    BY <1>5, <1>a DEF Decide, Unapproved
  <2>2. lines' \in Rights
    BY <1>5 DEF Decide, TypeOK, Requests, Challenges
  <2> QED BY <2>1, <2>2 DEF Rights
<1>6. ASSUME NEW q \in pending, Terminate(q) PROVE realized'[l] <= lines'[l]
  BY <1>6 DEF Terminate
<1>7. ASSUME NEW q \in pending, DecideRevision(q) PROVE realized'[l] <= lines'[l]
  BY <1>7, RevisionDecided DEF DecideRevision, ApproveRevision, Floor
<1> QED BY <1>1, <1>2, <1>3, <1>4, <1>5, <1>6, <1>7, DecidingCases DEF Next, HandingOver

(***************************************************************************)
(* Signatures.                                                             *)
(***************************************************************************)
\* What is up for decision is not changed any more.
LEMMA SettledStays ==
    ASSUME TypeOK, RevisionIsHeld, [Next]_vars, NEW n \in Numbers, revisions[n].status \in Settled
    PROVE  /\ revisions'[n].status \in Settled /\ revisions'[n].lines = revisions[n].lines
           /\ revisions'[n].by = revisions[n].by /\ revisions'[n].examiner = revisions[n].examiner
           /\ revisions'[n].to = revisions[n].to
<1> USE DEF Settled, draftVars, recordVars, revisionVars, decisionVars
<1>a. revisions \in [Numbers -> Revisions] /\ revisions[n] \in Revisions
  BY DEF TypeOK
<1>1. CASE UNCHANGED revisions
  BY <1>1
<1>2. ASSUME NEW m \in Numbers, NEW s \in Settled, revisions' = [revisions EXCEPT ![m].status = s]
      PROVE  /\ revisions'[n].status \in Settled /\ revisions'[n].lines = revisions[n].lines
             /\ revisions'[n].by = revisions[n].by /\ revisions'[n].examiner = revisions[n].examiner
             /\ revisions'[n].to = revisions[n].to
  BY <1>2, <1>a DEF Revisions
<1>3. ASSUME NEW m \in Numbers, revisions[m].status \notin Settled,
             \A k \in Numbers : k # m => revisions'[k] = revisions[k]
      PROVE  revisions'[n] = revisions[n]
  BY <1>3
<1>4. CASE Revising
  <2>1. PICK m \in Numbers :
          \/ \E p \in People, r \in Rights : Propose(p, m, r) \/ Amend(m, r)
          \/ \E p \in People : StartRevisionExamination(p, m)
          \/ WithdrawRevision(m) \/ ReturnRevision(m) \/ MarkRevisionReady(m)
    BY <1>4 DEF Revising
  <2>2. ASSUME NEW p \in People, NEW r \in Rights, Propose(p, m, r) \/ Amend(m, r)
        PROVE  revisions'[n] = revisions[n]
    BY <2>2, <1>a, <1>3 DEF Propose, Amend, Amendable
  <2>3. CASE \E p \in People : StartRevisionExamination(p, m)
    <3>1. revisions'[n] = revisions[n]
      BY <2>3, <1>a, <1>3 DEF StartRevisionExamination
    <3> QED BY <3>1
  <2>4. CASE WithdrawRevision(m)
    BY <2>4, <1>2 DEF WithdrawRevision
  <2>5. CASE ReturnRevision(m) \/ MarkRevisionReady(m)
    <3>1. revisions'[n] = revisions[n]
      BY <2>5, <1>a, <1>3 DEF ReturnRevision, MarkRevisionReady, MoveRevision
    <3> QED BY <3>1
  <2> QED BY <2>1, <2>2, <2>3, <2>4, <2>5
<1>5. ASSUME NEW q \in pending, Terminate(q)
      PROVE  revisions' = revisions \/
             (active \in Numbers /\ revisions' = [revisions EXCEPT ![active].status = "WITHDRAWN"])
  BY <1>5, <1>a DEF Terminate, EndRevision
<1>6. ASSUME NEW q \in pending, DecideRevision(q)
      PROVE  \E m \in Numbers, s \in Settled : revisions' = [revisions EXCEPT ![m].status = s]
  BY <1>6, RevisionDecided DEF DecideRevision, ApproveRevision
<1>7. CASE Drafting \/ Examining \/ HandingOver \/ Quiet \/ UNCHANGED vars \/ \E q \in pending : Decide(q)
  <2>1. UNCHANGED revisions
    BY <1>7 DEF Drafting, Create, Save, Delete, Examining, Submit, Publish, Withdraw,
                StartExamination, Return, MarkReady, Move, HandingOver, Realize, Quiet, vars, Decide
  <2> QED BY <2>1
<1> QED BY <1>1, <1>2, <1>4, <1>5, <1>6, <1>7, DecidingCases DEF Next

LEMMA PendingStep ==
    TypeOK /\ RevisionIsHeld /\ PendingFits /\ [Next]_vars => PendingFits'
<1> SUFFICES ASSUME TypeOK, RevisionIsHeld, PendingFits, [Next]_vars,
                    NEW q \in pending', q.rev # 0
             PROVE  revisions'[q.rev].lines = q.ch.lines /\ revisions'[q.rev].status \in Settled
  BY DEF PendingFits
<1>1. CASE q \in pending
  <2>1. q.rev \in Numbers
    BY <1>1 DEF TypeOK, Requests, Numbers
  <2> QED BY <1>1, <2>1, SettledStays DEF PendingFits
<1>2. ASSUME NEW ch \in challenges, NEW n \in Numbers, VerifyRevisionDecision(ch, n),
             q = [ch |-> ch, rev |-> n]
      PROVE  revisions'[q.rev].lines = q.ch.lines /\ revisions'[q.rev].status \in Settled
  BY <1>2 DEF VerifyRevisionDecision, Accept, RevisionDecidable, Settled, revisionVars
<1>3. q \in pending \/ \E ch \in challenges, n \in Numbers :
                          VerifyRevisionDecision(ch, n) /\ q = [ch |-> ch, rev |-> n]
  <2>1. CASE pending' \subseteq pending
    BY <2>1
  <2>2. ASSUME NEW ch \in challenges, VerifyDecision(ch) PROVE q \in pending
    BY <2>2 DEF VerifyDecision, Accept
  <2>3. ASSUME NEW ch \in challenges, NEW n \in Numbers, VerifyRevisionDecision(ch, n),
               q \notin pending
        PROVE  q = [ch |-> ch, rev |-> n]
    BY <2>3 DEF VerifyRevisionDecision, Accept
  <2>4. CASE Drafting \/ Examining \/ HandingOver \/ Revising \/ UNCHANGED vars
    BY <2>1, <2>4, RevisingFrame DEF Drafting, Create, Save, Delete, Examining, Submit, Publish,
         Withdraw, StartExamination, Return, MarkReady, Move, HandingOver, Realize, vars, decisionVars
  <2>5. CASE Deciding
    BY <2>1, <2>2, <2>3, <2>5 DEF Deciding, AskDecision, AskRevisionDecision, Issue, Lapse, Decide,
         Terminate, DecideRevision, Spend
  <2> QED BY <2>4, <2>5 DEF Next
<1> QED BY <1>1, <1>2, <1>3

\* Where a decision comes from.
LEMMA NewDecision ==
    ASSUME TypeOK, RevisionIsHeld, [Next]_vars
    PROVE  \/ UNCHANGED decisions
           \/ /\ Publish /\ decisions' = decisions \cup {[v |-> SubmittedVersion, act |-> "APPROVE",
                   lines |-> lines, signed |-> lines, who |-> NoOne, rev |-> 0]}
           \/ \E q \in pending : /\ Decide(q)
                                 /\ decisions' = decisions \cup {[v |-> version, act |-> q.ch.act,
                                        lines |-> lines', signed |-> q.ch.lines, who |-> q.ch.who, rev |-> 0]}
           \/ \E q \in pending : /\ Terminate(q)
                                 /\ decisions' = decisions \cup {[v |-> version, act |-> q.ch.act,
                                        lines |-> lines, signed |-> q.ch.lines, who |-> q.ch.who, rev |-> 0]}
           \/ \E q \in pending : /\ DecideRevision(q) /\ q.ch.act = "APPROVE"
                                 /\ decisions' = decisions \cup {[v |-> revisions[q.rev].to, act |-> q.ch.act,
                                        lines |-> revisions[q.rev].lines, signed |-> q.ch.lines,
                                        who |-> q.ch.who, rev |-> q.rev]}
<1> USE DEF recordVars
<1>1. CASE Drafting \/ HandingOver \/ Quiet \/ UNCHANGED vars \/ Revising
  BY <1>1, RevisingFrame DEF Drafting, Create, Save, Delete, HandingOver, Realize, Quiet, vars
<1>2. CASE Examining
  BY <1>2 DEF Examining, Submit, Publish, Withdraw, StartExamination, Return, MarkReady, Move
<1>3. ASSUME NEW q \in pending, Decide(q) \/ Terminate(q) \/ DecideRevision(q)
      PROVE  \/ UNCHANGED decisions
             \/ Decide(q) /\ decisions' = decisions \cup {[v |-> version, act |-> q.ch.act,
                     lines |-> lines', signed |-> q.ch.lines, who |-> q.ch.who, rev |-> 0]}
             \/ Terminate(q) /\ decisions' = decisions \cup {[v |-> version, act |-> q.ch.act,
                     lines |-> lines, signed |-> q.ch.lines, who |-> q.ch.who, rev |-> 0]}
             \/ /\ DecideRevision(q) /\ q.ch.act = "APPROVE"
                /\ decisions' = decisions \cup {[v |-> revisions[q.rev].to, act |-> q.ch.act,
                     lines |-> revisions[q.rev].lines, signed |-> q.ch.lines,
                     who |-> q.ch.who, rev |-> q.rev]}
  BY <1>3 DEF Decide, Terminate, DecideRevision, ApproveRevision, Record
<1> QED BY <1>1, <1>2, <1>3, DecidingCases DEF Next

LEMMA SignedStep ==
    TypeOK /\ RevisionIsHeld /\ PendingFits /\ DecidedAsSigned /\ [Next]_vars => DecidedAsSigned'
<1> SUFFICES ASSUME TypeOK, RevisionIsHeld, PendingFits, DecidedAsSigned, [Next]_vars
             PROVE  DecidedAsSigned'
  OBVIOUS
<1>1. ASSUME NEW q \in pending, Decide(q), q.ch.act = "APPROVE" PROVE lines' = q.ch.lines
  BY <1>1 DEF Decide
<1>2. ASSUME NEW q \in pending, Terminate(q) PROVE q.ch.act # "APPROVE"
  BY <1>2 DEF Terminate
<1>3. ASSUME NEW q \in pending, DecideRevision(q) PROVE revisions[q.rev].lines = q.ch.lines
  BY <1>3 DEF DecideRevision, PendingFits
<1> QED BY <1>1, <1>2, <1>3, NewDecision DEF DecidedAsSigned

(***************************************************************************)
(* The rights in force.                                                    *)
(***************************************************************************)
\* Rights that count as approved are those that some approval of the version in
\* force granted, and that were signed for it.
InForceIsDecided ==
    basis = "approved" =>
        \E d \in decisions : /\ d.act = "APPROVE" /\ d.v = version
                             /\ d.lines = lines /\ d.signed = lines

\* An approval of what comes into force.
LEMMA ComesInForce ==
    ASSUME NEW w, NEW n,
           [v |-> version', act |-> "APPROVE", lines |-> lines', signed |-> lines', who |-> w,
            rev |-> n] \in decisions'
    PROVE  InForceIsDecided'
  BY DEF InForceIsDecided

LEMMA InForceStep ==
    ASSUME TypeOK, RevisionIsHeld, BeforeApproval, PendingFits, InForceIsDecided, [Next]_vars
    PROVE  InForceIsDecided'
<1> USE DEF InForceIsDecided, draftVars, recordVars
<1>a. decisions \subseteq decisions'
  BY NewDecision
<1>1. ASSUME UNCHANGED <<version, lines, basis>>
      PROVE  InForceIsDecided'
  BY <1>1, <1>a
<1>2. CASE Drafting \/ Submit
  <2>1. basis' # "approved"
    BY <1>2 DEF Drafting, Create, Save, Delete, Submit, Freeze, Editable, BeforeApproval, Unapproved
  <2> QED BY <2>1
<1>3. CASE Publish
  <2>1. version' = SubmittedVersion /\ lines' = lines
    BY <1>3 DEF Publish, Freeze
  <2> QED BY <1>3, <2>1, ComesInForce DEF Publish
<1>4. CASE Withdraw \/ StartExamination \/ Return \/ MarkReady \/ HandingOver \/ Quiet
           \/ Revising \/ UNCHANGED vars
  BY <1>1, <1>4, RevisingFrame DEF Withdraw, StartExamination, Return, MarkReady, Move, HandingOver,
     Realize, Quiet, vars
<1>5. ASSUME NEW q \in pending, Decide(q)
      PROVE  InForceIsDecided'
  <2>1. CASE q.ch.act = "APPROVE"
    <3>1. version' = version /\ lines' = q.ch.lines
      BY <1>5, <2>1 DEF Decide
    <3>2. decisions' = decisions \cup {[v |-> version, act |-> q.ch.act, lines |-> lines',
               signed |-> q.ch.lines, who |-> q.ch.who, rev |-> 0]}
      BY <1>5 DEF Decide, Record
    <3>3. [v |-> version', act |-> "APPROVE", lines |-> lines', signed |-> lines',
           who |-> q.ch.who, rev |-> 0] \in decisions'
      BY <2>1, <3>1, <3>2
    <3> QED BY <3>3, ComesInForce
  <2>2. CASE q.ch.act # "APPROVE"
    BY <1>1, <1>5, <2>2 DEF Decide
  <2> QED BY <2>1, <2>2
<1>6. ASSUME NEW q \in pending, Terminate(q)
      PROVE  InForceIsDecided'
  BY <1>1, <1>6 DEF Terminate
<1>7. ASSUME NEW q \in pending, DecideRevision(q)
      PROVE  InForceIsDecided'
  <2>1. revisions[q.rev].lines = q.ch.lines
    BY <1>7 DEF DecideRevision, PendingFits
  <2>2. CASE q.ch.act = "APPROVE"
    <3>1. version' = revisions[q.rev].to /\ lines' = revisions[q.rev].lines
      BY <1>7, <2>2 DEF DecideRevision, ApproveRevision
    <3>2. decisions' = decisions \cup {[v |-> revisions[q.rev].to, act |-> q.ch.act,
               lines |-> revisions[q.rev].lines, signed |-> q.ch.lines, who |-> q.ch.who,
               rev |-> q.rev]}
      BY <1>7, <2>2 DEF DecideRevision, ApproveRevision, Record
    <3>3. [v |-> version', act |-> "APPROVE", lines |-> lines', signed |-> lines',
           who |-> q.ch.who, rev |-> q.rev] \in decisions'
      BY <2>1, <2>2, <3>1, <3>2
    <3> QED BY <3>3, ComesInForce
  <2>3. CASE q.ch.act # "APPROVE"
    BY <1>1, <1>7, <2>3 DEF DecideRevision
  <2> QED BY <2>2, <2>3
<1> QED BY <1>2, <1>3, <1>4, <1>5, <1>6, <1>7, DecidingCases DEF Next, Examining

(***************************************************************************)
(* The record.                                                             *)
(***************************************************************************)
LEMMA DecisionsStay ==
    TypeOK /\ RevisionIsHeld /\ [Next]_vars => decisions \subseteq decisions'
  BY NewDecision

LEMMA FrozenStays ==
    ASSUME TypeOK, BeforeApproval, [Next]_vars, NEW v \in Versions, frozen[v] # NotFrozen
    PROVE  frozen'[v] = frozen[v]
<1> USE DEF recordVars
<1>a. frozen \in [Versions -> Rights \cup {NotFrozen}] /\ version \in Nat
  BY DEF TypeOK
<1>1. CASE UNCHANGED frozen
  BY <1>1
<1>2. CASE Submit \/ Publish
  <2>1. frozen' = [frozen EXCEPT ![SubmittedVersion] = lines] /\ status \in Unapproved
        /\ SubmittedVersion \in Versions
    BY <1>2, FreezeTypes DEF Submit, Publish, Freeze, Editable, Unapproved
  <2>2. frozen[SubmittedVersion] = NotFrozen
    BY <1>a, <2>1 DEF SubmittedVersion, BeforeApproval
  <2> QED BY <1>a, <2>1, <2>2
<1>3. ASSUME NEW q \in pending, Decide(q) \/ Terminate(q) \/ DecideRevision(q)
      PROVE  UNCHANGED frozen \/ \E n \in Numbers, ch \in challenges : ApproveRevision(n, ch)
  <2>1. q.rev \in Numbers \/ q.rev = 0
    BY DEF TypeOK, Requests, Numbers
  <2> QED BY <1>3, <2>1 DEF Decide, Terminate, DecideRevision, Spend
<1>4. ASSUME NEW n \in Numbers, NEW ch \in challenges, ApproveRevision(n, ch)
      PROVE  frozen'[v] = frozen[v]
  BY <1>4, <1>a DEF ApproveRevision
<1>5. CASE Drafting \/ HandingOver \/ Quiet \/ UNCHANGED vars \/ Revising \/ Withdraw
           \/ StartExamination \/ Return \/ MarkReady
  <2>1. UNCHANGED frozen
    BY <1>5, RevisingFrame DEF Drafting, Create, Save, Delete, HandingOver, Realize, Quiet, vars,
         Withdraw, StartExamination, Return, MarkReady, Move
  <2> QED BY <2>1
<1> QED BY <1>1, <1>2, <1>3, <1>4, <1>5, DecidingCases DEF Next, Examining

LEMMA RecordStep ==
    TypeOK /\ RevisionIsHeld /\ BeforeApproval /\ [Next]_vars =>
        /\ \A v \in Versions : frozen[v] # NotFrozen => frozen'[v] = frozen[v]
        /\ decisions \subseteq decisions'
  BY FrozenStays, DecisionsStay

\* Nothing but the saving of its draft touches a proposal that has ended.
LEMMA TerminationStep ==
    TypeOK /\ RevisionIsHeld /\ BeforeApproval /\ [Next]_vars =>
        /\ status # "CANCELLED" /\ status' = "CANCELLED" => NothingRealized
        /\ status # "REMAINDER_CLOSED" /\ status' = "REMAINDER_CLOSED" => ~NothingRealized
        /\ status \in {"CANCELLED", "REMAINDER_CLOSED"} =>
               UNCHANGED <<status, realized, active, decisions>>
<1> SUFFICES ASSUME TypeOK, RevisionIsHeld, BeforeApproval, [Next]_vars
             PROVE  /\ status # "CANCELLED" /\ status' = "CANCELLED" => NothingRealized
                    /\ status # "REMAINDER_CLOSED" /\ status' = "REMAINDER_CLOSED" => ~NothingRealized
                    /\ status \in {"CANCELLED", "REMAINDER_CLOSED"} =>
                           UNCHANGED <<status, realized, active, decisions>>
  OBVIOUS
<1> USE DEF draftVars, recordVars, revisionVars, decisionVars
<1>h. RevisionIsHeld'
  BY HeldStep
<1>1. CASE Drafting \/ Quiet \/ UNCHANGED vars
  BY <1>1 DEF Drafting, Create, Save, Delete, Quiet, vars
<1>2. CASE Examining
  BY <1>2 DEF Examining, Submit, Publish, Freeze, Editable, Withdraw, StartExamination, Return,
              MarkReady, Move
<1>3. CASE HandingOver
  BY <1>3 DEF HandingOver, Realize
<1>4. CASE Revising
  <2>1. UNCHANGED <<status, realized, decisions>>
    BY <1>4, RevisingFrame
  <2>2. status' # "APPROVED" => active = 0 /\ active' = 0
    BY <2>1, <1>h DEF RevisionIsHeld
  <2> QED BY <2>1, <2>2
<1>5. ASSUME NEW q \in pending, Decide(q)
      PROVE  status \notin {"CANCELLED", "REMAINDER_CLOSED"} /\ status' \notin {"CANCELLED", "REMAINDER_CLOSED"}
  BY <1>5 DEF Decide
<1>6. ASSUME NEW q \in pending, Terminate(q)
      PROVE  /\ status = "APPROVED"
             /\ status' = "CANCELLED" => NothingRealized
             /\ status' = "REMAINDER_CLOSED" => ~NothingRealized
  BY <1>6 DEF Terminate, Ends
<1>7. ASSUME NEW q \in pending, DecideRevision(q) PROVE status = "APPROVED" /\ status' = "APPROVED"
  BY <1>7, RevisionDecided DEF DecideRevision
<1> QED BY <1>1, <1>2, <1>3, <1>4, <1>5, <1>6, <1>7, DecidingCases DEF Next

(***************************************************************************)
(* Independence: versions already decided on, or up for decision, take no  *)
(* more contributors.                                                      *)
(***************************************************************************)
LEMMA StartedStep ==
    TypeOK /\ RevisionIsHeld /\ BeforeApproval /\ StartedIsFrozen /\ [Next]_vars => StartedIsFrozen'
<1> SUFFICES ASSUME TypeOK, RevisionIsHeld, BeforeApproval, StartedIsFrozen, [Next]_vars
             PROVE  StartedIsFrozen'
  OBVIOUS
<1> DEFINE Started == status \notin {"ABSENT", "DRAFT"} \/ pending # {} \/ decisions # {}
                        \/ \E n \in Numbers : revisions[n].status # "ABSENT"
<1>1. CASE \E v \in Versions : frozen[v] # NotFrozen
  BY <1>1, FrozenStays DEF StartedIsFrozen
<1>2. CASE Submit \/ Publish
  <2>1. frozen' = [frozen EXCEPT ![SubmittedVersion] = lines] /\ SubmittedVersion \in Versions
        /\ lines # NotFrozen
    BY <1>2, FreezeTypes DEF Submit, Publish, Freeze, TypeOK, Rights
  <2> QED BY <2>1 DEF StartedIsFrozen, TypeOK
<1>3. CASE ~Started /\ ~Submit /\ ~Publish
  <2>1. /\ status \in {"ABSENT", "DRAFT"} /\ pending = {} /\ decisions = {}
        /\ \A n \in Numbers : revisions[n].status = "ABSENT"
    BY <1>3
  <2>2. /\ ~Revising /\ ~Examining /\ ~HandingOver
        /\ \A ch \in challenges : ~VerifyDecision(ch)
        /\ \A ch \in challenges, n \in Numbers : ~VerifyRevisionDecision(ch, n)
    BY <1>3, <2>1 DEF Revising, Propose, Amend, Amendable, StartRevisionExamination, WithdrawRevision,
         Live, ReturnRevision, MarkRevisionReady, MoveRevision, Examining, Withdraw, StartExamination,
         Return, MarkReady, Move, HandingOver, Realize, VerifyDecision, Decidable, Open,
         VerifyRevisionDecision, RevisionDecidable
  <2>3. UNCHANGED <<revisions, decisions>> /\ pending' = {} /\ status' \in {"ABSENT", "DRAFT"}
    BY <2>1, <2>2 DEF Next, Drafting, Create, Save, Delete, Deciding, AskDecision, AskRevisionDecision,
         Issue, Lapse, draftVars, recordVars, revisionVars, decisionVars, vars
  <2> QED BY <2>1, <2>3 DEF StartedIsFrozen
<1> QED BY <1>1, <1>2, <1>3 DEF StartedIsFrozen

\* Contributors are only added to versions to come.
LEMMA PastStays ==
    ASSUME TypeOK, RevisionIsHeld, BeforeApproval, [Next]_vars,
           \E v \in Versions : frozen[v] # NotFrozen,
           NEW w \in Nat, Past(w)
    PROVE  Past(w)' /\ ContributorsTo(w)' = ContributorsTo(w)
<1> USE DEF draftVars, recordVars, revisionVars, decisionVars
<1>a. version \in 0..MaxVersion /\ active \in 0..MaxRevisions /\ revisions \in [Numbers -> Revisions]
      /\ contributors \in [Versions -> SUBSET People]
  BY DEF TypeOK
<1>b. status # "ABSENT" /\ version \in Versions
  BY <1>a DEF TypeOK, BeforeApproval, Unapproved, Versions
<1>1. ASSUME \A v \in 1..w : contributors'[v] = contributors[v]
      PROVE  ContributorsTo(w)' = ContributorsTo(w)
  BY <1>1 DEF ContributorsTo
<1>2. CASE Drafting
  <2>1. PICK p \in People, r \in Rights : Save(p, r)
    BY <1>2, <1>b DEF Drafting, Create, Delete
  <2>2. /\ version' = version + 1 /\ UNCHANGED <<active, revisions>>
        /\ \A v \in 1..w : contributors'[v] = contributors[v]
    BY <2>1, <1>a DEF Save, Past, Versions
  <2> QED BY <2>2, <1>1, <1>a DEF Past
<1>3. CASE Submit \/ Publish
  <2>1. /\ version' = SubmittedVersion /\ SubmittedVersion \in {version, version + 1}
        /\ contributors' = [contributors EXCEPT ![version'] = @ \cup contributors[version]]
        /\ UNCHANGED <<active, revisions>>
    BY <1>3 DEF Submit, Publish, Freeze, SubmittedVersion
  <2>2. \A v \in 1..w : contributors'[v] = contributors[v]
    <3>1. CASE version' = version
      BY <2>1, <3>1, <1>a
    <3>2. CASE version' = version + 1
      BY <2>1, <3>2, <1>a DEF Past, Versions
    <3> QED BY <2>1, <3>1, <3>2
  <2>3. version' \in Nat /\ version' >= version /\ version \in Nat
    BY <2>1, <1>a
  <2>4. Past(w)'
    BY <2>1, <2>3 DEF Past
  <2> QED BY <2>2, <2>4, <1>1
<1>4. CASE Withdraw \/ StartExamination \/ Return \/ MarkReady \/ HandingOver \/ Quiet \/ UNCHANGED vars
  <2>1. UNCHANGED <<version, contributors, active, revisions>>
    BY <1>4 DEF Withdraw, StartExamination, Return, MarkReady, Move, HandingOver, Realize, Quiet, vars
  <2> QED BY <2>1, <1>1 DEF Past
<1>5. CASE Revising
  <2>1. PICK n \in Numbers :
          \/ \E p \in People, r \in Rights : Propose(p, n, r) \/ Amend(n, r)
          \/ \E p \in People : StartRevisionExamination(p, n)
          \/ WithdrawRevision(n) \/ ReturnRevision(n) \/ MarkRevisionReady(n)
    BY <1>5 DEF Revising
  <2>2. UNCHANGED <<version, contributors>>
    BY <1>5, RevisingFrame
  <2>r. revisions[n] \in Revisions
    BY <1>a
  <2>3. ASSUME NEW p \in People, NEW r \in Rights, Propose(p, n, r)
        PROVE  active' = n /\ revisions'[n].to = version + 1
    BY <2>3, <1>a DEF Propose
  <2>4. ASSUME NEW p \in People, NEW r \in Rights, Amend(n, r)
        PROVE  active' = active /\ \A m \in Numbers : revisions'[m].to = revisions[m].to
    BY <2>4, <2>r, <1>a DEF Amend, Revisions
  <2>5. CASE \E p \in People : StartRevisionExamination(p, n)
    <3>1. active' = active /\ \A m \in Numbers : revisions'[m].to = revisions[m].to
      BY <2>5, <2>r, <1>a DEF StartRevisionExamination, Revisions
    <3> QED BY <3>1, <2>2, <1>1, <1>a DEF Past, Numbers
  <2>6. CASE ReturnRevision(n) \/ MarkRevisionReady(n)
    <3>1. active' = active /\ \A m \in Numbers : revisions'[m].to = revisions[m].to
      BY <2>6, <2>r, <1>a DEF ReturnRevision, MarkRevisionReady, MoveRevision, Revisions
    <3> QED BY <3>1, <2>2, <1>1, <1>a DEF Past, Numbers
  <2>7. CASE WithdrawRevision(n)
    <3>1. active' \in {0, active} /\ \A m \in Numbers : revisions'[m].to = revisions[m].to
      BY <2>7, <2>r, <1>a DEF WithdrawRevision, Revisions
    <3> QED BY <3>1, <2>2, <1>1, <1>a DEF Past, Numbers
  <2>8. ASSUME NEW p \in People, NEW r \in Rights, Propose(p, n, r)
        PROVE  Past(w)' /\ ContributorsTo(w)' = ContributorsTo(w)
    BY <2>3, <2>8, <2>2, <1>1, <1>a DEF Past
  <2>9. ASSUME NEW p \in People, NEW r \in Rights, Amend(n, r)
        PROVE  Past(w)' /\ ContributorsTo(w)' = ContributorsTo(w)
    BY <2>4, <2>9, <2>2, <1>1, <1>a DEF Past, Numbers
  <2> QED BY <2>1, <2>5, <2>6, <2>7, <2>8, <2>9
<1>6. ASSUME NEW q \in pending, Decide(q)
      PROVE  Past(w)' /\ ContributorsTo(w)' = ContributorsTo(w)
  <2>1. UNCHANGED <<version, contributors, active, revisions>>
    BY <1>6 DEF Decide
  <2> QED BY <2>1, <1>1 DEF Past
<1>7. ASSUME NEW q \in pending, Terminate(q)
      PROVE  Past(w)' /\ ContributorsTo(w)' = ContributorsTo(w)
  <2>1. UNCHANGED <<version, contributors>> /\ active' = 0
    BY <1>7 DEF Terminate
  <2> QED BY <2>1, <1>1 DEF Past
<1>8. ASSUME NEW q \in pending, DecideRevision(q)
      PROVE  Past(w)' /\ ContributorsTo(w)' = ContributorsTo(w)
  <2>1. UNCHANGED contributors /\ active' = 0 /\ version' \in {version, revisions[q.rev].to}
    BY <1>8 DEF DecideRevision, ApproveRevision
  <2>2. q.rev = active /\ active # 0 /\ revisions[q.rev].to \in Nat
    BY <1>8, RevisionDecided DEF Numbers, Revisions
  <2> QED BY <2>1, <2>2, <1>1, <1>a DEF Past
<1> QED BY <1>2, <1>3, <1>4, <1>5, <1>6, <1>7, <1>8, DecidingCases DEF Next, Examining

\* Where a request comes from.
LEMMA NewRequest ==
    ASSUME TypeOK, RevisionIsHeld, [Next]_vars
    PROVE  \/ pending' \subseteq pending
           \/ \E ch \in challenges : VerifyDecision(ch) /\ pending' = pending \cup {[ch |-> ch, rev |-> 0]}
           \/ \E ch \in challenges, n \in Numbers :
                 VerifyRevisionDecision(ch, n) /\ pending' = pending \cup {[ch |-> ch, rev |-> n]}
<1>1. CASE Drafting \/ Examining \/ HandingOver \/ Revising \/ UNCHANGED vars
  BY <1>1, RevisingFrame DEF Drafting, Create, Save, Delete, Examining, Submit, Publish, Withdraw,
     StartExamination, Return, MarkReady, Move, HandingOver, Realize, vars, decisionVars
<1>2. CASE Deciding
  BY <1>2 DEF Deciding, AskDecision, AskRevisionDecision, Issue, Lapse, Decide, Terminate,
     DecideRevision, Spend, VerifyDecision, VerifyRevisionDecision, Accept
<1> QED BY <1>1, <1>2 DEF Next

\* A revision keeps its target from its proposal on.
LEMMA TargetStays ==
    ASSUME TypeOK, RevisionIsHeld, [Next]_vars, NEW n \in Numbers
    PROVE  \/ revisions'[n].to = revisions[n].to
              /\ (revisions'[n].status = "ABSENT" <=> revisions[n].status = "ABSENT")
           \/ \E p \in People, r \in Rights : Propose(p, n, r)
<1> USE DEF draftVars, recordVars, revisionVars, decisionVars
<1>a. revisions \in [Numbers -> Revisions] /\ revisions[n] \in Revisions
  BY DEF TypeOK
<1>1. CASE UNCHANGED revisions
  BY <1>1
<1>2. ASSUME NEW m \in Numbers, revisions[m].status # "ABSENT", NEW s \in Statuses \ {"ABSENT"},
             \/ revisions' = [revisions EXCEPT ![m].status = s]
             \/ \E p \in People : revisions' = [revisions EXCEPT ![m].status = s, ![m].examiner = p]
      PROVE  revisions'[n].to = revisions[n].to
             /\ (revisions'[n].status = "ABSENT" <=> revisions[n].status = "ABSENT")
  BY <1>2, <1>a DEF Revisions
<1>3. ASSUME Revising PROVE \/ revisions'[n].to = revisions[n].to
                               /\ (revisions'[n].status = "ABSENT" <=> revisions[n].status = "ABSENT")
                            \/ \E p \in People, r \in Rights : Propose(p, n, r)
  <2>1. PICK m \in Numbers :
          \/ \E p \in People, r \in Rights : Propose(p, m, r) \/ Amend(m, r)
          \/ \E p \in People : StartRevisionExamination(p, m)
          \/ WithdrawRevision(m) \/ ReturnRevision(m) \/ MarkRevisionReady(m)
    BY <1>3 DEF Revising
  <2>2. ASSUME NEW p \in People, NEW r \in Rights, Propose(p, m, r), m # n
        PROVE  revisions'[n] = revisions[n]
    BY <2>2, <1>a DEF Propose
  <2>3. ASSUME NEW p \in People, NEW r \in Rights, Amend(m, r)
        PROVE  revisions'[n].to = revisions[n].to
               /\ (revisions'[n].status = "ABSENT" <=> revisions[n].status = "ABSENT")
    BY <2>3, <1>a DEF Amend, Amendable, Revisions
  <2>4. CASE \E p \in People : StartRevisionExamination(p, m)
    BY <2>4, <1>2 DEF StartRevisionExamination, Statuses
  <2>5. CASE WithdrawRevision(m)
    BY <2>5, <1>2 DEF WithdrawRevision, Statuses, Live
  <2>6. CASE ReturnRevision(m)
    BY <2>6, <1>2 DEF ReturnRevision, MoveRevision, Statuses
  <2>7. CASE MarkRevisionReady(m)
    BY <2>7, <1>2 DEF MarkRevisionReady, MoveRevision, Statuses
  <2> QED BY <2>1, <2>2, <2>3, <2>4, <2>5, <2>6, <2>7
<1>4. ASSUME NEW q \in pending, Terminate(q)
      PROVE  revisions'[n].to = revisions[n].to
             /\ (revisions'[n].status = "ABSENT" <=> revisions[n].status = "ABSENT")
  <2>1. n = active => revisions[n].status \in Live
    BY DEF RevisionIsHeld
  <2> QED BY <1>4, <2>1, <1>a DEF Terminate, EndRevision, Revisions, Live
<1>5. ASSUME NEW q \in pending, DecideRevision(q)
      PROVE  revisions'[n].to = revisions[n].to
             /\ (revisions'[n].status = "ABSENT" <=> revisions[n].status = "ABSENT")
  <2>1. PICK s \in {"APPROVED", "REJECTED"} : revisions' = [revisions EXCEPT ![q.rev].status = s]
    BY <1>5 DEF DecideRevision, ApproveRevision
  <2>2. q.rev \in Numbers /\ revisions[q.rev].status # "ABSENT" /\ s \in Statuses \ {"ABSENT"}
    BY <1>5, RevisionDecided DEF Statuses
  <2> QED BY <2>1, <2>2, <1>2
<1>6. CASE Drafting \/ Examining \/ HandingOver \/ Quiet \/ UNCHANGED vars \/ \E q \in pending : Decide(q)
  <2>1. UNCHANGED revisions
    BY <1>6 DEF Drafting, Create, Save, Delete, Examining, Submit, Publish, Withdraw,
                StartExamination, Return, MarkReady, Move, HandingOver, Realize, Quiet, vars, Decide
  <2> QED BY <2>1
<1> QED BY <1>3, <1>4, <1>5, <1>6, DecidingCases DEF Next

PastInv == /\ TypeOK /\ RevisionIsHeld /\ BeforeApproval /\ StartedIsFrozen /\ DecidedIsPast

LEMMA PastStep == PastInv /\ [Next]_vars => DecidedIsPast'
<1> SUFFICES ASSUME PastInv, [Next]_vars PROVE DecidedIsPast'
  OBVIOUS
<1> USE DEF PastInv, draftVars, recordVars, revisionVars, decisionVars
<1>a. version \in Nat /\ revisions \in [Numbers -> Revisions]
  BY DEF TypeOK
<1>s. ASSUME pending # {} \/ decisions # {} \/ \E n \in Numbers : revisions[n].status # "ABSENT",
             NEW w \in Nat, Past(w)
      PROVE  Past(w)'
  <2>1. \E v \in Versions : frozen[v] # NotFrozen
    BY <1>s DEF StartedIsFrozen
  <2> QED BY <1>s, <2>1, PastStays
<1>1. ASSUME NEW q \in pending', OnProposal(q) PROVE Past(q.ch.v)'
  <2>1. CASE q \in pending
    <3>1. q.ch.v \in Nat
      BY <2>1 DEF TypeOK, Requests, Challenges, Versions
    <3> QED BY <1>1, <2>1, <3>1, <1>s DEF DecidedIsPast
  <2>2. ASSUME NEW ch \in challenges, VerifyDecision(ch), q = [ch |-> ch, rev |-> 0]
        PROVE  Past(q.ch.v)'
    <3>1. q.ch.v = version /\ active = 0 /\ UNCHANGED <<version, active>>
      BY <1>1, <2>2 DEF VerifyDecision, Decidable, Open, OnProposal, RevisionIsHeld, Accept
    <3> QED BY <3>1, <1>a DEF Past
  <2>3. ASSUME NEW ch \in challenges, NEW n \in Numbers, q = [ch |-> ch, rev |-> n]
        PROVE  FALSE
    BY <1>1, <2>3 DEF OnProposal, Numbers
  <2> QED BY <2>1, <2>2, <2>3, NewRequest
<1>2. ASSUME NEW d \in decisions', d.act = "APPROVE", d.rev = 0 PROVE Past(d.v)'
  <2>1. CASE d \in decisions
    <3>1. d.v \in Nat
      BY <2>1 DEF TypeOK, Decisions, Versions
    <3> QED BY <1>2, <2>1, <3>1, <1>s DEF DecidedIsPast
  <2>2. ASSUME Publish, d.v = SubmittedVersion PROVE Past(d.v)'
    <3>1. version' = SubmittedVersion /\ active' = active /\ status # "APPROVED"
      BY <2>2 DEF Publish, Freeze, Editable
    <3>2. version' \in Nat
      BY <3>1, <1>a DEF SubmittedVersion
    <3> QED BY <2>2, <3>1, <3>2 DEF Past, RevisionIsHeld
  <2>3. ASSUME NEW q \in pending, Decide(q), d.v = version PROVE Past(d.v)'
    <3>1. UNCHANGED <<version, active>> /\ status # "APPROVED"
      BY <2>3 DEF Decide
    <3> QED BY <2>3, <3>1, <1>a DEF Past, RevisionIsHeld
  <2>4. ASSUME NEW q \in pending, Terminate(q), d.act = q.ch.act PROVE FALSE
    BY <1>2, <2>4 DEF Terminate
  <2>5. ASSUME NEW q \in pending, DecideRevision(q), d.rev = q.rev PROVE FALSE
    BY <1>2, <2>5 DEF DecideRevision
  <2> QED BY <2>1, <2>2, <2>3, <2>4, <2>5, NewDecision
<1>3. ASSUME NEW n \in Numbers, revisions'[n].status # "ABSENT" PROVE Past(revisions[n].to - 1)'
  <2>1. CASE \E p \in People, r \in Rights : Propose(p, n, r)
    <3>1. /\ revisions'[n].to = version + 1 /\ version' = version /\ active' = n
      BY <2>1, <1>a DEF Propose
    <3> QED BY <3>1, <1>a DEF Past
  <2>2. CASE revisions'[n].to = revisions[n].to /\ revisions[n].status # "ABSENT"
    <3>1. revisions[n].to - 1 \in Nat /\ Past(revisions[n].to - 1)
      BY <2>2, <1>a DEF Revisions, DecidedIsPast
    <3> DEFINE w == revisions[n].to - 1
    <3>2. Past(w)'
      BY <2>2, <3>1, <1>s
    <3> QED BY <2>2, <3>2 DEF Past
  <2> QED BY <1>3, <2>1, <2>2, TargetStays
<1> QED BY <1>1, <1>2, <1>3 DEF DecidedIsPast

LEMMA ContributorsGrow ==
    ASSUME NEW v \in Nat, NEW w \in Nat, v <= w
    PROVE  ContributorsTo(v) \subseteq ContributorsTo(w)
<1>1. 1..v \subseteq 1..w
  OBVIOUS
<1> QED BY <1>1 DEF ContributorsTo

LEMMA RequestsStep ==
    PastInv /\ PendingFits /\ RequestsAreIndependent /\ [Next]_vars => RequestsAreIndependent'
<1> SUFFICES ASSUME PastInv, PendingFits, RequestsAreIndependent, [Next]_vars, NEW q \in pending'
             PROVE  /\ OnProposal(q) => q.ch.who \notin ContributorsTo(q.ch.v)'
                    /\ q.rev # 0 => q.ch.who \notin ContributorsTo(revisions[q.rev].to - 1)'
                                       \cup {revisions'[q.rev].by, revisions'[q.rev].examiner}
  BY DEF RequestsAreIndependent, OnProposal
<1> USE DEF PastInv, draftVars, recordVars, revisionVars, decisionVars
<1>a. version \in Nat /\ revisions \in [Numbers -> Revisions]
  BY DEF TypeOK
<1>s. ASSUME pending # {}, NEW w \in Nat, Past(w) PROVE ContributorsTo(w)' = ContributorsTo(w)
  <2>1. \E v \in Versions : frozen[v] # NotFrozen
    BY <1>s DEF StartedIsFrozen
  <2> QED BY <1>s, <2>1, PastStays
<1>1. CASE q \in pending
  <2>1. ASSUME OnProposal(q) PROVE q.ch.who \notin ContributorsTo(q.ch.v)'
    <3>1. q.ch.v \in Nat /\ Past(q.ch.v) /\ q.ch.who \notin ContributorsTo(q.ch.v)
      BY <1>1, <2>1 DEF TypeOK, Requests, Challenges, Versions, DecidedIsPast, RequestsAreIndependent
    <3> QED BY <1>1, <1>s, <3>1
  <2>2. ASSUME q.rev # 0
        PROVE  q.ch.who \notin ContributorsTo(revisions[q.rev].to - 1)'
                   \cup {revisions'[q.rev].by, revisions'[q.rev].examiner}
    <3>1. q.rev \in Numbers /\ revisions[q.rev].status \in Settled
      BY <1>1, <2>2 DEF TypeOK, Requests, Numbers, PendingFits
    <3>2. PICK w \in Nat : w = revisions[q.rev].to - 1 /\ Past(w)
      BY <3>1, <1>a DEF Settled, Revisions, DecidedIsPast
    <3>3. q.ch.who \notin ContributorsTo(w) \cup {revisions[q.rev].by, revisions[q.rev].examiner}
      BY <1>1, <2>2, <3>2 DEF RequestsAreIndependent
    <3>4. /\ revisions'[q.rev].to = revisions[q.rev].to /\ revisions'[q.rev].by = revisions[q.rev].by
          /\ revisions'[q.rev].examiner = revisions[q.rev].examiner
      BY <3>1, SettledStays
    <3>5. ContributorsTo(w)' = ContributorsTo(w)
      BY <1>1, <1>s, <3>2
    <3> QED BY <3>2, <3>3, <3>4, <3>5
  <2> QED BY <2>1, <2>2
<1>2. ASSUME NEW ch \in challenges, VerifyDecision(ch), q = [ch |-> ch, rev |-> 0]
      PROVE  q.rev = 0 /\ q.ch.who \notin ContributorsTo(q.ch.v)'
  <2>1. q.rev = 0 /\ q.ch.v = version /\ q.ch.who \notin ContributorsTo(version)
    BY <1>2 DEF VerifyDecision, Decidable
  <2>2. UNCHANGED <<contributors, version>>
    BY <1>2 DEF VerifyDecision, Accept
  <2> QED BY <2>1, <2>2 DEF ContributorsTo
<1>3. ASSUME NEW ch \in challenges, NEW n \in Numbers, VerifyRevisionDecision(ch, n),
             q = [ch |-> ch, rev |-> n]
      PROVE  q.ch.who \notin ContributorsTo(revisions[q.rev].to - 1)'
                 \cup {revisions'[q.rev].by, revisions'[q.rev].examiner}
  <2> DEFINE w == revisions[n].to - 1
  <2>1. /\ revisions[n].status = "READY_FOR_DECISION"
        /\ ch.who \notin ContributorsTo(version) \cup {revisions[n].by, revisions[n].examiner}
        /\ UNCHANGED <<contributors, revisions>>
    BY <1>3 DEF VerifyRevisionDecision, RevisionDecidable, Separate, Accept
  <2>2. w \in Nat /\ Past(w)
    BY <2>1, <1>a DEF Revisions, DecidedIsPast
  <2>3. ContributorsTo(w) \subseteq ContributorsTo(version)
    BY <1>a, <2>2, ContributorsGrow DEF Past
  <2> QED BY <1>3, <2>1, <2>3 DEF ContributorsTo
<1>4. ASSUME NEW n \in Numbers, NEW ch \in challenges, q = [ch |-> ch, rev |-> n]
      PROVE  ~OnProposal(q) /\ q.rev # 0
  BY <1>4 DEF OnProposal, Numbers
<1> QED BY <1>1, <1>2, <1>3, <1>4, NewRequest

LEMMA SettledDecisionsStep ==
    TypeOK /\ RevisionIsHeld /\ PendingFits /\ RevisionsAreSettled /\ [Next]_vars => RevisionsAreSettled'
<1> SUFFICES ASSUME TypeOK, RevisionIsHeld, PendingFits, RevisionsAreSettled, [Next]_vars,
                    NEW d \in decisions', d.act = "APPROVE", d.rev # 0
             PROVE  d.v = revisions'[d.rev].to /\ revisions'[d.rev].status \in Settled
  BY DEF RevisionsAreSettled
<1>1. CASE d \in decisions
  <2>1. d.rev \in Numbers
    BY <1>1 DEF TypeOK, Decisions, Numbers
  <2> QED BY <1>1, <2>1, SettledStays DEF RevisionsAreSettled
<1>2. ASSUME NEW q \in pending, DecideRevision(q), d.v = revisions[q.rev].to, d.rev = q.rev
      PROVE  d.v = revisions'[d.rev].to /\ revisions'[d.rev].status \in Settled
  BY <1>2, RevisionDecided, SettledStays DEF Settled
<1>3. d \in decisions \/ \E q \in pending : DecideRevision(q) /\ d.v = revisions[q.rev].to /\ d.rev = q.rev
  BY NewDecision
<1> QED BY <1>1, <1>2, <1>3

LEMMA IndependentStep ==
    /\ PastInv /\ PendingFits /\ RequestsAreIndependent /\ RevisionsAreSettled
    /\ ApproverIsIndependent /\ [Next]_vars
    => ApproverIsIndependent'
<1> SUFFICES ASSUME PastInv, PendingFits, RequestsAreIndependent, RevisionsAreSettled,
                    ApproverIsIndependent, [Next]_vars,
                    NEW d \in decisions', d.act = "APPROVE"
             PROVE  /\ d.rev = 0 => d.who \notin ContributorsTo(d.v)'
                    /\ d.rev # 0 => d.who \notin ContributorsTo(d.v - 1)'
                                       \cup {revisions'[d.rev].by, revisions'[d.rev].examiner}
  BY DEF ApproverIsIndependent
<1> USE DEF PastInv, draftVars, recordVars, revisionVars, decisionVars
<1>s. ASSUME decisions # {}, NEW w \in Nat, Past(w) PROVE ContributorsTo(w)' = ContributorsTo(w)
  <2>1. \E v \in Versions : frozen[v] # NotFrozen
    BY <1>s DEF StartedIsFrozen
  <2> QED BY <1>s, <2>1, PastStays
<1>1. CASE d \in decisions
  <2>1. ASSUME d.rev = 0 PROVE d.who \notin ContributorsTo(d.v)'
    <3>1. d.v \in Nat /\ Past(d.v) /\ d.who \notin ContributorsTo(d.v)
      BY <1>1, <2>1 DEF TypeOK, Decisions, Versions, DecidedIsPast, ApproverIsIndependent
    <3> QED BY <1>1, <1>s, <3>1
  <2>2. ASSUME d.rev # 0
        PROVE  d.who \notin ContributorsTo(d.v - 1)'
                   \cup {revisions'[d.rev].by, revisions'[d.rev].examiner}
    <3> DEFINE w == d.v - 1
    <3>1. d.rev \in Numbers /\ revisions[d.rev].status \in Settled /\ d.v = revisions[d.rev].to
      BY <1>1, <2>2 DEF TypeOK, Decisions, Numbers, RevisionsAreSettled
    <3>2. w \in Nat /\ Past(w)
      BY <3>1 DEF TypeOK, Settled, Revisions, DecidedIsPast
    <3>3. d.who \notin ContributorsTo(w) \cup {revisions[d.rev].by, revisions[d.rev].examiner}
      BY <1>1, <2>2 DEF ApproverIsIndependent
    <3>4. /\ revisions'[d.rev].by = revisions[d.rev].by
          /\ revisions'[d.rev].examiner = revisions[d.rev].examiner
      BY <3>1, SettledStays
    <3>5. ContributorsTo(w)' = ContributorsTo(w)
      BY <1>1, <1>s, <3>2
    <3> QED BY <3>3, <3>4, <3>5
  <2> QED BY <2>1, <2>2
<1>2. ASSUME Publish, d.who = NoOne, d.v = SubmittedVersion PROVE d.who \notin ContributorsTo(d.v)'
  <2>1. contributors' \in [Versions -> SUBSET People] /\ SubmittedVersion \in Versions
    BY <1>2, FreezeTypes DEF Publish
  <2>2. ContributorsTo(d.v)' \subseteq People
    BY <1>2, <2>1 DEF ContributorsTo, Versions
  <2> QED BY <1>2, <2>2
<1>3. ASSUME NEW q \in pending, Decide(q), d.act = q.ch.act, d.who = q.ch.who, d.v = version
      PROVE  d.who \notin ContributorsTo(d.v)'
  <2>1. q.ch.v = version /\ OnProposal(q) /\ UNCHANGED <<contributors, version>>
    BY <1>3 DEF Decide, OnProposal
  <2> QED BY <1>3, <2>1 DEF RequestsAreIndependent, ContributorsTo
<1>4. ASSUME NEW q \in pending, Terminate(q), d.act = q.ch.act PROVE FALSE
  BY <1>4 DEF Terminate
<1>5. ASSUME NEW q \in pending, DecideRevision(q), d.v = revisions[q.rev].to, d.who = q.ch.who,
             d.rev = q.rev
      PROVE  d.rev # 0 /\ d.who \notin ContributorsTo(d.v - 1)'
                              \cup {revisions'[d.rev].by, revisions'[d.rev].examiner}
  <2>1. /\ q.rev \in Numbers /\ q.rev # 0 /\ UNCHANGED contributors
        /\ revisions'[q.rev].by = revisions[q.rev].by
        /\ revisions'[q.rev].examiner = revisions[q.rev].examiner
    BY <1>5, RevisionDecided, SettledStays DEF DecideRevision, Settled
  <2>2. d.who \notin ContributorsTo(d.v - 1) \cup {revisions[q.rev].by, revisions[q.rev].examiner}
    BY <1>5, <2>1 DEF RequestsAreIndependent
  <2> QED BY <1>5, <2>1, <2>2 DEF ContributorsTo
<1> QED BY <1>1, <1>2, <1>3, <1>4, <1>5, NewDecision

(***************************************************************************)
(* The invariant and the theorems.                                         *)
(***************************************************************************)
DisbursementInv ==
    /\ PastInv /\ RealizedWithinRights /\ PendingFits /\ DecidedAsSigned
    /\ RequestsAreIndependent /\ RevisionsAreSettled /\ ApproverIsIndependent
    /\ InForceIsDecided

LEMMA InvInit == Init => DisbursementInv
<1> SUFFICES ASSUME Init PROVE DisbursementInv
  OBVIOUS
<1>1. TypeOK
  <2>1. Least \in Rights /\ NoRevision \in Revisions
    BY DEF Least, Rights, NoRevision, Revisions, Statuses, Persons
  <2> QED BY <2>1 DEF Init, TypeOK, Statuses, Bases, Versions, Numbers
<1>2. RevisionIsHeld
  BY HeldInit
<1>3. BeforeApproval /\ StartedIsFrozen /\ RealizedWithinRights
  BY DEF Init, BeforeApproval, NothingRealized, StartedIsFrozen, NoRevision, RealizedWithinRights
<1>4. DecidedIsPast /\ PendingFits /\ DecidedAsSigned /\ RequestsAreIndependent
      /\ RevisionsAreSettled /\ ApproverIsIndependent /\ InForceIsDecided
  BY DEF Init, InForceIsDecided, DecidedIsPast, PendingFits, DecidedAsSigned, RequestsAreIndependent, NoRevision,
         RevisionsAreSettled, ApproverIsIndependent
<1> QED BY <1>1, <1>2, <1>3, <1>4 DEF DisbursementInv, PastInv

LEMMA TypesStep == TypeOK /\ RevisionIsHeld /\ [Next]_vars => TypeOK'
<1>1. TypeOK /\ UNCHANGED vars => TypeOK'
  BY DEF TypeOK, vars, draftVars, recordVars, revisionVars, decisionVars
<1> QED BY <1>1, DraftingKeepsTypes, ExaminingKeepsTypes, HandingOverKeepsTypes, RevisingKeepsTypes,
           DecidingKeepsTypes DEF Next

LEMMA InvStep == DisbursementInv /\ [Next]_vars => DisbursementInv'
  BY TypesStep, HeldStep, BeforeStep, StartedStep, PastStep, RightsStep, PendingStep, SignedStep,
     RequestsStep, SettledDecisionsStep, IndependentStep, InForceStep DEF DisbursementInv, PastInv

LEMMA Invariant == Spec => []DisbursementInv
  BY InvInit, InvStep, PTL DEF Spec

\* The proposal, its record, its revisions and every decision in flight keep
\* their types (disbursement-store.ts).
THEOREM TypeCorrect == Spec => []TypeOK
<1>1. DisbursementInv => TypeOK
  BY DEF DisbursementInv, PastInv
<1> QED BY <1>1, Invariant, PTL

\* No line has more handed over than was approved for it (recordRealizations,
\* recordRevisionDecision).
THEOREM HandoversWithinRights == Spec => []RealizedWithinRights
<1>1. DisbursementInv => RealizedWithinRights
  BY DEF DisbursementInv
<1> QED BY <1>1, Invariant, PTL

\* A proposal and the revision under way know of each other, and what the
\* revision changes is held back (proposeRevision, writeTermination).
THEOREM RevisionsAreHeld == Spec => []RevisionIsHeld
<1>1. DisbursementInv => RevisionIsHeld
  BY DEF DisbursementInv, PastInv
<1> QED BY <1>1, Invariant, PTL

\* What an approval put into force is what was signed (recordProposalDecision,
\* recordRevisionDecision).
THEOREM ApprovedAsSigned == Spec => []DecidedAsSigned
<1>1. DisbursementInv => DecidedAsSigned
  BY DEF DisbursementInv
<1> QED BY <1>1, Invariant, PTL

\* As long as nobody saves over a proposal in force, RightsAreDecided holds after
\* all: the rights it hands over by are those of a signed approval of its very
\* version, whatever revisions were proposed, amended, rejected or approved since
\* (recordProposalDecision, recordRevisionDecision, saveProposalDraft).
THEOREM RightsInForceAreDecided ==
    Spec => [](InForceIsDecided /\ (basis = "approved" => RightsAreDecided))
<1>1. DisbursementInv => InForceIsDecided /\ (basis = "approved" => RightsAreDecided)
  BY DEF DisbursementInv, InForceIsDecided, RightsAreDecided, Cap
<1> QED BY <1>1, Invariant, PTL

\* Nobody approves what he contributed to, created or examined
\* (separationOfDutiesRefusal, revisionContributors).
THEOREM DutiesAreSeparate == Spec => []ApproverIsIndependent
<1>1. DisbursementInv => ApproverIsIndependent
  BY DEF DisbursementInv
<1> QED BY <1>1, Invariant, PTL

\* Frozen versions and decisions are kept as they were recorded
\* (freezeSubmission, the keys of proposal_versions and proposal_decisions).
THEOREM RecordIsKept == Spec => RecordStays
<1>1. DisbursementInv /\ [Next]_vars =>
          [ /\ \A v \in Versions : frozen[v] # NotFrozen => frozen'[v] = frozen[v]
            /\ decisions \subseteq decisions' ]_vars
  BY RecordStep DEF DisbursementInv, PastInv
<1> QED BY <1>1, Invariant, PTL DEF Spec, RecordStays

\* A cancelled or closed proposal ended in the right state and takes nothing
\* more (writeTermination).
THEOREM TerminationsStand == Spec => TerminationStands
<1>1. DisbursementInv /\ [Next]_vars =>
          [ /\ status # "CANCELLED" /\ status' = "CANCELLED" => NothingRealized
            /\ status # "REMAINDER_CLOSED" /\ status' = "REMAINDER_CLOSED" => ~NothingRealized
            /\ status \in {"CANCELLED", "REMAINDER_CLOSED"} =>
                   UNCHANGED <<status, realized, active, decisions>> ]_vars
  BY TerminationStep DEF DisbursementInv, PastInv
<1> QED BY <1>1, Invariant, PTL DEF Spec, TerminationStands
=============================================================================
