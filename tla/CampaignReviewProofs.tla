------------------------- MODULE CampaignReviewProofs -------------------------
(***************************************************************************)
(* Proofs about CampaignReview, for any number of versions, materials and  *)
(* operators.  The public snapshot is taken from the live proposal, so the *)
(* heart of the invariant is that outside DRAFT and REVISION_REQUESTED the *)
(* live proposal is the frozen version that was examined.                  *)
(***************************************************************************)
EXTENDS CampaignReview, TLAPS

USE ReviewAssumption DEF ReviewAssumption

(***************************************************************************)
(* The inductive invariant, in named parts.                                *)
(***************************************************************************)
Settled  == {"SUBMITTED", "REJECTED", "APPROVED", "PUBLISHED", "SUSPENDED", "CLOSED"}
Approved == {"APPROVED", "PUBLISHED", "SUSPENDED", "CLOSED"}

\* What was submitted is not edited until it is sent back.
LiveIsFrozen == status \in Settled => version \in Versions /\ draft = frozen[version]

\* No decision is taken on a version before it is submitted, or twice.
DecidedOnce ==
    /\ \A v \in Versions : v > version => verdict[v] = "none"
    /\ status = "SUBMITTED" => verdict[version] = "none"

\* An approved version was approved by somebody else, and that was witnessed.
Independent ==
    status \in Approved =>
        /\ verdict[version] = "APPROVE"
        /\ examiner[version] \in Operators \ {Owner}
        /\ \E e \in events : e.kind = "APPROVAL" /\ e.version = version

\* The public version is older than one that is yet to be published.
ShownIsPast ==
    /\ shownVersion <= version
    /\ status \in {"SUBMITTED", "APPROVED"} => shownVersion < version

\* Evidence speaks of versions that exist.
EvidenceExists ==
    \A e \in events : e.kind \in {"APPROVAL", "PUBLISH"} =>
        e.version \in Versions /\ e.version <= version

\* A page that names the submitted version shows what was submitted.
PageIsFaithful ==
    \A o \in Operators :
        /\ seen[o].version <= version
        /\ status = "SUBMITTED" /\ seen[o].version = version
              => seen[o].material = frozen[version]

ReviewInv == /\ LiveIsFrozen /\ DecidedOnce /\ Independent /\ ShownIsPast
             /\ EvidenceExists /\ PageIsFaithful
             /\ PublicIsApproved /\ DonorsSeeWhatTheyFund /\ EvidenceCommits

(***************************************************************************)
(* Type correctness.                                                       *)
(***************************************************************************)
LEMMA InitTyped == Init => TypeOK
  BY DEF Init, TypeOK, Statuses, Verdicts, Versions, Events, Nothing

\* An enqueued event is an event.
LEMMA WitnessTyped ==
    ASSUME TypeOK, NEW kind \in {"APPROVAL", "PUBLISH", "REOPEN", "STATUS"},
           NEW verdicts \in [Versions -> Verdicts], Witness(kind, verdicts)
    PROVE  events' \subseteq Events
<1>1. version = 0 \/ version \in Versions
  BY DEF TypeOK, Versions
<1>2. (IF version = 0 THEN NoMaterial ELSE frozen[version]) \in Materials \cup {NoMaterial}
  BY <1>1 DEF TypeOK
<1>3. (IF version = 0 THEN "none" ELSE verdicts[version]) \in Verdicts
  BY <1>1 DEF Verdicts
<1> QED
  BY <1>2, <1>3 DEF Witness, Events, TypeOK

LEMMA StepTyped == TypeOK /\ [Next]_vars => TypeOK'
<1> SUFFICES ASSUME TypeOK, [Next]_vars PROVE TypeOK'
  OBVIOUS
<1>1. CASE Edit \/ EndPasses
  BY <1>1 DEF Edit, EndPasses, TypeOK
<1>2. CASE Submit
  <2>1. version + 1 \in Versions /\ version' = version + 1 /\ version \in Nat
    BY <1>2 DEF Submit, TypeOK, Versions
  <2>2. draft \in Materials /\ draft # NoMaterial
    BY DEF TypeOK
  <2>3. frozen' = [frozen EXCEPT ![version + 1] = draft]
    BY <1>2 DEF Submit
  <2>4. frozen' \in [Versions -> Materials \cup {NoMaterial}]
    BY <2>1, <2>2, <2>3 DEF TypeOK
  <2>5. \A v \in Versions : frozen'[v] = NoMaterial <=> v > version'
    BY <2>1, <2>2, <2>3 DEF TypeOK, Versions
  <2>6. status' \in Statuses /\ version' \in 0..MaxVersions
    BY <1>2, <2>1 DEF Submit, Statuses, Versions
  <2> QED
    BY <1>2, <2>4, <2>5, <2>6 DEF Submit, TypeOK
<1>3. ASSUME NEW o \in Operators, Load(o)
      PROVE  TypeOK'
  BY <1>3 DEF Load, TypeOK
<1>4. ASSUME NEW o \in Operators, NEW decision \in Verdicts \ {"none"}, Review(o, decision)
      PROVE  TypeOK'
  <2>1. verdict' \in [Versions -> Verdicts] /\ examiner' \in [Versions -> Operators \cup {Owner}]
    BY <1>4 DEF Review, TypeOK
  <2>2. events' \subseteq Events
    BY <1>4, <2>1, WitnessTyped DEF Review, TypeOK
  <2>3. status' \in Statuses
    BY <1>4 DEF Review, Decide, Statuses, Verdicts
  <2> QED
    BY <1>4, <2>1, <2>2, <2>3 DEF Review, TypeOK
<1>5. ASSUME NEW o \in Operators, PublishCampaign(o)
      PROVE  TypeOK'
  <2>1. events' \subseteq Events
    BY <1>5, WitnessTyped DEF PublishCampaign, TypeOK
  <2> QED
    BY <1>5, <2>1 DEF PublishCampaign, TypeOK, Statuses
<1>6. ASSUME NEW o \in Operators, Reopen(o)
      PROVE  TypeOK'
  <2>1. events' \subseteq Events
    BY <1>6, WitnessTyped DEF Reopen, TypeOK
  <2> QED
    BY <1>6, <2>1 DEF Reopen, TypeOK, Statuses
<1>7. ASSUME NEW new \in {"SUSPENDED", "CLOSED", "CANCELLED"}, SetStatus(new)
      PROVE  TypeOK'
  <2>1. events' \subseteq Events
    BY <1>7, WitnessTyped DEF SetStatus, TypeOK
  <2> QED
    BY <1>7, <2>1 DEF SetStatus, TypeOK, Statuses
<1>8. CASE UNCHANGED vars
  BY <1>8 DEF vars, TypeOK
<1> QED
  BY <1>1, <1>2, <1>3, <1>4, <1>5, <1>6, <1>7, <1>8 DEF Next

\* Every variable keeps its type, and exactly the submitted versions are frozen.
THEOREM TypeCorrect == Spec => []TypeOK
  BY InitTyped, StepTyped, PTL DEF Spec

(***************************************************************************)
(* The invariant, action by action.                                        *)
(***************************************************************************)
LEMMA InitReview == Init => ReviewInv
  BY DEF Init, ReviewInv, LiveIsFrozen, DecidedOnce, Independent, ShownIsPast,
         EvidenceExists, PageIsFaithful, PublicIsApproved, DonorsSeeWhatTheyFund,
         EvidenceCommits, Settled, Approved, Nothing

\* Editing, and the passing of the end date, touch nothing that was examined.
LEMMA EditKeeps ==
    ASSUME TypeOK, ReviewInv, Edit \/ EndPasses
    PROVE  ReviewInv'
<1>1. UNCHANGED <<status, version, frozen, verdict, examiner, shown, shownVersion, events, seen>>
  BY DEF Edit, EndPasses
<1>2. status \in Settled => draft' = draft
  BY DEF Edit, EndPasses, Editable, Settled
<1>3. LiveIsFrozen' /\ DonorsSeeWhatTheyFund'
  BY <1>1, <1>2 DEF ReviewInv, LiveIsFrozen, DonorsSeeWhatTheyFund, Settled
<1>4. DecidedOnce' /\ Independent' /\ ShownIsPast'
  BY <1>1 DEF ReviewInv, DecidedOnce, Independent, ShownIsPast
<1>5. EvidenceExists' /\ PageIsFaithful'
  BY <1>1 DEF ReviewInv, EvidenceExists, PageIsFaithful
<1>6. PublicIsApproved' /\ EvidenceCommits'
  BY <1>1 DEF ReviewInv, PublicIsApproved, EvidenceCommits
<1> QED
  BY <1>3, <1>4, <1>5, <1>6 DEF ReviewInv

\* A submission freezes a version nobody has decided, shown or witnessed.
LEMMA SubmitKeeps ==
    ASSUME TypeOK, ReviewInv, Submit
    PROVE  ReviewInv'
<1>1. /\ version \in Nat /\ version + 1 \in Versions /\ version' = version + 1
      /\ status' = "SUBMITTED" /\ shownVersion \in Nat
      /\ UNCHANGED <<draft, verdict, examiner, shown, shownVersion, events, seen>>
  BY DEF Submit, TypeOK, Versions
<1>2. frozen'[version + 1] = draft /\ \A v \in Versions : v # version + 1 => frozen'[v] = frozen[v]
  BY <1>1 DEF Submit, TypeOK
<1>3. LiveIsFrozen' /\ Independent' /\ DonorsSeeWhatTheyFund'
  BY <1>1, <1>2 DEF LiveIsFrozen, Independent, Approved, DonorsSeeWhatTheyFund
<1>4. DecidedOnce'
  BY <1>1 DEF ReviewInv, DecidedOnce, Versions
<1>5. ShownIsPast'
  BY <1>1 DEF ReviewInv, ShownIsPast
<1>6. \A e \in events : e.kind \in {"APPROVAL", "PUBLISH"} =>
          /\ e.version \in Versions /\ e.version <= version'
          /\ frozen'[e.version] = frozen[e.version]
  BY <1>1, <1>2 DEF ReviewInv, EvidenceExists, Versions
<1>7. EvidenceExists'
  BY <1>1, <1>6 DEF EvidenceExists
<1>8. PageIsFaithful'
  <2>1. \A o \in Operators : seen[o].version \in Nat /\ seen[o].version <= version
    BY DEF ReviewInv, PageIsFaithful, TypeOK
  <2> QED
    BY <1>1, <2>1 DEF PageIsFaithful
<1>9. shownVersion # 0 => shownVersion \in Versions /\ frozen'[shownVersion] = frozen[shownVersion]
  BY <1>1, <1>2 DEF ReviewInv, ShownIsPast, TypeOK, Versions
<1>10. PublicIsApproved'
  BY <1>1, <1>9 DEF ReviewInv, PublicIsApproved
<1>11. EvidenceCommits'
  BY <1>1, <1>6 DEF ReviewInv, EvidenceCommits
<1> QED
  BY <1>3, <1>4, <1>5, <1>7, <1>8, <1>10, <1>11 DEF ReviewInv

\* A page shows the live proposal, which is the frozen one if it is submitted.
LEMMA LoadKeeps ==
    ASSUME TypeOK, ReviewInv, NEW o \in Operators, Load(o)
    PROVE  ReviewInv'
<1>1. UNCHANGED <<status, version, draft, frozen, verdict, examiner, shown, shownVersion, events>>
  BY DEF Load
<1>2. PageIsFaithful'
  <2> SUFFICES ASSUME NEW p \in Operators
               PROVE  /\ seen'[p].version <= version
                      /\ status = "SUBMITTED" /\ seen'[p].version = version
                            => seen'[p].material = frozen[version]
    BY <1>1 DEF PageIsFaithful
  <2>1. CASE p = o
    <3>1. seen'[p] = [version |-> version, material |-> draft]
      BY <2>1 DEF Load, TypeOK
    <3>2. version <= version
      BY DEF TypeOK
    <3> QED
      BY <3>1, <3>2 DEF ReviewInv, LiveIsFrozen, Settled
  <2>2. CASE p # o
    BY <2>2 DEF Load, TypeOK, ReviewInv, PageIsFaithful
  <2> QED
    BY <2>1, <2>2
<1>3. LiveIsFrozen' /\ DecidedOnce' /\ Independent' /\ ShownIsPast' /\ EvidenceExists'
  BY <1>1 DEF ReviewInv, LiveIsFrozen, DecidedOnce, Independent, ShownIsPast, EvidenceExists
<1>4. PublicIsApproved' /\ DonorsSeeWhatTheyFund' /\ EvidenceCommits'
  BY <1>1 DEF ReviewInv, PublicIsApproved, DonorsSeeWhatTheyFund, EvidenceCommits
<1> QED
  BY <1>2, <1>3, <1>4 DEF ReviewInv

\* A decision is the first on its version, and an approval is witnessed with it.
LEMMA ReviewKeeps ==
    ASSUME TypeOK, ReviewInv, NEW o \in Operators, NEW decision \in Verdicts \ {"none"},
           Review(o, decision)
    PROVE  ReviewInv'
<1>1. /\ o # Owner /\ status = "SUBMITTED" /\ version \in Versions /\ draft = frozen[version]
      /\ verdict[version] = "none" /\ shownVersion < version
  BY DEF Review, Current, ReviewInv, LiveIsFrozen, DecidedOnce, ShownIsPast, Settled
<1>2. /\ verdict'[version] = decision /\ examiner'[version] = o
      /\ \A v \in Versions \ {version} : verdict'[v] = verdict[v] /\ examiner'[v] = examiner[v]
      /\ UNCHANGED <<version, draft, frozen, shown, shownVersion, seen>>
  BY <1>1 DEF Review, TypeOK
<1>3. /\ status' \in {"REVISION_REQUESTED", "REJECTED", "APPROVED"}
      /\ status' = "APPROVED" <=> decision = "APPROVE"
  BY DEF Review, Decide, Verdicts
<1>4. version \in Nat /\ version # 0 /\ shownVersion \in Nat
  BY <1>1 DEF Versions, TypeOK
<1>5. /\ decision = "APPROVE" => events' = events \cup
            {[kind |-> "APPROVAL", version |-> version, material |-> frozen[version],
              verdict |-> "APPROVE"]}
      /\ decision # "APPROVE" => events' = events
  BY <1>2, <1>4 DEF Review, Witness
<1>6. LiveIsFrozen' /\ DonorsSeeWhatTheyFund'
  BY <1>1, <1>2, <1>3 DEF LiveIsFrozen, DonorsSeeWhatTheyFund
<1>7. DecidedOnce'
  BY <1>2, <1>3, <1>4 DEF ReviewInv, DecidedOnce, Versions
<1>8. Independent'
  <2> DEFINE approval == [kind |-> "APPROVAL", version |-> version,
                          material |-> frozen[version], verdict |-> "APPROVE"]
  <2> SUFFICES ASSUME status' = "APPROVED" PROVE Independent'
    BY <1>3 DEF Independent, Approved
  <2>1. approval \in events' /\ approval.kind = "APPROVAL" /\ approval.version = version
    BY <1>3, <1>5
  <2>2. \E e \in events' : e.kind = "APPROVAL" /\ e.version = version
    BY <2>1
  <2> QED
    BY <1>1, <1>2, <1>3, <2>2 DEF Independent
<1>9. ShownIsPast'
  BY <1>1, <1>2, <1>4 DEF ReviewInv, ShownIsPast
<1>10. EvidenceExists'
  BY <1>1, <1>2, <1>4, <1>5 DEF ReviewInv, EvidenceExists
<1>11. PageIsFaithful'
  BY <1>2, <1>3 DEF ReviewInv, PageIsFaithful
<1>12. shownVersion # 0 => shownVersion \in Versions \ {version}
  BY <1>1, <1>4 DEF Versions, TypeOK
<1>13. PublicIsApproved'
  BY <1>2, <1>12 DEF ReviewInv, PublicIsApproved
<1>14. EvidenceCommits'
  BY <1>2, <1>5 DEF ReviewInv, EvidenceCommits
<1> QED
  BY <1>6, <1>7, <1>8, <1>9, <1>10, <1>11, <1>13, <1>14 DEF ReviewInv

\* What is published is the approved version.
LEMMA PublishKeeps ==
    ASSUME TypeOK, ReviewInv, NEW o \in Operators, PublishCampaign(o)
    PROVE  ReviewInv'
<1>1. /\ status = "APPROVED" /\ version \in Versions /\ draft = frozen[version]
      /\ verdict[version] = "APPROVE" /\ examiner[version] \in Operators \ {Owner}
      /\ \E e \in events : e.kind = "APPROVAL" /\ e.version = version
  BY DEF PublishCampaign, ReviewInv, LiveIsFrozen, Independent, Settled, Approved
<1>2. /\ status' = "PUBLISHED" /\ shown' = draft /\ shownVersion' = version
      /\ UNCHANGED <<version, draft, frozen, verdict, examiner, seen>>
  BY DEF PublishCampaign
<1>3. version \in Nat /\ version # 0
  BY <1>1 DEF Versions
<1>4. events' = events \cup
            {[kind |-> "PUBLISH", version |-> version, material |-> frozen[version],
              verdict |-> "APPROVE"]}
  BY <1>1, <1>3 DEF PublishCampaign, Witness
<1>5. LiveIsFrozen' /\ DonorsSeeWhatTheyFund' /\ PublicIsApproved'
  BY <1>1, <1>2 DEF LiveIsFrozen, DonorsSeeWhatTheyFund, PublicIsApproved
<1>6. DecidedOnce' /\ PageIsFaithful'
  BY <1>2 DEF ReviewInv, DecidedOnce, PageIsFaithful
<1>7. Independent' /\ ShownIsPast'
  BY <1>1, <1>2, <1>3, <1>4 DEF Independent, ShownIsPast
<1>8. EvidenceExists'
  BY <1>1, <1>2, <1>3, <1>4 DEF ReviewInv, EvidenceExists
<1>9. EvidenceCommits'
  <2>1. \A e \in events' : e.kind \in {"APPROVAL", "PUBLISH"} =>
            e.material = frozen[e.version] /\ e.verdict = "APPROVE"
    BY <1>4 DEF ReviewInv, EvidenceCommits
  <2>2. \E e \in events' : e.kind = "APPROVAL" /\ e.version = version
    BY <1>1, <1>4
  <2>3. \E e \in events' : e.kind = "PUBLISH" /\ e.version = version
    <3> DEFINE published == [kind |-> "PUBLISH", version |-> version,
                             material |-> frozen[version], verdict |-> "APPROVE"]
    <3>1. published \in events' /\ published.kind = "PUBLISH" /\ published.version = version
      BY <1>4
    <3> QED
      BY <3>1
  <2> QED
    BY <1>2, <2>1, <2>2, <2>3 DEF EvidenceCommits
<1> QED
  BY <1>5, <1>6, <1>7, <1>8, <1>9 DEF ReviewInv

\* Reopening and stopping witness themselves and change nothing else.
LEMMA StopKeeps ==
    ASSUME TypeOK, ReviewInv,
           NEW kind \in {"REOPEN", "STATUS"}, Witness(kind, verdict),
           status' \in {"REVISION_REQUESTED", "SUSPENDED", "CLOSED", "CANCELLED"},
           status' \in Settled => status \in Approved,
           UNCHANGED <<version, draft, frozen, verdict, examiner, shown, shownVersion, seen>>
    PROVE  ReviewInv'
<1>1. /\ events \subseteq events'
      /\ \A e \in events' : e.kind \in {"APPROVAL", "PUBLISH"} => e \in events
  BY DEF Witness
<1>2. LiveIsFrozen' /\ DecidedOnce' /\ DonorsSeeWhatTheyFund'
  BY DEF ReviewInv, LiveIsFrozen, DecidedOnce, DonorsSeeWhatTheyFund, Settled, Approved
<1>3. Independent'
  BY <1>1 DEF ReviewInv, Independent, Settled, Approved
<1>4. ShownIsPast' /\ PageIsFaithful' /\ PublicIsApproved'
  BY DEF ReviewInv, ShownIsPast, PageIsFaithful, PublicIsApproved
<1>5. EvidenceExists' /\ EvidenceCommits'
  BY <1>1 DEF ReviewInv, EvidenceExists, EvidenceCommits
<1> QED
  BY <1>2, <1>3, <1>4, <1>5 DEF ReviewInv

LEMMA StepReview == TypeOK /\ ReviewInv /\ [Next]_vars => ReviewInv'
<1> SUFFICES ASSUME TypeOK, ReviewInv, [Next]_vars PROVE ReviewInv'
  OBVIOUS
<1>1. ASSUME NEW o \in Operators, Reopen(o)
      PROVE  ReviewInv'
  <2>1. /\ Witness("REOPEN", verdict) /\ status' = "REVISION_REQUESTED"
        /\ UNCHANGED <<version, draft, frozen, verdict, examiner, shown, shownVersion, seen>>
    BY <1>1 DEF Reopen
  <2> QED
    BY <2>1, StopKeeps DEF Settled
<1>2. ASSUME NEW new \in {"SUSPENDED", "CLOSED", "CANCELLED"}, SetStatus(new)
      PROVE  ReviewInv'
  <2>1. /\ Witness("STATUS", verdict) /\ status' = new
        /\ UNCHANGED <<version, draft, frozen, verdict, examiner, shown, shownVersion, seen>>
    BY <1>2 DEF SetStatus
  <2>2. new # "CANCELLED" => status \in Approved
    BY <1>2 DEF SetStatus, Stoppable, Approved
  <2> QED
    BY <2>1, <2>2, StopKeeps DEF Settled
<1>3. CASE UNCHANGED vars
  <2>1. LiveIsFrozen' /\ DecidedOnce' /\ Independent' /\ ShownIsPast' /\ EvidenceExists'
    BY <1>3 DEF vars, ReviewInv, LiveIsFrozen, DecidedOnce, Independent, ShownIsPast,
                EvidenceExists
  <2>2. PageIsFaithful' /\ PublicIsApproved' /\ DonorsSeeWhatTheyFund' /\ EvidenceCommits'
    BY <1>3 DEF vars, ReviewInv, PageIsFaithful, PublicIsApproved, DonorsSeeWhatTheyFund,
                EvidenceCommits
  <2> QED
    BY <2>1, <2>2 DEF ReviewInv
<1> QED
  BY <1>1, <1>2, <1>3, EditKeeps, SubmitKeeps, LoadKeeps, ReviewKeeps, PublishKeeps DEF Next

LEMMA InvariantHolds == Spec => [](TypeOK /\ ReviewInv)
<1>1. Init => TypeOK /\ ReviewInv
  BY InitTyped, InitReview
<1>2. TypeOK /\ ReviewInv /\ [Next]_vars => (TypeOK /\ ReviewInv)'
  BY StepTyped, StepReview
<1> QED
  BY <1>1, <1>2, PTL DEF Spec

(***************************************************************************)
(* The theorems.                                                           *)
(***************************************************************************)
\* What the public sees was approved, as it is, by an operator other than its
\* owner, after any number of reopenings.
THEOREM PublicWasApproved == Spec => []PublicIsApproved
<1>1. ReviewInv => PublicIsApproved
  BY DEF ReviewInv
<1> QED
  BY <1>1, InvariantHolds, PTL

\* A donor of a published campaign is shown the version his donation names.
THEOREM DonorsSeeTheirVersion == Spec => []DonorsSeeWhatTheyFund
<1>1. ReviewInv => DonorsSeeWhatTheyFund
  BY DEF ReviewInv
<1> QED
  BY <1>1, InvariantHolds, PTL

\* Evidence commits to the frozen material and its approval, and exists for
\* what is public.
THEOREM EvidenceIsComplete == Spec => []EvidenceCommits
<1>1. ReviewInv => EvidenceCommits
  BY DEF ReviewInv
<1> QED
  BY <1>1, InvariantHolds, PTL

\* Nobody approves a version other than the one he has loaded.
THEOREM ApprovalsAreExamined == Spec => ApprovedAsExamined
<1> DEFINE Examined ==
      \A v \in Versions : verdict[v] # "APPROVE" /\ verdict'[v] = "APPROVE" =>
          /\ seen[examiner'[v]].material = frozen[v]
          /\ seen[examiner'[v]].version = v
<1>1. ASSUME TypeOK, ReviewInv, [Next]_vars
      PROVE  [Examined]_vars
  <2>1. ASSUME NEW o \in Operators, NEW decision \in Verdicts \ {"none"}, Review(o, decision)
        PROVE  Examined
    <3>1. /\ version \in Versions /\ seen[o].version = version /\ status = "SUBMITTED"
          /\ seen[o].material = frozen[version]
      BY <1>1, <2>1 DEF Review, Current, ReviewInv, LiveIsFrozen, Settled, PageIsFaithful
    <3>2. examiner'[version] = o /\ \A v \in Versions \ {version} : verdict'[v] = verdict[v]
      BY <1>1, <2>1, <3>1 DEF Review, TypeOK
    <3> QED
      BY <3>1, <3>2
  <2>2. ASSUME verdict' = verdict
        PROVE  Examined
    BY <2>2
  <2>3. CASE Edit \/ Submit \/ EndPasses \/ UNCHANGED vars
    BY <2>2, <2>3 DEF Edit, Submit, EndPasses, vars
  <2>4. ASSUME NEW o \in Operators, Load(o) \/ PublishCampaign(o) \/ Reopen(o)
        PROVE  Examined
    BY <2>2, <2>4 DEF Load, PublishCampaign, Reopen
  <2>5. ASSUME NEW new \in {"SUSPENDED", "CLOSED", "CANCELLED"}, SetStatus(new)
        PROVE  Examined
    BY <2>2, <2>5 DEF SetStatus
  <2> QED
    BY <1>1, <2>1, <2>3, <2>4, <2>5 DEF Next
<1> QED
  BY <1>1, InvariantHolds, PTL DEF Spec, ApprovedAsExamined

(***************************************************************************)
(* CampaignReview implements CampaignWindow.                               *)
(***************************************************************************)
WindowMap == IF status = "PUBLISHED" /\ ends = "future" THEN "open" ELSE "shut"

\* A step opens the window for a newer version, shuts it, or keeps it.
LEMMA WindowStep ==
    ASSUME TypeOK, ReviewInv, [Next]_vars
    PROVE  [Window!WindowNext]_(Window!windowVars)
<1> SUFFICES \/ WindowMap = "shut" /\ WindowMap' = "open" /\ shownVersion' > shownVersion
             \/ WindowMap = "open" /\ WindowMap' = "shut" /\ shownVersion' = shownVersion
             \/ WindowMap' = WindowMap /\ shownVersion' = shownVersion
  BY DEF Window!WindowNext, Window!Open, Window!Close, Window!windowVars, WindowMap
<1>1. CASE Edit \/ Submit \/ EndPasses \/ UNCHANGED vars
  BY <1>1 DEF Edit, Submit, EndPasses, vars, Editable, WindowMap
<1>2. ASSUME NEW o \in Operators, Load(o) \/ Reopen(o)
      PROVE  WindowMap' \in {WindowMap, "shut"} /\ shownVersion' = shownVersion
  BY <1>2 DEF Load, Reopen, WindowMap
<1>3. ASSUME NEW o \in Operators, NEW decision \in Verdicts \ {"none"}, Review(o, decision)
      PROVE  WindowMap' \in {WindowMap, "shut"} /\ shownVersion' = shownVersion
  BY <1>3 DEF Review, Decide, WindowMap, Verdicts
<1>4. ASSUME NEW o \in Operators, PublishCampaign(o)
      PROVE  WindowMap = "shut" /\ WindowMap' = "open" /\ shownVersion' > shownVersion
  <2>1. status = "APPROVED" /\ status' = "PUBLISHED" /\ ends = "future" /\ ends' = ends
    BY <1>4 DEF PublishCampaign
  <2>2. shownVersion' = version /\ shownVersion < version
    BY <1>4, <2>1 DEF PublishCampaign, ReviewInv, ShownIsPast
  <2>3. shownVersion \in Nat /\ version \in Nat
    BY DEF TypeOK
  <2> QED
    BY <2>1, <2>2, <2>3 DEF WindowMap
<1>5. ASSUME NEW new \in {"SUSPENDED", "CLOSED", "CANCELLED"}, SetStatus(new)
      PROVE  WindowMap' \in {WindowMap, "shut"} /\ shownVersion' = shownVersion
  BY <1>5 DEF SetStatus, WindowMap
<1>6. WindowMap \in {"open", "shut"}
  BY DEF WindowMap
<1> QED
  BY <1>1, <1>2, <1>3, <1>4, <1>5, <1>6 DEF Next

\* Once shut, by an operator or by time, donations open only for a newer version.
THEOREM ImplementsWindow == Spec => WindowSpec
<1>1. Init => Window!WindowInit
  BY DEF Init, Window!WindowInit
<1> QED
  BY <1>1, WindowStep, InvariantHolds, PTL DEF Spec, WindowSpec, Window!WindowSpec

===============================================================================
