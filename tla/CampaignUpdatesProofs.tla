------------------------- MODULE CampaignUpdatesProofs -------------------------
(***************************************************************************)
(* Proofs about CampaignUpdates, for any set of updates, operators and     *)
(* amounts.                                                                *)
(***************************************************************************)
EXTENDS CampaignUpdates, FiniteSetTheorems, TLAPS

(***************************************************************************)
(* Sums.  SumFunctionOnSet iterates over the subsets of S; that it adds up *)
(* natural numbers is shown by counting: as many units as f[x] for each x  *)
(* satisfy its equation (CountIsFold), which has one solution on a finite  *)
(* set (FoldsAgree, by a least subset on which two of them differ).        *)
(***************************************************************************)
Units(f, S) == UNION {{x} \X (1..f[x]) : x \in S}

One(s) == CHOOSE x \in s : TRUE

\* g is what SumFunctionOnSet iterates.
IsFold(g, f, S) == g = [s \in SUBSET S |-> IF s = {} THEN 0 ELSE f[One(s)] + g[s \ {One(s)}]]

LEMMA OwnUnits ==
    ASSUME NEW f, NEW x, f[x] \in Nat
    PROVE  IsFiniteSet({x} \X (1..f[x])) /\ Cardinality({x} \X (1..f[x])) = f[x]
<1>1. IsFiniteSet({x}) /\ Cardinality({x}) = 1
  BY FS_Singleton
<1>2. IsFiniteSet(1..f[x]) /\ Cardinality(1..f[x]) = f[x]
  BY FS_Interval
<1>3. IsFiniteSet({x} \X (1..f[x])) /\ Cardinality({x} \X (1..f[x])) = 1 * f[x]
  BY <1>1, <1>2, FS_Product
<1> QED BY <1>3

LEMMA UnitsFinite ==
    ASSUME NEW f, NEW S, IsFiniteSet(S), \A x \in S : f[x] \in Nat
    PROVE  IsFiniteSet(Units(f, S)) /\ Cardinality(Units(f, S)) \in Nat
<1> DEFINE own(x) == {x} \X (1..f[x])
<1>1. IsFiniteSet({own(x) : x \in S})
  <2>1. [x \in S |-> own(x)] \in Surjection(S, {own(x) : x \in S})
    BY DEF Surjection
  <2> QED BY <2>1, FS_Surjection
<1>2. \A U \in {own(x) : x \in S} : IsFiniteSet(U)
  BY OwnUnits
<1>3. IsFiniteSet(Units(f, S))
  BY <1>1, <1>2, FS_UNION DEF Units
<1> QED BY <1>3, FS_CardinalityType

LEMMA UnitsSplit ==
    ASSUME NEW f, NEW S, IsFiniteSet(S), \A y \in S : f[y] \in Nat, NEW x \in S
    PROVE  Cardinality(Units(f, S)) = f[x] + Cardinality(Units(f, S \ {x}))
<1> DEFINE own == {x} \X (1..f[x])
           rest == Units(f, S \ {x})
<1>1. IsFiniteSet(own) /\ Cardinality(own) = f[x]
  BY OwnUnits
<1>2. IsFiniteSet(rest) /\ Cardinality(rest) \in Nat
  BY FS_RemoveElement, UnitsFinite
<1>3. Units(f, S) = own \cup rest /\ own \cap rest = {}
  BY DEF Units
<1>4. Cardinality(own \cap rest) = 0
  BY <1>3, FS_EmptySet
<1> HIDE DEF own, rest
<1>5. Cardinality(own \cup rest) = Cardinality(own) + Cardinality(rest) - Cardinality(own \cap rest)
  BY <1>1, <1>2, FS_Union
<1>6. Cardinality(own \cup rest) = f[x] + Cardinality(rest)
  BY <1>1, <1>2, <1>4, <1>5
<1> QED BY <1>3, <1>6 DEF rest

LEMMA CountIsFold ==
    ASSUME NEW f, NEW S, IsFiniteSet(S), \A x \in S : f[x] \in Nat
    PROVE  IsFold([s \in SUBSET S |-> Cardinality(Units(f, s))], f, S)
<1> DEFINE c == [s \in SUBSET S |-> Cardinality(Units(f, s))]
<1>1. c[{}] = 0
  BY FS_EmptySet DEF Units
<1>2. ASSUME NEW s \in SUBSET S, s # {}
      PROVE  c[s] = f[One(s)] + c[s \ {One(s)}]
  <2>1. One(s) \in s /\ IsFiniteSet(s)
    BY <1>2, FS_Subset DEF One
  <2> QED BY <2>1, UnitsSplit
<1>3. \A s \in SUBSET S : c[s] = IF s = {} THEN 0 ELSE f[One(s)] + c[s \ {One(s)}]
  BY <1>1, <1>2
<1> QED BY <1>3 DEF IsFold

LEMMA FoldsAgree ==
    ASSUME NEW f, NEW S, IsFiniteSet(S), NEW g, NEW h, IsFold(g, f, S), IsFold(h, f, S)
    PROVE  g = h
<1> DEFINE T == {s \in SUBSET S : g[s] # h[s]}
           R == StrictSubsetOrdering(S)
<1>1. IsWellFoundedOn(R, SUBSET S)
  BY FS_StrictSubsetOrderingWellFounded, FS_FiniteSubsetsOfFinite
<1>2. T = {}
  <2> SUFFICES ASSUME T # {} PROVE FALSE
    OBVIOUS
  <2> HIDE DEF R, T
  <2>1. PICK s \in T : \A u \in T : ~ (<<u, s>> \in R)
    <3>1. T \subseteq SUBSET S
      BY DEF T
    <3> QED BY <1>1, <3>1, WFMin
  <2>2. s \in SUBSET S /\ g[s] # h[s]
    BY <2>1 DEF T
  <2>3. s # {} /\ One(s) \in s
    BY <2>2 DEF IsFold, One
  <2> DEFINE u == s \ {One(s)}
  <2>4. <<u, s>> \in R
    BY <2>2, <2>3 DEF R, StrictSubsetOrdering
  <2>5. g[u] = h[u]
    BY <2>1, <2>2, <2>4 DEF T
  <2>6. g[s] = f[One(s)] + g[u] /\ h[s] = f[One(s)] + h[u]
    BY <2>2, <2>3 DEF IsFold
  <2> QED BY <2>2, <2>5, <2>6
<1>3. \A s \in SUBSET S : g[s] = h[s]
  BY <1>2
<1> QED BY <1>3 DEF IsFold

LEMMA SumCounts ==
    ASSUME NEW f, NEW S, IsFiniteSet(S), \A x \in S : f[x] \in Nat
    PROVE  SumFunctionOnSet(f, S) = Cardinality(Units(f, S))
<1> DEFINE c == [s \in SUBSET S |-> Cardinality(Units(f, s))]
<1>1. IsFold(c, f, S)
  BY CountIsFold
<1>2. (CHOOSE g : IsFold(g, f, S)) = c
  BY <1>1, FoldsAgree
<1>3. SumFunctionOnSet(f, S) = (CHOOSE g : IsFold(g, f, S))[S]
  BY DEF SumFunctionOnSet, FoldFunctionOnSet, MapThenFoldSet, IsFold, One
<1> QED BY <1>2, <1>3

LEMMA SumWithout ==
    ASSUME NEW f, NEW S, IsFiniteSet(S), \A y \in S : f[y] \in Nat, NEW x \in S
    PROVE  /\ SumFunctionOnSet(f, S) = f[x] + SumFunctionOnSet(f, S \ {x})
           /\ SumFunctionOnSet(f, S \ {x}) \in Nat
<1>1. IsFiniteSet(S \ {x})
  BY FS_RemoveElement
<1> QED BY <1>1, SumCounts, UnitsSplit, UnitsFinite

LEMMA SumSame ==
    ASSUME NEW f, NEW g, NEW S, IsFiniteSet(S), \A x \in S : f[x] \in Nat /\ f[x] = g[x]
    PROVE  SumFunctionOnSet(f, S) = SumFunctionOnSet(g, S)
<1>1. Units(f, S) = Units(g, S)
  BY DEF Units
<1> QED BY <1>1, SumCounts

USE UpdatesAssumption DEF UpdatesAssumption

(***************************************************************************)
(* The inductive invariant, in named parts.                                *)
(***************************************************************************)
Recorded == {"PUBLISHED", "WITHDRAWN"}

\* An update that does not exist, or was deleted, carries nothing.
AbsentIsEmpty == \A u \in Updates : status[u] = "ABSENT" => file[u] = "none"

\* News, which is released unexamined, carries no private attachment.
NewsIsPublic == \A u \in Updates : kind[u] = "NEWS" => file[u] # "PRIVATE"

\* Nothing is released before its publication, so nothing released is editable.
ReleasedIsRecorded ==
    \A u \in Updates : released[u] = "yes" => status[u] \in Recorded /\ file[u] = "PUBLIC"

\* A page that names the submitted revision shows what was submitted.
PageIsFaithful ==
    \A o \in Operators, u \in Updates : seen[o].update = u =>
        /\ seen[o].revision <= revision[u]
        /\ status[u] = "SUBMITTED" /\ seen[o].revision = revision[u]
              => seen[o].used = used[u] /\ seen[o].file = file[u]

UpdatesInv == /\ SupersessionAgrees /\ AbsentIsEmpty /\ NewsIsPublic
              /\ ReleasedIsRecorded /\ PageIsFaithful

(***************************************************************************)
(* Type correctness.                                                       *)
(***************************************************************************)
LEMMA InitTyped == Init => TypeOK
  BY DEF Init, TypeOK, Statuses, Kinds, Files, Nothing

\* What publish() changes keeps its type.
LEMMA PublishTyped ==
    ASSUME TypeOK, NEW u \in Updates, NEW release \in {"no", "yes"}, Publish(u, release)
    PROVE  /\ status' \in [Updates -> Statuses]
           /\ superseder' \in [Updates -> Updates \cup {NoUpdate}]
           /\ released' \in [Updates -> {"no", "yes"}]
  BY DEF Publish, TypeOK, Statuses

LEMMA StepTyped == TypeOK /\ [Next]_vars => TypeOK'
<1> SUFFICES ASSUME TypeOK, [Next]_vars PROVE TypeOK'
  OBVIOUS
<1>1. CASE Collect \/ Refund \/ Cancel
  BY <1>1 DEF Collect, Refund, Cancel, TypeOK
<1>2. ASSUME NEW u \in Updates, CreateUpdate(u)
      PROVE  TypeOK'
  <2>0. PICK k \in Kinds, target \in Updates \cup {NoUpdate} :
            /\ \E amount \in Content(k) : used' = [used EXCEPT ![u] = amount]
            /\ kind' = [kind EXCEPT ![u] = k]
            /\ corrects' = [corrects EXCEPT ![u] = target]
    BY <1>2 DEF CreateUpdate
  <2>1. PICK amount \in Content(k) : used' = [used EXCEPT ![u] = amount]
    BY <2>0
  <2>2. amount \in Amounts \cup {0} /\ (amount # 0 <=> k = "REALIZATION")
    BY DEF Content
  <2>3. /\ used' \in [Updates -> Amounts \cup {0}] /\ kind' \in [Updates -> Kinds]
        /\ corrects' \in [Updates -> Updates \cup {NoUpdate}]
        /\ \A v \in Updates : used'[v] # 0 <=> kind'[v] = "REALIZATION"
    BY <2>0, <2>1, <2>2 DEF TypeOK
  <2>4. status' \in [Updates -> Statuses]
    BY <1>2 DEF CreateUpdate, TypeOK, Statuses
  <2> QED
    BY <1>2, <2>3, <2>4 DEF CreateUpdate, TypeOK, moneyVars
<1>3. ASSUME NEW u \in Updates, EditUpdate(u)
      PROVE  TypeOK'
  <2>1. PICK amount \in Content(kind[u]) : used' = [used EXCEPT ![u] = amount]
    BY <1>3 DEF EditUpdate
  <2>2. amount \in Amounts \cup {0} /\ (amount # 0 <=> kind[u] = "REALIZATION")
    BY DEF Content
  <2>3. /\ used' \in [Updates -> Amounts \cup {0}]
        /\ \A v \in Updates : used'[v] # 0 <=> kind[v] = "REALIZATION"
    BY <2>1, <2>2 DEF TypeOK
  <2> QED
    BY <1>3, <2>3 DEF EditUpdate, TypeOK, moneyVars
<1>4. ASSUME NEW u \in Updates, Attach(u) \/ Detach(u)
      PROVE  TypeOK'
  BY <1>4 DEF Attach, Detach, TypeOK, Files, moneyVars
<1>5. ASSUME NEW u \in Updates, DeleteUpdate(u)
      PROVE  TypeOK'
  <2>1. /\ status' \in [Updates -> Statuses] /\ file' \in [Updates -> Files]
        /\ corrects' \in [Updates -> Updates \cup {NoUpdate}]
    BY <1>5 DEF DeleteUpdate, TypeOK, Statuses, Files
  <2>2. /\ used' \in [Updates -> Amounts \cup {0}] /\ kind' \in [Updates -> Kinds]
        /\ \A v \in Updates : used'[v] # 0 <=> kind'[v] = "REALIZATION"
    BY <1>5 DEF DeleteUpdate, TypeOK, Kinds
  <2> QED
    BY <1>5, <2>1, <2>2 DEF DeleteUpdate, TypeOK, moneyVars
<1>6. ASSUME NEW u \in Updates, Submittable(u), revision' = [revision EXCEPT ![u] = @ + 1]
      PROVE  revision' \in [Updates -> 0..MaxRevisions]
  BY <1>6 DEF Submittable, TypeOK
<1>7. ASSUME NEW u \in Updates, SubmitNews(u)
      PROVE  TypeOK'
  <2>1. /\ Publish(u, IF file[u] = "none" THEN "no" ELSE "yes")
        /\ revision' \in [Updates -> 0..MaxRevisions]
    BY <1>6, <1>7 DEF SubmitNews
  <2>2. (IF file[u] = "none" THEN "no" ELSE "yes") \in {"no", "yes"}
    OBVIOUS
  <2> QED
    BY <1>7, <2>1, <2>2, PublishTyped DEF SubmitNews, TypeOK, moneyVars
<1>8. ASSUME NEW u \in Updates, SubmitReport(u)
      PROVE  TypeOK'
  <2>1. status' \in [Updates -> Statuses] /\ revision' \in [Updates -> 0..MaxRevisions]
    BY <1>6, <1>8 DEF SubmitReport, TypeOK, Statuses
  <2> QED
    BY <1>8, <2>1 DEF SubmitReport, TypeOK, moneyVars
<1>9. ASSUME NEW u \in Updates, Withdraw(u)
      PROVE  TypeOK'
  BY <1>9 DEF Withdraw, TypeOK, Statuses, moneyVars
<1>10. ASSUME NEW o \in Operators, NEW u \in Updates, Load(o, u)
       PROVE  TypeOK'
  <2>1. seen' \in [Operators -> [update : Updates \cup {NoUpdate}, revision : 0..MaxRevisions,
                                 used : Amounts \cup {0}, file : Files]]
    BY <1>10 DEF Load, TypeOK
  <2> QED
    BY <1>10, <2>1 DEF Load, TypeOK, moneyVars
<1>11. ASSUME NEW o \in Operators, NEW u \in Updates, ReviewPublish(o, u)
       PROVE  TypeOK'
  <2>1. PICK release \in {"no", "yes"} : Publish(u, release)
    BY <1>11 DEF ReviewPublish
  <2> QED
    BY <1>11, <2>1, PublishTyped DEF ReviewPublish, TypeOK, moneyVars
<1>12. ASSUME NEW o \in Operators, NEW u \in Updates, ReviewRefuse(o, u)
       PROVE  TypeOK'
  BY <1>12 DEF ReviewRefuse, TypeOK, Statuses, moneyVars
<1>13. CASE UNCHANGED vars
  BY <1>13 DEF vars, moneyVars, TypeOK
<1> QED
  BY <1>1, <1>2, <1>3, <1>4, <1>5, <1>7, <1>8, <1>9, <1>10, <1>11, <1>12, <1>13 DEF Next

\* Every variable keeps its type, and exactly the reports carry a used amount.
THEOREM TypeCorrect == Spec => []TypeOK
  BY InitTyped, StepTyped, PTL DEF Spec

(***************************************************************************)
(* The invariant.  A step of the fundraiser or of an operator concerns one *)
(* update; either that update is outside the record before and after it,   *)
(* or it enters the record (Publish) or is withdrawn.                      *)
(***************************************************************************)
Untouched(v) == /\ status'[v] = status[v] /\ kind'[v] = kind[v] /\ used'[v] = used[v]
                /\ file'[v] = file[v] /\ corrects'[v] = corrects[v]
                /\ revision'[v] = revision[v]

\* Only u is touched, and u is not part of the public record.
Drafting(u) == /\ status[u] \notin Recorded /\ status'[u] \notin Recorded
               /\ \A v \in Updates \ {u} : Untouched(v)
               /\ UNCHANGED <<superseder, released>>

LEMMA InitUpdates == Init => UpdatesInv
  BY DEF Init, UpdatesInv, SupersessionAgrees, AbsentIsEmpty, NewsIsPublic,
         ReleasedIsRecorded, PageIsFaithful, Nothing, Recorded

\* Every action on an update that is not, and does not become, public.
LEMMA DraftingSteps ==
    ASSUME TypeOK, NEW u \in Updates,
           \/ CreateUpdate(u) \/ EditUpdate(u) \/ Attach(u) \/ Detach(u) \/ DeleteUpdate(u)
           \/ SubmitReport(u) \/ \E o \in Operators : ReviewRefuse(o, u)
    PROVE  Drafting(u)
<1>1. CASE CreateUpdate(u)
  BY <1>1 DEF CreateUpdate, Drafting, Untouched, Recorded, TypeOK
<1>2. CASE EditUpdate(u)
  BY <1>2 DEF EditUpdate, Editable, Drafting, Untouched, Recorded, TypeOK
<1>3. CASE Attach(u) \/ Detach(u)
  BY <1>3 DEF Attach, Detach, Editable, Drafting, Untouched, Recorded, TypeOK
<1>4. CASE DeleteUpdate(u)
  BY <1>4 DEF DeleteUpdate, Drafting, Untouched, Recorded, TypeOK
<1>5. CASE SubmitReport(u)
  BY <1>5 DEF SubmitReport, Submittable, Editable, Drafting, Untouched, Recorded, TypeOK
<1>6. CASE \E o \in Operators : ReviewRefuse(o, u)
  BY <1>6 DEF ReviewRefuse, Examines, Drafting, Untouched, Recorded, TypeOK
<1> QED
  BY <1>1, <1>2, <1>3, <1>4, <1>5, <1>6

\* Such an action leaves the links of the public record as they were.
LEMMA DraftingKeeps ==
    ASSUME UpdatesInv, NEW u \in Updates, Drafting(u)
    PROVE  SupersessionAgrees' /\ ReleasedIsRecorded'
<1>1. SupersessionAgrees'
  <2>1. SUFFICES ASSUME NEW t \in Updates, NEW v \in Updates
                 PROVE  /\ superseder'[t] = v <=> status'[v] = "PUBLISHED" /\ corrects'[v] = t
                        /\ superseder'[t] = v => /\ kind'[t] = kind'[v]
                                                 /\ status'[t] \in Recorded
    BY DEF SupersessionAgrees, Recorded
  <2>2. /\ superseder[t] = v <=> status[v] = "PUBLISHED" /\ corrects[v] = t
        /\ superseder[t] = v => kind[t] = kind[v] /\ status[t] \in Recorded
    BY DEF UpdatesInv, SupersessionAgrees, Recorded
  <2>3. superseder[t] = v => t # u /\ v # u
    BY <2>2 DEF Drafting, Recorded
  <2> QED
    BY <2>2, <2>3 DEF Drafting, Untouched, Recorded
<1>2. ReleasedIsRecorded'
  BY DEF UpdatesInv, ReleasedIsRecorded, Drafting, Untouched, Recorded
<1> QED
  BY <1>1, <1>2

\* A publication links its target to it, and releases only what is proposed
\* as public.
LEMMA PublishKeeps ==
    ASSUME TypeOK, UpdatesInv, NEW u \in Updates, NEW release \in {"no", "yes"},
           status[u] \notin Recorded, release = "yes" => file[u] = "PUBLIC",
           Publish(u, release), UNCHANGED <<kind, used, file, corrects, seen>>
    PROVE  /\ SupersessionAgrees' /\ AbsentIsEmpty' /\ NewsIsPublic' /\ ReleasedIsRecorded'
<1>1. status' = [status EXCEPT ![u] = "PUBLISHED"] /\ released' = [released EXCEPT ![u] = release]
  BY DEF Publish
<1>2. SupersessionAgrees'
  <2>1. SUFFICES ASSUME NEW t \in Updates, NEW v \in Updates
                 PROVE  /\ superseder'[t] = v <=> status'[v] = "PUBLISHED" /\ corrects[v] = t
                        /\ superseder'[t] = v => /\ kind[t] = kind[v]
                                                 /\ status'[t] \in Recorded
    BY DEF SupersessionAgrees, Recorded
  <2>2. /\ superseder[t] = v <=> status[v] = "PUBLISHED" /\ corrects[v] = t
        /\ superseder[t] = v => kind[t] = kind[v] /\ status[t] \in Recorded
    BY DEF UpdatesInv, SupersessionAgrees, Recorded
  <2>3. status[t] \in Recorded => status'[t] \in Recorded
    BY <1>1 DEF TypeOK, Recorded
  <2>4. v # u => status'[v] = status[v]
    BY <1>1 DEF TypeOK
  <2>5. status'[u] = "PUBLISHED"
    BY <1>1 DEF TypeOK
  <2>6. CASE corrects[u] = t
    <3>1. kind[t] = kind[u] /\ status[t] = "PUBLISHED" /\ superseder[t] = NoUpdate
      BY <2>6 DEF Publish, Correctable
    <3>2. superseder'[t] = u
      BY <2>6 DEF Publish, TypeOK
    <3> QED
      BY <2>2, <2>3, <2>4, <2>5, <2>6, <3>1, <3>2 DEF Recorded
  <2>7. CASE corrects[u] # t
    <3>1. superseder'[t] = superseder[t]
      BY <2>7 DEF Publish, TypeOK
    <3> QED
      BY <2>2, <2>3, <2>4, <2>7, <3>1 DEF Recorded
  <2> QED
    BY <2>6, <2>7
<1>3. AbsentIsEmpty' /\ NewsIsPublic'
  BY <1>1 DEF UpdatesInv, AbsentIsEmpty, NewsIsPublic, TypeOK
<1>4. ReleasedIsRecorded'
  BY <1>1 DEF UpdatesInv, ReleasedIsRecorded, Recorded, TypeOK
<1> QED
  BY <1>2, <1>3, <1>4

\* A withdrawn correction is no longer named as a replacement.
LEMMA WithdrawKeeps ==
    ASSUME TypeOK, UpdatesInv, NEW u \in Updates, Withdraw(u)
    PROVE  SupersessionAgrees' /\ AbsentIsEmpty' /\ NewsIsPublic' /\ ReleasedIsRecorded'
<1>1. SupersessionAgrees'
  <2>1. SUFFICES ASSUME NEW t \in Updates, NEW v \in Updates
                 PROVE  /\ superseder'[t] = v <=> status'[v] = "PUBLISHED" /\ corrects[v] = t
                        /\ superseder'[t] = v => /\ kind[t] = kind[v]
                                                 /\ status'[t] \in Recorded
    BY DEF SupersessionAgrees, Recorded, Withdraw
  <2>2. /\ superseder[t] = v <=> status[v] = "PUBLISHED" /\ corrects[v] = t
        /\ superseder[t] = v => kind[t] = kind[v] /\ status[t] \in Recorded
    BY DEF UpdatesInv, SupersessionAgrees, Recorded
  <2>3. /\ status[t] \in Recorded => status'[t] \in Recorded
        /\ status'[u] = "WITHDRAWN" /\ v # u => status'[v] = status[v]
    BY DEF Withdraw, TypeOK, Recorded
  <2>4. superseder'[t] = v <=> superseder[t] = v /\ v # u
    BY DEF Withdraw, TypeOK
  <2> QED
    BY <2>2, <2>3, <2>4 DEF Withdraw, TypeOK
<1>2. AbsentIsEmpty' /\ NewsIsPublic' /\ ReleasedIsRecorded'
  BY DEF UpdatesInv, AbsentIsEmpty, NewsIsPublic, ReleasedIsRecorded, Withdraw, TypeOK, Recorded
<1> QED
  BY <1>1, <1>2

\* An action on u makes no page wrong: afterwards u awaits no review, or
\* awaits that of a revision nobody has loaded.
LEMMA PageKeeps ==
    ASSUME TypeOK, UpdatesInv, NEW u \in Updates, UNCHANGED seen,
           \A v \in Updates \ {u} : Untouched(v),
           revision'[u] \in Nat, revision'[u] >= revision[u],
           status'[u] # "SUBMITTED" \/ revision'[u] > revision[u]
    PROVE  PageIsFaithful'
<1>1. SUFFICES ASSUME NEW o \in Operators, NEW v \in Updates, seen[o].update = v
               PROVE  /\ seen[o].revision <= revision'[v]
                      /\ status'[v] = "SUBMITTED" /\ seen[o].revision = revision'[v]
                            => seen[o].used = used'[v] /\ seen[o].file = file'[v]
  BY DEF PageIsFaithful
<1>2. /\ seen[o].revision <= revision[v]
      /\ status[v] = "SUBMITTED" /\ seen[o].revision = revision[v]
            => seen[o].used = used[v] /\ seen[o].file = file[v]
  BY <1>1 DEF UpdatesInv, PageIsFaithful
<1>3. seen[o].revision \in Nat /\ revision[v] \in Nat
  BY DEF TypeOK
<1> QED
  BY <1>2, <1>3 DEF Untouched

LEMMA StepKeeps == TypeOK /\ UpdatesInv /\ [Next]_vars => UpdatesInv'
<1> SUFFICES ASSUME TypeOK, UpdatesInv, [Next]_vars PROVE UpdatesInv'
  OBVIOUS
<1>1. CASE (Collect \/ Refund \/ Cancel) \/ UNCHANGED vars
  <2>1. UNCHANGED <<status, kind, used, file, corrects, superseder, revision, released, seen>>
    BY <1>1 DEF Collect, Refund, Cancel, vars
  <2> QED
    BY <2>1 DEF UpdatesInv, SupersessionAgrees, AbsentIsEmpty, NewsIsPublic,
                ReleasedIsRecorded, PageIsFaithful
<1>2. ASSUME NEW u \in Updates,
             \/ CreateUpdate(u) \/ EditUpdate(u) \/ Attach(u) \/ Detach(u)
             \/ DeleteUpdate(u) \/ \E o \in Operators : ReviewRefuse(o, u)
      PROVE  UpdatesInv'
  <2>1. Drafting(u)
    BY <1>2, DraftingSteps
  <2>2. UNCHANGED <<revision, seen>> /\ status'[u] # "SUBMITTED"
    BY <1>2 DEF CreateUpdate, EditUpdate, Attach, Detach, DeleteUpdate, ReviewRefuse,
                Editable, TypeOK
  <2>3. revision[u] \in Nat
    BY DEF TypeOK
  <2>4. PageIsFaithful'
    BY <2>1, <2>2, <2>3, PageKeeps DEF Drafting
  <2>5. AbsentIsEmpty' /\ NewsIsPublic'
    <3>1. \A v \in Updates \ {u} : Untouched(v)
      BY <2>1 DEF Drafting
    <3>2. /\ status'[u] = "ABSENT" => file'[u] = "none"
          /\ kind'[u] = "NEWS" => file'[u] # "PRIVATE"
      <4>1. CASE CreateUpdate(u)
        BY <4>1 DEF CreateUpdate, UpdatesInv, AbsentIsEmpty, TypeOK
      <4>2. CASE EditUpdate(u)
        BY <4>2 DEF EditUpdate, Editable, UpdatesInv, NewsIsPublic
      <4>3. CASE Attach(u) \/ Detach(u)
        BY <4>3 DEF Attach, Detach, Editable, TypeOK
      <4>4. CASE DeleteUpdate(u)
        BY <4>4 DEF DeleteUpdate, TypeOK
      <4>5. CASE \E o \in Operators : ReviewRefuse(o, u)
        BY <4>5 DEF ReviewRefuse, UpdatesInv, NewsIsPublic, TypeOK
      <4> QED
        BY <1>2, <4>1, <4>2, <4>3, <4>4, <4>5
    <3> QED
      BY <3>1, <3>2 DEF UpdatesInv, AbsentIsEmpty, NewsIsPublic, Untouched
  <2> QED
    BY <2>1, <2>4, <2>5, DraftingKeeps DEF UpdatesInv
<1>3. ASSUME NEW u \in Updates, SubmitReport(u)
      PROVE  UpdatesInv'
  <2>1. Drafting(u)
    BY <1>3, DraftingSteps
  <2>2. revision'[u] = revision[u] + 1 /\ revision[u] \in Nat /\ seen' = seen
    BY <1>3 DEF SubmitReport, TypeOK
  <2>3. PageIsFaithful'
    BY <2>1, <2>2, PageKeeps DEF Drafting
  <2>4. AbsentIsEmpty' /\ NewsIsPublic'
    BY <1>3 DEF SubmitReport, UpdatesInv, AbsentIsEmpty, NewsIsPublic, TypeOK
  <2> QED
    BY <2>1, <2>3, <2>4, DraftingKeeps DEF UpdatesInv
<1>4. ASSUME NEW u \in Updates, SubmitNews(u)
      PROVE  UpdatesInv'
  <2>1. PICK release \in {"no", "yes"} :
            Publish(u, release) /\ (release = "yes" => file[u] # "none")
    BY <1>4 DEF SubmitNews
  <2>2. status[u] \notin Recorded /\ (release = "yes" => file[u] = "PUBLIC")
    BY <1>4, <2>1 DEF SubmitNews, Submittable, Editable, Recorded, UpdatesInv, NewsIsPublic,
                      TypeOK, Files
  <2>3. UNCHANGED <<kind, used, file, corrects, seen>>
    BY <1>4 DEF SubmitNews
  <2>4. /\ \A v \in Updates \ {u} : Untouched(v)
        /\ revision'[u] = revision[u] + 1 /\ revision[u] \in Nat
    BY <1>4, <2>1, <2>3 DEF SubmitNews, Publish, Untouched, TypeOK
  <2>5. PageIsFaithful'
    BY <2>3, <2>4, PageKeeps
  <2> QED
    BY <2>1, <2>2, <2>3, <2>5, PublishKeeps DEF UpdatesInv
<1>5. ASSUME NEW o \in Operators, NEW u \in Updates, ReviewPublish(o, u)
      PROVE  UpdatesInv'
  <2>1. PICK release \in {"no", "yes"} :
            Publish(u, release) /\ (release = "yes" => file[u] = "PUBLIC")
    BY <1>5 DEF ReviewPublish
  <2>2. status[u] \notin Recorded
    BY <1>5 DEF ReviewPublish, Examines, Recorded
  <2>3. UNCHANGED <<kind, used, file, corrects, revision, seen>>
    BY <1>5 DEF ReviewPublish
  <2>4. /\ \A v \in Updates \ {u} : Untouched(v)
        /\ status'[u] = "PUBLISHED" /\ revision[u] \in Nat
    BY <2>1, <2>3 DEF Publish, Untouched, TypeOK
  <2>5. PageIsFaithful'
    BY <2>3, <2>4, PageKeeps
  <2> QED
    BY <2>1, <2>2, <2>3, <2>5, PublishKeeps DEF UpdatesInv
<1>6. ASSUME NEW u \in Updates, Withdraw(u)
      PROVE  UpdatesInv'
  <2>1. /\ \A v \in Updates \ {u} : Untouched(v)
        /\ status'[u] = "WITHDRAWN" /\ revision[u] \in Nat /\ UNCHANGED <<revision, seen>>
    BY <1>6 DEF Withdraw, Untouched, TypeOK
  <2>2. PageIsFaithful'
    BY <2>1, PageKeeps
  <2> QED
    BY <1>6, <2>2, WithdrawKeeps DEF UpdatesInv
<1>7. ASSUME NEW o \in Operators, NEW u \in Updates, Load(o, u)
      PROVE  UpdatesInv'
  <2>1. UNCHANGED <<status, kind, used, file, corrects, superseder, revision, released>>
    BY <1>7 DEF Load
  <2>2. /\ seen' = [seen EXCEPT ![o] = [update |-> u, revision |-> revision[u],
                                        used |-> used[u], file |-> file[u]]]
        /\ revision[u] \in Nat
    BY <1>7 DEF Load, TypeOK
  <2>3. PageIsFaithful'
    BY <2>1, <2>2 DEF UpdatesInv, PageIsFaithful, TypeOK
  <2> QED
    BY <2>1, <2>3 DEF UpdatesInv, SupersessionAgrees, AbsentIsEmpty, NewsIsPublic,
                      ReleasedIsRecorded
<1> QED
  BY <1>1, <1>2, <1>3, <1>4, <1>5, <1>6, <1>7 DEF Next

LEMMA Invariance == Spec => [](TypeOK /\ UpdatesInv)
<1>1. Init => TypeOK /\ UpdatesInv
  BY InitTyped, InitUpdates
<1>2. (TypeOK /\ UpdatesInv) /\ [Next]_vars => (TypeOK /\ UpdatesInv)'
  BY StepTyped, StepKeeps
<1> QED
  BY <1>1, <1>2, PTL DEF Spec

\* The two links of a correction always agree, whatever was corrected, corrected
\* again or withdrawn in between.
THEOREM LinksAgree == Spec => []SupersessionAgrees
  BY Invariance, PTL DEF UpdatesInv

\* No attachment is ever public that its fundraiser did not propose as public.
THEOREM OnlyProposedIsReleased == Spec => []OnlyProposedIsPublic
<1>1. UpdatesInv => OnlyProposedIsPublic
  BY DEF UpdatesInv, ReleasedIsRecorded, OnlyProposedIsPublic
<1> QED
  BY <1>1, Invariance, PTL

(***************************************************************************)
(* What a step may never do.                                               *)
(***************************************************************************)
Stays(u) == /\ status'[u] \in {status[u], "WITHDRAWN"}
            /\ used'[u] = used[u] /\ file'[u] = file[u] /\ released'[u] = released[u]
            /\ kind'[u] = kind[u] /\ corrects'[u] = corrects[u]

\* A record is only ever touched by its own withdrawal.
LEMMA RecordStays ==
    ASSUME TypeOK, Next, NEW u \in Updates, status[u] \in Recorded
    PROVE  Stays(u)
<1>1. CASE Collect \/ Refund \/ Cancel
  BY <1>1 DEF Collect, Refund, Cancel, Stays
<1>2. ASSUME NEW v \in Updates, Drafting(v)
      PROVE  Stays(u)
  BY <1>2 DEF Drafting, Untouched, Stays
<1>3. ASSUME NEW v \in Updates, SubmitNews(v) \/ \E o \in Operators : ReviewPublish(o, v)
      PROVE  Stays(u)
  <2>1. /\ v # u /\ (\E release \in {"no", "yes"} : Publish(v, release))
        /\ UNCHANGED <<kind, used, file, corrects>>
    BY <1>3 DEF SubmitNews, Submittable, Editable, ReviewPublish, Examines, Recorded
  <2> QED
    BY <2>1 DEF Publish, Stays, TypeOK
<1>4. ASSUME NEW v \in Updates, Withdraw(v)
      PROVE  Stays(u)
  BY <1>4 DEF Withdraw, Stays, TypeOK
<1>5. ASSUME NEW o \in Operators, NEW v \in Updates, Load(o, v)
      PROVE  Stays(u)
  BY <1>5 DEF Load, Stays
<1> QED
  BY <1>1, <1>2, <1>3, <1>4, <1>5, DraftingSteps DEF Next

\* A published or withdrawn update never changes its content or disappears.
THEOREM RecordIsPermanent == Spec => PublicRecordStays
<1>1. TypeOK /\ [Next]_vars =>
          [\A u \in Updates : status[u] \in {"PUBLISHED", "WITHDRAWN"} =>
              /\ status'[u] \in {status[u], "WITHDRAWN"}
              /\ used'[u] = used[u] /\ file'[u] = file[u] /\ released'[u] = released[u]
              /\ kind'[u] = kind[u] /\ corrects'[u] = corrects[u]]_vars
  BY RecordStays DEF Recorded, Stays
<1> QED
  BY <1>1, Invariance, PTL DEF Spec, PublicRecordStays

\* A report becomes public through the decision of an operator who has loaded
\* what it then says.
LEMMA ReportIsExamined ==
    ASSUME TypeOK, UpdatesInv, Next, NEW u \in Updates, Publishes(u), kind[u] = "REALIZATION"
    PROVE  \E o \in Operators : /\ seen[o].update = u
                                /\ seen[o].used = used'[u] /\ seen[o].file = file'[u]
<1>1. CASE Collect \/ Refund \/ Cancel
  BY <1>1 DEF Collect, Refund, Cancel, Publishes
<1>2. ASSUME NEW v \in Updates, Drafting(v)
      PROVE  FALSE
  BY <1>2 DEF Drafting, Untouched, Publishes, Recorded
<1>3. ASSUME NEW v \in Updates, SubmitNews(v)
      PROVE  FALSE
  BY <1>3 DEF SubmitNews, Publish, Publishes, TypeOK
<1>4. ASSUME NEW v \in Updates, Withdraw(v)
      PROVE  FALSE
  BY <1>4 DEF Withdraw, Publishes, TypeOK
<1>5. ASSUME NEW o \in Operators, NEW v \in Updates, Load(o, v)
      PROVE  FALSE
  BY <1>5 DEF Load, Publishes
<1>6. ASSUME NEW o \in Operators, NEW v \in Updates, ReviewPublish(o, v)
      PROVE  /\ seen[o].update = u
             /\ seen[o].used = used'[u] /\ seen[o].file = file'[u]
  <2>1. v = u
    BY <1>6 DEF ReviewPublish, Publish, Publishes, TypeOK
  <2>2. /\ seen[o].update = u /\ status[u] = "SUBMITTED"
        /\ revision[u] = seen[o].revision /\ UNCHANGED <<used, file>>
    BY <1>6, <2>1 DEF ReviewPublish, Examines
  <2> QED
    BY <2>2 DEF UpdatesInv, PageIsFaithful
<1> QED
  BY <1>1, <1>2, <1>3, <1>4, <1>5, <1>6, DraftingSteps DEF Next

\* No report is published that an operator did not load as it is.
THEOREM ReportsAreExamined == Spec => PublishedAsExamined
<1>1. TypeOK /\ UpdatesInv /\ [Next]_vars =>
          [\A u \in Updates : Publishes(u) /\ kind[u] = "REALIZATION" =>
              \E o \in Operators : /\ seen[o].update = u
                                   /\ seen[o].used = used'[u] /\ seen[o].file = file'[u]]_vars
  BY ReportIsExamined
<1> QED
  BY <1>1, Invariance, PTL DEF Spec, PublishedAsExamined

(***************************************************************************)
(* The reported total.  A publication adds its report to the sum and takes *)
(* away the one it replaces, which is what WithinCollected compares.       *)
(***************************************************************************)
CountedOnes == {u \in Updates : Counted(u)}

LEMMA SumOfFewer ==
    ASSUME NEW f, NEW T, NEW S \in SUBSET T, IsFiniteSet(T), \A x \in T : f[x] \in Nat
    PROVE  SumFunctionOnSet(f, S) <= SumFunctionOnSet(f, T)
<1>1. IsFiniteSet(S) /\ Units(f, S) \subseteq Units(f, T)
  BY FS_Subset DEF Units
<1>2. /\ IsFiniteSet(Units(f, T)) /\ Cardinality(Units(f, T)) \in Nat
      /\ Cardinality(Units(f, S)) \in Nat
  BY <1>1, UnitsFinite
<1>3. Cardinality(Units(f, S)) <= Cardinality(Units(f, T))
  BY <1>1, <1>2, FS_Subset
<1>4. /\ SumFunctionOnSet(f, S) = Cardinality(Units(f, S))
      /\ SumFunctionOnSet(f, T) = Cardinality(Units(f, T))
  BY <1>1, SumCounts
<1> QED BY <1>3, <1>4

LEMMA AmountsAreNatural ==
    ASSUME NEW f \in [Updates -> Amounts \cup {0}], NEW S \in SUBSET Updates
    PROVE  (\A u \in Updates : f[u] \in Nat) /\ SumFunctionOnSet(f, S) \in Nat
<1>1. \A n \in Amounts \cup {0} : n \in Nat
  <2>1. \A n \in Amounts : n \in Nat
    OBVIOUS
  <2> QED BY <2>1
<1>2. \A u \in Updates : f[u] \in Nat
  BY <1>1
<1>3. SumFunctionOnSet(f, S) \in Nat
  <2>1. IsFiniteSet(S) /\ \A u \in S : f[u] \in Nat
    BY <1>2, FS_Subset
  <2> QED BY <2>1, SumCounts, UnitsFinite
<1> QED BY <1>2, <1>3

LEMMA CountedAreFinite ==
    ASSUME TypeOK
    PROVE  /\ IsFiniteSet(CountedOnes) /\ \A u \in Updates : used[u] \in Nat
           /\ Reported = SumFunctionOnSet(used, CountedOnes) /\ Reported \in Nat
<1>1. IsFiniteSet(CountedOnes)
  BY FS_Subset DEF CountedOnes
<1>2. \A u \in Updates : used[u] \in Nat
  BY AmountsAreNatural DEF TypeOK
<1>3. Reported = SumFunctionOnSet(used, CountedOnes)
  BY DEF Reported, CountedOnes
<1>4. CountedOnes \subseteq Updates
  BY DEF CountedOnes
<1>5. SumFunctionOnSet(used, CountedOnes) \in Nat
  BY <1>4, AmountsAreNatural DEF TypeOK
<1> QED BY <1>1, <1>2, <1>3, <1>5

\* What leaves the counted reports as they are leaves their total as it is.
LEMMA SameReports ==
    ASSUME TypeOK, CountedOnes' = CountedOnes, \A u \in CountedOnes : used'[u] = used[u]
    PROVE  Reported' = Reported
<1>1. CountedOnes \subseteq Updates
  BY DEF CountedOnes
<1>2. SumFunctionOnSet(used, CountedOnes) = SumFunctionOnSet(used', CountedOnes)
  BY <1>1, CountedAreFinite, SumSame
<1>3. Reported' = SumFunctionOnSet(used', CountedOnes')
  BY DEF Reported, CountedOnes
<1> QED BY <1>2, <1>3, CountedAreFinite

LEMMA DraftingReports ==
    ASSUME TypeOK, NEW u \in Updates, Drafting(u)
    PROVE  Reported' = Reported /\ \A v \in Updates : ~Publishes(v)
<1>1. CountedOnes' = CountedOnes /\ u \notin CountedOnes
  BY DEF CountedOnes, Counted, Drafting, Untouched, Recorded
<1>2. \A v \in CountedOnes : used'[v] = used[v]
  BY <1>1 DEF CountedOnes, Drafting, Untouched
<1>3. \A v \in Updates : ~Publishes(v)
  BY DEF Publishes, Drafting, Untouched, Recorded
<1> QED BY <1>1, <1>2, <1>3, SameReports

LEMMA PublishReports ==
    ASSUME TypeOK, UpdatesInv, NEW u \in Updates, NEW release \in {"no", "yes"},
           status[u] \notin Recorded, Publish(u, release), UNCHANGED <<kind, used, corrects>>
    PROVE  /\ kind[u] = "NEWS" => Reported' = Reported
           /\ kind[u] = "REALIZATION" => Reported' = (Reported - Replaced(u)) + used[u]
           /\ \A v \in Updates \ {u} : ~Publishes(v)
<1>1. /\ status'[u] = "PUBLISHED" /\ \A v \in Updates \ {u} : status'[v] = status[v]
      /\ u \notin CountedOnes
  BY DEF Publish, TypeOK, CountedOnes, Counted, Recorded
<1>2. \A v \in Updates : superseder'[v] = IF v = corrects[u] THEN u ELSE superseder[v]
  BY DEF Publish, TypeOK
<1>3. superseder[u] = NoUpdate
  BY DEF TypeOK, UpdatesInv, SupersessionAgrees, Recorded
<1>4. corrects[u] # NoUpdate =>
          /\ corrects[u] \in Updates \ {u} /\ kind[corrects[u]] = kind[u]
          /\ kind[u] = "REALIZATION" => corrects[u] \in CountedOnes
  BY <1>1 DEF Publish, Correctable, TypeOK, CountedOnes, Counted, Recorded
<1>5. CASE kind[u] = "NEWS"
  <2>1. CountedOnes' = CountedOnes
    BY <1>1, <1>2, <1>4, <1>5 DEF CountedOnes, Counted
  <2> QED BY <1>1, <1>5, <2>1, SameReports DEF Publishes
<1>6. CASE kind[u] = "REALIZATION"
  <2> DEFINE rest == CountedOnes \ {corrects[u]}
  <2>1. CountedOnes' = rest \cup {u} /\ u \notin rest
    BY <1>1, <1>2, <1>3, <1>4, <1>6 DEF CountedOnes, Counted
  <2>2. IsFiniteSet(rest \cup {u}) /\ IsFiniteSet(CountedOnes)
    BY CountedAreFinite, FS_RemoveElement, FS_AddElement
  <2>3. \A v \in Updates : used[v] \in Nat
    BY CountedAreFinite
  <2>4. (rest \cup {u}) \subseteq Updates /\ CountedOnes \subseteq Updates /\ (rest \cup {u}) \ {u} = rest
    BY <2>1 DEF CountedOnes
  <2>5. /\ SumFunctionOnSet(used, rest \cup {u}) = used[u] + SumFunctionOnSet(used, rest)
        /\ SumFunctionOnSet(used, rest) \in Nat
    <3> DEFINE all == rest \cup {u}
    <3>1. u \in all /\ IsFiniteSet(all) /\ \A v \in all : used[v] \in Nat
      BY <2>2, <2>3, <2>4
    <3>2. all \ {u} = rest
      BY <2>4
    <3> HIDE DEF all
    <3>3. /\ SumFunctionOnSet(used, all) = used[u] + SumFunctionOnSet(used, all \ {u})
          /\ SumFunctionOnSet(used, all \ {u}) \in Nat
      BY <3>1, SumWithout
    <3> QED BY <3>2, <3>3 DEF all
  <2>6. Reported = Replaced(u) + SumFunctionOnSet(used, rest) /\ Replaced(u) \in Nat
    <3>1. CASE corrects[u] = NoUpdate
      <4>1. rest = CountedOnes
        BY <3>1 DEF CountedOnes
      <4> QED BY <2>5, <3>1, <4>1, CountedAreFinite DEF Replaced
    <3>2. CASE corrects[u] # NoUpdate
      <4>1. SumFunctionOnSet(used, CountedOnes) = used[corrects[u]] + SumFunctionOnSet(used, rest)
        BY <1>4, <1>6, <2>2, <2>3, <2>4, <3>2, SumWithout
      <4> QED BY <1>4, <2>3, <3>2, <4>1, CountedAreFinite DEF Replaced
    <3> QED BY <3>1, <3>2
  <2>7. Reported' = SumFunctionOnSet(used, rest \cup {u})
    BY <2>1 DEF Reported, CountedOnes
  <2>8. Reported' = (Reported - Replaced(u)) + used[u]
    <3> HIDE DEF rest
    <3> QED BY <2>3, <2>5, <2>6, <2>7
  <2> QED BY <1>1, <1>6, <2>8 DEF Publishes
<1> QED BY <1>5, <1>6 DEF TypeOK, Kinds

\* Withdrawing what corrects nothing only takes it out of the total.
LEMMA WithdrawReports ==
    ASSUME TypeOK, UpdatesInv, NEW u \in Updates, Withdraw(u)
    PROVE  /\ \A v \in Updates : ~Publishes(v)
           /\ corrects[u] = NoUpdate => Reported' <= Reported
<1>1. /\ status'[u] = "WITHDRAWN" /\ \A v \in Updates \ {u} : status'[v] = status[v]
      /\ UNCHANGED <<kind, used>>
  BY DEF Withdraw, TypeOK
<1>2. ASSUME corrects[u] = NoUpdate
      PROVE  Reported' <= Reported
  <2>1. \A v \in Updates : superseder'[v] = superseder[v]
    BY <1>2 DEF Withdraw, UpdatesInv, SupersessionAgrees, TypeOK
  <2>2. CountedOnes' \in SUBSET CountedOnes /\ CountedOnes \subseteq Updates
    BY <1>1, <2>1 DEF CountedOnes, Counted
  <2>3. SumFunctionOnSet(used, CountedOnes') <= SumFunctionOnSet(used, CountedOnes)
    BY <2>2, CountedAreFinite, SumOfFewer
  <2>4. Reported' = SumFunctionOnSet(used, CountedOnes')
    BY <1>1 DEF Reported, CountedOnes
  <2> QED BY <2>3, <2>4, CountedAreFinite
<1> QED BY <1>1, <1>2 DEF Publishes

OverrunCaused ==
    /\ (\E u \in Updates : Publishes(u) /\ kind[u] = "REALIZATION") => Reported' <= collected
    /\ Reported <= collected /\ Reported' > collected' =>
          \/ collected' < collected
          \/ \E u \in Updates : /\ status[u] = "PUBLISHED" /\ status'[u] = "WITHDRAWN"
                                 /\ corrects[u] # NoUpdate

LEMMA OverrunStep ==
    ASSUME TypeOK, TypeOK', UpdatesInv, Next
    PROVE  OverrunCaused
<1>0. Reported \in Nat /\ Reported' \in Nat /\ collected \in Nat /\ collected' \in Nat
  <2>1. CountedOnes' \subseteq Updates /\ used' \in [Updates -> Amounts \cup {0}]
    BY DEF CountedOnes, TypeOK
  <2>2. Reported' \in Nat
    BY <2>1, AmountsAreNatural DEF Reported, CountedOnes
  <2> QED BY <2>2, CountedAreFinite DEF TypeOK
<1>1. ASSUME Reported' = Reported, \A v \in Updates : ~Publishes(v)
      PROVE  OverrunCaused
  BY <1>0, <1>1 DEF OverrunCaused
<1>2. ASSUME UNCHANGED <<status, kind, used, superseder>>
      PROVE  OverrunCaused
  BY <1>1, <1>2 DEF Reported, Counted, Publishes
<1>3. CASE Collect \/ Refund \/ Cancel
  BY <1>2, <1>3 DEF Collect, Refund, Cancel
<1>4. ASSUME NEW o \in Operators, NEW u \in Updates, Load(o, u)
      PROVE  OverrunCaused
  BY <1>2, <1>4 DEF Load
<1>5. ASSUME NEW u \in Updates, Drafting(u)
      PROVE  OverrunCaused
  BY <1>1, <1>5, DraftingReports
<1>6. ASSUME NEW u \in Updates, SubmitNews(u)
      PROVE  OverrunCaused
  <2>1. /\ kind[u] = "NEWS" /\ status[u] \notin Recorded /\ UNCHANGED <<collected, kind, used, corrects>>
        /\ \E release \in {"no", "yes"} : Publish(u, release)
    BY <1>6 DEF SubmitNews, Submittable, Editable, Recorded, moneyVars
  <2>2. Reported' = Reported /\ \A v \in Updates \ {u} : ~Publishes(v)
    BY <2>1, PublishReports
  <2> QED BY <1>0, <2>1, <2>2 DEF OverrunCaused
<1>7. ASSUME NEW o \in Operators, NEW u \in Updates, ReviewPublish(o, u)
      PROVE  OverrunCaused
  <2>1. /\ WithinCollected(u) /\ status[u] \notin Recorded
        /\ UNCHANGED <<collected, kind, used, corrects>>
        /\ \E release \in {"no", "yes"} : Publish(u, release)
    BY <1>7 DEF ReviewPublish, Examines, Recorded, moneyVars
  <2>2. /\ kind[u] = "NEWS" => Reported' = Reported
        /\ kind[u] = "REALIZATION" => Reported' = (Reported - Replaced(u)) + used[u]
        /\ \A v \in Updates \ {u} : ~Publishes(v)
    BY <2>1, PublishReports
  <2>3. CASE kind[u] = "NEWS"
    BY <1>0, <2>1, <2>2, <2>3 DEF OverrunCaused
  <2>4. CASE kind[u] = "REALIZATION"
    <3>1. Reported' <= collected
      BY <2>1, <2>2, <2>4 DEF WithinCollected
    <3> QED BY <1>0, <2>1, <3>1 DEF OverrunCaused
  <2> QED BY <2>3, <2>4 DEF TypeOK, Kinds
<1>8. ASSUME NEW u \in Updates, Withdraw(u)
      PROVE  OverrunCaused
  <2>1. /\ status[u] = "PUBLISHED" /\ status'[u] = "WITHDRAWN" /\ collected' = collected
    BY <1>8 DEF Withdraw, TypeOK, moneyVars
  <2> QED BY <1>0, <1>8, <2>1, WithdrawReports DEF OverrunCaused
<1> QED
  BY <1>3, <1>4, <1>5, <1>6, <1>7, <1>8, DraftingSteps DEF Next

\* A report is published only within the donations; only a refund, or withdrawing
\* a correction, makes the reported total exceed them (assertWithinCollected,
\* withdrawUpdate).
THEOREM OverrunsAreCaused == Spec => OverrunsHaveACause
<1>1. (TypeOK /\ UpdatesInv) /\ (TypeOK /\ UpdatesInv)' /\ [Next]_vars =>
          [/\ (\E u \in Updates : Publishes(u) /\ kind[u] = "REALIZATION") => Reported' <= collected
           /\ Reported <= collected /\ Reported' > collected' =>
                 \/ collected' < collected
                 \/ \E u \in Updates : /\ status[u] = "PUBLISHED" /\ status'[u] = "WITHDRAWN"
                                        /\ corrects[u] # NoUpdate]_vars
  BY OverrunStep DEF OverrunCaused
<1> QED
  BY <1>1, Invariance, PTL DEF Spec, OverrunsHaveACause
===============================================================================
