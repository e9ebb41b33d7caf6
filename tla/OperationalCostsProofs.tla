------------------------ MODULE OperationalCostsProofs ------------------------
(***************************************************************************)
(* Proofs about OperationalCosts, for any rows, officers, panjars, reports *)
(* and bounds.                                                             *)
(***************************************************************************)
EXTENDS OperationalCosts, FiniteSetTheorems, TLAPS

(***************************************************************************)
(* Sums.  SumFunctionOnSet iterates over the subsets of S; that it adds up *)
(* natural numbers is shown by counting: as many units as f[x] for each x  *)
(* satisfy its equation (CountIsFold), which has one solution on a finite  *)
(* set (FoldsAgree, by a least subset on which two of them differ).        *)
(***************************************************************************)
Units(f, S) == UNION {{x} \X (1..f[x]) : x \in S}

One(s) == CHOOSE x \in s : TRUE

\* g is what SumFunctionOnSet iterates.
IsFold(g, f, S) == g = [s \in SUBSET S |-> IF s = {} THEN 0 ELSE f[One(s)] + g[s \ {One(s)}]]

LEMMA OwnUnits ==
    ASSUME NEW f, NEW x, f[x] \in Nat
    PROVE  IsFiniteSet({x} \X (1..f[x])) /\ Cardinality({x} \X (1..f[x])) = f[x]
<1>1. IsFiniteSet({x}) /\ Cardinality({x}) = 1
  BY FS_Singleton
<1>2. IsFiniteSet(1..f[x]) /\ Cardinality(1..f[x]) = f[x]
  BY FS_Interval
<1>3. IsFiniteSet({x} \X (1..f[x])) /\ Cardinality({x} \X (1..f[x])) = 1 * f[x]
  BY <1>1, <1>2, FS_Product
<1> QED BY <1>3

LEMMA UnitsFinite ==
    ASSUME NEW f, NEW S, IsFiniteSet(S), \A x \in S : f[x] \in Nat
    PROVE  IsFiniteSet(Units(f, S)) /\ Cardinality(Units(f, S)) \in Nat
<1> DEFINE own(x) == {x} \X (1..f[x])
<1>1. IsFiniteSet({own(x) : x \in S})
  <2>1. [x \in S |-> own(x)] \in Surjection(S, {own(x) : x \in S})
    BY DEF Surjection
  <2> QED BY <2>1, FS_Surjection
<1>2. \A U \in {own(x) : x \in S} : IsFiniteSet(U)
  BY OwnUnits
<1>3. IsFiniteSet(Units(f, S))
  BY <1>1, <1>2, FS_UNION DEF Units
<1> QED BY <1>3, FS_CardinalityType

LEMMA UnitsSplit ==
    ASSUME NEW f, NEW S, IsFiniteSet(S), \A y \in S : f[y] \in Nat, NEW x \in S
    PROVE  Cardinality(Units(f, S)) = f[x] + Cardinality(Units(f, S \ {x}))
<1> DEFINE own == {x} \X (1..f[x])
           rest == Units(f, S \ {x})
<1>1. IsFiniteSet(own) /\ Cardinality(own) = f[x]
  BY OwnUnits
<1>2. IsFiniteSet(rest) /\ Cardinality(rest) \in Nat
  BY FS_RemoveElement, UnitsFinite
<1>3. Units(f, S) = own \cup rest /\ own \cap rest = {}
  BY DEF Units
<1>4. Cardinality(own \cap rest) = 0
  BY <1>3, FS_EmptySet
<1> HIDE DEF own, rest
<1>5. Cardinality(own \cup rest) = Cardinality(own) + Cardinality(rest) - Cardinality(own \cap rest)
  BY <1>1, <1>2, FS_Union
<1>6. Cardinality(own \cup rest) = f[x] + Cardinality(rest)
  BY <1>1, <1>2, <1>4, <1>5
<1> QED BY <1>3, <1>6 DEF rest

LEMMA CountIsFold ==
    ASSUME NEW f, NEW S, IsFiniteSet(S), \A x \in S : f[x] \in Nat
    PROVE  IsFold([s \in SUBSET S |-> Cardinality(Units(f, s))], f, S)
<1> DEFINE c == [s \in SUBSET S |-> Cardinality(Units(f, s))]
<1>1. c[{}] = 0
  BY FS_EmptySet DEF Units
<1>2. ASSUME NEW s \in SUBSET S, s # {}
      PROVE  c[s] = f[One(s)] + c[s \ {One(s)}]
  <2>1. One(s) \in s /\ IsFiniteSet(s)
    BY <1>2, FS_Subset DEF One
  <2> QED BY <2>1, UnitsSplit
<1>3. \A s \in SUBSET S : c[s] = IF s = {} THEN 0 ELSE f[One(s)] + c[s \ {One(s)}]
  BY <1>1, <1>2
<1> QED BY <1>3 DEF IsFold

LEMMA FoldsAgree ==
    ASSUME NEW f, NEW S, IsFiniteSet(S), NEW g, NEW h, IsFold(g, f, S), IsFold(h, f, S)
    PROVE  g = h
<1> DEFINE T == {s \in SUBSET S : g[s] # h[s]}
           R == StrictSubsetOrdering(S)
<1>1. IsWellFoundedOn(R, SUBSET S)
  BY FS_StrictSubsetOrderingWellFounded, FS_FiniteSubsetsOfFinite
<1>2. T = {}
  <2> SUFFICES ASSUME T # {} PROVE FALSE
    OBVIOUS
  <2> HIDE DEF R, T
  <2>1. PICK s \in T : \A u \in T : ~ (<<u, s>> \in R)
    <3>1. T \subseteq SUBSET S
      BY DEF T
    <3> QED BY <1>1, <3>1, WFMin
  <2>2. s \in SUBSET S /\ g[s] # h[s]
    BY <2>1 DEF T
  <2>3. s # {} /\ One(s) \in s
    BY <2>2 DEF IsFold, One
  <2> DEFINE u == s \ {One(s)}
  <2>4. <<u, s>> \in R
    BY <2>2, <2>3 DEF R, StrictSubsetOrdering
  <2>5. g[u] = h[u]
    BY <2>1, <2>2, <2>4 DEF T
  <2>6. g[s] = f[One(s)] + g[u] /\ h[s] = f[One(s)] + h[u]
    BY <2>2, <2>3 DEF IsFold
  <2> QED BY <2>2, <2>5, <2>6
<1>3. \A s \in SUBSET S : g[s] = h[s]
  BY <1>2
<1> QED BY <1>3 DEF IsFold

LEMMA SumCounts ==
    ASSUME NEW f, NEW S, IsFiniteSet(S), \A x \in S : f[x] \in Nat
    PROVE  SumFunctionOnSet(f, S) = Cardinality(Units(f, S))
<1> DEFINE c == [s \in SUBSET S |-> Cardinality(Units(f, s))]
<1>1. IsFold(c, f, S)
  BY CountIsFold
<1>2. (CHOOSE g : IsFold(g, f, S)) = c
  BY <1>1, FoldsAgree
<1>3. SumFunctionOnSet(f, S) = (CHOOSE g : IsFold(g, f, S))[S]
  BY DEF SumFunctionOnSet, FoldFunctionOnSet, MapThenFoldSet, IsFold, One
<1> QED BY <1>2, <1>3

LEMMA SumWithout ==
    ASSUME NEW f, NEW S, IsFiniteSet(S), \A y \in S : f[y] \in Nat, NEW x \in S
    PROVE  /\ SumFunctionOnSet(f, S) = f[x] + SumFunctionOnSet(f, S \ {x})
           /\ SumFunctionOnSet(f, S \ {x}) \in Nat
<1>1. IsFiniteSet(S \ {x})
  BY FS_RemoveElement
<1> QED BY <1>1, SumCounts, UnitsSplit, UnitsFinite

LEMMA SumSame ==
    ASSUME NEW f, NEW g, NEW S, IsFiniteSet(S), \A x \in S : f[x] \in Nat /\ f[x] = g[x]
    PROVE  SumFunctionOnSet(f, S) = SumFunctionOnSet(g, S)
<1>1. Units(f, S) = Units(g, S)
  BY DEF Units
<1> QED BY <1>1, SumCounts

LEMMA SumJoin ==
    ASSUME NEW f, NEW S, NEW T, IsFiniteSet(S), IsFiniteSet(T), S \cap T = {},
           \A x \in S \cup T : f[x] \in Nat
    PROVE  /\ SumFunctionOnSet(f, S \cup T) = SumFunctionOnSet(f, S) + SumFunctionOnSet(f, T)
           /\ SumFunctionOnSet(f, S) \in Nat /\ SumFunctionOnSet(f, T) \in Nat
<1> DEFINE us == Units(f, S)
           ut == Units(f, T)
<1>1. IsFiniteSet(S \cup T)
  BY FS_Union
<1>2. IsFiniteSet(us) /\ IsFiniteSet(ut) /\ Cardinality(us) \in Nat /\ Cardinality(ut) \in Nat
  BY UnitsFinite
<1>3. Units(f, S \cup T) = us \cup ut /\ us \cap ut = {}
  BY DEF Units
<1>4. Cardinality(us \cap ut) = 0
  BY <1>3, FS_EmptySet
<1>5. /\ SumFunctionOnSet(f, S \cup T) = Cardinality(us \cup ut)
      /\ SumFunctionOnSet(f, S) = Cardinality(us)
      /\ SumFunctionOnSet(f, T) = Cardinality(ut)
  BY <1>1, <1>3, SumCounts
<1> HIDE DEF us, ut
<1>6. Cardinality(us \cup ut) = Cardinality(us) + Cardinality(ut) - Cardinality(us \cap ut)
  BY <1>2, FS_Union
<1> QED BY <1>2, <1>4, <1>5, <1>6

USE CostsAssumption DEF CostsAssumption

(***************************************************************************)
(* The inductive invariant, in named parts: Facts, and the sums below.     *)
(***************************************************************************)
\* A row is what its last version says.
LiveIsLast ==
    \A i \in Items : status[i] # "ABSENT" =>
        /\ Len(history[i]) > 0
        /\ history[i][Len(history[i])].content = content[i]
        /\ history[i][Len(history[i])].status = status[i]

\* A receipt that any version cites is marked as evidence.
CitedIsEvidenced ==
    \A i \in Items : \A v \in DOMAIN history[i] :
        history[i][v].content.receipt \in evidenced \cup {NoReceipt}

\* A report that a change of row i is declared for covers the row.
Declares(r, i) == r = NoReport \/ (r \in frozen /\ Covers(r, i))

DeclaredCovers ==
    \A i \in Items : \A v \in DOMAIN history[i] : Declares(history[i][v].for, i)

\* A change under way may be made; if it declares nothing, every lock on its row
\* came after it was let through, and marks the version it is about to replace.
ChangeStands ==
    ~Free => /\ Changeable(change.item)
             /\ Declares(change.for, change.item)
             /\ change.for = NoReport =>
                    \A k \in locks : Covers(k, change.item) =>
                        mark[k][change.item] = Len(history[change.item])

\* What a report counted is a row.
CountedIsRow ==
    \A k \in frozen, i \in Items : counted[k][i] # NoContent => status[i] # "ABSENT"

\* Past its mark no version of a row that a lock covers is undeclared.
DeclaredPastMark ==
    \A k \in locks, i \in Items : status[i] # "ABSENT" /\ Covers(k, i) =>
        \A v \in (mark[k][i] + 2)..Len(history[i]) : history[i][v].for # NoReport

(***************************************************************************)
(* Types                                                                   *)
(***************************************************************************)
LEMMA TypeInit == Init => TypeOK
BY DEF Init, TypeOK, NoChange

LEMMA NewVersion ==
    ASSUME NEW c \in Contents, NEW s \in {"ACTIVE", "VOIDED"}, NEW r \in Reports \cup {NoReport}
    PROVE  [content |-> c, status |-> s, for |-> r] \in Versions
BY DEF Versions

LEMMA TypeStep == TypeOK /\ ChangeStands /\ LiveIsLast /\ [Next]_vars => TypeOK'
<1> SUFFICES ASSUME TypeOK, ChangeStands, LiveIsLast, [Next]_vars PROVE TypeOK'
    OBVIOUS
<1>1. ASSUME NEW p \in Panjars, IssuePanjar(p) PROVE TypeOK'
    BY <1>1 DEF TypeOK, IssuePanjar, rows, payments, evidence, reports
<1>2. ASSUME NEW p \in Panjars, NEW a \in Returns, ReturnPanjar(p, a) PROVE TypeOK'
    BY <1>2 DEF TypeOK, ReturnPanjar, rows, payments, evidence, reports
<1>3. ASSUME NEW new \in SUBSET Items, NEW t \in 0..MaxTime, NEW in \in [new -> Contents],
             Record(new, in, t) PROVE TypeOK'
    <2>1. history' \in [Items -> Seq(Versions)]
        <3>1. \A i \in new : <<[content |-> in[i], status |-> "ACTIVE", for |-> NoReport]>>
                                 \in Seq(Versions)
            BY NewVersion
        <3> QED BY <1>3, <3>1 DEF Record, TypeOK
    <2>2. evidenced' \subseteq receipts
        BY <1>3 DEF Record, TypeOK, Evidence, Cites
    <2> QED BY <1>3, <2>1, <2>2 DEF TypeOK, Record, advances, payments, reports
<1>4. ASSUME NEW i \in Items, NEW kind \in {"correct", "void"},
             NEW for \in Reports \cup {NoReport}, BeginChange(i, kind, for) PROVE TypeOK'
    BY <1>4 DEF TypeOK, BeginChange, advances, rows, payments, evidence, reports, Changes
<1>5. ASSUME NEW c \in Contents, Correct(c) PROVE TypeOK'
    <2>1. change \in Changes
        BY <1>5 DEF Correct, TypeOK, NoChange
    <2>2. history' \in [Items -> Seq(Versions)]
        BY <1>5, <2>1, NewVersion DEF Correct, Revise, TypeOK, Changes
    <2>3. evidenced' \subseteq receipts
        BY <1>5 DEF Correct, TypeOK, Evidence, Cites
    <2> QED BY <1>5, <2>1, <2>2, <2>3 DEF TypeOK, Correct, Revise, advances, payments, reports, Changes
<1>6. CASE VoidItem
    <2>1. change \in Changes /\ ~Free
        BY <1>6 DEF VoidItem, TypeOK, NoChange, Free
    <2>2. content[change.item] \in Contents
        <3>1. history[change.item] \in Seq(Versions) /\ Len(history[change.item]) > 0
            BY <2>1 DEF TypeOK, Changes, ChangeStands, Changeable, LiveIsLast
        <3>2. history[change.item][Len(history[change.item])] \in Versions
            BY <3>1
        <3> QED BY <2>1, <3>2 DEF Changes, ChangeStands, Changeable, LiveIsLast, Versions
    <2>3. history' \in [Items -> Seq(Versions)]
        BY <1>6, <2>1, <2>2, NewVersion DEF VoidItem, Revise, TypeOK, Changes
    <2> QED BY <1>6, <2>1, <2>2, <2>3 DEF TypeOK, VoidItem, Revise, advances, payments, reports, Changes
<1>7. CASE Abandon
    BY <1>7 DEF TypeOK, Abandon, advances, rows, payments, evidence, reports
<1>8. CASE Tick
    BY <1>8 DEF TypeOK, Tick, advances, rows, payments, evidence, reports
<1>9. ASSUME NEW b \in Reimbursements, NEW o \in Officers, NEW S \in SUBSET Items,
             Reimburse(b, o, S) PROVE TypeOK'
    BY <1>9 DEF TypeOK, Reimburse, advances, evidence, reports
<1>10. ASSUME NEW r \in Receipts, RecordReceipt(r) PROVE TypeOK'
    BY <1>10 DEF TypeOK, RecordReceipt, advances, rows, payments, reports
<1>11. ASSUME NEW r \in Receipts, NEW f \in Files, AddFile(r, f) PROVE TypeOK'
    BY <1>11 DEF TypeOK, AddFile, advances, rows, payments, reports
<1>12. ASSUME NEW r \in Receipts, NEW f \in Files, DeleteFile(r, f) PROVE TypeOK'
    BY <1>12 DEF TypeOK, DeleteFile, advances, rows, payments, reports
<1>13. ASSUME NEW k \in Reports, Publish(k) PROVE TypeOK'
    BY <1>13 DEF TypeOK, Publish, advances, rows, payments, evidence
<1>14. ASSUME NEW k \in Reports, Unpublish(k) PROVE TypeOK'
    BY <1>14 DEF TypeOK, Unpublish, advances, rows, payments, evidence
<1>15. ASSUME NEW k \in Reports, NEW t \in 0..MaxTime, Freeze(k, t) PROVE TypeOK'
    BY <1>15 DEF TypeOK, Freeze, advances, rows, payments, evidence
<1>16. CASE UNCHANGED vars
    BY <1>16 DEF TypeOK, vars, advances, rows, payments, evidence, reports
<1> QED
    BY <1>1, <1>2, <1>3, <1>4, <1>5, <1>6, <1>7, <1>8, <1>9, <1>10, <1>11, <1>12, <1>13,
       <1>14, <1>15, <1>16 DEF Next

(***************************************************************************)
(* Rows, their changes, their receipts and what reports counted of them    *)
(***************************************************************************)
Facts ==
    /\ LiveIsLast /\ CitedIsEvidenced /\ DeclaredCovers /\ ChangeStands
    /\ RepaidRowsStand
    /\ CountedIsRow /\ ReportedIsOnRecord
    /\ DeclaredPastMark

LEMMA FactsInit == Init => Facts
BY DEF Init, Facts, LiveIsLast, CitedIsEvidenced, DeclaredCovers, ChangeStands, Free,
       RepaidRowsStand, CountedIsRow, ReportedIsOnRecord, DeclaredPastMark

\* Advances, receipts, files and the clock.
Aside == UNCHANGED <<rows, payments, evidenced, change, reports>>

LEMMA AsideKeeps == Facts /\ Aside => Facts'
BY DEF Facts, Aside, rows, payments, reports, LiveIsLast, CitedIsEvidenced, DeclaredCovers,
       Declares, Covers, ChangeStands, Free, Changeable, RepaidRowsStand, CountedIsRow,
       ReportedIsOnRecord, DeclaredPastMark

LEMMA RecordKeeps ==
    ASSUME TypeOK, Facts, NEW new \in SUBSET Items, NEW t \in 0..MaxTime,
           NEW in \in [new -> Contents], Record(new, in, t)
    PROVE  Facts'
<1> DEFINE first(i) == [content |-> in[i], status |-> "ACTIVE", for |-> NoReport]
<1>1. \A i \in new : /\ status[i] = "ABSENT" /\ status'[i] = "ACTIVE" /\ content'[i] = in[i]
                     /\ history'[i] = <<first(i)>>
    BY DEF Record, TypeOK
<1>2. \A i \in Items \ new : /\ status'[i] = status[i] /\ content'[i] = content[i]
                             /\ recordedAt'[i] = recordedAt[i] /\ history'[i] = history[i]
    BY DEF Record, TypeOK
<1>3. UNCHANGED <<reimbursement, holder, change, frozen, cutOff, counted, locks, mark>> /\ Free
    BY DEF Record, payments, reports
<1>4. \A i \in new : /\ Len(history'[i]) = 1 /\ DOMAIN history'[i] = {1}
                     /\ history'[i][1].content = in[i] /\ history'[i][1].status = "ACTIVE"
                     /\ history'[i][1].for = NoReport
    <2>1. \A i \in new : first(i).content = in[i] /\ first(i).status = "ACTIVE"
                        /\ first(i).for = NoReport
        OBVIOUS
    <2> HIDE DEF first
    <2>2. \A i \in new : Len(<<first(i)>>) = 1 /\ DOMAIN <<first(i)>> = {1}
                        /\ <<first(i)>>[1] = first(i)
        OBVIOUS
    <2> TAKE i \in new
    <2> DEFINE h == history'[i]
    <2>3. h = <<first(i)>>
        BY <1>1
    <2> HIDE DEF h
    <2>4. Len(h) = 1 /\ DOMAIN h = {1} /\ h[1] = first(i)
        BY <2>2, <2>3
    <2>5. /\ h[1].content = in[i] /\ h[1].status = "ACTIVE" /\ h[1].for = NoReport
        BY <2>1, <2>4
    <2> QED BY <2>4, <2>5 DEF h
<1> HIDE DEF first
<1>5. LiveIsLast'
    BY <1>1, <1>2, <1>4 DEF Facts, LiveIsLast
<1>6. CitedIsEvidenced'
    <2>1. \A i \in new : in[i].receipt \in evidenced' \cup {NoReceipt}
        BY DEF Record, Evidence
    <2>2. evidenced \subseteq evidenced'
        BY DEF Record
    <2> QED BY <1>2, <1>4, <2>1, <2>2 DEF Facts, CitedIsEvidenced
<1>7. DeclaredCovers'
    BY <1>2, <1>3, <1>4 DEF Facts, DeclaredCovers, Declares, Covers
<1>8. ChangeStands'
    BY <1>3 DEF ChangeStands, Free
<1>9. RepaidRowsStand'
    BY <1>1, <1>2, <1>3 DEF Facts, RepaidRowsStand
<1>10. CountedIsRow'
    BY <1>1, <1>2, <1>3 DEF Facts, CountedIsRow
<1>11. ReportedIsOnRecord'
    BY <1>1, <1>2, <1>3 DEF Facts, CountedIsRow, ReportedIsOnRecord, Covers
<1>12. DeclaredPastMark'
    <2>1. \A k \in locks, i \in Items : mark[k][i] \in Nat
        BY DEF TypeOK
    <2> QED BY <1>2, <1>3, <1>4, <2>1 DEF Facts, DeclaredPastMark, Covers
<1> QED
    BY <1>5, <1>6, <1>7, <1>8, <1>9, <1>10, <1>11, <1>12 DEF Facts

LEMMA BeginKeeps ==
    ASSUME TypeOK, Facts, NEW i \in Items, NEW kind \in {"correct", "void"},
           NEW for \in Reports \cup {NoReport}, BeginChange(i, kind, for)
    PROVE  Facts'
<1>1. UNCHANGED <<rows, payments, evidenced, reports>>
    BY DEF BeginChange, evidence
<1>2. ChangeStands'
    <2>1. change'.item = i /\ change'.for = for /\ Changeable(i)
        BY DEF BeginChange
    <2>2. Declares(for, i)
        BY DEF BeginChange, Allowed, Declares, TypeOK
    <2>3. for = NoReport => \A k \in locks : ~Covers(k, i)
        BY DEF BeginChange, Allowed, TypeOK
    <2> QED BY <1>1, <2>1, <2>2, <2>3 DEF ChangeStands, Changeable, Declares, Covers, rows, reports
<1> QED
    BY <1>1, <1>2 DEF Facts, rows, payments, reports, LiveIsLast, CitedIsEvidenced,
       DeclaredCovers, Declares, Covers, RepaidRowsStand, CountedIsRow, ReportedIsOnRecord,
       DeclaredPastMark

\* A new version of the row under change, whichever request writes it.
LEMMA ReviseKeeps ==
    ASSUME TypeOK, Facts, ~Free, NEW c \in Contents, NEW s \in {"ACTIVE", "VOIDED"}, Revise(c, s),
           evidenced \subseteq evidenced', c.receipt \in evidenced' \cup {NoReceipt}
    PROVE  Facts'
<1> DEFINE i == change.item
           new == [content |-> c, status |-> s, for |-> change.for]
<1>1. i \in Items /\ change.for \in Reports \cup {NoReport}
    BY DEF TypeOK, Changes, Free
<1>2. /\ status'[i] = s /\ content'[i] = c
      /\ \A j \in Items \ {i} : /\ status'[j] = status[j] /\ content'[j] = content[j]
                                /\ history'[j] = history[j]
      /\ UNCHANGED <<recordedAt, reimbursement, holder, frozen, cutOff, counted, locks, mark>>
    BY <1>1 DEF Revise, TypeOK, payments, reports
<1>3. history'[i] = Append(history[i], new) /\ history[i] \in Seq(Versions) /\ new \in Versions
    BY <1>1, NewVersion DEF Revise, TypeOK
<1>4. /\ Len(history'[i]) = Len(history[i]) + 1 /\ Len(history[i]) \in Nat
      /\ DOMAIN history'[i] = 1..(Len(history[i]) + 1)
      /\ DOMAIN history[i] = 1..Len(history[i])
      /\ history'[i][Len(history[i]) + 1] = new
      /\ \A v \in 1..Len(history[i]) : history'[i][v] = history[i][v]
    BY <1>3
<1>5. new.content = c /\ new.status = s /\ new.for = change.for
    OBVIOUS
<1>6. Changeable(i) /\ Declares(change.for, i)
    BY DEF Facts, ChangeStands
<1>7. change' = NoChange
    BY DEF Revise
<1> HIDE DEF new, i
<1>8. \A j \in Items : \A v \in DOMAIN history[j] :
          v \in DOMAIN history'[j] /\ history'[j][v] = history[j][v]
    <2> SUFFICES ASSUME NEW j \in Items, NEW v \in DOMAIN history[j]
                 PROVE  v \in DOMAIN history'[j] /\ history'[j][v] = history[j][v]
        OBVIOUS
    <2>1. CASE j = i
        <3>1. v \in 1..Len(history[i]) /\ v \in 1..(Len(history[i]) + 1)
            BY <1>4, <2>1
        <3> QED BY <1>4, <2>1, <3>1
    <2>2. CASE j # i
        BY <1>2, <2>2
    <2> QED BY <2>1, <2>2
<1>9. \A j \in Items : \A v \in DOMAIN history'[j] :
          v \in DOMAIN history[j] \/ (j = i /\ v = Len(history[i]) + 1)
    <2> SUFFICES ASSUME NEW j \in Items, NEW v \in DOMAIN history'[j]
                 PROVE  v \in DOMAIN history[j] \/ (j = i /\ v = Len(history[i]) + 1)
        OBVIOUS
    <2>1. CASE j = i
        BY <1>4, <2>1
    <2>2. CASE j # i
        BY <1>2, <2>2
    <2> QED BY <2>1, <2>2
<1>10. LiveIsLast'
    BY <1>2, <1>4, <1>5 DEF Facts, LiveIsLast
<1>11. CitedIsEvidenced'
    <2> SUFFICES ASSUME NEW j \in Items, NEW v \in DOMAIN history'[j]
                 PROVE  history'[j][v].content.receipt \in evidenced' \cup {NoReceipt}
        BY DEF CitedIsEvidenced
    <2>1. CASE j = i /\ v = Len(history[i]) + 1
        BY <1>4, <1>5, <2>1
    <2>2. CASE ~(j = i /\ v = Len(history[i]) + 1)
        <3>1. v \in DOMAIN history[j] /\ history'[j][v] = history[j][v]
            BY <1>8, <1>9, <2>2
        <3> QED BY <3>1 DEF Facts, CitedIsEvidenced
    <2> QED BY <2>1, <2>2
<1>12. DeclaredCovers'
    <2>1. \A r, j : Declares(r, j) => Declares(r, j)'
        BY <1>2 DEF Declares, Covers
    <2> SUFFICES ASSUME NEW j \in Items, NEW v \in DOMAIN history'[j]
                 PROVE  Declares(history'[j][v].for, j)
        BY <2>1 DEF DeclaredCovers
    <2>2. CASE j = i /\ v = Len(history[i]) + 1
        BY <1>4, <1>5, <1>6, <2>2
    <2>3. CASE ~(j = i /\ v = Len(history[i]) + 1)
        <3>1. v \in DOMAIN history[j] /\ history'[j][v] = history[j][v]
            BY <1>8, <1>9, <2>3
        <3> QED BY <3>1 DEF Facts, DeclaredCovers
    <2> QED BY <2>2, <2>3
<1>13. ChangeStands'
    BY <1>7 DEF ChangeStands, Free
<1>14. RepaidRowsStand'
    BY <1>2, <1>6 DEF Facts, RepaidRowsStand, Changeable
<1>15. CountedIsRow'
    BY <1>2 DEF Facts, CountedIsRow
<1>16. ReportedIsOnRecord'
    <2>1. \A k, j : Covers(k, j)' = Covers(k, j)
        BY <1>2 DEF Covers
    <2> QED BY <1>2, <1>8, <2>1 DEF Facts, ReportedIsOnRecord
<1>17. ASSUME NEW k \in locks, Covers(k, i), NEW v \in (mark[k][i] + 2)..(Len(history[i]) + 1)
       PROVE  history'[i][v].for # NoReport
    <2>1. mark[k][i] \in Nat
        BY <1>1 DEF TypeOK
    <2>2. CASE v <= Len(history[i])
        <3>1. v \in (mark[k][i] + 2)..Len(history[i]) /\ v \in 1..Len(history[i])
            BY <1>4, <2>1, <2>2
        <3>2. history[i][v].for # NoReport
            BY <1>1, <1>6, <1>17, <3>1 DEF Facts, DeclaredPastMark, Changeable
        <3> QED BY <1>4, <3>1, <3>2
    <2>3. CASE v = Len(history[i]) + 1
        <3>1. mark[k][i] # Len(history[i])
            BY <1>4, <2>1, <2>3
        <3>2. change.for # NoReport
            BY <1>17, <3>1 DEF Facts, ChangeStands, i
        <3> QED BY <1>4, <1>5, <2>3, <3>2
    <2> QED BY <1>4, <2>1, <2>2, <2>3
<1>18. DeclaredPastMark'
    <2> SUFFICES ASSUME NEW k \in locks, NEW j \in Items, status'[j] # "ABSENT", Covers(k, j),
                        NEW v \in (mark[k][j] + 2)..Len(history'[j])
                 PROVE  history'[j][v].for # NoReport
        BY <1>2 DEF DeclaredPastMark, Covers
    <2>1. CASE j = i
        BY <1>4, <1>17, <2>1
    <2>2. CASE j # i
        <3>1. status[j] # "ABSENT" /\ history'[j] = history[j]
            BY <1>2, <2>2
        <3>2. v \in (mark[k][j] + 2)..Len(history[j]) /\ history[j][v].for # NoReport
            BY <3>1 DEF Facts, DeclaredPastMark
        <3> QED BY <3>1, <3>2
    <2> QED BY <2>1, <2>2
<1> QED
    BY <1>10, <1>11, <1>12, <1>13, <1>14, <1>15, <1>16, <1>18 DEF Facts

LEMMA VoidingKeepsContent ==
    ASSUME TypeOK, Facts, VoidItem
    PROVE  ~Free /\ content[change.item] \in Contents
           /\ content[change.item].receipt \in evidenced \cup {NoReceipt}
<1>1. ~Free /\ change.item \in Items
    BY DEF VoidItem, Free, NoChange, TypeOK, Changes
<1>2. /\ history[change.item] \in Seq(Versions) /\ Len(history[change.item]) > 0
      /\ history[change.item][Len(history[change.item])].content = content[change.item]
    BY <1>1 DEF TypeOK, Facts, ChangeStands, Changeable, LiveIsLast
<1>3. Len(history[change.item]) \in DOMAIN history[change.item]
    BY <1>2
<1>4. history[change.item][Len(history[change.item])] \in Versions
    BY <1>2
<1> QED
    BY <1>1, <1>2, <1>3, <1>4 DEF Versions, Facts, CitedIsEvidenced

LEMMA ReimburseKeeps ==
    ASSUME TypeOK, Facts, NEW b \in Reimbursements, NEW o \in Officers, NEW S \in SUBSET Items,
           Reimburse(b, o, S)
    PROVE  Facts'
<1>1. /\ \A i \in S : reimbursement'[i] = b /\ status[i] = "ACTIVE" /\ content[i].fund = o
      /\ \A i \in Items \ S : reimbursement'[i] = reimbursement[i]
      /\ holder[b] = Nobody /\ holder'[b] = o
      /\ \A x \in Reimbursements : x # b => holder'[x] = holder[x]
      /\ UNCHANGED <<status, content, recordedAt, history, evidenced, change, reports>> /\ Free
    BY DEF Reimburse, TypeOK, evidence
<1>2. RepaidRowsStand'
    BY <1>1 DEF Facts, RepaidRowsStand, TypeOK
<1> QED
    BY <1>1, <1>2 DEF Facts, reports, LiveIsLast, CitedIsEvidenced, DeclaredCovers, Declares,
       Covers, ChangeStands, Free, CountedIsRow, ReportedIsOnRecord, DeclaredPastMark

LEMMA PublishKeeps ==
    ASSUME TypeOK, Facts, NEW k \in Reports, Publish(k)
    PROVE  Facts'
<1>1. /\ locks' = locks \cup {k} /\ k \in frozen
      /\ mark' = [mark EXCEPT ![k] = [i \in Items |-> Len(history[i])]]
      /\ UNCHANGED <<rows, payments, evidenced, change, frozen, cutOff, counted>>
    BY DEF Publish, evidence
<1>2. /\ \A i \in Items : mark'[k][i] = Len(history[i])
      /\ \A r \in locks \ {k} : mark'[r] = mark[r]
    BY <1>1 DEF TypeOK
<1>3. \A i \in Items : Len(history[i]) \in Nat
    BY DEF TypeOK
<1>4. ChangeStands'
    BY <1>1, <1>2 DEF Facts, ChangeStands, Free, Changeable, Declares, Covers, rows, TypeOK, Changes
<1>5. DeclaredPastMark'
    BY <1>1, <1>2, <1>3 DEF Facts, DeclaredPastMark, Covers, rows
<1> QED
    BY <1>1, <1>4, <1>5 DEF Facts, rows, payments, LiveIsLast, CitedIsEvidenced, DeclaredCovers,
       Declares, Covers, RepaidRowsStand, CountedIsRow, ReportedIsOnRecord

LEMMA UnpublishKeeps ==
    ASSUME Facts, NEW k \in Reports, Unpublish(k)
    PROVE  Facts'
BY DEF Unpublish, evidence, Facts, rows, payments, LiveIsLast, CitedIsEvidenced, DeclaredCovers,
       Declares, Covers, ChangeStands, Free, Changeable, RepaidRowsStand, CountedIsRow,
       ReportedIsOnRecord, DeclaredPastMark

LEMMA FreezeKeeps ==
    ASSUME TypeOK, Facts, NEW k \in Reports, NEW t \in 0..MaxTime, Freeze(k, t)
    PROVE  Facts'
<1>1. /\ k \notin frozen /\ frozen' = frozen \cup {k} /\ k \notin locks
      /\ cutOff'[k] = t /\ \A r \in Reports \ {k} : cutOff'[r] = cutOff[r]
      /\ \A r \in Reports \ {k} : counted'[r] = counted[r]
      /\ UNCHANGED <<rows, payments, evidenced, change, locks, mark>>
    BY DEF Freeze, TypeOK, evidence
<1>2. \A i \in Items : counted'[k][i] # NoContent =>
          /\ status[i] = "ACTIVE" /\ counted'[k][i] = content[i]
          /\ recordedAt[i] \in Period[k] /\ recordedAt[i] <= t
    BY DEF Freeze, TypeOK
<1>3. \A r \in frozen, i \in Items : Covers(r, i)' = Covers(r, i)
    BY <1>1 DEF Covers, rows, TypeOK
<1>4. \A r \in Reports \cup {NoReport}, i \in Items : Declares(r, i) => Declares(r, i)'
    BY <1>1, <1>3 DEF Declares
<1>5. DeclaredCovers'
    <2>1. \A i \in Items : \A v \in DOMAIN history[i] : history[i][v].for \in Reports \cup {NoReport}
        <3> TAKE i \in Items
        <3>1. history[i] \in Seq(Versions)
            BY DEF TypeOK
        <3>2. \A v \in DOMAIN history[i] : history[i][v] \in Versions
            BY <3>1
        <3> QED BY <3>2 DEF Versions
    <2> QED BY <1>1, <1>4, <2>1 DEF Facts, DeclaredCovers, rows
<1>6. ChangeStands'
    <2>1. ~Free => change.item \in Items /\ change.for \in Reports \cup {NoReport}
        BY DEF Free, TypeOK, Changes
    <2>2. locks \subseteq frozen
        BY DEF TypeOK
    <2> QED BY <1>1, <1>3, <1>4, <2>1, <2>2 DEF Facts, ChangeStands, Free, Changeable, rows
<1>7. CountedIsRow'
    BY <1>1, <1>2 DEF Facts, CountedIsRow, rows, TypeOK
<1>8. ReportedIsOnRecord'
    <2>1. \A i \in Items : counted'[k][i] # NoContent =>
              /\ Covers(k, i)'
              /\ \E v \in DOMAIN history[i] : /\ history[i][v].content = counted'[k][i]
                                              /\ history[i][v].status = "ACTIVE"
        <3> SUFFICES ASSUME NEW i \in Items, counted'[k][i] # NoContent
                     PROVE  /\ Covers(k, i)'
                            /\ \E v \in DOMAIN history[i] : /\ history[i][v].content = counted'[k][i]
                                                            /\ history[i][v].status = "ACTIVE"
            OBVIOUS
        <3>1. history[i] \in Seq(Versions) /\ Len(history[i]) > 0
            BY <1>2 DEF TypeOK, Facts, LiveIsLast
        <3>2. Len(history[i]) \in DOMAIN history[i]
            BY <3>1
        <3> QED BY <1>1, <1>2, <3>2 DEF Covers, rows, Facts, LiveIsLast
    <2> QED BY <1>1, <1>3, <2>1 DEF Facts, ReportedIsOnRecord, rows, TypeOK
<1>9. DeclaredPastMark'
    BY <1>1, <1>3 DEF Facts, DeclaredPastMark, rows, TypeOK
<1> QED
    BY <1>1, <1>5, <1>6, <1>7, <1>8, <1>9 DEF Facts, rows, payments, LiveIsLast,
       CitedIsEvidenced, RepaidRowsStand

LEMMA FactsStep == TypeOK /\ Facts /\ [Next]_vars => Facts'
<1> SUFFICES ASSUME TypeOK, Facts, [Next]_vars PROVE Facts'
    OBVIOUS
<1>1. ASSUME NEW p \in Panjars, IssuePanjar(p) PROVE Facts'
    BY <1>1, AsideKeeps DEF IssuePanjar, Aside, evidence
<1>2. ASSUME NEW p \in Panjars, NEW a \in Returns, ReturnPanjar(p, a) PROVE Facts'
    BY <1>2, AsideKeeps DEF ReturnPanjar, Aside, evidence
<1>3. ASSUME NEW new \in SUBSET Items, NEW t \in 0..MaxTime, NEW in \in [new -> Contents],
             Record(new, in, t) PROVE Facts'
    BY <1>3, RecordKeeps
<1>4. ASSUME NEW i \in Items, NEW kind \in {"correct", "void"},
             NEW for \in Reports \cup {NoReport}, BeginChange(i, kind, for) PROVE Facts'
    BY <1>4, BeginKeeps
<1>5. ASSUME NEW c \in Contents, Correct(c) PROVE Facts'
    <2>1. ~Free
        BY <1>5 DEF Correct, Free, NoChange
    <2>2. evidenced \subseteq evidenced' /\ c.receipt \in evidenced' \cup {NoReceipt}
        BY <1>5 DEF Correct, Evidence
    <2> QED BY <1>5, <2>1, <2>2, ReviseKeeps DEF Correct
<1>6. CASE VoidItem
    BY <1>6, VoidingKeepsContent, ReviseKeeps DEF VoidItem
<1>7. CASE Abandon
    BY <1>7 DEF Abandon, evidence, Facts, rows, payments, reports, LiveIsLast, CitedIsEvidenced,
       DeclaredCovers, Declares, Covers, ChangeStands, Free, RepaidRowsStand, CountedIsRow,
       ReportedIsOnRecord, DeclaredPastMark
<1>8. CASE Tick
    BY <1>8, AsideKeeps DEF Tick, Aside, evidence
<1>9. ASSUME NEW b \in Reimbursements, NEW o \in Officers, NEW S \in SUBSET Items,
             Reimburse(b, o, S) PROVE Facts'
    BY <1>9, ReimburseKeeps
<1>10. ASSUME NEW r \in Receipts, RecordReceipt(r) PROVE Facts'
    BY <1>10, AsideKeeps DEF RecordReceipt, Aside
<1>11. ASSUME NEW r \in Receipts, NEW f \in Files, AddFile(r, f) PROVE Facts'
    BY <1>11, AsideKeeps DEF AddFile, Aside
<1>12. ASSUME NEW r \in Receipts, NEW f \in Files, DeleteFile(r, f) PROVE Facts'
    BY <1>12, AsideKeeps DEF DeleteFile, Aside
<1>13. ASSUME NEW k \in Reports, Publish(k) PROVE Facts'
    BY <1>13, PublishKeeps
<1>14. ASSUME NEW k \in Reports, Unpublish(k) PROVE Facts'
    BY <1>14, UnpublishKeeps
<1>15. ASSUME NEW k \in Reports, NEW t \in 0..MaxTime, Freeze(k, t) PROVE Facts'
    BY <1>15, FreezeKeeps
<1>16. CASE UNCHANGED vars
    BY <1>16, AsideKeeps DEF vars, Aside, evidence
<1> QED
    BY <1>1, <1>2, <1>3, <1>4, <1>5, <1>6, <1>7, <1>8, <1>9, <1>10, <1>11, <1>12, <1>13,
       <1>14, <1>15, <1>16 DEF Next

(***************************************************************************)
(* Sums of rows: what a panjar accounts for, and what was repaid at once   *)
(***************************************************************************)
RowsOf(p) == {i \in Active(Items) : content[i].fund = p}

Repaid(b) == {i \in Items : reimbursement[i] = b}

\* A payment is what the rows repaid by it add up to.
PaymentsAdd ==
    /\ total \in [Reimbursements -> Nat]
    /\ \A b \in Reimbursements : total[b] = SumOf(Repaid(b))

LEMMA PricesAreNatural ==
    ASSUME TypeOK
    PROVE  Prices \in [Items -> Nat] /\ Prices = [i \in Items |-> content[i].amount]
<1>1. NoContent.amount = 0
    BY DEF NoContent
<1>2. \A i \in Items : content[i].amount \in Nat
    BY <1>1 DEF TypeOK
<1> QED BY <1>2 DEF Prices

\* Any rows are finitely many, and add up to a number that no part of them exceeds.
LEMMA SumOfSome ==
    ASSUME NEW f \in [Items -> Nat], NEW S \in SUBSET Items, NEW x
    PROVE  /\ IsFiniteSet(S)
           /\ SumFunctionOnSet(f, S) \in Nat /\ SumFunctionOnSet(f, S \ {x}) \in Nat
           /\ SumFunctionOnSet(f, S \ {x}) <= SumFunctionOnSet(f, S)
<1>1. IsFiniteSet(S) /\ \A y \in S : f[y] \in Nat
    BY FS_Subset
<1>2. SumFunctionOnSet(f, S) \in Nat
    BY <1>1, SumCounts, UnitsFinite
<1>3. CASE x \in S
    <2>1. SumFunctionOnSet(f, S) = f[x] + SumFunctionOnSet(f, S \ {x})
          /\ SumFunctionOnSet(f, S \ {x}) \in Nat /\ f[x] \in Nat
        BY <1>1, <1>3, SumWithout
    <2> QED BY <1>1, <1>2, <2>1
<1>4. CASE x \notin S
    <2>1. S \ {x} = S
        BY <1>4
    <2> QED BY <1>1, <1>2, <2>1
<1> QED BY <1>3, <1>4

\* Rows whose content stays add up to the same.
LEMMA SumOfKept ==
    ASSUME TypeOK, NEW S \in SUBSET Items, \A i \in S : content'[i] = content[i]
    PROVE  SumFunctionOnSet(Prices', S) = SumFunctionOnSet(Prices, S)
<1>1. \A i \in S : Prices[i] \in Nat /\ Prices[i] = Prices'[i]
    BY PricesAreNatural DEF Prices
<1>2. IsFiniteSet(S)
    BY FS_Subset
<1> QED BY <1>1, <1>2, SumSame

LEMMA CoversByRows ==
    PanjarCovers <=> \A p \in Panjars : SumFunctionOnSet(Prices, RowsOf(p)) + returned[p] <= panjar[p]
BY DEF PanjarCovers, SumOf, RowsOf

LEMMA SumsInit == Init => PanjarCovers /\ PaymentsAdd
<1> SUFFICES ASSUME Init PROVE PanjarCovers /\ PaymentsAdd
    OBVIOUS
<1>1. Units(Prices, {}) = {}
    BY DEF Units
<1>2. SumFunctionOnSet(Prices, {}) = 0
    BY <1>1, SumCounts, FS_EmptySet
<1>3. \A p \in Panjars : RowsOf(p) = {}
    BY DEF Init, RowsOf, Active
<1>4. \A b \in Reimbursements : Repaid(b) = {}
    BY DEF Init, Repaid
<1>5. PanjarCovers
    <2>1. \A p \in Panjars : returned[p] = 0 /\ panjar[p] = 0
        BY DEF Init
    <2>2. \A p \in Panjars : SumFunctionOnSet(Prices, RowsOf(p)) + returned[p] <= panjar[p]
        <3> TAKE p \in Panjars
        <3>1. SumFunctionOnSet(Prices, RowsOf(p)) = 0
            BY <1>2, <1>3
        <3> QED BY <2>1, <3>1
    <2> QED BY <2>2, CoversByRows
<1>6. total \in [Reimbursements -> Nat] /\ \A b \in Reimbursements : total[b] = 0
    BY DEF Init
<1>7. \A b \in Reimbursements : SumOf(Repaid(b)) = 0
    BY <1>2, <1>4 DEF SumOf
<1> QED BY <1>5, <1>6, <1>7 DEF PaymentsAdd

\* Advances and returns: what is returned at once, the panjar has left.
LEMMA AdvanceCovers ==
    ASSUME TypeOK, PanjarCovers, NEW p \in Panjars,
           IssuePanjar(p) \/ \E a \in Returns : ReturnPanjar(p, a)
    PROVE  PanjarCovers'
<1>1. UNCHANGED <<status, content>>
    BY DEF IssuePanjar, ReturnPanjar, rows
<1>2. \A q \in Panjars : RowsOf(q)' = RowsOf(q)
    BY <1>1 DEF RowsOf, Active
<1>3. Prices' = Prices
    BY <1>1 DEF Prices
<1>4. \A q \in Panjars : SumFunctionOnSet(Prices, RowsOf(q)) \in Nat
    BY PricesAreNatural, SumOfSome DEF RowsOf, Active
<1>5. \A q \in Panjars : /\ SumFunctionOnSet(Prices, RowsOf(q)) + returned[q] <= panjar[q]
                         /\ panjar[q] \in Nat /\ returned[q] \in Nat
    BY CoversByRows DEF TypeOK
<1>6. \A q \in Panjars \ {p} : panjar'[q] = panjar[q] /\ returned'[q] = returned[q]
    BY DEF IssuePanjar, ReturnPanjar, TypeOK
<1>7. SumFunctionOnSet(Prices, RowsOf(p)) + returned'[p] <= panjar'[p]
    <2>1. CASE IssuePanjar(p)
        <3>1. panjar[p] = 0 /\ panjar'[p] = Advance[p] /\ returned'[p] = returned[p] /\ Advance[p] \in Nat
            BY <2>1 DEF IssuePanjar, TypeOK
        <3> QED BY <1>4, <1>5, <3>1
    <2>2. ASSUME NEW a \in Returns, ReturnPanjar(p, a)
          PROVE  SumFunctionOnSet(Prices, RowsOf(p)) + returned'[p] <= panjar'[p]
        <3>1. /\ a <= (panjar[p] - SumFunctionOnSet(Prices, RowsOf(p))) - returned[p]
              /\ panjar'[p] = panjar[p] /\ returned'[p] = returned[p] + a /\ a \in Nat
            BY <2>2 DEF ReturnPanjar, Remains, SumOf, RowsOf, TypeOK
        <3> QED BY <1>4, <1>5, <3>1
    <2> QED BY <2>1, <2>2
<1> QED BY <1>2, <1>3, <1>5, <1>6, <1>7 DEF PanjarCovers, SumOf, RowsOf

\* A batch adds to the rows of a panjar those that draw on it, which fit together.
LEMMA RecordCovers ==
    ASSUME TypeOK, TypeOK', PanjarCovers, NEW new \in SUBSET Items, NEW t \in 0..MaxTime,
           NEW in \in [new -> Contents], Record(new, in, t)
    PROVE  PanjarCovers'
<1> SUFFICES ASSUME NEW p \in Panjars
             PROVE  SumFunctionOnSet(Prices', RowsOf(p)') + returned'[p] <= panjar'[p]
    BY DEF PanjarCovers, SumOf, RowsOf
<1> DEFINE drawing == {i \in new : in[i].fund = p}
           asked == [i \in new |-> in[i].amount]
<1>1. /\ \A i \in new : status[i] = "ABSENT" /\ status'[i] = "ACTIVE" /\ content'[i] = in[i]
      /\ \A i \in Items \ new : status'[i] = status[i] /\ content'[i] = content[i]
      /\ UNCHANGED <<panjar, returned>>
    BY DEF Record, TypeOK, advances
<1>2. RowsOf(p)' = RowsOf(p) \cup drawing /\ RowsOf(p) \cap drawing = {}
    BY <1>1 DEF RowsOf, Active
<1>3. RowsOf(p) \in SUBSET Items /\ drawing \in SUBSET Items /\ IsFiniteSet(Items)
    BY DEF RowsOf, Active
<1>4. Prices \in [Items -> Nat] /\ Prices' \in [Items -> Nat]
    <2>1. NoContent.amount = 0
        BY DEF NoContent
    <2>2. \A i \in Items : content'[i].amount \in Nat
        BY <2>1 DEF TypeOK
    <2> QED BY <2>2, PricesAreNatural DEF Prices
<1>5. /\ SumFunctionOnSet(Prices', RowsOf(p) \cup drawing)
             = SumFunctionOnSet(Prices', RowsOf(p)) + SumFunctionOnSet(Prices', drawing)
      /\ SumFunctionOnSet(Prices', RowsOf(p)) \in Nat /\ SumFunctionOnSet(Prices', drawing) \in Nat
    <2>1. IsFiniteSet(RowsOf(p)) /\ IsFiniteSet(drawing)
        BY <1>3, FS_Subset
    <2>2. \A i \in RowsOf(p) \cup drawing : Prices'[i] \in Nat
        BY <1>3, <1>4
    <2> HIDE DEF drawing
    <2> QED BY <1>2, <2>1, <2>2, SumJoin
<1>6. SumFunctionOnSet(Prices', RowsOf(p)) = SumFunctionOnSet(Prices, RowsOf(p))
    <2>1. \A i \in RowsOf(p) : content'[i] = content[i]
        BY <1>1 DEF RowsOf, Active
    <2> QED BY <1>3, <2>1, SumOfKept
<1>7. SumFunctionOnSet(Prices', drawing) = SumFunctionOnSet(asked, drawing)
    <2>1. \A i \in drawing : Prices'[i] \in Nat /\ Prices'[i] = asked[i]
        BY <1>1, <1>4 DEF Prices
    <2>2. IsFiniteSet(drawing)
        BY <1>3, FS_Subset
    <2> HIDE DEF drawing, asked
    <2> QED BY <2>1, <2>2, SumSame
<1>8. /\ SumFunctionOnSet(Prices, RowsOf(p)) + returned[p] <= panjar[p]
      /\ panjar[p] \in Nat /\ returned[p] \in Nat
    BY CoversByRows DEF TypeOK
<1>9. CASE drawing = {}
    <2>1. RowsOf(p)' = RowsOf(p)
        BY <1>2, <1>9
    <2> QED BY <1>1, <1>6, <1>8, <2>1
<1>10. CASE drawing # {}
    <2>1. SumFunctionOnSet(asked, drawing)
              <= (panjar[p] - SumFunctionOnSet(Prices, RowsOf(p))) - returned[p]
        BY <1>10 DEF Record, Fit, Remains, SumOf, RowsOf
    <2> HIDE DEF drawing, asked
    <2> QED BY <1>1, <1>2, <1>5, <1>6, <1>7, <1>8, <2>1
<1> QED BY <1>9, <1>10

\* The other rows of a panjar are those it has without the row that is changed.
LEMMA RowsBeside ==
    ASSUME TypeOK, Facts, ~Free, NEW c, NEW s, Revise(c, s), NEW p \in Panjars
    PROVE  /\ RowsOf(p)' \ {change.item} = RowsOf(p) \ {change.item}
           /\ change.item \in RowsOf(p)' <=> s = "ACTIVE" /\ c.fund = p
           /\ SumFunctionOnSet(Prices', RowsOf(p) \ {change.item})
                = SumFunctionOnSet(Prices, RowsOf(p) \ {change.item})
           /\ Prices'[change.item] = c.amount
<1>1. change.item \in Items
    BY DEF TypeOK, Changes, Free
<1>2. /\ status'[change.item] = s /\ content'[change.item] = c
      /\ \A i \in Items \ {change.item} : status'[i] = status[i] /\ content'[i] = content[i]
    BY <1>1 DEF Revise, TypeOK
<1>3. \A i \in RowsOf(p) \ {change.item} : content'[i] = content[i] /\ i \in Items
    BY <1>2 DEF RowsOf, Active
<1>4. SumFunctionOnSet(Prices', RowsOf(p) \ {change.item})
          = SumFunctionOnSet(Prices, RowsOf(p) \ {change.item})
    BY <1>3, SumOfKept
<1>5. Prices'[change.item] = c.amount
    BY <1>1, <1>2 DEF Prices
<1> QED BY <1>1, <1>2, <1>4, <1>5 DEF RowsOf, Active

\* A change takes the row from its panjar, and gives it to one that can afford it.
LEMMA ReviseCovers ==
    ASSUME TypeOK, TypeOK', Facts, PanjarCovers, ~Free, NEW c, NEW s, Revise(c, s),
           s = "ACTIVE" => Affordable(c)
    PROVE  PanjarCovers'
<1> SUFFICES ASSUME NEW p \in Panjars
             PROVE  SumFunctionOnSet(Prices', RowsOf(p)') + returned'[p] <= panjar'[p]
    BY DEF PanjarCovers, SumOf, RowsOf
<1> PICK i \in Items : i = change.item
    BY DEF TypeOK, Changes, Free
<1>1. /\ RowsOf(p)' \ {i} = RowsOf(p) \ {i}
      /\ i \in RowsOf(p)' <=> s = "ACTIVE" /\ c.fund = p
      /\ SumFunctionOnSet(Prices', RowsOf(p) \ {i}) = SumFunctionOnSet(Prices, RowsOf(p) \ {i})
      /\ Prices'[i] = c.amount
    BY RowsBeside
<1>2. UNCHANGED <<panjar, returned>>
    BY DEF Revise, advances
<1>3. /\ SumFunctionOnSet(Prices, RowsOf(p)) + returned[p] <= panjar[p]
      /\ panjar[p] \in Nat /\ returned[p] \in Nat
    BY CoversByRows DEF TypeOK
<1>4. Prices \in [Items -> Nat] /\ Prices' \in [Items -> Nat]
    <2>1. NoContent.amount = 0
        BY DEF NoContent
    <2>2. \A j \in Items : content'[j].amount \in Nat
        BY <2>1 DEF TypeOK
    <2> QED BY <2>2, PricesAreNatural DEF Prices
<1>5. /\ SumFunctionOnSet(Prices, RowsOf(p)) \in Nat /\ SumFunctionOnSet(Prices, RowsOf(p) \ {i}) \in Nat
      /\ SumFunctionOnSet(Prices, RowsOf(p) \ {i}) <= SumFunctionOnSet(Prices, RowsOf(p))
    BY <1>4, SumOfSome DEF RowsOf, Active
<1>6. CASE i \notin RowsOf(p)'
    <2>1. RowsOf(p)' = RowsOf(p) \ {i}
        BY <1>1, <1>6
    <2> QED BY <1>1, <1>2, <1>3, <1>5, <2>1
<1>7. CASE i \in RowsOf(p)'
    <2>1. c.amount <= (panjar[p] - SumFunctionOnSet(Prices, RowsOf(p) \ {i})) - returned[p]
        <3>1. {j \in Active(Items \ {i}) : content[j].fund = p} = RowsOf(p) \ {i}
            BY DEF RowsOf, Active
        <3>2. c.amount <= Remains(p, Items \ {i})
            BY <1>1, <1>7 DEF Affordable
        <3> QED BY <3>1, <3>2 DEF Remains, SumOf
    <2>2. SumFunctionOnSet(Prices', RowsOf(p)')
              = Prices'[i] + SumFunctionOnSet(Prices', RowsOf(p)' \ {i})
        <3>1. RowsOf(p)' \in SUBSET Items
            BY DEF RowsOf, Active
        <3>2. IsFiniteSet(RowsOf(p)') /\ \A j \in RowsOf(p)' : Prices'[j] \in Nat
            BY <1>4, <3>1, FS_Subset
        <3> QED BY <1>7, <3>2, SumWithout
    <2>3. SumFunctionOnSet(Prices', RowsOf(p)')
              = c.amount + SumFunctionOnSet(Prices, RowsOf(p) \ {i})
        BY <1>1, <2>2
    <2>4. c.amount \in Nat
        BY <1>1, <1>4
    <2> QED BY <1>2, <1>3, <1>5, <2>1, <2>3, <2>4
<1> QED BY <1>6, <1>7

LEMMA CoversStep == TypeOK /\ TypeOK' /\ Facts /\ PanjarCovers /\ [Next]_vars => PanjarCovers'
<1> SUFFICES ASSUME TypeOK, TypeOK', Facts, PanjarCovers, [Next]_vars PROVE PanjarCovers'
    OBVIOUS
<1>1. ASSUME NEW c \in Contents, Correct(c) PROVE PanjarCovers'
    BY <1>1, ReviseCovers DEF Correct, Free, NoChange
<1>2. CASE VoidItem
    BY <1>2, ReviseCovers DEF VoidItem, Free, NoChange
<1>3. ASSUME \/ \E i \in Items, kind \in {"correct", "void"}, for \in Reports \cup {NoReport} :
                    BeginChange(i, kind, for)
             \/ Abandon \/ Tick
             \/ \E b \in Reimbursements, o \in Officers, S \in SUBSET Items : Reimburse(b, o, S)
             \/ \E r \in Receipts : RecordReceipt(r) \/ \E f \in Files : AddFile(r, f) \/ DeleteFile(r, f)
             \/ \E k \in Reports : Publish(k) \/ Unpublish(k) \/ \E t \in 0..MaxTime : Freeze(k, t)
             \/ UNCHANGED vars
      PROVE  UNCHANGED <<panjar, returned, status, content>>
    BY <1>3 DEF BeginChange, Abandon, Tick, Reimburse, RecordReceipt, AddFile, DeleteFile, Publish,
                Unpublish, Freeze, vars, advances, rows
<1>4. CASE UNCHANGED <<panjar, returned, status, content>>
    BY <1>4 DEF PanjarCovers, SumOf, Prices, Active
<1> QED BY <1>1, <1>2, <1>3, <1>4, AdvanceCovers, RecordCovers DEF Next

\* Neither a batch nor a change touches a repaid row.
LEMMA RepaidStay ==
    ASSUME TypeOK, Facts, [Next]_vars, NEW i \in Items, reimbursement[i] # NoReimbursement
    PROVE  content'[i] = content[i]
<1>1. status[i] = "ACTIVE"
    BY DEF Facts, RepaidRowsStand
<1>2. ASSUME NEW new \in SUBSET Items, NEW t \in 0..MaxTime, NEW in \in [new -> Contents],
             Record(new, in, t)
      PROVE  content'[i] = content[i]
    BY <1>1, <1>2 DEF Record
<1>3. ASSUME NEW c, NEW s, ~Free, Revise(c, s)
      PROVE  content'[i] = content[i]
    <2>1. change.item # i
        BY <1>3 DEF Facts, ChangeStands, Changeable
    <2> QED BY <1>3, <2>1 DEF Revise, TypeOK
<1>4. ASSUME NEW c \in Contents, Correct(c) PROVE content'[i] = content[i]
    BY <1>3, <1>4 DEF Correct, Free, NoChange
<1>5. CASE VoidItem
    BY <1>3, <1>5 DEF VoidItem, Free, NoChange
<1>6. ASSUME \/ \E p \in Panjars : IssuePanjar(p) \/ \E a \in Returns : ReturnPanjar(p, a)
             \/ \E j \in Items, kind \in {"correct", "void"}, for \in Reports \cup {NoReport} :
                    BeginChange(j, kind, for)
             \/ Abandon \/ Tick
             \/ \E b \in Reimbursements, o \in Officers, S \in SUBSET Items : Reimburse(b, o, S)
             \/ \E r \in Receipts : RecordReceipt(r) \/ \E f \in Files : AddFile(r, f) \/ DeleteFile(r, f)
             \/ \E k \in Reports : Publish(k) \/ Unpublish(k) \/ \E t \in 0..MaxTime : Freeze(k, t)
             \/ UNCHANGED vars
      PROVE  UNCHANGED content
    BY <1>6 DEF IssuePanjar, ReturnPanjar, BeginChange, Abandon, Tick, Reimburse, RecordReceipt,
                AddFile, DeleteFile, Publish, Unpublish, Freeze, vars, rows
<1> QED BY <1>2, <1>4, <1>5, <1>6 DEF Next

\* A payment adds up the rows it repays, which no other payment had repaid.
LEMMA ReimburseAdds ==
    ASSUME TypeOK, Facts, PaymentsAdd, NEW b \in Reimbursements, NEW o \in Officers,
           NEW S \in SUBSET Items, Reimburse(b, o, S)
    PROVE  PaymentsAdd'
<1>1. /\ UNCHANGED content /\ total' = [total EXCEPT ![b] = SumOf(S)]
      /\ \A i \in S : reimbursement[i] = NoReimbursement /\ reimbursement'[i] = b
      /\ \A i \in Items \ S : reimbursement'[i] = reimbursement[i]
    BY DEF Reimburse
<1>2. Prices' = Prices
    BY <1>1 DEF Prices
<1>3. SumOf(S) \in Nat
    BY PricesAreNatural, SumOfSome DEF SumOf
<1>4. Repaid(b)' = S
    <2>1. \A i \in Items : reimbursement[i] # b
        BY DEF Reimburse, Facts, RepaidRowsStand
    <2> QED BY <1>1, <2>1 DEF Repaid
<1>5. \A x \in Reimbursements \ {b} : Repaid(x)' = Repaid(x)
    BY <1>1 DEF Repaid
<1> QED BY <1>1, <1>2, <1>3, <1>4, <1>5 DEF PaymentsAdd, SumOf

LEMMA PaymentsStep == TypeOK /\ Facts /\ PaymentsAdd /\ [Next]_vars => PaymentsAdd'
<1> SUFFICES ASSUME TypeOK, Facts, PaymentsAdd, [Next]_vars PROVE PaymentsAdd'
    OBVIOUS
<1>1. UNCHANGED <<total, reimbursement>>
      \/ \E b \in Reimbursements, o \in Officers, S \in SUBSET Items : Reimburse(b, o, S)
    BY DEF Next, IssuePanjar, ReturnPanjar, Record, BeginChange, Correct, VoidItem, Revise, Abandon,
           Tick, RecordReceipt, AddFile, DeleteFile, Publish, Unpublish, Freeze, vars, rows, payments
<1>2. CASE UNCHANGED <<total, reimbursement>>
    <2> SUFFICES ASSUME NEW b \in Reimbursements
                 PROVE  total[b] = SumFunctionOnSet(Prices', Repaid(b))
        BY <1>2 DEF PaymentsAdd, SumOf, Repaid
    <2>1. Repaid(b) \in SUBSET Items
        BY DEF Repaid
    <2>2. \A i \in Repaid(b) : content'[i] = content[i]
        BY RepaidStay DEF Repaid
    <2>3. SumFunctionOnSet(Prices', Repaid(b)) = SumFunctionOnSet(Prices, Repaid(b))
        BY <2>1, <2>2, SumOfKept
    <2> QED BY <2>3 DEF PaymentsAdd, SumOf
<1> QED BY <1>1, <1>2, ReimburseAdds

\* The inductive invariant.
IInv == TypeOK /\ Facts /\ PanjarCovers /\ PaymentsAdd

\* The invariant holds of every reachable state.
THEOREM Invariant == Spec => []IInv
<1>1. Init => IInv
    BY TypeInit, FactsInit, SumsInit DEF IInv
<1>2. IInv /\ [Next]_vars => IInv'
    <2>1. TypeOK /\ Facts /\ [Next]_vars => TypeOK' /\ Facts'
        BY TypeStep, FactsStep DEF Facts
    <2> QED BY <2>1, CoversStep, PaymentsStep DEF IInv
<1> QED BY <1>1, <1>2, PTL DEF Spec

(***************************************************************************)
(* The theorems                                                            *)
(***************************************************************************)
\* Rows, their histories, advances, receipts, reports and the change under way
\* keep their types, whatever requests are made in whatever order.
THEOREM TypeCorrect == Spec => []TypeOK
<1>1. IInv => TypeOK
    BY DEF IInv, Facts
<1> QED BY <1>1, Invariant, PTL

\* A repaid row is valid and his to whom the money went (lockChangeableItem
\* refuses to change it, reimburseTalangan to repay it again).
THEOREM RepaidRowsAlwaysStand == Spec => []RepaidRowsStand
<1>1. IInv => RepaidRowsStand
    BY DEF IInv, Facts
<1> QED BY <1>1, Invariant, PTL

\* No panjar accounts for more than was handed out, whatever batches, corrections,
\* voidings and returns were made (fundingIssue, returnPanjar).
THEOREM PanjarsCover == Spec => []PanjarCovers
<1>1. IInv => PanjarCovers
    BY DEF IInv
<1> QED BY <1>1, Invariant, PTL

\* What an officer was paid at once is what the rows repaid by it say, then and
\* ever after (reimburseTalangan, lockChangeableItem).
THEOREM PaymentsStand == Spec => []ReimbursedAsPaid
<1>1. IInv => ReimbursedAsPaid
    BY DEF IInv, Facts, PaymentsAdd, Repaid, ReimbursedAsPaid
<1> QED BY <1>1, Invariant, PTL

\* What a report counted stays in the history of its rows (insertItemVersion).
THEOREM ReportsStayOnRecord == Spec => []ReportedIsOnRecord
<1>1. IInv => ReportedIsOnRecord
    BY DEF IInv, Facts
<1> QED BY <1>1, Invariant, PTL

\* But for one change that was let through before the lock came, a row that a lock
\* covers changes as a declared correction only (assertOutsidePublishedPeriod).
THEOREM LocksAlwaysHold == Spec => []LockHolds
<1>1. IInv => LockHolds
    <2> SUFFICES ASSUME IInv, NEW k \in locks, NEW i \in Items, status[i] # "ABSENT", Covers(k, i),
                        NEW v \in (mark[k][i] + 2)..Len(history[i])
                 PROVE  history[i][v].for \in {r \in Reports : Covers(r, i)}
        BY DEF LockHolds
    <2>1. mark[k][i] \in Nat /\ history[i] \in Seq(Versions) /\ frozen \subseteq Reports
        BY DEF IInv, TypeOK
    <2>2. v \in DOMAIN history[i]
        BY <2>1
    <2>3. history[i][v].for # NoReport
        BY DEF IInv, Facts, DeclaredPastMark
    <2> QED BY <2>1, <2>2, <2>3 DEF IInv, Facts, DeclaredCovers, Declares
<1> QED BY <1>1, Invariant, PTL

\* The files of a receipt that any version of any row cited are never deleted
\* (markReceiptEvidenced, deleteReceiptFile).
THEOREM CitedFilesAreKept == Spec => CitedKeepsFiles
<1>1. IInv /\ [Next]_vars =>
          \A r \in Receipts :
              (\E i \in Items : \E v \in DOMAIN history[i] : history[i][v].content.receipt = r)
              => files[r] \subseteq files'[r]
    <2> SUFFICES ASSUME IInv, [Next]_vars, NEW r \in Receipts, NEW i \in Items,
                        NEW v \in DOMAIN history[i], history[i][v].content.receipt = r
                 PROVE  files[r] \subseteq files'[r]
        OBVIOUS
    <2>1. r \in evidenced /\ files \in [Receipts -> SUBSET Files]
        BY DEF IInv, Facts, CitedIsEvidenced, TypeOK
    <2>2. ASSUME NEW s \in Receipts, NEW f \in Files, DeleteFile(s, f)
          PROVE  files[r] \subseteq files'[r]
        BY <2>1, <2>2 DEF DeleteFile
    <2>3. ASSUME NEW s \in Receipts, NEW f \in Files, AddFile(s, f)
          PROVE  files[r] \subseteq files'[r]
        BY <2>1, <2>3 DEF AddFile
    <2>4. (\E s \in Receipts, f \in Files : DeleteFile(s, f) \/ AddFile(s, f)) \/ files' = files
        BY DEF Next, IssuePanjar, ReturnPanjar, Record, BeginChange, Correct, VoidItem, Revise,
           Abandon, Reimburse, RecordReceipt, Freeze, Publish, Unpublish, Tick, vars, evidence
    <2> QED BY <2>2, <2>3, <2>4
<1> QED BY <1>1, Invariant, PTL DEF Spec, CitedKeepsFiles
=============================================================================
