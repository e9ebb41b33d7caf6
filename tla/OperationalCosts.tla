-------------------------- MODULE OperationalCosts --------------------------
(***************************************************************************)
(* The operational costs of one proposal: rows with a source of funds and  *)
(* every version they ever had, the cash advances (panjar) officers carry, *)
(* the repayment of what they paid themselves (talangan), the receipts,    *)
(* and the period reports that count the rows and lock them.               *)
(*                                                                         *)
(* Every request on costs is one transaction that holds the proposal's row *)
(* to its end, hence one action, except a change of a row: it reads the    *)
(* period locks, which the registry's transactions write without asking    *)
(* for the proposal, and writes the row later.                             *)
(***************************************************************************)
EXTENDS Integers, Sequences, FiniteSets, Functions

CONSTANTS
    Items,           \* cost rows
    Officers, Panjars, Receipts, Files, Reimbursements,
    Reports,         \* report packages frozen from the realization stream
    Cash,            \* kas lembaga, the third source of funds
    NoReceipt, NoReimbursement, NoReport, Nobody, NoItem,
    Contents,        \* what a form may say of a row
    Advance,         \* Advance[p]: the rupiah of panjar p
    Returns,         \* what may be returned from a panjar at once
    Period,          \* Period[k]: the times that report k is about
    MaxTime,         \* bound: the clock
    MaxVersions      \* bound: versions of all rows together

Funds     == {Cash} \cup Officers \cup Panjars    \* an officer: his talangan
NoContent == [amount |-> 0, fund |-> Cash, receipt |-> NoReceipt]

ASSUME CostsAssumption ==
    /\ IsFiniteSet(Items)
    /\ Contents \subseteq [amount : Nat \ {0}, fund : Funds,
                           receipt : Receipts \cup {NoReceipt}]
    /\ Advance \in [Panjars -> Nat \ {0}] /\ Returns \subseteq Nat \ {0}
    /\ Officers \cap Panjars = {} /\ Cash \notin Officers \cup Panjars
    /\ NoReceipt \notin Receipts /\ NoReimbursement \notin Reimbursements
    /\ NoReport \notin Reports /\ Nobody \notin Officers /\ NoItem \notin Items
    /\ Period \in [Reports -> SUBSET Nat]
    /\ MaxTime \in Nat /\ MaxVersions \in Nat

VARIABLES
    clock,
    panjar, returned,              \* amount_idr, 0 before it is issued; returns
    status, content, recordedAt, reimbursement,   \* operational_cost_items
    history,                       \* operational_cost_item_versions
    holder, total,                 \* operational_cost_reimbursements
    receipts, evidenced, files,    \* operational_cost_receipts, _receipt_files
    change,                        \* the correction or voiding under way
    frozen, cutOff, counted,       \* the sources of reports, and the rows in them
    locks,                         \* report_period_locks
    mark                           \* history only: versions of each row when locked

advances == <<panjar, returned>>
rows     == <<status, content, recordedAt, reimbursement, history>>
payments == <<holder, total>>
evidence == <<receipts, evidenced, files>>
reports  == <<frozen, cutOff, counted, locks, mark>>
vars == <<clock, advances, rows, payments, evidence, change, reports>>

NoChange == [item |-> NoItem, kind |-> "none", for |-> NoReport]
Changes  == [item : Items, kind : {"correct", "void"}, for : Reports \cup {NoReport}]
Versions == [content : Contents, status : {"ACTIVE", "VOIDED"},
             for : Reports \cup {NoReport}]

TypeOK ==
    /\ clock \in 0..MaxTime
    /\ panjar \in [Panjars -> Nat] /\ returned \in [Panjars -> Nat]
    /\ status \in [Items -> {"ABSENT", "ACTIVE", "VOIDED"}]
    /\ content \in [Items -> Contents \cup {NoContent}]
    /\ recordedAt \in [Items -> 0..MaxTime]
    /\ reimbursement \in [Items -> Reimbursements \cup {NoReimbursement}]
    /\ history \in [Items -> Seq(Versions)]
    /\ holder \in [Reimbursements -> Officers \cup {Nobody}]
    /\ receipts \subseteq Receipts /\ evidenced \subseteq receipts
    /\ files \in [Receipts -> SUBSET Files]
    /\ change \in Changes \cup {NoChange}
    /\ frozen \subseteq Reports /\ locks \subseteq frozen
    /\ cutOff \in [Reports -> 0..MaxTime]
    /\ counted \in [Reports -> [Items -> Contents \cup {NoContent}]]
    /\ mark \in [Reports -> [Items -> Nat]]

Init ==
    /\ clock = 0
    /\ panjar = [p \in Panjars |-> 0] /\ returned = [p \in Panjars |-> 0]
    /\ status = [i \in Items |-> "ABSENT"]
    /\ content = [i \in Items |-> NoContent]
    /\ recordedAt = [i \in Items |-> 0]
    /\ reimbursement = [i \in Items |-> NoReimbursement]
    /\ history = [i \in Items |-> << >>]
    /\ holder = [b \in Reimbursements |-> Nobody]
    /\ total = [b \in Reimbursements |-> 0]
    /\ receipts = {} /\ evidenced = {} /\ files = [r \in Receipts |-> {}]
    /\ change = NoChange
    /\ frozen = {} /\ locks = {}
    /\ cutOff = [k \in Reports |-> 0]
    /\ counted = [k \in Reports |-> [i \in Items |-> NoContent]]
    /\ mark = [k \in Reports |-> [i \in Items |-> 0]]

\* The proposal's row is free: no change is under way.
Free == change = NoChange

(***************************************************************************)
(* Cash advances                                                           *)
(***************************************************************************)
Prices == [i \in Items |-> content[i].amount]

SumOf(S) == SumFunctionOnSet(Prices, S)

Active(S) == {i \in S : status[i] = "ACTIVE"}

\* What a panjar has left, given the rows S.
Remains(p, S) ==
    (panjar[p] - SumOf({i \in Active(S) : content[i].fund = p})) - returned[p]

IssuePanjar(p) ==
    /\ Free
    /\ panjar[p] = 0
    /\ panjar' = [panjar EXCEPT ![p] = Advance[p]]
    /\ UNCHANGED <<clock, returned, rows, payments, evidence, change, reports>>

ReturnPanjar(p, a) ==
    /\ Free
    /\ a <= Remains(p, Items)
    /\ returned' = [returned EXCEPT ![p] = @ + a]
    /\ UNCHANGED <<clock, panjar, rows, payments, evidence, change, reports>>

(***************************************************************************)
(* Rows                                                                    *)
(***************************************************************************)
Cites(c) == c.receipt \in receipts \cup {NoReceipt}       \* receiptIssue

Evidence(C) == {c.receipt : c \in C} \ {NoReceipt}        \* markReceiptEvidenced

\* The rows of a batch that are recorded fit the panjars together (fundingIssue
\* with the batch's own spending).  A faulty variant first: each on its own.
FitAlone(new, in) ==
    \A i \in new : in[i].fund \in Panjars => in[i].amount <= Remains(in[i].fund, Items)

Fit(new, in) ==
    \A p \in Panjars : LET asked   == [i \in new |-> in[i].amount]
                           drawing == {i \in new : in[i].fund = p}
                       IN drawing # {} => SumFunctionOnSet(asked, drawing) <= Remains(p, Items)

\* A batch: its other rows come back with their issues.  The request took its
\* time t before it waited for the proposal.
Record(new, in, t) ==
    /\ Free
    /\ new # {} /\ \A i \in new : status[i] = "ABSENT" /\ Cites(in[i])
    /\ Fit(new, in)
    /\ t \in {clock - 1, clock}
    /\ status' = [i \in Items |-> IF i \in new THEN "ACTIVE" ELSE status[i]]
    /\ content' = [i \in Items |-> IF i \in new THEN in[i] ELSE content[i]]
    /\ recordedAt' = [i \in Items |-> IF i \in new THEN t ELSE recordedAt[i]]
    /\ history' = [i \in Items |->
           IF i \in new THEN <<[content |-> in[i], status |-> "ACTIVE", for |-> NoReport]>>
           ELSE history[i]]
    /\ evidenced' = evidenced \cup Evidence({in[i] : i \in new})
    /\ UNCHANGED <<clock, advances, reimbursement, payments, receipts, files, change, reports>>

\* covers: the test that decided whether a report counts a row.
Covers(k, i) == recordedAt[i] \in Period[k] /\ recordedAt[i] <= cutOff[k]

\* assertOutsidePublishedPeriod.  A faulty variant first: whoever declares
\* nothing is let through.
AllowedUndeclared(i, for) ==
    for \in {NoReport} \cup {k \in locks : Covers(k, i)}

Allowed(i, for) ==
    LET covering == {k \in locks : Covers(k, i)}
    IN for \in (IF covering = {} THEN {NoReport} ELSE covering)

\* lockChangeableItem.  A faulty variant first: repaid rows may change.
ChangeableWhenPaid(i) == status[i] = "ACTIVE"

Changeable(i) == status[i] = "ACTIVE" /\ reimbursement[i] = NoReimbursement

\* A correction or voiding of the current version (expectedVersion); `for' is what
\* is kept of forReportCorrection.  From here on it holds the proposal and the row.
BeginChange(i, kind, for) ==
    /\ Free
    /\ Changeable(i) /\ Allowed(i, for)
    /\ SumFunction([j \in Items |-> Len(history[j])]) < MaxVersions
    /\ change' = [item |-> i, kind |-> kind, for |-> for]
    /\ UNCHANGED <<clock, advances, rows, payments, evidence, reports>>

\* The new version of the row that is changed, and of its evidence.
Revise(c, s) ==
    LET i == change.item
    IN /\ status' = [status EXCEPT ![i] = s]
       /\ content' = [content EXCEPT ![i] = c]
       /\ history' = [history EXCEPT ![i] =
              Append(@, [content |-> c, status |-> s, for |-> change.for])]
       /\ change' = NoChange
       /\ UNCHANGED <<clock, advances, recordedAt, reimbursement, payments, receipts, files,
                      reports>>

\* The row gives its own spending back before the new amount is compared.
Affordable(c) == c.fund \in Panjars => c.amount <= Remains(c.fund, Items \ {change.item})

\* Faulty variant: the correction replaces the version it corrects.
CorrectInPlace(c) ==
    /\ change.kind = "correct"
    /\ Affordable(c) /\ Cites(c)
    /\ LET i == change.item
       IN /\ content' = [content EXCEPT ![i] = c]
          /\ history' = [history EXCEPT ![i][Len(history[i])] =
                 [content |-> c, status |-> "ACTIVE", for |-> change.for]]
    /\ evidenced' = evidenced \cup Evidence({c})
    /\ change' = NoChange
    /\ UNCHANGED <<clock, advances, status, recordedAt, reimbursement, payments, receipts,
                   files, reports>>

Correct(c) ==
    /\ change.kind = "correct"
    /\ Affordable(c) /\ Cites(c)
    /\ Revise(c, "ACTIVE")
    /\ evidenced' = evidenced \cup Evidence({c})

VoidItem ==
    /\ change.kind = "void"
    /\ Revise(content[change.item], "VOIDED")
    /\ UNCHANGED evidenced

\* The change is refused or fails: its transaction is rolled back.
Abandon ==
    /\ ~Free
    /\ change' = NoChange
    /\ UNCHANGED <<clock, advances, rows, payments, evidence, reports>>

\* One officer's talangan rows are repaid at once.
Reimburse(b, o, S) ==
    /\ Free
    /\ holder[b] = Nobody
    /\ S # {}
    /\ \A i \in S : /\ status[i] = "ACTIVE" /\ content[i].fund = o
                    /\ reimbursement[i] = NoReimbursement
    /\ holder' = [holder EXCEPT ![b] = o]
    /\ total' = [total EXCEPT ![b] = SumOf(S)]
    /\ reimbursement' = [i \in Items |-> IF i \in S THEN b ELSE reimbursement[i]]
    /\ UNCHANGED <<clock, advances, status, content, recordedAt, history, evidence, change,
                   reports>>

(***************************************************************************)
(* Receipts                                                                *)
(***************************************************************************)
RecordReceipt(r) ==
    /\ Free
    /\ r \notin receipts
    /\ receipts' = receipts \cup {r}
    /\ UNCHANGED <<clock, advances, rows, payments, evidenced, files, change, reports>>

AddFile(r, f) ==
    /\ Free
    /\ r \in receipts /\ f \notin files[r]
    /\ files' = [files EXCEPT ![r] = @ \cup {f}]
    /\ UNCHANGED <<clock, advances, rows, payments, receipts, evidenced, change, reports>>

\* Faulty variant: what counts is whether a row cites the receipt now.
DeleteUncited(r, f) ==
    /\ Free
    /\ r \in receipts /\ \A i \in Active(Items) : content[i].receipt # r
    /\ f \in files[r]
    /\ files' = [files EXCEPT ![r] = @ \ {f}]
    /\ UNCHANGED <<clock, advances, rows, payments, receipts, evidenced, change, reports>>

DeleteFile(r, f) ==
    /\ Free
    /\ r \in receipts \ evidenced
    /\ f \in files[r]
    /\ files' = [files EXCEPT ![r] = @ \ {f}]
    /\ UNCHANGED <<clock, advances, rows, payments, receipts, evidenced, change, reports>>

(***************************************************************************)
(* Reports and their locks, which do not wait for the proposal             *)
(***************************************************************************)
\* readRealizationSourceData and buildDisbursementRealizationSide: the rows of
\* the period, up to a cut-off that is not in the future.
Freeze(k, t) ==
    /\ k \notin frozen
    /\ t <= clock
    /\ frozen' = frozen \cup {k}
    /\ cutOff' = [cutOff EXCEPT ![k] = t]
    /\ counted' = [counted EXCEPT ![k] = [i \in Items |->
           IF status[i] = "ACTIVE" /\ recordedAt[i] \in Period[k] /\ recordedAt[i] <= t
           THEN content[i] ELSE NoContent]]
    /\ UNCHANGED <<clock, advances, rows, payments, evidence, change, locks, mark>>

\* followPublication, when the publication is confirmed and when it is dropped.
Publish(k) ==
    /\ k \in frozen \ locks
    /\ locks' = locks \cup {k}
    /\ mark' = [mark EXCEPT ![k] = [i \in Items |-> Len(history[i])]]
    /\ UNCHANGED <<clock, advances, rows, payments, evidence, change, frozen, cutOff, counted>>

Unpublish(k) ==
    /\ k \in locks
    /\ locks' = locks \ {k}
    /\ UNCHANGED <<clock, advances, rows, payments, evidence, change, frozen, cutOff, counted,
                   mark>>

Tick ==
    /\ clock < MaxTime
    /\ clock' = clock + 1
    /\ UNCHANGED <<advances, rows, payments, evidence, change, reports>>

Next ==
    \/ \E p \in Panjars : IssuePanjar(p) \/ \E a \in Returns : ReturnPanjar(p, a)
    \/ \E new \in SUBSET Items, t \in 0..MaxTime : \E in \in [new -> Contents] : Record(new, in, t)
    \/ \E i \in Items, kind \in {"correct", "void"}, for \in Reports \cup {NoReport} :
           BeginChange(i, kind, for)
    \/ \E c \in Contents : Correct(c)
    \/ VoidItem \/ Abandon \/ Tick
    \/ \E b \in Reimbursements, o \in Officers, S \in SUBSET Items : Reimburse(b, o, S)
    \/ \E r \in Receipts : RecordReceipt(r) \/ \E f \in Files : AddFile(r, f) \/ DeleteFile(r, f)
    \/ \E k \in Reports : Publish(k) \/ Unpublish(k) \/ \E t \in 0..MaxTime : Freeze(k, t)

Spec == Init /\ [][Next]_vars

(***************************************************************************)
(* Properties                                                              *)
(***************************************************************************)
\* No panjar ever accounts for more than was handed out, through batches, returns,
\* corrections that move a row from one panjar to another, and voidings.
PanjarCovers ==
    \A p \in Panjars : SumOf({i \in Active(Items) : content[i].fund = p}) + returned[p] <= panjar[p]

\* A repaid row is valid and his to whom the money went, for ever, although rows
\* can be corrected to another source of funds and voided.
RepaidRowsStand ==
    \A i \in Items : reimbursement[i] # NoReimbursement =>
        /\ status[i] = "ACTIVE"
        /\ holder[reimbursement[i]] \in Officers
        /\ content[i].fund = holder[reimbursement[i]]

\* What an officer was paid at once is what the rows repaid by it still say.
ReimbursedAsPaid ==
    /\ RepaidRowsStand
    /\ \A b \in Reimbursements : total[b] = SumOf({i \in Items : reimbursement[i] = b})

\* The files of a receipt that any version of any row ever cited are kept, also
\* when the row was corrected away from it or voided since.
CitedKeepsFiles ==
    [][ \A r \in Receipts :
            (\E i \in Items : \E v \in DOMAIN history[i] : history[i][v].content.receipt = r)
            => files[r] \subseteq files'[r] ]_vars

\* What a report counted can be read in the history of its rows whatever they
\* became, and every such row is covered once the report is published.
ReportedIsOnRecord ==
    \A k \in frozen, i \in Items : counted[k][i] # NoContent =>
        /\ Covers(k, i)
        /\ \E v \in DOMAIN history[i] : /\ history[i][v].content = counted[k][i]
                                        /\ history[i][v].status = "ACTIVE"

\* A row that a lock covers changes only as a declared correction of a report that
\* covers it, but for one change at most: one let through before the lock came.
LockHolds ==
    \A k \in locks, i \in Items : status[i] # "ABSENT" /\ Covers(k, i) =>
        \A v \in (mark[k][i] + 2)..Len(history[i]) :
            history[i][v].for \in {r \in Reports : Covers(r, i)}
=============================================================================
