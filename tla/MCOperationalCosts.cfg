\* Two rows and a report of their period: batches, changes and locks that race.
SPECIFICATION Spec
CONSTANTS
    ahmad = ahmad
    advance = advance
    nota = nota
    Items = {i1, i2}
    Officers = {ahmad}
    Panjars = {advance}
    Receipts = {nota}
    Files = {f1}
    Reimbursements = {b1}
    Reports = {r1}
    Cash = Cash
    NoReceipt = NoReceipt
    NoReimbursement = NoReimbursement
    NoReport = NoReport
    Nobody = Nobody
    NoItem = NoItem
    Contents <- MCContents
    Advance <- MCAdvance
    Returns = {1}
    Period <- MCPeriod
    MaxTime = 1
    MaxVersions = 4
SYMMETRY MCSymmetry
INVARIANTS PanjarCovers ReimbursedAsPaid ReportedIsOnRecord LockHolds
PROPERTY CitedKeepsFiles
\* Every row may be voided or repaid and the bounds used up.
CHECK_DEADLOCK FALSE
