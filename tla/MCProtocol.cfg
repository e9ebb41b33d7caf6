\* Two proposals that may compete for one claim, in two currencies.
SPECIFICATION Spec
CONSTANTS
    People = {a, b}
    Batches = {b1}
    Beneficiaries = {x}
    Periods = {m1, m2}
    Deposits = {9}
    Requests = {1, 5}
    MaxCollected = 18
    MaxProposals = 2
    MaxRoleChanges = 1
SYMMETRY MCSymmetry
INVARIANTS BooksBalance PaidOnce DisbursedIsExecuted QuorumStands
PROPERTIES OutcomeStands
\* All may be executed or cancelled and the bounds used up.
CHECK_DEADLOCK FALSE
