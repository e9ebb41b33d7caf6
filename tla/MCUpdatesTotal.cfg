\* Without a refund, the total still exceeds the donations.
SPECIFICATION Spec
CONSTANTS
    Updates = {u1, u2, u3}
    NoUpdate = NoUpdate
    Operators = {o1}
    Amounts = {1, 2}
    MaxCollected = 2
    MaxRefunds = 0
    MaxRevisions = 1
SYMMETRY MCSymmetry
INVARIANT ReportedWithinCollected
CHECK_DEADLOCK FALSE
