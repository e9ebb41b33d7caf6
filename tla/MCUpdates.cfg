\* Corrections of corrections, and an operator whose page may be out of date.
SPECIFICATION Spec
CONSTANTS
    Updates = {u1, u2, u3}
    NoUpdate = NoUpdate
    Operators = {o1}
    Amounts = {1, 2}
    MaxCollected = 1
    MaxRefunds = 1
    MaxRevisions = 2
SYMMETRY MCSymmetry
INVARIANTS SupersessionAgrees OnlyProposedIsPublic
PROPERTIES PublicRecordStays PublishedAsExamined OverrunsHaveACause
\* Every update may be withdrawn and the bounds used up.
CHECK_DEADLOCK FALSE
