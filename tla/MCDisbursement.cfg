\* One line of goods, two people, and two decisions in flight at once.
SPECIFICATION Spec
CONSTANTS
    Lines = {goods}
    Goods = {goods}
    People = {p1, p2}
    NoOne = NoOne
    NotFrozen = NotFrozen
    MaxRight = 2
    MaxVersion = 3
    MaxRevisions = 1
    MaxChallenges = 2
SYMMETRY MCSymmetry
INVARIANTS RealizedWithinRights RevisionIsHeld DecidedAsSigned ApproverIsIndependent
PROPERTIES RecordStays TerminationStands
\* A proposal may be rejected, closed or cancelled for good.
CHECK_DEADLOCK FALSE
