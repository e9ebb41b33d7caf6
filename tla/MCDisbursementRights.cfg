\* Money and goods: the rights of a proposal in force.
SPECIFICATION Spec
CONSTANTS
    Lines = {money, goods}
    Goods = {goods}
    People = {p1, p2}
    NoOne = NoOne
    NotFrozen = NotFrozen
    MaxRight = 2
    MaxVersion = 2
    MaxRevisions = 1
    MaxChallenges = 1
SYMMETRY MCSymmetry
INVARIANT RightsAreDecided
CHECK_DEADLOCK FALSE
