\* Three versions, one operator who is the owner and one who is not.
SPECIFICATION Spec
CONSTANTS
    Owner = owner
    Operators = {owner, op}
    Materials = {m1, m2, m3}
    Consented = {m1, m2}
    NoMaterial = NoMaterial
    MaxVersions = 3
INVARIANTS PublicIsApproved DonorsSeeWhatTheyFund
PROPERTIES ApprovedAsExamined WindowSpec
\* A campaign may be cancelled, closed or rejected for good.
CHECK_DEADLOCK FALSE
