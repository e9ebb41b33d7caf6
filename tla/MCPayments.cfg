\* Two donations of different amounts: totals and evidence over both.
SPECIFICATION Spec
CONSTANTS
    Small = Small
    Large = Large
    Payments = {Small, Large}
    Amount <- MCAmount
    Handlers = {h1}
    NoHandler = NoHandler
    NoPayment = NoPayment
    LeaseTicks = 1
    RetryTicks = 1
    MaxCheckouts = 1
    MaxVersions = 2
INVARIANTS MoneyIsWitnessed CreditedIsReal
\* Every donation may be refunded and the bounds used up.
CHECK_DEADLOCK FALSE
