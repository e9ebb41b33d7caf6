\* One donation and two concurrent requests, when a retry ends before its lease;
\* the campaign may be shut at any moment.
SPECIFICATION FairSpec
CONSTANTS
    Small = Small
    Large = Large
    Payments = {Large}
    Amount <- MCAmount
    Handlers = {h1, h2}
    NoHandler = NoHandler
    NoPayment = NoPayment
    LeaseTicks = 2
    RetryTicks = 1
    MaxCheckouts = 2
    MaxVersions = 1
INVARIANTS TotalsAreNet StatusTellsMoney
PROPERTIES MoneyNeverRegresses OneCheckout ReceiptsAreCredited
\* The donation may be refunded and the bounds used up.
CHECK_DEADLOCK FALSE
