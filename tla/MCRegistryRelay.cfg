\* Two reviews of one package, two handlers, and the pass the timer repeats.
SPECIFICATION FairSpec
CONSTANTS
    NumIntents = 2
    Packages = {"package"}
    PackageOf <- MCPackageOf
    Signatures = {s1}
    NoSignature = NoSignature
    Workers = {w1, w2}
    Recoverers = {timer}
    Timer = timer
    Required = 2
    MaxSpend = 2
    MaxRequests = 3
    MaxUpsets = 1
INVARIANTS SentIsStored NoHoleBelow LockFollows
PROPERTY PublicationLocks
\* The bounds may be used up.
CHECK_DEADLOCK FALSE
