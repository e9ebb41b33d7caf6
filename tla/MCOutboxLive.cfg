\* The lease, and progress behind an older event that can never be recorded, with
\* a batch of one, when a call ends before its lease does.
SPECIFICATION FairSpec
CONSTANTS
    NumEvents = 3
    Drains = {timer1, timer2, manual}
    Timers = {timer1, timer2}
    NoDrain = NoDrain
    BatchSize = 1
    LeaseTicks = 2
    CallTicks = 1
    PauseTicks = 1
    BackoffCap = 1
    MaxAttempts = 4
    Foreign = {1}
    MaxFaults = 2
    MaxRotations = 0
INVARIANT OneRecorderAtATime
PROPERTY EventuallyConfirmed
CHECK_DEADLOCK FALSE
