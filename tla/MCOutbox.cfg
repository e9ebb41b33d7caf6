\* Safety of the outbox, with calls that may outlive their lease.
SPECIFICATION Spec
CONSTANTS
    NumEvents = 2
    Drains = {timer, manual}
    Timers = {timer}
    NoDrain = NoDrain
    BatchSize = 2
    LeaseTicks = 1
    CallTicks = 2
    PauseTicks = 2
    BackoffCap = 1
    MaxAttempts = 1
    Foreign = {}
    MaxFaults = 2
    MaxRotations = 1
INVARIANTS ConfirmedIsRecorded
PROPERTY LogSpec
\* Everything may be confirmed and the bounds used up.
CHECK_DEADLOCK FALSE
