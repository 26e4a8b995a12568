CONSTANTS
    StorageCalls = {b1}
    MaxEpochs = 2
    MaxCommittees = 3
    MaxResets = 0
    NoValue = NoValue
SPECIFICATION CommitteeSpec
INVARIANT ReadsAreFresh
CHECK_DEADLOCK FALSE
