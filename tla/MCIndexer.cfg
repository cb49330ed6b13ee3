SPECIFICATION FairSpec
CONSTANTS
    Jobs = {j1, j2}
    MaxLedger = 3
    MaxEvents = 3
    PageSize = 2
INVARIANTS NothingSkipped
PROPERTIES EventsRecorded
