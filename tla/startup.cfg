\* Two workers, each started up to three times; a step of each kind may be
\* refused, and the scheduler may not start.
CONSTANTS
    Workers = {w1, w2}
    NoOne = NoOne
    LockWorks = TRUE
    Faults = {"columns", "photos", "taxonomy", "admin", "scheduler"}
    MaxStarts = 3
SPECIFICATION StartupSpec
INVARIANTS EachRepairOnce SomebodySchedules
PROPERTIES StartsSettle
