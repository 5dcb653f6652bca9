\* Every kind of job, and two failing steps or one and a crash.
CONSTANTS
    Absent = Absent
    Edits = {e1}
    Keep = 5
    HardLinks = {TRUE, FALSE}
    Kinds = {"publish", "rebuild", "backup", "restore"}
    Overlap = FALSE
    Faults = {"link", "preserve", "roll", "install", "clear", "rollback", "reinstate", "drop", "tidy"}
    MaxErrors = 2
    MaxJobs = 4
    MaxCrashes = 1
    MaxMishaps = 2
    e1 = e1
    e2 = e2
SPECIFICATION Spec
INVARIANTS StoreSound IndexKept EditsKept
PROPERTIES SwapDelivers FailedSwapRollsBack
CHECK_DEADLOCK FALSE
