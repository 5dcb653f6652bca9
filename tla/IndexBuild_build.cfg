\* Full and incremental jobs, one failing step of any kind and one crash.
CONSTANTS
    Nothing = Nothing
    Files = {1, 2, 3}
    Sources = {s1, s2, s3}
    Blank = {s3}
    Overwrites = FALSE
    Faults = {"preflight", "read", "write", "unlink", "publish", "replace"}
    MaxFaults = 1
    MaxIngests = 1
    MaxJobs = 2
    MaxCrashes = 1
    s1 = s1
    s2 = s2
    s3 = s3
SPECIFICATION Spec
SYMMETRY Symmetry
INVARIANTS BuildSound
PROPERTIES PublishedComplete IncrementalExact
CHECK_DEADLOCK FALSE
