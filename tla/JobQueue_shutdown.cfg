SPECIFICATION Spec
CONSTANTS
    u1 = u1  u2 = u2  r1 = r1  r2 = r2  b1 = b1
    w1 = w1  w2 = w2
    Uploads = {u1}
    Builds = {}
    Direct = {b1}
    Forced = {u1}
    Identity <- MCIdentity
    Workers = {w1, w2}
    MaxHistory = 1
    Watchdog = TRUE
    Lossy = TRUE
    MaxQueries = 1
    MaxCrashes = 0
    Stoppable = TRUE
    NoJob = NoJob
    NoWorker = NoWorker
SYMMETRY Symmetry
INVARIANTS
    OneIndexWriter
PROPERTIES
    NeverRevived
