SPECIFICATION FairSpec
CONSTANTS
    u1 = u1  u2 = u2  r1 = r1  r2 = r2  b1 = b1
    w1 = w1  w2 = w2
    Uploads = {u1}
    Builds = {r1, r2}
    Direct = {}
    Forced = {}
    Identity <- MCIdentity
    Workers = {w1}
    MaxHistory = 500
    Watchdog = TRUE
    Lossy = FALSE
    MaxQueries = 1
    MaxCrashes = 1
    Stoppable = FALSE
    NoJob = NoJob
    NoWorker = NoWorker
PROPERTIES
    EveryJobSettles
