\* Documents move between General and two categories; jobs fail, are cancelled and are recovered.
SPECIFICATION Spec
CONSTANTS
    d1 = d1
    d2 = d2
    k1 = k1
    k2 = k2
    Docs = {d1, d2}
    Keys = {k1, k2}
    General = General
    Nothing = Nothing
    Incidents = {}
    MaxJobs = 3
    MaxFaults = 1
    MaxCrashes = 1
    MaxHides = 1
    MaxDrops = 1
SYMMETRY Symmetry
INVARIANTS
    NeverInNeither
    EditsFollow
    CorpusSound
PROPERTIES
    TransferDelivers
CHECK_DEADLOCK FALSE
