\* A chunked upload and up to two others, a crash and a failure anywhere.
SPECIFICATION Spec
CONSTANTS
    a = a  b = b  none = none
    Files = {a, b}
    Large = {a}
    Chunks = 2
    Sessions = {"s1"}
    Forms <- MCForms
    MaxEntries = 2
    Loose <- MCLoose
    None = none
    Incidents = {}
    MaxTries = 3
    MaxUploads = 2
    MaxResends = 1
    MaxFaults = 1
    MaxCrashes = 1
INVARIANTS IntakeSound WholeFiles OnlyAgreed RegistryTrue
CHECK_DEADLOCK FALSE
