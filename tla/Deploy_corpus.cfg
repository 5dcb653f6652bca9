\* Runs of the setup script and of the local driver, with calls that fail and
\* processes that die.
SPECIFICATION Spec
SYMMETRY MCSymmetry
CONSTANTS
    d1 = d1
    d2 = d2
    Docs = {d1, d2}
    Versions = {1, 2}
    Modes = {"needed", "kept", "local"}
    Retries = 1
    none = none
    None = none
    Incidents = {}
    MaxRuns = 2
    MaxSlips = 2
    MaxEdits = 1
    MaxDeaths = 1
INVARIANTS ClusterSound SuccessTrue
CHECK_DEADLOCK FALSE
