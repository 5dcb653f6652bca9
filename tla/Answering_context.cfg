\* A chat and the context that it is answered from.
SPECIFICATION ChatSpec
CONSTANTS
    Chunks = {"c1", "c2"}
    Size <- MCSize
    Urls = {"u1"}
    Budget = 3
    MinBlock = 2
    PlannerOn = {TRUE, FALSE}
    MaxRounds = 2
    MaxCalls = 3
    Backends = {"soclaas"}
    Hosts = {"h1", "h2"}
    Primary = "h1"
    Listed <- MCListed
    none = none
    HostEnv = {none, "h1"}
    Retries = 1
    Attempts = 2
    Unset = none
    Coincidences = {}
    MaxQueries = 2
    MaxAtOnce = 2
    MaxParts = 1
    MaxFailures = 0
    MaxSwitches = 0
INVARIANTS ContextSound CallsAnswered
CHECK_DEADLOCK FALSE
