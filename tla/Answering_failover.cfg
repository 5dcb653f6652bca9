\* A chat and a follow-up request, three hosts, and failures of both.
SPECIFICATION ChatSpec
CONSTANTS
    Chunks = {"c1"}
    Size <- MCSize
    Urls = {}
    Budget = 1
    MinBlock = 1
    PlannerOn = {TRUE, FALSE}
    MaxRounds = 1
    MaxCalls = 2
    Backends = {"soclaas", "ollama"}
    Hosts = {"h1", "h2", "h3"}
    Primary = "h1"
    Listed <- MCListed
    none = none
    HostEnv = {none, "h3"}
    Retries = 2
    Attempts = 2
    Unset = none
    Coincidences = {}
    MaxQueries = 1
    MaxAtOnce = 1
    MaxParts = 2
    MaxFailures = 2
    MaxSwitches = 2
INVARIANTS AnswerWhole
PROPERTIES ChatEnds GivenUpDown
CHECK_DEADLOCK FALSE
