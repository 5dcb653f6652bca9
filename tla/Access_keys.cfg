\* Requests of one key and its successor, changed by the server and the script.
SPECIFICATION Spec
CONSTANTS
    k1 = k1  k2 = k2
    Secrets = {k1, k2}
    Names = {"admin", "user", "team"}
    Admin = "admin"
    User = "user"
    Powers = {"read", "admin"}
    None = none
    Policies <- MCPolicies
    Local = "local"
    Master = "master"
    Requests = {"r1"}
    c1 = c1  c2 = c2
    Changes = {c1, c2}
    Wanted = {"read", "admin"}
    Metered = {"read"}
    Limit = 1
    FirstKeys <- MCKeys
    FirstSets <- MCSets
    Incidents = {}
    MaxChanges = 2
    MaxCrashes = 1
    MaxFaults = 1
    MaxWindows = 1
    MaxRequests = 2
INVARIANTS AccessSound ServedInForce
PROPERTIES Serialized
SYMMETRY Symmetry
CHECK_DEADLOCK FALSE
