SPECIFICATION FairSpec
CONSTANTS
    t1 = t1
    t2 = t2
    Teams <- BothTeams
    Pods = {p1, p2}
    Reqs = {r1, r2}
    Clients = {c1}
    Queries <- ScopeQueries
    Configs <- TwoConfigs
    MaxFaults = 1
    SprintDays = 7
    NoDate = NoDate
    Absent = Absent
    NoPod = NoPod
INVARIANTS
    OneWriter
PROPERTIES
    JobsEnd
CHECK_DEADLOCK FALSE
