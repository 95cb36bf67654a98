SPECIFICATION Spec
CONSTANTS
    t1 = t1
    t2 = t2
    Teams <- BothTeams
    Pods = {p1, p2}
    Reqs = {r1, r2}
    Clients = {}
    Queries <- ScopeQueries
    Configs <- OneConfig
    MaxFaults = 0
    SprintDays = 7
    NoDate = NoDate
    Absent = Absent
    NoPod = NoPod
PROPERTIES
    ConflictMeansRunning
CHECK_DEADLOCK FALSE
