SPECIFICATION Spec
CONSTANTS
    t1 = t1
    t2 = t2
    Teams <- BothTeams
    Pods = {p1, p2}
    Reqs = {r1, r2, r3}
    Clients = {}
    Queries <- ModeQueries
    Configs <- TwoConfigs
    MaxFaults = 0
    SprintDays = 7
    NoDate = NoDate
    Absent = Absent
    NoPod = NoPod
PROPERTIES
    DefaultReplaces
CHECK_DEADLOCK FALSE
