SPECIFICATION Spec
CONSTANTS
    Orgs <- TwoOrgs
    PillarsOf <- ThePillars
    TeamsOf <- TheTeams
    aurora = aurora
    orion = orion
    Teams <- AllTeams
    Stored <- StoredTeams
    ActivityTypes <- TheActivityTypes
    Scopes <- TheScopes
    Today = 1
    Queries <- TheQueries
    BadFilter = BadFilter
    MaxIssues = 3
    SprintDays = 4
    NoDate = NoDate
    Absent = Absent
SYMMETRY RosaSymmetry
INVARIANTS
    PartsAreSixtyForty
CHECK_DEADLOCK FALSE
