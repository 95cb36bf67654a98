SPECIFICATION FairSpec
CONSTANTS
    Teams = {t1, t2}
    Reqs = {r1, r2}
    Clients = {c1}
    Queries <- TheQueries
    SprintDays = 1
    MaxDay = 1
    NoDate = NoDate
    Absent = Absent
    BadDate = BadDate
INVARIANTS
    TypeOK
    OneRefreshAtATime
    RunsOwnParameters
    UniquePeriods
    CountMatchesData
    AnswerIsTrue
    CompletedIsVisible
    ScorecardIsWhole
PROPERTIES
    OnlyRequestedTypesChange
    RequestsEnd
    ImplementsLifecycle
