SPECIFICATION Spec
CONSTANTS
    OrgEntries <- TwoOrgs
    PillarEntries <- ThePillars
    TeamEntries <- TheTeams
    WellFormed <- GoodNames
    Teams <- Identifiers
    Files <- TheFiles
    NoFile = NoFile
    Commands <- TheCommands
    JiraSamples <- TheSamples
    BadFilter = BadFilter
    BadDate = BadDate
    Today = 1
    ActivityTypes <- TheActivityTypes
    DoneStatuses = {"Done", "Closed"}
    BoardSprints <- TheBoards
    SprintDays = 4
    NoDate = NoDate
    Absent = Absent
INVARIANTS
    TypeOK
    NamesResolve
    ExitCodesTellWhy
    CommandAgreesWithServer
    IssuesCountedOnce
