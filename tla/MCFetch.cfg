SPECIFICATION FairSpec
CONSTANTS
    Order <- FourIssues
    Starts <- TheStarts
    BoardSprints <- ShortBoards
    SprintPage = 2
    Periods = 3
    MaxResults = 2
    Delay = 1
    MinBackoff = 3
    Timeout = 6
    MaxChanges = 2
INVARIANTS
    TypeOK
    CountedOnce
PROPERTIES
    PagesAddUp
    JiraIsLeftAlone
    FetchEnds
