SPECIFICATION Spec
CONSTANTS
    Teams = {t1, t2}
    Reqs = {r1, r2}
    Clients = {}
    Queries <- TheQueries
    SprintDays = 1
    MaxDay = 1
    NoDate = NoDate
    Absent = Absent
    BadDate = BadDate
SYMMETRY Symmetry
PROPERTIES
    OutOfRangeIsKept
