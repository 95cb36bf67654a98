----------------------------- MODULE MCScorecard -----------------------------
(* A small instance of Scorecard for TLC. *)
EXTENDS Scorecard, TLC

CONSTANTS aurora, orion

TwoOrgs == {"hcm", "sre"}

\* An organization without pillars, a pillar of two teams and one of a team
\* with data and a team without.
ThePillars == [o \in TwoOrgs |-> IF o = "hcm" THEN {"rosa", "aro"} ELSE {}]

TheTeams == [p \in {"rosa", "aro"} |->
               IF p = "rosa" THEN {aurora, orion} ELSE {"vega", "lyra"}]

AllTeams == {aurora, orion, "vega", "lyra"}

StoredTeams == {aurora, orion, "vega"}

\* No request names one of the two.
RosaSymmetry == Permutations({aurora, orion})

DateRange(start, end, status) == [start |-> start, end |-> end, status |-> status]

\* All of it, a range that meets both sprints, an empty range, one status.
TheScopes == { Unscoped, DateRange(-3, NoDate, ""), DateRange(NoDate, -1, "closed"),
               DateRange(NoDate, NoDate, "in_progress") }

Ask(org, pillar, team, filter) ==
    [org |-> org, pillar |-> pillar, team |-> team, filter |-> filter]

TheQueries ==
    { Ask("", "", "", Unscoped), Ask("", "", "", DateRange(NoDate, -1, "closed")),
      Ask("sre", "", "", Unscoped), Ask("", "rosa", "", DateRange(NoDate, NoDate, "closed")),
      Ask("", "", "vega", DateRange(-3, NoDate, "")), Ask("hcm", "rosa", "vega", Unscoped),
      Ask("", "", "", BadFilter) }

TheActivityTypes ==
    { "Associate Wellness & Development", "Customer Support", "Defect",
      "New Feature", "Something else" }
=============================================================================
