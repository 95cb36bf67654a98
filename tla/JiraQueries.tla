----------------------------- MODULE JiraQueries -----------------------------
(***************************************************************************)
(* The queries of a refresh (jql.go) and what becomes of the issues they   *)
(* find (reconciler.go, activity_type.go).  A query is the set of the      *)
(* issues of Jira that match it; the text that says so is left out.        *)
(*                                                                         *)
(* A date in a query is the midnight its day begins with, as Jira reads    *)
(* it, whatever the time of day of the window's end.  The time an issue    *)
(* was resolved is a count of half days: day d begins at 2 * d, and        *)
(* 2 * d + 1 is any later time of that day.                                *)
(***************************************************************************)
EXTENDS FullScorecard, Sequences

CONSTANTS DoneStatuses,  \* the statuses of Jira's category Done
          BoardSprints   \* per board, the sprints the Agile API answers with

-----------------------------------------------------------------------------
(* Which issues are a team's.                                              *)

\* Faulty variant: the team's own query is not put into parentheses, and AND
\* binds tighter than OR.
buildOwnershipClauseBare(o, sprintIDs, i, rest) ==
    CASE o.method = "component" ->
           i.project = o.project /\ i.components \cap o.components # {} /\ rest
      [] o.method = "team_field" -> i.project = o.project /\ i.teamField = o.teamField /\ rest
      [] o.method = "jql" ->
           \E n \in DOMAIN o.jql : i.project = o.jql[n] /\ (n = Len(o.jql) => rest)
      [] o.method = "sprint_board" ->
           i.project = o.project /\ i.sprints \cap sprintIDs # {} /\ rest

\* Issue i matches the clause of ownership o and the rest of the query.  A
\* team's own query is a disjunction of projects here.  No sprints match nothing.
buildOwnershipClause(o, sprintIDs, i, rest) ==
    CASE o.method = "component" ->
           i.project = o.project /\ i.components \cap o.components # {} /\ rest
      [] o.method = "team_field" -> i.project = o.project /\ i.teamField = o.teamField /\ rest
      [] o.method = "jql" -> (\E n \in DOMAIN o.jql : i.project = o.jql[n]) /\ rest
      [] o.method = "sprint_board" ->
           i.project = o.project /\ i.sprints \cap sprintIDs # {} /\ rest

\* Faulty variant: the end of the window is read as the end of its day.
BuildClosedJQLWholeDay(o, types, window, sprintIDs, jira) ==
    {i \in jira :
        buildOwnershipClause(o, sprintIDs, i,
            /\ i.type \in types
            /\ i.status \in DoneStatuses
            /\ 2 * window.since <= i.resolved /\ i.resolved <= 2 * window.until + 1)}

BuildClosedJQL(o, types, window, sprintIDs, jira) ==
    {i \in jira :
        buildOwnershipClause(o, sprintIDs, i,
            /\ i.type \in types
            /\ i.status \in DoneStatuses
            /\ 2 * window.since <= i.resolved /\ i.resolved <= 2 * window.until)}

BuildInProgressJQL(o, types, statuses, sprintIDs, jira) ==
    {i \in jira :
        buildOwnershipClause(o, sprintIDs, i, i.type \in types /\ i.status \in statuses)}

discoverSprintIDs(boards) == UNION {BoardSprints[b] : b \in boards}

-----------------------------------------------------------------------------
(* The periods of a team.                                                  *)

\* A custom field is an object with a value, or a string, or anything else;
\* without the field's name it is not looked up.
ExtractActivityType(fields, fieldID) ==
    IF fieldID \in DOMAIN fields /\ fields[fieldID].form \in {"object", "string"}
    THEN fields[fieldID].value
    ELSE ""

\* A query's issues are added to its period one by one.
CountedPeriod(p, found, fieldID) ==
    FoldFunction(LAMBDA type, period : CategorizeAndAdd(period, type), EmptyPeriod(p),
                 [i \in found |-> ExtractActivityType(i.fields, fieldID)])

\* The team of ownership o, fetched for these cadences and set types on day now.
FetchTeamData(rm, o, fieldID, cadences, types, now, jira) ==
    LET sprintIDs == IF o.method = "sprint_board" THEN discoverSprintIDs(o.boards) ELSE {}
        Found(p) ==
            IF p.setType = "closed"
            THEN BuildClosedJQL(o, rm.scoredIssueTypes, p.window, sprintIDs, jira)
            ELSE BuildInProgressJQL(o, rm.scoredIssueTypes, rm.inProgressStatuses,
                                    sprintIDs, jira)
    IN  [periods |-> {CountedPeriod(p, Found(p), fieldID) :
                        p \in FetchedPeriods(cadences, types, now, 0)}]
=============================================================================
