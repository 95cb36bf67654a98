------------------------------ MODULE Scorecard ------------------------------
(***************************************************************************)
(* GET /api/scorecard over the data of one refresh: the issues a refresh   *)
(* puts in its periods, the scores computed from them, and the filters of  *)
(* the request (handlers.go).                                              *)
(***************************************************************************)
EXTENDS FullScorecard

CONSTANTS Orgs, PillarsOf, TeamsOf, \* the configured hierarchy, by identifiers
          Stored,         \* the teams the store has data for
          Scopes,         \* the scopes a refresh may have been run with
          Today,          \* the day of the refresh
          Queries,        \* the parameters a scorecard is asked for with
          BadFilter,      \* dates or a status that parseFilterOptions rejects
          MaxIssues       \* bounds the issues of a behaviour

VARIABLES scope,    \* the scope of the refresh
          periods,  \* per stored team, its periods
          query,    \* the request that was answered
          answer    \* its answer: the organizations

vars == <<scope, periods, query, answer>>

cfg == [orgs |-> Orgs, pillarsOf |-> PillarsOf, teamsOf |-> TeamsOf]

Pillars == UNION {PillarsOf[o] : o \in Orgs}

\* Validate: an identifier is used once in the whole hierarchy.
ASSUME UniqueIdentifiers ==
    /\ \A o, u \in Orgs : o # u => PillarsOf[o] \cap PillarsOf[u] = {}
    /\ \A p, u \in Pillars : p # u => TeamsOf[p] \cap TeamsOf[u] = {}
    /\ Teams = UNION {TeamsOf[p] : p \in Pillars}
    /\ Orgs \cap Pillars = {} /\ Orgs \cap Teams = {} /\ Pillars \cap Teams = {}

\* The hierarchy is read from a file.
ASSUME FiniteHierarchy == IsFiniteSet(Pillars) /\ IsFiniteSet(Teams)

\* Scopes and filters are parsed alike.
ASSUME ParametersAssumption ==
    /\ Scopes \subseteq RefreshScope /\ BadFilter \notin RefreshScope
    /\ \A q \in Queries : q.filter \in RefreshScope \cup {BadFilter}
    /\ Today \in Int /\ Stored \subseteq Teams

NoQuery == [org |-> "", pillar |-> "", team |-> "", filter |-> Unscoped]

Unanswered == "unanswered"

\* The periods a refresh creates, before the issues it found are added.
EmptyPeriods(s) ==
    { EmptyPeriod(p) :
        p \in FetchedPeriods(RefreshCadences(s, Today), RefreshedTypes(s), Today, 0) }

Init ==
    /\ scope \in Scopes
    /\ periods = [t \in Stored |-> EmptyPeriods(scope)]
    /\ query = NoQuery /\ answer = [status |-> Unanswered, orgs |-> {}]

Issues == SumFunction([t \in Stored |-> TotalOf(periods[t])])

FetchIssue(t, p, type) ==
    /\ answer.status = Unanswered
    /\ Issues < MaxIssues
    /\ periods' = [periods EXCEPT ![t] = (@ \ {p}) \cup {CategorizeAndAdd(p, type)}]
    /\ UNCHANGED <<scope, query, answer>>

-----------------------------------------------------------------------------
(* The answer.                                                             *)

Selected(param, id) == param = "" \/ param = id

FilterTeams(teams, q) == {t \in teams : Selected(q.team, t.identifier)}

FilterPillars(pillars, q) ==
    { [p EXCEPT !.teams = FilterTeams(@, q)] :
        p \in {u \in pillars : /\ Selected(q.pillar, u.identifier)
                               /\ q.team # "" => FilterTeams(u.teams, q) # {}} }

\* Faulty variant: an organization stays when all its pillars are gone.
FilterScorecardKeepsOrgs(orgs, q) ==
    { [o EXCEPT !.pillars = FilterPillars(@, q)] :
        o \in {u \in orgs : Selected(q.org, u.identifier)} }

FilterScorecard(orgs, q) ==
    { [o EXCEPT !.pillars = FilterPillars(@, q)] :
        o \in {u \in orgs : /\ Selected(q.org, u.identifier)
                            /\ \/ FilterPillars(u.pillars, q) # {}
                               \/ q.pillar = "" /\ q.team = ""} }

Refused(status) == [status |-> status, orgs |-> {}]

Organizations(q) ==
    LET full == ComputeFullScorecard(cfg, periods, q.filter)
        shown == FilterScorecard(full, q)
    IN  IF q.org = "" /\ q.pillar = "" /\ q.team = "" THEN [status |-> "ok", orgs |-> full]
        ELSE IF shown = {} THEN Refused("not_found")
        ELSE [status |-> "ok", orgs |-> shown]

\* handleGetScorecard.
GetScorecard(q) ==
    /\ answer.status = Unanswered
    /\ answer' = IF Stored = {} THEN Refused("no_data")
                 ELSE IF q.filter = BadFilter THEN Refused("bad_request")
                 ELSE Organizations(q)
    /\ query' = q
    /\ UNCHANGED <<scope, periods>>

Next ==
    \/ \E t \in Stored : \E p \in periods[t], a \in ActivityTypes : FetchIssue(t, p, a)
    \/ \E q \in Queries : GetScorecard(q)

Spec == Init /\ [][Next]_vars

-----------------------------------------------------------------------------
(* Properties.                                                             *)

Shown == answer.orgs

ShownPillars == UNION {o.pillars : o \in Shown}

ShownTeams == UNION {p.teams : p \in ShownPillars}

\* Every variable holds a value of its type.
TypeOK ==
    /\ scope \in RefreshScope
    /\ \A t \in Stored : periods[t] \subseteq Period
    /\ query.filter \in RefreshScope \cup {BadFilter}
    /\ answer.status \in {Unanswered, "ok", "not_found", "no_data", "bad_request"}
    /\ {o.identifier : o \in Shown} \subseteq Orgs

\* The counters of a period are those of its issues under the documented
\* table: the reconciler's own table, its switch over the categories and its
\* three counters agree with it.
CountersAgree ==
    \A t \in Stored : \A p \in periods[t] :
        /\ p.total = SumFunctionOnSet(p.issues, ActivityTypes)
        /\ p.categorized = SumFunctionOnSet(p.distribution, Categories)
        /\ p.total = p.categorized + p.distribution["uncategorized"]
        /\ \A c \in Categories : p.distribution[c] =
             SumFunctionOnSet(p.issues,
                              {a \in ActivityTypes : <<a, c>> \in activityTypeMapping})

InPoints(part, max) == AtLeast(part, 0) /\ part.num <= max * part.den

\* All that has a score in the answer.
ShownEntities ==
    Shown \cup ShownPillars \cup ShownTeams \cup UNION {t.periods : t \in ShownTeams}

\* At every level a score is null exactly when no issue was counted, and
\* otherwise it is within 100 points and the sum of its two parts, neither of
\* them negative, also where it is an average of averages.
ScoresInRange ==
    \A e \in ShownEntities :
        IF e.score.count = 0 THEN e.score = NilScore
        ELSE /\ InPoints(e.score.total, 100)
             /\ AtLeast(e.score.catRate, 0) /\ AtLeast(e.score.distAlign, 0)
             /\ e.score.total = Plus(e.score.catRate, e.score.distAlign)

TeamsIn(o) == UNION {TeamsOf[p] : p \in PillarsOf[o]}

Counted(t) == FilterPeriods(TeamPeriods(periods, t), query.filter)

\* An organization's score is the average over all its teams, each weighted
\* by its issues, whatever pillars they are in, which of them have no data and
\* which of them the request asks for; its issues are its teams' issues.
OrgScoreIsOverTeams ==
    \A o \in Shown :
        LET teams == TeamsIn(o.identifier) IN
        /\ o.score = WeightedAverage({ComputeTeamScore(t, Counted(t)) : t \in teams})
        /\ o.score.count = SumFunction([t \in teams |-> TotalOf(Counted(t))])

\* The sections of a team split its issues: the section of a set type has the
\* score a request for that status alone is answered with.
SectionsAreStatusViews ==
    \A t \in ShownTeams :
        /\ t.score.count = SumFunction([s \in DOMAIN t.sections |-> t.sections[s].count])
        /\ \A s \in DOMAIN t.sections :
             t.sections[s] = PeriodsScore(FilterPeriods(TeamPeriods(periods, t.identifier),
                                                        [query.filter EXCEPT !.status = s]))

PillarPaths == {path \in Orgs \X Pillars : path[2] \in PillarsOf[path[1]]}

TeamPaths == {path \in Orgs \X Pillars \X Teams :
                path[2] \in PillarsOf[path[1]] /\ path[3] \in TeamsOf[path[2]]}

ShownPaths ==
    UNION {UNION {{<<o.identifier, p.identifier, t.identifier>> : t \in p.teams} :
                    p \in o.pillars} : o \in Shown}

OnPath(path) == Selected(query.org, path[1]) /\ Selected(query.pillar, path[2])

\* The answer has exactly the teams on a path that all the parameters agree
\* with, and is 404 exactly when no configured entity of the deepest level
\* asked for is on such a path.
FilterShowsMatches ==
    LET teams == {path \in TeamPaths : OnPath(path) /\ Selected(query.team, path[3])}
    IN  answer.status \in {"ok", "not_found"} =>
          /\ ShownPaths = teams
          /\ answer.status = "not_found" <=>
               IF query.team # "" THEN teams = {}
               ELSE IF query.pillar # "" THEN \A path \in PillarPaths : ~OnPath(path)
               ELSE query.org \notin Orgs \cup {""}

\* A scorecard asked for with the parameters a refresh was run with shows the
\* periods that refresh fetched: what the reconciler takes for the range and
\* what the scorecard takes for it agree, unless the range was empty.
RefreshIsShown ==
    query.filter = scope =>
        \A t \in ShownTeams :
            t.identifier \in Stored =>
                {x.period : x \in t.periods}
                  = {x \in periods[t.identifier] : x.window.since <= x.window.until}

Moved(dist, i, j) ==
    [dist EXCEPT ![ScoredCategoriesInOrder[i]] = @ + 1,
                 ![ScoredCategoriesInOrder[j]] = @ - 1]

\* Of n issues, one more in a category of higher priority and one less in one
\* of lower priority is never worse, unless that puts the one above its target
\* and the other below it.
Prefers(n, dist) ==
    \A i, j \in Ranks :
        i < j /\ (Deviation(n, dist, i) <= -88 \/ Deviation(n, dist, j) >= 88)
          => Aligned(n, Moved(dist, i, j)) >= Aligned(n, dist)

\* Work in a higher priority is preferred in every period: over-allocation is
\* penalized less, and under-allocation more, the higher the priority.
PriorityIsPreferred ==
    \A t \in Stored : \A p \in periods[t] :
        Prefers(p.categorized - p.distribution["wellness"], p.distribution)

-----------------------------------------------------------------------------
(* What the repository's documents say and the code does not do.           *)

\* README.md and openapi.yaml: the categorization rate has up to 60 points and
\* the distribution alignment up to 40.
PartsAreSixtyForty ==
    \A e \in ShownEntities :
        e.score.count > 0 => InPoints(e.score.catRate, 60) /\ InPoints(e.score.distAlign, 40)
=============================================================================
