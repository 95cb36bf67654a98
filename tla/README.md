# TLA+ models of sankey-scorecard

sankey-scorecard reads the Jira issues of the teams named in a resource map,
sorts them into six kinds of activity, and serves a scorecard over HTTP. This
directory holds TLA+ modules for the parts of it that keep state or decide
something, TLC configurations that check them on small instances, and TLAPS
proofs of theorems about them. Paths below are relative to the repository's
`src/`.

## 1. The system

| Part | State it keeps | Operations |
|---|---|---|
| In-memory store, `pkg/reconciler/store.go` | the status record, the map of teams, one mutex | HasData, GetAllTeamData, SwapData, UpsertTeamData, StartRefresh, CompleteRefresh, FailRefresh |
| Reconciler, `pkg/reconciler/reconciler.go` | the mode and the scope, shared by all requests and not locked; per refresh a goroutine with its cadences, fetched teams, total | SetRefreshMode, SetRefreshScope, ExecuteRefresh with the merge of a scoped refresh, RefreshTeams |
| Team fetch, `reconciler.go` and `sprints.go` | per fetch: offset, issues so far, timers, a 60 s context | sprint discovery, paged queries, 429 back-off |
| Sprint calendar, `sprint.go` | none | the current and the previous sprint of a day |
| Queries, `jql.go`, `activity_type.go` | none | the JQL of a team and a window; an issue's activity type |
| HTTP handlers, `pkg/handlers` | none of their own | POST refresh_data, GET refresh_status, GET scorecard with its filters, health, OpenAPI |
| PostgreSQL store, `pkg/db` | the state row, teams, periods, issues; outlives processes and is shared by them | the same interface as the in-memory store |
| Server process, `cmd/serve.go` | chooses the store, owns the reconciler | start, graceful stop |
| Scoring, `pkg/scorecard` | none | counts to points, weighted averages up the hierarchy, the date and status filter |
| Configuration, `pkg/config` | the resource map | load, validate, resolve a name or path |
| Command line, `cmd/root.go`, `cmd/refresh_data.go` | a store of its own, for one run | refresh an entity's teams and print its scorecard; refresh all; exit codes |
| Web page, `frontend/index.html` | filters, last answer, loading and error flags, the refresh button | load, filter, retry, refresh, poll |

How they meet: `net/http` runs each request in a goroutine. A refresh request
checks its parameters, calls StartRefresh (the one gate), writes the mode and the
scope into the shared Reconciler, starts a goroutine for the refresh, reads the
state and answers 202. The goroutine fetches team after team from Jira, merges
what a scoped refresh leaves alone with what the store holds, then publishes
(Swap or Upsert) and only then calls CompleteRefresh; any error calls
FailRefresh instead. Readers take snapshots in between. With PostgreSQL the
same calls go to a database that other processes use too. The web page posts a
refresh, polls the status every two seconds and loads the scorecard when it is no
longer running; its loads and polls cross in the network. The command line runs
the same refresh on a store of its own, for the teams of one entity.

What is hard about it: the handler's five steps interleave with other handlers and
with the refresh; mode and scope are read by the refresh at three places without a
lock; what a scoped refresh keeps is read long before it is written back;
publishing and completing are two steps; the three writers of `issue_count` count
different things; a process may stop during a refresh, and the database keeps the
state it left; database errors are dropped; Jira changes between and within
queries, may answer fewer issues than asked for or none, and may answer 429 for
ever; the scorecard averages averages that may be null; the page's answers arrive
in any order; a name may be an organization, a pillar, a team or a subcommand.
PROJECT.json lists these hazards line by line.

What makes each part correct:

* gate and reconciler: one refresh at a time, with its own parameters; a
  refresh always ends; nothing half done is published; only what a refresh
  covers changes; no duplicate periods; the count is the count of the data.
* readers: what they are served is whole, and is there once the status says so;
  what a 202 says of its refresh is true.
* database: the same across processes, restarts and overlapping rollouts.
* team fetch: the pages of a query add up to its answer; an issue is in one
  query's; Jira is given the pauses the code means it to have; it ends.
* scorecard: counters agree with issues; scores stay in range and agree between
  levels and views; filters show what matches; priority counts.
* configuration and command line: an accepted file gives every name one meaning;
  an exit code says why; the command prints what the server would.
* web page: one refresh is followed at a time; what it loads afterwards is not
  older; what it shows is what was asked for; it never stays stuck.

## 2. The modules

| Module | Models | State and actions |
|---|---|---|
| `ScoringPeriods` | `types.go`, `sprint.go`, cadences and merge of `reconciler.go` | none: days are integers counted from the reference date; a period is its set type, window, current flag and the number of the refresh that fetched it |
| `ReconciliationStore` | `store.go` | `state`, `teams`; one action per method (each holds the mutex throughout) |
| `Reconciler` | `executeRefresh` and the setters' fields | `refreshMode`, `refreshScope`, `job[r]` (the goroutine's frame); BeginRefresh, FetchTeam, FailTeamFetch, ApplyData, FinishRefresh, each with at most one access to the store |
| `Handlers` | `handlers.go` | `req[r]`, `client[c]`; a refresh request is ParseRequest, AcceptRequest or RefuseRequest, SetRefreshMode, SetRefreshScope, LaunchRefresh, AnswerAccepted; a client is PollStatus, CheckHasData, ComputeFullScorecard |
| `Server` | composes the four above, plus the clock `now` in days | Next, fairness, the properties |
| `RefreshLifecycle` | the abstract specification of a refresh | Start, Publish, Complete, Fail; `Server` instantiates it and `ImplementsLifecycle` is the refinement; `Page` uses it as the service behind the page |
| `PGStore` | `pgstore.go`, `models.go` | `row`, `table`, `faults`; a statement or transaction takes effect whole or, for a fault, not at all |
| `PGServer` | the deployed server: several processes, one database | `pod[p]`, `job[r]`, `client[c]`; StartPod, StopPod at any point, requests, the refresh's steps, the two SELECTs of a scorecard |
| `Scoring` | `categories.go`, the penalties and grades of `scorecard.go`, the counting of `reconciler.go` | none: exact fractions for float64, Nil for a nil pointer |
| `FullScorecard` | `scorecard.go` above a team: sections, averages, the date and status filter | none |
| `Scorecard` | one refresh's data and one GET /api/scorecard | `scope`, `periods`, `query`, `answer`; FetchIssue, GetScorecard |
| `Fetch` | one team's fetch: the inside of FetchTeam | `fetch` (the local variables), `clock`, and Jira: `place`, `changes`; one action per page, 429, error, pause, back-off |
| `ResourceMap` | `validation.go`, `resolver.go` | none: `Validate`, `Resolve`, and `PathsTo`, what a reader of the file means by a path |
| `JiraQueries` | `jql.go`, `activity_type.go`, the counting of a team's issues | none: a query is the set of issues it matches |
| `Cli` | `root.go`, `refresh_data.go` with the store and the refresh they run | `proc` (the run's local variables and exit code), `file`, `cmd`, `jira`; Dispatch, LoadConfig, ResolveIdentifier, CheckFlags, the refresh, RenderEntity or PrintCount |
| `Page` | the script of `index.html` | `page` (the state object and the button), `load` (each call of loadData), `chain` (each call of refreshData and the polls after it) |
| `MCServer`, `MCPGServer`, `MCScorecard`, `MCFetch`, `MCCli`, `MCPage` | nothing | the values TLC needs |
| `Sums` | nothing | lemmas on sums over finite sets in a commutative monoid, instantiated by `ScorecardProofs` for numbers and for weighted points, and by `CliProofs` for numbers and for the issues added to a period |
| `ScoringPeriodsProofs`, `ServerProofs`, `PGServerProofs`, `ScorecardProofs`, `FetchProofs`, `CliProofs`, `PageProofs` | nothing | theorems and proofs |

`EXTENDS` follows the calls: Server -> Handlers -> Reconciler ->
ReconciliationStore -> ScoringPeriods; PGServer -> PGStore -> ScoringPeriods;
Scorecard -> FullScorecard -> Scoring and ScoringPeriods; Cli ->
ReconciliationStore, JiraQueries (-> FullScorecard) and ResourceMap. Definitions
have the names of the code where they stand for one function. A definition under
a comment "Faulty variant" is not part of the model: it is a wrong form of the
definition after it, which a property is known to reject.

Abstractions worth knowing:

* A period's issues are one value, the number of the refresh that fetched them,
  in `Server` and `PGServer`; a count of issues is the set of what was counted,
  so that two counts are equal only if they count the same periods. `Scorecard`
  and `Cli` have real counters instead, and no concurrency.
* In `Server` and `PGServer` one step fetches a team; it may fail for any
  reason. `Fetch` is the detail of that step; it reads no shared state, so
  nothing can interleave with it but Jira. There an issue is at one place at a
  time: it matches one closed period's query, or the in-progress one, or none.
* In `PGServer` a request's checks, StartRefresh and launch are one step: what
  one process's requests do to each other is checked in `Server`.
* Times are days where only dates matter. `Fetch` counts time in units of which
  the delay, the back-off and the timeout are multiples; `JiraQueries` counts
  half days, to tell midnight from the rest of a day.
* Text (labels, names, messages, quoting in JQL) is left out, and a label is the
  window it prints. A team's own JQL is a disjunction of projects, because
  what may go wrong is how OR and AND bind.
* In `Page` a request is handled at one moment and its answer arrives at a later
  one; either may be lost. What `render` draws is modelled by what it lets the
  user do: no filter bar and no Retry while something loads.

## 3. The runs

| Run | Instance | What it shows |
|---|---|---|
| `server` | 2 requests of 6 kinds (no mode, replace, one status, closed periods up to a date with upsert, a start date, and one that is refused), 1 client, 2 teams that may fail, 2 days in sprints of one day, fair | one gate (OneRefreshAtATime); the unlocked parameters are the running request's (RunsOwnParameters); no duplicate periods (UniquePeriods); the three writers of the count agree (CountMatchesData); a failed or scoped refresh leaves the rest alone (OnlyRequestedTypesChange); a client that saw "completed" is served that data (CompletedIsVisible) and never half a refresh (ScorecardIsWhole); a 202 that says failed or completed says so of a refresh that has ended (AnswerIsTrue); requests and their refreshes end, and the status always leaves running again (RequestsEnd); ImplementsLifecycle |
| `out_of_range` | as above, no client | a date-scoped refresh drops stored closed periods outside its range: **violated** (finding 1) |
| `pg_restarts` | 3 requests, 2 processes of one configuration, 1 client, no faults | "completed" means stored (CompletedIsStored), a scorecard of two SELECTs is whole (ScorecardIsWhole), and what a refresh does not cover survives stops (OutOfScopeSurvives) |
| `pg_faults` | 2 requests, 2 processes of 2 configurations, one failing statement, fair | one refresh at a time on the database in spite of faults (OneWriter); each ends, by itself or with its process (JobsEnd) |
| `pg_conflict` | 2 requests, 2 processes | a 409 without a refresh in progress: **violated** (finding 2) |
| `pg_mode` | 3 requests with and without a mode | a request without a mode does not replace: **violated** (finding 3) |
| `scorecard` | an organization of two pillars and four teams, one of them without data, and one without pillars; 3 issues of 5 activity types; 4 refresh scopes; 7 requests, one of them rejected | CountersAgree, ScoresInRange (a score is null exactly over no issues, else within 100 points and the sum of its two parts), OrgScoreIsOverTeams, SectionsAreStatusViews, FilterShowsMatches, RefreshIsShown, PriorityIsPreferred |
| `score_parts` | the same | a score's parts are of up to 60 and 40 points: **violated** (finding 5) |
| `fetch` | 2 boards, 2 closed queries and the in-progress one, up to 4 issues in pages of 2, 1 or none, a timeout of 6 units, 2 changes in Jira, fair | PagesAddUp, CountedOnce (an issue that is resolved meanwhile is never counted twice), JiraIsLeftAlone, FetchEnds |
| `sprint_pages` | a board with one sprint more than a response holds | sprints are missed: **violated** (finding 4) |
| `cli` | every file that differs from a good one in one place (each of 7 entries given each other name, a reserved word, an empty or malformed one; 7 ownerships; calendar and statuses), 21 paths, flags of every kind, 10 issues at the edges of the queries or none | NamesResolve, ExitCodesTellWhy, CommandAgreesWithServer (what is printed is what the server would answer), IssuesCountedOnce (over the two sprints each issue of a team is counted once, or twice at the midnight between them) |
| `page` | 2 clicks on Refresh Data, changes of filters and retries while no more than 2 loads were made, 2 refreshes of others, every answer lost or late, fair | OneRefreshFollowed, ReloadIsAfterRefresh, ShownIsAsked, PageComesBack |

Bounds. Two teams are the least at which one can be fetched and another not, and
the code never compares teams in a way that needs three. Two requests are needed
for every race at the gate or on the shared fields, and for one refresh to meet
what another left behind (a mode, a scope, the periods a scoped merge keeps). A
longer history, such as a merge over a merge, is not in the `server` run: for any
number of requests its safety properties are theorems (section 4), AnswerIsTrue
and the safety of the lifecycle among them, and `pg_restarts` has three requests
on the same merge. A sprint of one day and two days make a sprint end during a
refresh, and make the previous sprint of one refresh the current one of another.
`MaxDay`, `MaxFaults`, `MaxIssues`, `MaxChanges`, `MaxClicks`, `UserLoads` and
`MaxRuns` bound the clock, the database faults, the issues, Jira's changes, the
clicks on Refresh Data, the loads the user asks for and the refreshes of other
clients. One fault is enough to reach every call that ignores its error. Three
issues are enough for a team with two categories beside a team with one and a team
with none. In `fetch` the timeout falls before, within and after every pause, a
back-off is 3 units as 1 s is to a delay of less than half a second, and two
changes are an issue that leaves and one that joins. In `cli` the hierarchy has a
pillar of two teams, one of one, and an organization of none; the sprint is of
four days and today the second. In `page` one click may follow another whose
answer is lost, and two runs of others are one between and one during the page's
own. All of the safety properties are proved without these bounds (section 4).
Teams and requests are symmetric in `out_of_range`, processes and requests in
`pg_restarts`, and two teams of one pillar that no request names in `scorecard`
and `score_parts`; no run with a liveness property uses symmetry.

Stopping. `scorecard` ends after its one answer, and the PostgreSQL runs end
when all processes have stopped; these have deadlock checking off. `Server`,
`Fetch`, `Cli` and `Page` have a step for "nothing left to do" whose guard says
what that is, so TLC finds any other place where they get stuck.

Fairness. `Server`: weak fairness for the handler's and for the refresh's steps of
each request. Goroutines are scheduled, the store's mutex is never held across a
blocking call, and a team's fetch returns within its 60 s context. Arrivals,
readers and the clock need none. `PGServer`: weak fairness for the refresh's
steps; a stopped process has none to take, and ends its refresh by stopping.
`Fetch`: weak fairness for the fetch as a whole and for the clock; not for Jira,
which may answer 429, or an empty page, for ever. That FetchEnds holds is the
reason that a team's fetch may be one fair step elsewhere. `Page`: a browser's
fetch is answered or fails and its timers fire, and the service's refresh ends,
which `server` checks; the user and the other clients need not act.

## 4. What is proved

`ScoringPeriodsProofs` has the lemmas about the pure operators that both servers
use: the types of what they return, that the windows of a refresh differ, that
a fetch returns each set type it was asked for with its own run, and each period
once, that a merge adds no duplicate, that an upsert of all teams is a swap.

`ServerProofs`, for any teams, requests, clients, queries and sprint length:

* `TypeCorrect`: `Spec => []TypeOK`. TypeOK alone is not inductive: a scope
  that reaches the Reconciler has days only because ParseRequest checked them,
  so the invariant is TypeOK with `Checked` (a request past its checks is well
  formed).
* `OneRefresh` and `OwnParameters`: `Spec => []OneRefreshAtATime` and
  `Spec => []RunsOwnParameters`. The inductive invariant is `TypeInv`,
  OneRefreshAtATime, RunsOwnParameters and `Placed`, which ties the handler's
  place to the goroutine's: a job is live only if its handler launched it. The
  parameters are safe without a lock because they are written only between
  StartRefresh and the launch, when the writer holds the gate; the proof is this
  argument, and a handler that set the scope before StartRefresh would break the
  step of AcceptRequest.

Its second half, on top of that gate:

* `AnswersAreTrue`. The invariant `Records` numbers the refreshes: each accepted
  request has a number of its own, the holder's is the store's, and what the
  store or a client calls completed is the refresh of that number.
* `PeriodsAreUnique`, `CountIsRight`, `CompletedIsSeen`, `ServedIsWhole` and
  `OnlyRequestedChange`, from one inductive invariant, `DataInv`. It says what a
  goroutine's frame holds while it fetches: for each team it has, its own run's
  periods of the set types it refreshes and, of the others, those that are
  *still* stored (`Covers`). That a merge read them minutes ago does not matter,
  because the holder of the gate is the only one who writes the store; the proof
  of every other step is that it leaves `teams` alone. When the goroutine
  applies its data all teams are there, so that an upsert is a swap, all teams
  have the same runs of each set type (`Whole`), and what an earlier refresh
  reached stays reached (`Reached`), which is what a client that saw it completed
  relies on.
* `LifecycleSafety`: `Spec => Lifecycle!Init /\ [][Lifecycle!Next]_(Lifecycle!vars)`,
  the safety part of ImplementsLifecycle. AcceptRequest maps to Start, ApplyData
  to Publish, FinishRefresh to Complete, FailTeamFetch to Fail, the rest stutters.

`PGServerProofs`, for any processes, configurations, requests and number of
failing statements: `TypeCorrect` and `OneWriterAlways`. The invariant adds that
a live refresh is housed in a process that is up; the gate is the condition of
one UPDATE, so it holds although processes share no memory.

Its second half, on top of that gate, for any processes, requests and clients as
long as no statement fails (`MaxFaults = 0` is an assumption of each theorem):

* `CompletedIsInTheTables` and `KeptSurvives`, from the invariant `DataInv`: the
  numbers of refreshes are unique and none is above the row's; a refresh that
  runs finds in its process the scope of its own request; each team it has
  fetched has its own run's periods of the set types it covers and, of the others,
  those that are still stored; and what the row's refresh has applied is there.
  As in memory this rests on one writer, but the writer may stop at any step:
  then the row stays running, and nothing of its frame is ever stored. A failing
  statement breaks `Covers` (GetTeamData answers it like a missing team) and
  `Stored` (the swap's error is dropped), so the assumption is needed.
* `ServedIsWhole`, for processes of one configuration: the tables have all its
  teams or none and, for each set type, one refresh for all of them, also
  between the two SELECTs of a client (`WholeInv`). With two configurations the
  tables may have the teams of an earlier process, which the code allows.

`ScorecardProofs`, for any hierarchy of unique identifiers, issues, scopes,
filters, day and sprint length:

* `TypeCorrect`: `Spec => []TypeOK`.
* `PriorityPreferred`: the lemma `Preference` says, for every count and
  distribution, that moving an issue to a category of higher priority never
  lowers the alignment as long as the one stays at or below its target or the
  other at or above. It rests on the two weights running in opposite directions
  over the ranks (`PairPreference`).
* `RefreshShown`: `Spec => []RefreshIsShown`. Two pieces of code read a range of
  dates differently: the refresh as one window, the scorecard as the windows that
  meet it. The invariant keeps, of each period, the window its refresh gave it,
  and of the answer, that each team in it was scored over the periods the filter
  keeps of a configured team.
* `MatchesShown`: `Spec => []FilterShowsMatches`. The code filters level by level
  and drops what becomes empty; the proof follows each level and shows that the
  teams left are those whose pillar and organization match and that the answer is
  404 exactly when the deepest level asked for has no match.

* `CountersRight`: `Spec => []CountersAgree`. The invariant `Filled` says of each
  period that it started empty and that each issue was added to it once; the two
  tables of activity types agree value by value (`TablesAgree`), and an issue
  more adds one to exactly the sums it belongs to (`SumPlusOne`).
* `ScoresRight`: `Spec => []ScoresInRange`, at every level and for any number of
  entities: nil exactly over no issues, else a total within 100 points that is the
  sum of its parts. From Filled, the score of any set of periods is *sound*: nil
  over no issues, else with parts of at most 70 and 30 points, as the code has
  them, and in lowest terms, so that equal values are equal fractions (`Euclid`,
  `Stands`). The weighted average of sound scores is sound (`AverageIsSound`), so
  the levels follow one from another.
* `OrgScores`: `Spec => []OrgScoreIsOverTeams`. A pillar's score times its issues
  gives back the sum over its teams, because a division in lowest terms loses
  nothing (`SumOfEntities`); sums of sums are sums over the union, as no team is
  in two pillars.
* `SectionsRight`: `Spec => []SectionsAreStatusViews`: the periods a status filter
  keeps are those of a section, and the sections split a team's issues.

Sums are the induction over data that the prover has no rule for; `Sums` gets
them without it: a fold is a recursive function over subsets, and a smallest
counterexample (`Smallest`, from finiteness) is refuted by one step of it.

`FetchProofs`, for any boards and sprints, issues and order of them, page size,
delay, back-off and timeout:

* `TypeCorrect`: with `Offset`, that the offset counts the issues read so far and
  a fetch that is done has all its periods.
* `LeftAlone`: `Spec => JiraIsLeftAlone`, the pauses the code really makes. After a
  429 the next call waits for the back-off, which is the same each time; a call at
  an offset above 0 waits for the delay, on top of a back-off. At offset 0
  nothing is claimed: after an empty page the same is asked again at once, and the
  first page of a query follows the last one of the query before. `Pauses` says at
  each place how far the clock is from the last call.
* `CountedAtMostOnce`: `Spec => []CountedOnce`. `Counted` follows an issue that was
  counted as closed: it is still at a closed place, or it was reopened; the
  order of the queries, the in-progress one last, is what carries it.
* `PagesAreRight`: `Spec => PagesAddUp`. `Reading` relates what has been read to
  the query's first answer (the last one it gave before any issue) by positions:
  while nothing leaves the answer, what was read covers the places of the first
  answer below the offset (`Kept`), and while nothing joins, it is made of the
  first answer's issues, each at most once and none that is still to come.

`CliProofs`, for any hierarchy, resource map, command and issues: `TypeCorrect`;
`NamesAlwaysResolve`, from the lemma `ValidMapResolves`: Resolve considers exactly
the entries a path leads to, and in a map whose identifiers are unique across
levels a path leads to at most one; `ExitCodesAreRight`, whose invariant follows
the run and says at each place what has been found to be good. On top of it:

* `PrintsTheServers`: `Spec => []CommandAgreesWithServer`. The invariant `DataInv`
  says what a run holds at each place: exactly the teams it is done with have
  data, each what a refresh would fetch for it (`Holds`), and the teams left to
  fetch are those of the entity the path leads to (`Plan`). Two teams' data never
  meet, as identifiers are unique. The server fetches the same for each team,
  since `--since` and `start_date` come to the same cadences (`ServerFetches`); and
  though the scorecard is computed over all entities, most of them without data,
  an entity has one row (`EntityHasOneRow`) which depends on its own teams alone
  (`RowSame`).
* `IssuesOnce`: `Spec => []IssuesCountedOnce`. A period has as many issues as its
  query found (`CountedTotal`, by a smallest counterexample); the two queries
  split the two sprints and share the midnight between them (`SprintsSplit`), and
  a team's clause is its ownership, whatever it is combined with.

`PageProofs`, for any filters and bounds: `TypeCorrect`; `OneFollowed`, since the
button is disabled from the click to the last step of its chain; `ReloadAfterRefresh`,
whose invariant relates the number a click was accepted with, the status it is
told, and the number a load is answered with; `AskedIsShown`, since a call of
loadData that overlaps none is the last one and the only one in flight.

Assumptions are those on the constants in the modules: sprints have a positive
length, the hierarchy and the activity types are finite, Jira's order and a
board's sprints are sequences, the values for "no date" and "absent" are not dates
or data, the enumerated queries and commands are of their type, the entries of a
resource map form a tree, identifiers are unique in `Scorecard` (Validate checks
this at start, and `CliProofs` uses no such assumption). In `Cli` today is a
number, Jira holds finitely many issues, those that are done have a time they were
resolved at, and the store's map takes every well-formed identifier.

Only model-checked: all liveness, and with it the liveness part of
ImplementsLifecycle (the prover has no rule for fairness here).

## 5. Findings

Each is a run that TLC ends with a counterexample; PROJECT.json quotes the
document.

1. `out_of_range`: `mergeExistingPeriods` keeps periods by set type only, so a
   refresh with dates drops stored closed periods outside the dates, which the
   API description says it preserves.
2. `pg_conflict`: a process that stops during a refresh leaves the row running.
   Nothing resets it, so every later refresh is answered 409.
3. `pg_mode`: the mode of an earlier request stays set; a request without one
   upserts where the API description says it replaces.
4. `sprint_pages`: only the first page of a board's sprints is read.
5. `score_parts`: the code gives the two parts of a score up to 70 and 30 points
   (scorecard.go:246,293). The repository's README has 60 and 40, in its text
   (README.md:15,21) and in its example output (README.md:174-175), and so has the
   API description (openapi.yaml:253,260). A period whose issues are all
   categorized breaks the maximum of the first part.

Seen while modelling and not given a run:

* Database errors: SwapData and UpsertTeamData drop their transaction's error,
  and the refresh is then marked completed with nothing stored; GetTeamData
  answers a failed query like a missing team, and the merge then drops the
  periods it exists to keep; a failed SELECT of a scorecard is served as teams
  without data; a StartRefresh whose update was done and whose answer was lost
  leaves the row running without a refresh (no property could say otherwise, as
  nothing resets the row; finding 2 shows what such a row does). `PGServer` has
  each as a disjunct, and CompletedIsStored,
  OutOfScopeSurvives and ScorecardIsWhole hold only without them.
* The body of a 202 may say failed or completed, since the state is read after
  the launch; it may also describe a later request's refresh (AnswerIsTrue is
  what remains true).
* The data of a refresh is served a moment before its status is completed, where
  the design document has both under one lock; after an upsert that keeps a team
  which left the configuration, CompleteRefresh overwrites the recounted total
  with the total of the fetched teams.
* Fetching: after an empty first page short of the total the code asks for it
  again at once and without a pause until the team's 60 s are over
  (reconciler.go:373,404-407), and the first call of a query follows the last of
  the one before without a pause, where config/sankey-scorecard.yaml.example:36
  speaks of a delay "between Jira API calls"; the "exponential" back-off
  (reconciler.go:386) is constant. JiraIsLeftAlone is what remains true. A 429
  during sprint discovery fails the refresh; an issue that is resolved after the
  closed queries and before the in-progress one is in neither.
* Queries: the closed query names its last day as a date, which Jira reads as
  that day's midnight, so what is resolved on the last day of a range, or today
  with `--since`, is not matched, where openapi.yaml:158-160 says "on or before";
  an issue resolved exactly at the midnight between two sprints is in both;
  `sprint in ()` is commented "matches nothing" (jql.go:75) and modelled so.
* Command line: exit code 3 of README.md:198-206 is never produced;
  refresh_data.go:22 says the fetched data is available for later lookups, but the
  store dies with the process; `--since` is described as "updated since"
  (root.go:143) and the query uses `resolved`; `scored_issue_types` is not
  validated; an identifier that starts with "-" is accepted and is then taken for
  a flag.
* Web page: of two overlapping loads the answer that arrives last is shown, even
  if it was asked for first or with other filters; a good answer does not clear
  the error an overlapping load has set; a refresh that failed is reloaded
  silently like one that completed; a poll that is lost enables the button
  without a load; polling goes on over other clients' refreshes.

## 6. What is not modelled

* Stored issues and their columns: no score or status depends on them.
* The quoting of JQL and the lookup of the activity type's field name: functions
  of text.
* The presenter, output formats, logging, cobra's parsing of flags, signals, the
  health and OpenAPI handlers; the page's table, sorting and texts.
* Floating point: a total that is a rounding error below a grade's threshold.
* The Go memory model: mode and scope are single words or pointers here. The
  theorem OwnParameters shows that no two goroutines access them at the same
  time but for a request's own handler and refresh, which the `go` statement
  orders.
* Clients that stop waiting: a request whose connection is closed runs to its
  end, since the refresh has a context of its own.

## 7. The plan

Order of work, most important first.

1. ScoringPeriods, ReconciliationStore, Reconciler, Handlers, Server: the gate.
2. RefreshLifecycle and the refinement.
3. PGStore, PGServer: crashes, rollouts, faults.
4. Scoring, FullScorecard, Scorecard; Fetch.
5. ResourceMap, JiraQueries, Cli: the command line on the same store and scoring.
6. Page: the browser on the abstract lifecycle.
7. Proofs: the gate, the data invariant and the safety of the refinement, the
   database's gate and its data, the scorecard's counters, scores, sections and
   filters, the fetch, the page, the resolver, and what the command line prints
   and counts.

All of it is done. What could follow: a composition of `Page` with `Server`
instead of its contract.
