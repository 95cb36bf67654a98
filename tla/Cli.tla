--------------------------------- MODULE Cli ---------------------------------
(***************************************************************************)
(* One run of the command line (cmd/root.go, cmd/refresh_data.go): the     *)
(* scorecard of the entity an argument names, or refresh-data.  The        *)
(* process loads the resource map, checks its flags, refreshes its own     *)
(* in-memory store and prints; each outcome has its exit code.             *)
(*                                                                         *)
(* An argument is the path of names it is split into.  The flag parser     *)
(* and the other subcommands are external: an argument that is the name of *)
(* a subcommand runs it.  Jira does not change during the run (module      *)
(* Fetch is about that).                                                   *)
(***************************************************************************)
EXTENDS ReconciliationStore, JiraQueries, ResourceMap

CONSTANTS Files,       \* the resource maps a run may find
          NoFile,      \* no file, or one that is not YAML
          Commands,    \* the arguments and flags of a run
          JiraSamples, \* the issues Jira may hold
          BadFilter, BadDate, \* flags that do not parse
          Today        \* the day of the run

VARIABLES file, cmd, jira, \* what the run finds; no step changes them
          proc             \* the local variables of the run

cliVars == <<file, cmd, jira, proc>>

vars == <<storeVars, cliVars>>

ASSUME TodayAssumption == Today \in Int

\* The flags are parsed as the parameters of a request are.
ASSUME CommandsAssumption ==
    \A c \in Commands :
        /\ c.path \in Seq(STRING) /\ Len(c.path) > 0
        /\ c.filter \in RefreshScope \cup {BadFilter} /\ BadFilter \notin RefreshScope
        /\ c.since \in Int \cup {NoDate, BadDate} /\ BadDate \notin Int \cup {NoDate}

\* An issue that is done has been resolved.
ASSUME SamplesAssumption ==
    \A issues \in JiraSamples :
        /\ IsFiniteSet(issues)
        /\ \A i \in issues : i.status \in DoneStatuses => i.resolved \in Int

\* The store's map takes every identifier that a resource map may have.
ASSUME IdentifiersAssumption ==
    WellFormed \subseteq Teams /\ Absent \notin [periods: SUBSET Period]

Subcommands == {"serve", "refresh-data", "version", "help"}

IsSubcommand(c) == Len(c.path) = 1 /\ c.path[1] \in Subcommands

RefreshesAll == cmd.path = <<"refresh-data">>

Init ==
    /\ StoreInit
    /\ file \in Files \cup {NoFile}
    /\ cmd \in Commands
    /\ jira \in JiraSamples
    /\ proc = [pc |-> "dispatch", entity |-> {}, todo |-> {}, fetched |-> NoTeams,
               count |-> {}, code |-> 0, output |-> {}]

Goto(pc) == proc' = [proc EXCEPT !.pc = pc]

Exit(code) == proc' = [proc EXCEPT !.pc = "exited", !.code = code]

-----------------------------------------------------------------------------
(* Before the refresh.                                                     *)

\* External: serve, version and help are not followed further.
Dispatch ==
    /\ proc.pc = "dispatch"
    /\ Goto(IF IsSubcommand(cmd) /\ ~RefreshesAll THEN "elsewhere" ELSE "loading")
    /\ UNCHANGED <<storeVars, file, cmd, jira>>

LoadConfig ==
    /\ proc.pc = "loading"
    /\ IF file = NoFile \/ ~Validate(file) THEN Exit(1)
       ELSE IF RefreshesAll
       THEN proc' = [proc EXCEPT !.pc = "checking", !.todo = AllTeams]
       ELSE Goto("resolving")
    /\ UNCHANGED <<storeVars, file, cmd, jira>>

\* Faulty variant: every error of Resolve is taken for a name that is not found.
ResolveIdentifierOrTwo ==
    /\ proc.pc = "resolving"
    /\ LET resolved == Resolve(file, cmd.path)
       IN  IF resolved.error = ""
           THEN proc' = [proc EXCEPT !.pc = "checking", !.entity = {resolved.entity},
                                     !.todo = EntityTeams(resolved.entity)]
           ELSE Exit(2)
    /\ UNCHANGED <<storeVars, file, cmd, jira>>

\* Only what is not found has a code of its own.
ResolveIdentifier ==
    /\ proc.pc = "resolving"
    /\ LET resolved == Resolve(file, cmd.path)
       IN  IF resolved.error = ""
           THEN proc' = [proc EXCEPT !.pc = "checking", !.entity = {resolved.entity},
                                     !.todo = EntityTeams(resolved.entity)]
           ELSE Exit(IF resolved = NotFound THEN 2 ELSE 1)
    /\ UNCHANGED <<storeVars, file, cmd, jira>>

fieldID == IF cmd.field # "" THEN cmd.field ELSE file.activityTypeField

\* refresh-data has no filter.
FlagsAreGood ==
    /\ RefreshesAll \/ cmd.filter # BadFilter
    /\ cmd.jiraURL /\ cmd.token
    /\ fieldID # ""
    /\ cmd.since # BadDate

\* buildFilterOptions, createJiraClient, resolveActivityTypeField, --since.
CheckFlags ==
    /\ proc.pc = "checking"
    /\ IF FlagsAreGood THEN Goto("starting") ELSE Exit(1)
    /\ UNCHANGED <<storeVars, file, cmd, jira>>

-----------------------------------------------------------------------------
(* RefreshTeams.                                                           *)

StartFetching ==
    /\ proc.pc = "starting"
    /\ StartRefresh
    /\ Goto("fetching")
    /\ UNCHANGED <<file, cmd, jira>>

\* Faulty variant: the day before the given one is taken too.
CadencesOffByOne ==
    IF cmd.since # NoDate
    THEN {[window |-> [since |-> cmd.since - 1, until |-> Today], current |-> TRUE]}
    ELSE CalculateCadences(Today)

\* calculateCadences with the override of --since.
Cadences ==
    IF cmd.since # NoDate
    THEN {[window |-> [since |-> cmd.since, until |-> Today], current |-> TRUE]}
    ELSE CalculateCadences(Today)

FetchTeam(t) ==
    /\ proc.pc = "fetching"
    /\ LET data == FetchTeamData(file, file.ownership[t], fieldID, Cadences, SetTypes,
                                 Today, jira)
       IN  proc' = [proc EXCEPT !.todo = @ \ {t},
                                !.fetched[file.id[t]] = data,
                                !.count = @ \cup ({file.id[t]} \X data.periods)]
    /\ UNCHANGED <<storeVars, file, cmd, jira>>

\* Faulty variant: the store is not told.
FailTeamFetchUntold ==
    /\ proc.pc = "fetching"
    /\ proc.todo # {}
    /\ Exit(1)
    /\ UNCHANGED <<storeVars, file, cmd, jira>>

\* Any of a team's queries fails.
FailTeamFetch ==
    /\ proc.pc = "fetching"
    /\ proc.todo # {}
    /\ FailRefresh
    /\ Exit(1)
    /\ UNCHANGED <<file, cmd, jira>>

ApplyData ==
    /\ proc.pc = "fetching"
    /\ proc.todo = {}
    /\ SwapData(proc.fetched, proc.count)
    /\ Goto("applied")
    /\ UNCHANGED <<file, cmd, jira>>

FinishRefresh ==
    /\ proc.pc = "applied"
    /\ CompleteRefresh(proc.count)
    /\ Goto("printing")
    /\ UNCHANGED <<file, cmd, jira>>

-----------------------------------------------------------------------------
(* What is printed.                                                        *)

TheConfig ==
    [ orgs |-> {file.id[o] : o \in OrgEntries},
      pillarsOf |-> [x \in {file.id[o] : o \in OrgEntries} |->
          {file.id[p] : p \in UNION {PillarEntries[o] : o \in {u \in OrgEntries : file.id[u] = x}}}],
      teamsOf |-> [x \in {file.id[p] : p \in AllPillars} |->
          {file.id[t] : t \in UNION {TeamEntries[p] : p \in {u \in AllPillars : file.id[u] = x}}}] ]

PeriodsIn(data) == [x \in Present(data) |-> data[x].periods]

\* The rows of an entity, below the rows of the entities it is in.
RowsOf(orgs, e) ==
    LET org == {o \in orgs : o.identifier = file.id[OrgOf(e)]}
        Pillars(id) == {p \in UNION {o.pillars : o \in org} : p.identifier = id}
    IN  CASE e \in OrgEntries -> org
          [] e \in AllPillars -> Pillars(file.id[e])
          [] OTHER -> {t \in UNION {p.teams : p \in Pillars(file.id[PillarOf(e)])} :
                          t.identifier = file.id[e]}

\* renderEntity.
RenderEntity ==
    /\ proc.pc = "printing" /\ ~RefreshesAll
    /\ LET orgs == ComputeFullScorecard(TheConfig, PeriodsIn(teams), cmd.filter)
           rows == UNION {RowsOf(orgs, e) : e \in proc.entity}
       IN  IF rows = {} THEN Exit(1)
           ELSE proc' = [proc EXCEPT !.pc = "exited", !.output = {CHOOSE r \in rows : TRUE}]
    /\ UNCHANGED <<storeVars, file, cmd, jira>>

\* The number of issues.
PrintCount ==
    /\ proc.pc = "printing" /\ RefreshesAll
    /\ proc' = [proc EXCEPT !.pc = "exited", !.output = {state.issueCount}]
    /\ UNCHANGED <<storeVars, file, cmd, jira>>

Ended == proc.pc \in {"exited", "elsewhere"}

Finished == Ended /\ UNCHANGED vars

Next ==
    \/ Dispatch \/ LoadConfig \/ ResolveIdentifier \/ CheckFlags
    \/ StartFetching \/ (\E t \in proc.todo : FetchTeam(t)) \/ FailTeamFetch
    \/ ApplyData \/ FinishRefresh
    \/ RenderEntity \/ PrintCount
    \/ Finished

Spec == Init /\ [][Next]_vars

-----------------------------------------------------------------------------
(* Properties.                                                             *)

Loaded == file # NoFile /\ Validate(file)

\* Every variable holds a value of its type, and a run that has not exited
\* with success has printed nothing.
TypeOK ==
    /\ proc.pc \in {"dispatch", "elsewhere", "loading", "resolving", "checking", "starting",
                    "fetching", "applied", "printing", "exited"}
    /\ proc.entity \subseteq Entries /\ proc.todo \subseteq AllTeams
    /\ Present(proc.fetched) # {} => Loaded
    /\ proc.code \in {0, 1, 2}
    /\ proc.output # {} <=> proc.pc = "exited" /\ proc.code = 0
    /\ state.status = "running" => proc.pc \in {"fetching", "applied"}
    /\ Present(teams) # {} => proc.pc \in {"applied", "printing", "exited"}

\* In a file that passes validation every entity is found by its name and by
\* each path of names that leads to it, no subcommand takes the name away, and
\* no other path finds an entity or is ambiguous.
NamesResolve ==
    Loaded =>
        /\ \A e \in Entries :
             cmd.path \in PathsTo(file, e) =>
                 ~IsSubcommand(cmd) /\ Resolve(file, cmd.path) = Resolved(e)
        /\ (\A e \in Entries : cmd.path \notin PathsTo(file, e)) =>
             Resolve(file, cmd.path) \in {NotFound, TooLong}

\* Exit code 2 says that the file is good and that nothing in it has the name
\* or path, whatever else is wrong with the flags; 0 says that there is such
\* an entity, and that what is printed is from a refresh that completed.
ExitCodesTellWhy ==
    proc.pc = "exited" =>
        LET named == \E e \in Entries : cmd.path \in PathsTo(file, e) IN
        /\ proc.code = 2 <=> Loaded /\ ~RefreshesAll /\ ~named /\ Len(cmd.path) <= 3
        /\ proc.code = 0 => /\ Loaded /\ state.status = "completed"
                            /\ RefreshesAll \/ named

\* The refresh of the server that the flags ask for, and its data.
ServerScope == [Unscoped EXCEPT !.start = cmd.since]

ServerData ==
    [x \in {file.id[t] : t \in AllTeams} |->
       FetchTeamData(file, file.ownership[CHOOSE t \in AllTeams : file.id[t] = x], fieldID,
                     RefreshCadences(ServerScope, Today), RefreshedTypes(ServerScope),
                     Today, jira).periods]

ServerRows ==
    LET orgs == ComputeFullScorecard(TheConfig, ServerData, cmd.filter)
        pillars == UNION {o.pillars : o \in orgs}
    IN  orgs \cup pillars \cup UNION {p.teams : p \in pillars}

\* What a run prints is what the server answers for the entity after a refresh
\* of all teams on the same issues: the run fetches the teams of the entity
\* only, and has --since where the server has start_date.
CommandAgreesWithServer ==
    proc.output # {} =>
        IF RefreshesAll
        THEN proc.output = {UNION {{x} \X ServerData[x] : x \in DOMAIN ServerData}}
        ELSE proc.output = {r \in ServerRows : r.identifier = cmd.path[Len(cmd.path)]}

\* The issues of a team by the words of its ownership.
IsTheirs(o, i) ==
    \/ o.method = "component" /\ i.project = o.project /\ i.components \cap o.components # {}
    \/ o.method = "team_field" /\ i.project = o.project /\ i.teamField = o.teamField
    \/ o.method = "jql" /\ i.project \in {o.jql[n] : n \in DOMAIN o.jql}
    \/ o.method = "sprint_board" /\ i.project = o.project
         /\ \E b \in o.boards : i.sprints \cap BoardSprints[b] # {}

\* The previous and the current sprint together have each issue of a team that
\* is scored and was resolved in the two sprints once, or twice if that was
\* exactly at the midnight between them: the day that ends the one begins the
\* other, and a team's own query does not let in others.
IssuesCountedOnce ==
    \A t \in AllTeams :
        LET expected == {i \in jira : /\ IsTheirs(file.ownership[t], i)
                                     /\ i.type \in file.scoredIssueTypes
                                     /\ i.status \in DoneStatuses
                                     /\ 2 * PreviousSprint(Today).since <= i.resolved
                                     /\ i.resolved <= 2 * CurrentSprint(Today).until}
            twice == {i \in expected : i.resolved = 2 * CurrentSprint(Today).since}
        IN  cmd.since = NoDate /\ Loaded /\ file.id[t] \in Present(teams) =>
              TotalOf(PeriodsOf(teams, file.id[t], "closed"))
                = Cardinality(expected) + Cardinality(twice)
=============================================================================
