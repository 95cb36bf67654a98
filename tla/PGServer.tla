------------------------------- MODULE PGServer -------------------------------
(***************************************************************************)
(* The server with the PostgreSQL store, as it is deployed: processes that *)
(* start, overlap during a rollout, and stop at any point of a refresh     *)
(* (serve.go waits for the handlers, not for the refresh goroutine), each  *)
(* with the configuration it was started with, sharing one database whose  *)
(* statements may fail.                                                    *)
(*                                                                         *)
(* What one process's requests do to each other is the subject of Server:  *)
(* here a request's checks, StartRefresh and the launch are one step.      *)
(***************************************************************************)
EXTENDS PGStore

CONSTANTS Pods,     \* processes; one that stopped does not come back
          Reqs,     \* POST /api/refresh_data requests
          Clients,  \* GET /api/scorecard requests
          Queries,  \* the accepted parameters: [mode, scope]
          Configs,  \* the sets of teams a process may be configured with
          NoPod,    \* the process of a request not yet sent
          MaxFaults \* bounds the database failures of a behaviour

ASSUME ConfigsAssumption == Configs \subseteq SUBSET Teams
ASSUME MaxFaultsAssumption == MaxFaults \in Nat

VARIABLES pod,    \* per process: whether it runs, its teams, mode and scope
          job,    \* per request, its executeRefresh and the process it is in
          client  \* per client, the two SELECTs of GetAllTeamData

vars == <<pgVars, pod, job, client>>

Modes == {"", "replace", "upsert"}

Query == [mode: Modes, scope: RefreshScope]

EmptyQuery == [mode |-> "", scope |-> Unscoped]

ASSUME QueriesAssumption == Queries \subseteq Query

NoJob == [pc |-> "none", pod |-> NoPod, query |-> EmptyQuery, run |-> 0,
          fetched |-> NoTeams]

Init ==
    /\ row = NewRow /\ table = NoTeams /\ faults = MaxFaults
    /\ pod = [p \in Pods |-> [up |-> "new", config |-> {}, mode |-> "", scope |-> Unscoped]]
    /\ job = [r \in Reqs |-> NoJob]
    /\ client = [c \in Clients |-> [pc |-> "idle", pod |-> NoPod, rows |-> {}, view |-> NoTeams]]

Up(p) == pod[p].up = "up"

Live(r) == job[r].pc \in {"fetching", "applied"}

\* The teams the refresh of r covers.
ConfigOf(r) == pod[job[r].pod].config

-----------------------------------------------------------------------------
(* Processes.                                                              *)

\* The configuration is read once; the row of an earlier process stays.
StartPod(p, config) ==
    /\ pod[p].up = "new"
    /\ pod' = [pod EXCEPT ![p].up = "up", ![p].config = config]
    /\ UNCHANGED <<pgVars, job, client>>

\* What the process was doing is gone, its goroutines and its requests.
StopPod(p) ==
    /\ Up(p)
    /\ pod' = [pod EXCEPT ![p].up = "down"]
    /\ job' = [r \in Reqs |-> IF job[r].pod = p /\ Live(r)
                              THEN [job[r] EXCEPT !.pc = "killed", !.fetched = NoTeams]
                              ELSE job[r]]
    /\ client' = [c \in Clients |-> IF client[c].pod = p /\ client[c].pc # "served"
                                    THEN [client[c] EXCEPT !.pc = "lost"] ELSE client[c]]
    /\ UNCHANGED pgVars

-----------------------------------------------------------------------------
(* POST /api/refresh_data                                                  *)

\* Faulty variant: the process looks for a refresh of its own only.
AcceptUnlessLocal(r, p, query) ==
    /\ job[r].pc = "none" /\ Up(p)
    /\ \A q \in Reqs : job[q].pod = p => ~Live(q)
    /\ PGStartRefresh /\ NoFault
    /\ pod' = [pod EXCEPT ![p].mode = IF query.mode # "" THEN query.mode ELSE @,
                          ![p].scope = query.scope]
    /\ job' = [job EXCEPT ![r] = [NoJob EXCEPT
                 !.pc = "fetching", !.pod = p, !.query = query, !.run = row.startedAt + 1]]
    /\ UNCHANGED <<table, client>>

\* The one UPDATE ... WHERE status != 'running' found the row.
AcceptRequest(r, p, query) ==
    /\ job[r].pc = "none" /\ Up(p)
    /\ row.status # "running"
    /\ PGStartRefresh /\ NoFault
    /\ pod' = [pod EXCEPT ![p].mode = IF query.mode # "" THEN query.mode ELSE @,
                          ![p].scope = query.scope]
    /\ job' = [job EXCEPT ![r] = [NoJob EXCEPT
                 !.pc = "fetching", !.pod = p, !.query = query, !.run = row.startedAt + 1]]
    /\ UNCHANGED <<table, client>>

Refuse(r, p) == job' = [job EXCEPT ![r].pc = "conflict", ![r].pod = p]

\* No row affected: it is running, or the statement failed, before or after
\* the database committed it.
RefuseRequest(r, p) ==
    /\ job[r].pc = "none" /\ Up(p)
    /\ \/ row.status = "running" /\ NoFault /\ UNCHANGED row
       \/ Fault /\ (UNCHANGED row \/ (row.status # "running" /\ PGStartRefresh))
    /\ Refuse(r, p)
    /\ UNCHANGED <<table, pod, client>>

-----------------------------------------------------------------------------
(* The refresh.  Its day is 0: the days are the subject of Server.         *)

Scope(r) == pod[job[r].pod].scope

Fetched(r) == FetchedPeriods(RefreshCadences(Scope(r), 0), RefreshedTypes(Scope(r)),
                             0, job[r].run)

\* Faulty variant: nothing is carried over.
FetchTeamWithoutMerge(r, t) ==
    /\ job[r].pc = "fetching"
    /\ t \in ConfigOf(r) \ Present(job[r].fetched)
    /\ NoFault
    /\ job' = [job EXCEPT ![r].fetched[t] = [periods |-> Fetched(r)]]
    /\ UNCHANGED <<row, table, pod, client>>

\* The merge reads the team's stored periods, or fails to and keeps none.
FetchTeam(r, t) ==
    /\ job[r].pc = "fetching"
    /\ t \in ConfigOf(r) \ Present(job[r].fetched)
    /\ \/ /\ NoFault
          /\ LET kept == IF Scope(r) # Unscoped /\ table[t] # Absent
                         THEN PreservedPeriods(table[t].periods, RefreshedTypes(Scope(r)))
                         ELSE {}
             IN  job' = [job EXCEPT ![r].fetched[t] = [periods |-> Fetched(r) \cup kept]]
       \/ /\ Scope(r) # Unscoped
          /\ Fault
          /\ job' = [job EXCEPT ![r].fetched[t] = [periods |-> Fetched(r)]]
    /\ UNCHANGED <<row, table, pod, client>>

Return(r, outcome) ==
    job' = [job EXCEPT ![r].pc = outcome, ![r].fetched = NoTeams]

FailTeamFetch(r) ==
    /\ job[r].pc = "fetching"
    /\ Present(job[r].fetched) # ConfigOf(r)
    /\ \/ PGFailRefresh /\ NoFault
       \/ Fault /\ UNCHANGED row
    /\ Return(r, "failed")
    /\ UNCHANGED <<table, pod, client>>

ForcesUpsert(r) == Scope(r) # Unscoped \/ pod[job[r].pod].mode = "upsert"

\* Faulty variant: the refresh waits for every team the database may know.
ApplyDataOfAllTeams(r) ==
    /\ job[r].pc = "fetching"
    /\ Present(job[r].fetched) = Teams
    /\ PGSwapData(job[r].fetched, CountOf(job[r].fetched)) /\ NoFault
    /\ job' = [job EXCEPT ![r].pc = "applied"]
    /\ UNCHANGED <<pod, client>>

\* A transaction that is rolled back looks to its caller like one that is not.
ApplyData(r) ==
    /\ job[r].pc = "fetching"
    /\ Present(job[r].fetched) = ConfigOf(r)
    /\ \/ ForcesUpsert(r) /\ PGUpsertTeamData(job[r].fetched) /\ NoFault
       \/ ~ForcesUpsert(r) /\ PGSwapData(job[r].fetched, CountOf(job[r].fetched)) /\ NoFault
       \/ Fault /\ UNCHANGED <<row, table>>
    /\ job' = [job EXCEPT ![r].pc = "applied"]
    /\ UNCHANGED <<pod, client>>

FinishRefresh(r) ==
    /\ job[r].pc = "applied"
    /\ \/ PGCompleteRefresh(CountOf(job[r].fetched)) /\ NoFault
       \/ Fault /\ UNCHANGED row
    /\ Return(r, "completed")
    /\ UNCHANGED <<table, pod, client>>

-----------------------------------------------------------------------------
(* GET /api/scorecard                                                      *)

\* HasData; a count that fails is zero.
CheckHasData(c, p) ==
    /\ client[c].pc = "idle" /\ Up(p)
    /\ \/ /\ NoFault
          /\ client' = [client EXCEPT ![c].pod = p, ![c].pc =
                          IF Present(table) # {} THEN "checked" ELSE "unavailable"]
       \/ Fault /\ client' = [client EXCEPT ![c].pod = p, ![c].pc = "unavailable"]
    /\ UNCHANGED <<row, table, pod, job>>

\* SELECT * FROM teams; a failure leaves no teams, and so no periods to ask for.
SelectTeams(c) ==
    /\ client[c].pc = "checked"
    /\ \/ NoFault /\ client' = [client EXCEPT ![c].pc = "selected", ![c].rows = Present(table)]
       \/ Fault /\ client' = [client EXCEPT ![c].pc = "served"]
    /\ UNCHANGED <<row, table, pod, job>>

\* Faulty variant: one SELECT for each team's periods.
SelectPeriodsOfOneTeam(c) ==
    /\ client[c].pc = "selected"
    /\ \/ \E t \in client[c].rows :
            client' = [client EXCEPT ![c].rows = @ \ {t}, ![c].view[t] = table[t]]
       \/ client[c].rows = {} /\ client' = [client EXCEPT ![c].pc = "served"]
    /\ NoFault
    /\ UNCHANGED <<row, table, pod, job>>

\* SELECT * FROM scoring_periods WHERE team_identifier IN (the teams selected).
SelectPeriods(c) ==
    /\ client[c].pc = "selected"
    /\ \/ /\ NoFault
          /\ client' = [client EXCEPT ![c].pc = "served", ![c].rows = {}, ![c].view =
                          [t \in Teams |-> IF t \in client[c].rows /\ table[t] # Absent
                                           THEN table[t] ELSE Absent]]
       \/ Fault /\ client' = [client EXCEPT ![c].pc = "served"]
    /\ UNCHANGED <<row, table, pod, job>>

-----------------------------------------------------------------------------
PodStep(p) == (\E config \in Configs : StartPod(p, config)) \/ StopPod(p)

RequestStep(r) ==
    \E p \in Pods :
        (\E query \in Queries : AcceptRequest(r, p, query)) \/ RefuseRequest(r, p)

RefreshStep(r) ==
    \/ \E t \in Teams : FetchTeam(r, t)
    \/ FailTeamFetch(r)
    \/ ApplyData(r)
    \/ FinishRefresh(r)

ClientStep(c) ==
    (\E p \in Pods : CheckHasData(c, p)) \/ SelectTeams(c) \/ SelectPeriods(c)

Next ==
    \/ \E p \in Pods : PodStep(p)
    \/ \E r \in Reqs : RequestStep(r) \/ RefreshStep(r)
    \/ \E c \in Clients : ClientStep(c)

Spec == Init /\ [][Next]_vars

\* A refresh goes on as long as its process runs.
FairSpec == Spec /\ \A r \in Reqs : WF_vars(RefreshStep(r))

-----------------------------------------------------------------------------
(* Types and safety.                                                       *)

\* Every variable holds a value of its type.
TypeOK ==
    /\ row \in Row
    /\ table \in TeamMap
    /\ faults \in 0..MaxFaults
    /\ pod \in [Pods -> [up: {"new", "up", "down"}, config: {{}} \cup Configs,
                        mode: Modes, scope: RefreshScope]]
    /\ job \in [Reqs -> [pc: {"none", "fetching", "applied", "completed", "failed",
                             "killed", "conflict"},
                        pod: Pods \cup {NoPod}, query: Query, run: Nat,
                        fetched: TeamMap]]
    /\ client \in [Clients -> [pc: {"idle", "checked", "selected", "served",
                                   "unavailable", "lost"},
                              pod: Pods \cup {NoPod}, rows: SUBSET Teams, view: TeamMap]]

\* At most one refresh runs on the database, in whichever process, and while
\* it does the row says so and is its own: the mutex of a process does not
\* reach the others, the condition of the UPDATE does.
OneWriter ==
    /\ \A r \in Reqs : Live(r) => row.status = "running" /\ row.startedAt = job[r].run
    /\ \A r, q \in Reqs : Live(r) /\ Live(q) => r = q

\* When the row says completed, the data of that refresh is stored for every
\* team and set type it covered, whatever processes stopped and started.
CompletedIsStored ==
    row.status = "completed" =>
        \A r \in Reqs : job[r].run = row.startedAt /\ job[r].pc = "completed" =>
            \A t \in ConfigOf(r), s \in RefreshedTypes(job[r].query.scope) :
                {p.run : p \in PeriodsOf(table, t, s)} = {row.startedAt}

\* A scorecard made of two SELECTs shows, for every configured team and each
\* set type, the data of one refresh.  For processes with one configuration.
ScorecardIsWhole ==
    \A c \in Clients : client[c].pc = "served" =>
        \A t, u \in pod[client[c].pod].config :
            /\ client[c].view[t] # Absent
            /\ \A s \in SetTypes : {p.run : p \in PeriodsOf(client[c].view, t, s)}
                                   = {p.run : p \in PeriodsOf(client[c].view, u, s)}

\* The stored periods of a set type change only when the refresh of a request
\* that covers it is applied: what a scoped refresh keeps survives processes
\* that stop between its reading and its writing.
OutOfScopeSurvives ==
    [][ \A t \in Teams, s \in SetTypes :
          PeriodsOf(table', t, s) # PeriodsOf(table, t, s) =>
            \E r \in Reqs : /\ job[r].pc = "fetching" /\ job'[r].pc = "applied"
                            /\ s \in RefreshedTypes(job[r].query.scope) ]_vars

\* Every refresh ends, by itself or with its process.
JobsEnd == \A r \in Reqs : Live(r) ~> ~Live(r)

-----------------------------------------------------------------------------
(* What the repository's documents say and the code does not do.           *)

\* openapi.yaml: 409 means a refresh is already in progress.
ConflictMeansRunning ==
    [][ \A r \in Reqs : job[r].pc = "none" /\ job'[r].pc = "conflict" =>
          \E q \in Reqs : Live(q) ]_vars

\* openapi.yaml: replace, the default mode, swaps all data.
DefaultReplaces ==
    [][ \A r \in Reqs : job[r].pc = "fetching" /\ job'[r].pc = "applied"
                         /\ job[r].query = EmptyQuery =>
          Present(table') = ConfigOf(r) ]_vars
=============================================================================
