------------------------------ MODULE Reconciler ------------------------------
(***************************************************************************)
(* The reconciler (reconciler.go): one goroutine per accepted request runs *)
(* ExecuteRefresh.  The mode and the scope are fields of the one           *)
(* Reconciler all requests share, read without a lock; the cadences, the   *)
(* refreshed set types, the fetched teams and the total are the            *)
(* goroutine's own.                                                        *)
(*                                                                         *)
(* An action holds at most one access to the store.  The Jira queries of a *)
(* team touch no shared state, so they are one step with the merge that    *)
(* follows them.  They succeed, or fail for any of the reasons they have   *)
(* (an HTTP error, the team's 60 s, the refresh's 10 minutes).             *)
(***************************************************************************)
EXTENDS ReconciliationStore

CONSTANT Reqs  \* the POST /api/refresh_data requests of a behaviour

VARIABLES refreshMode,   \* Reconciler.refreshMode
          refreshScope,  \* Reconciler.refreshScope
          job            \* per request, the frame of its executeRefresh

reconcilerVars == <<refreshMode, refreshScope, job>>

Modes == {"", "replace", "upsert"}

JobPC == {"none", "launched", "fetching", "applied", "completed", "failed"}

\* run numbers the refreshes as they start; the periods a job fetches carry it.
Job == [pc: JobPC, run: Nat, cadences: SUBSET Cadence, types: SUBSET SetTypes,
        fetched: TeamMap, count: SUBSET (Teams \X ScoringPeriod)]

NoJob == [pc |-> "none", run |-> 0, cadences |-> {}, types |-> {},
          fetched |-> NoTeams, count |-> {}]

ReconcilerInit ==
    /\ refreshMode = ""
    /\ refreshScope = Unscoped
    /\ job = [r \in Reqs |-> NoJob]

\* The goroutine of r is between its start and its last store access.
Live(r) == job[r].pc \in {"launched", "fetching", "applied"}

\* The goroutine returns; of its frame only the outcome is kept.
Return(r, outcome) ==
    job' = [job EXCEPT ![r] = [NoJob EXCEPT !.pc = outcome, !.run = job[r].run]]

BeginRefresh(r, now) ==
    /\ job[r].pc = "launched"
    /\ job' = [job EXCEPT ![r].pc = "fetching",
                          ![r].cadences = RefreshCadences(refreshScope, now),
                          ![r].types = RefreshedTypes(refreshScope)]
    /\ UNCHANGED <<refreshMode, refreshScope, storeVars>>

\* Faulty variant: a scoped refresh stores what it fetched and no more.
MergeNothing(r, t, fetched) == fetched

\* Only a scoped refresh looks at what the store holds for the team.
MergeExistingPeriods(r, t, fetched) ==
    IF refreshScope # Unscoped /\ teams[t] # Absent
    THEN fetched \cup PreservedPeriods(teams[t].periods, job[r].types)
    ELSE fetched

\* Faulty variant: the total is taken before the merge.
FetchTeamCountsEarly(r, t, now) ==
    /\ job[r].pc = "fetching"
    /\ job[r].fetched[t] = Absent
    /\ LET fetched == FetchedPeriods(job[r].cadences, job[r].types, now, job[r].run)
           periods == MergeExistingPeriods(r, t, fetched)
       IN  job' = [job EXCEPT ![r].fetched[t] = [periods |-> periods],
                              ![r].count = @ \cup ({t} \X fetched)]
    /\ UNCHANGED <<refreshMode, refreshScope, storeVars>>

\* Faulty variant: every team is stored as soon as it is fetched.
FetchTeamStores(r, t, now) ==
    /\ job[r].pc = "fetching"
    /\ job[r].fetched[t] = Absent
    /\ LET fetched == FetchedPeriods(job[r].cadences, job[r].types, now, job[r].run)
           periods == MergeExistingPeriods(r, t, fetched)
       IN  /\ job' = [job EXCEPT ![r].fetched[t] = [periods |-> periods],
                                 ![r].count = @ \cup ({t} \X periods)]
           /\ teams' = [teams EXCEPT ![t] = [periods |-> periods]]
    /\ UNCHANGED <<refreshMode, refreshScope, state>>

\* The teams are fetched one after another, in any order that is fixed.
FetchTeam(r, t, now) ==
    /\ job[r].pc = "fetching"
    /\ job[r].fetched[t] = Absent
    /\ LET fetched == FetchedPeriods(job[r].cadences, job[r].types, now, job[r].run)
           periods == MergeExistingPeriods(r, t, fetched)
       IN  job' = [job EXCEPT ![r].fetched[t] = [periods |-> periods],
                              ![r].count = @ \cup ({t} \X periods)]
    /\ UNCHANGED <<refreshMode, refreshScope, storeVars>>

\* Faulty variant: the error is returned, the store is not told.
FailTeamFetchUntold(r) ==
    /\ job[r].pc = "fetching"
    /\ Present(job[r].fetched) # Teams
    /\ Return(r, "failed")
    /\ UNCHANGED <<refreshMode, refreshScope, storeVars>>

\* Faulty variant: the next team is fetched all the same.
FailTeamFetchAndGoOn(r) ==
    /\ job[r].pc = "fetching"
    /\ Present(job[r].fetched) # Teams
    /\ FailRefresh
    /\ UNCHANGED reconcilerVars

FailTeamFetch(r) ==
    /\ job[r].pc = "fetching"
    /\ Present(job[r].fetched) # Teams
    /\ FailRefresh
    /\ Return(r, "failed")
    /\ UNCHANGED <<refreshMode, refreshScope>>

ForcesUpsert == refreshScope # Unscoped \/ refreshMode = "upsert"

\* Faulty variant: the teams that failed are left out.
ApplyPartialData(r) ==
    /\ job[r].pc = "fetching"
    /\ \/ ForcesUpsert /\ UpsertTeamData(job[r].fetched, job[r].count)
       \/ ~ForcesUpsert /\ SwapData(job[r].fetched, job[r].count)
    /\ job' = [job EXCEPT ![r].pc = "applied"]
    /\ UNCHANGED <<refreshMode, refreshScope>>

ApplyData(r) ==
    /\ job[r].pc = "fetching"
    /\ Present(job[r].fetched) = Teams
    /\ \/ ForcesUpsert /\ UpsertTeamData(job[r].fetched, job[r].count)
       \/ ~ForcesUpsert /\ SwapData(job[r].fetched, job[r].count)
    /\ job' = [job EXCEPT ![r].pc = "applied"]
    /\ UNCHANGED <<refreshMode, refreshScope>>

FinishRefresh(r) ==
    /\ job[r].pc = "applied"
    /\ CompleteRefresh(job[r].count)
    /\ Return(r, "completed")
    /\ UNCHANGED <<refreshMode, refreshScope>>
=============================================================================
