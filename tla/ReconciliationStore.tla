------------------------- MODULE ReconciliationStore -------------------------
(***************************************************************************)
(* The in-memory store (store.go).  Every method holds the store's mutex   *)
(* from its first access to its return, so each is one atomic action, or   *)
(* one operator when it only reads.  A start time identifies the refresh   *)
(* that began then: startedAt is the number of that refresh.               *)
(***************************************************************************)
EXTENDS ScoringPeriods

VARIABLES state,  \* ReconciliationState
          teams   \* map[string]*TeamData

storeVars == <<state, teams>>

Status == {"idle", "running", "completed", "failed"}

StoreInit ==
    /\ state = [status |-> "idle", startedAt |-> 0, finished |-> FALSE,
                error |-> FALSE, issueCount |-> {}]
    /\ teams = NoTeams

HasData == Present(teams) # {}

CanStart == state.status # "running"

StartRefresh ==
    /\ CanStart
    /\ state' = [state EXCEPT !.status = "running", !.startedAt = @ + 1,
                              !.finished = FALSE, !.error = FALSE]
    /\ UNCHANGED teams

SwapData(data, count) ==
    /\ teams' = data
    /\ state' = [state EXCEPT !.issueCount = count]

\* Faulty variant: the merge keeps the stored teams and adds the new ones only.
UpsertTeamDataKeepsOld(data, count) ==
    /\ teams' = Upserted(data, teams)
    /\ state' = [state EXCEPT !.issueCount = CountOf(Upserted(data, teams))]

\* The caller's count is ignored: all stored teams are counted again.
UpsertTeamData(data, count) ==
    /\ teams' = Upserted(teams, data)
    /\ state' = [state EXCEPT !.issueCount = CountOf(Upserted(teams, data))]

CompleteRefresh(count) ==
    /\ state' = [state EXCEPT !.status = "completed", !.finished = TRUE,
                              !.error = FALSE, !.issueCount = count]
    /\ UNCHANGED teams

FailRefresh ==
    /\ state' = [state EXCEPT !.status = "failed", !.finished = TRUE, !.error = TRUE]
    /\ UNCHANGED teams
=============================================================================
