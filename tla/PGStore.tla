------------------------------- MODULE PGStore -------------------------------
(***************************************************************************)
(* The PostgreSQL store (pgstore.go), shared by every process that uses    *)
(* the database and outliving them: the singleton reconciliation_state row *)
(* and the committed teams with their periods.  A statement, or the        *)
(* transaction of SwapData and UpsertTeamData, takes effect whole or not   *)
(* at all, and its error is ignored: the caller goes on either way.  Each  *)
(* write has an operator for its effect and shares one for its failure.    *)
(***************************************************************************)
EXTENDS ScoringPeriods

VARIABLES row,    \* ReconciliationStateModel, id = 1
          table,  \* TeamModel and ScoringPeriodModel, as a map of teams
          faults  \* how many database failures may still happen

pgVars == <<row, table, faults>>

Status == {"idle", "running", "completed", "failed"}

Row == [status: Status, startedAt: Nat, finished: BOOLEAN, error: BOOLEAN,
        issueCount: SUBSET (Teams \X ScoringPeriod)]

\* FirstOrCreate inserts this row into a new database, and finds it later.
NewRow == [status |-> "idle", startedAt |-> 0, finished |-> FALSE,
           error |-> FALSE, issueCount |-> {}]

\* A statement fails; nothing is written.
Fault == faults > 0 /\ faults' = faults - 1

NoFault == faults' = faults

PGStartRefresh ==
    row' = [row EXCEPT !.status = "running", !.startedAt = @ + 1,
                       !.finished = FALSE, !.error = FALSE]

\* The unique index on team, label and set type.
UniqueIndex(data) ==
    \A t \in Present(data) : \A p, q \in data[t].periods :
        p.setType = q.setType /\ SameLabel(p, q) => p = q

\* A statement that violates the index rolls the transaction back.
\* All teams are deleted, then the new ones inserted.
PGSwapData(data, count) ==
    IF UniqueIndex(data)
    THEN /\ table' = data
         /\ row' = [row EXCEPT !.issueCount = count]
    ELSE UNCHANGED <<row, table>>

StoreUpserted(data) ==
    IF UniqueIndex(data)
    THEN /\ table' = data
         /\ row' = [row EXCEPT !.issueCount = CountOf(data)]
    ELSE UNCHANGED <<row, table>>

\* Faulty variant: the new periods are inserted beside the stored ones.
PGUpsertWithoutDelete(data) ==
    StoreUpserted([t \in Teams |->
        IF data[t] # Absent /\ table[t] # Absent
        THEN [periods |-> data[t].periods \cup table[t].periods]
        ELSE Upserted(table, data)[t]])

\* The periods of each new team are deleted, then the new ones inserted; the
\* issues of all teams are counted again.
PGUpsertTeamData(data) == StoreUpserted(Upserted(table, data))

PGCompleteRefresh(count) ==
    row' = [row EXCEPT !.status = "completed", !.finished = TRUE,
                       !.error = FALSE, !.issueCount = count]

PGFailRefresh ==
    row' = [row EXCEPT !.status = "failed", !.finished = TRUE, !.error = TRUE]
=============================================================================
