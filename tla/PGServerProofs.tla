---------------------------- MODULE PGServerProofs ----------------------------
(***************************************************************************)
(* Theorems about PGServer, for any processes, configurations, requests,   *)
(* clients and number of database faults.                                  *)
(***************************************************************************)
EXTENDS PGServer, ScoringPeriodsProofs

\* A refresh is in a process, whose scope it reads.
Housed == \A r \in Reqs : Live(r) => job[r].pod \in Pods

Inv == TypeOK /\ Housed /\ OneWriter

JobRecord == [pc: {"none", "fetching", "applied", "completed", "failed", "killed", "conflict"},
              pod: Pods \cup {NoPod}, query: Query, run: Nat, fetched: TeamMap]

PodRecord == [up: {"new", "up", "down"}, config: {{}} \cup Configs,
              mode: Modes, scope: RefreshScope]

ClientRecord == [pc: {"idle", "checked", "selected", "served", "unavailable", "lost"},
                 pod: Pods \cup {NoPod}, rows: SUBSET Teams, view: TeamMap]

LEMMA Types == TypeOK <=> /\ row \in Row
                          /\ table \in TeamMap
                          /\ faults \in 0..MaxFaults
                          /\ pod \in [Pods -> PodRecord]
                          /\ job \in [Reqs -> JobRecord]
                          /\ client \in [Clients -> ClientRecord]
BY DEF TypeOK, PodRecord, JobRecord, ClientRecord

\* The values the behaviours start from.
LEMMA Nothing == NoTeams \in TeamMap /\ EmptyQuery \in Query /\ Unscoped \in RefreshScope
                 /\ NewRow \in Row
<1>1. Unscoped \in RefreshScope
  BY DEF Unscoped, RefreshScope
<1>2. EmptyQuery \in Query
  BY <1>1 DEF EmptyQuery, Query, Modes
<1>3. NewRow \in Row
  BY DEF NewRow, Row, Status
<1> QED BY <1>1, <1>2, <1>3 DEF NoTeams, TeamMap

\* A statement that fails, and one that does not, leaves a number of faults.
LEMMA FaultsType ==
    ASSUME faults \in 0..MaxFaults, Fault \/ NoFault PROVE faults' \in 0..MaxFaults
BY MaxFaultsAssumption DEF Fault, NoFault

\* The writes leave a row of its type, with the status they are named for.
LEMMA StartRow ==
    ASSUME row \in Row, PGStartRefresh
    PROVE  row' \in Row /\ row'.status = "running" /\ row'.startedAt = row.startedAt + 1
<1>1. row.startedAt + 1 \in Nat
  BY DEF Row
<1> QED BY <1>1 DEF PGStartRefresh, Row, Status

LEMMA FailRow == ASSUME row \in Row, PGFailRefresh PROVE row' \in Row
BY DEF PGFailRefresh, Row, Status

LEMMA CompleteRow ==
    ASSUME row \in Row, NEW data \in TeamMap, PGCompleteRefresh(CountOf(data))
    PROVE  row' \in Row
<1>1. CountOf(data) \subseteq Teams \X ScoringPeriod
  BY CountType
<1> QED BY <1>1 DEF PGCompleteRefresh, Row, Status

\* The two transactions, rolled back or not, leave the gate's columns alone.
LEMMA StoredRow ==
    ASSUME row \in Row, table \in TeamMap, NEW data \in TeamMap,
           PGUpsertTeamData(data) \/ PGSwapData(data, CountOf(data))
    PROVE  /\ row' \in Row /\ table' \in TeamMap
           /\ row'.status = row.status /\ row'.startedAt = row.startedAt
<1>1. Upserted(table, data) \in TeamMap
  BY UpsertedType
<1>2. /\ CountOf(data) \subseteq Teams \X ScoringPeriod
      /\ CountOf(Upserted(table, data)) \subseteq Teams \X ScoringPeriod
  BY <1>1, CountType
<1> QED BY <1>1, <1>2 DEF PGUpsertTeamData, StoreUpserted, PGSwapData, Row

LEMMA InitInv == Init => Inv
<1> SUFFICES ASSUME Init PROVE Inv
  OBVIOUS
<1>1. row \in Row /\ table \in TeamMap
  BY Nothing DEF Init
<1>7. faults \in 0..MaxFaults
  <2>1. faults = MaxFaults
    BY DEF Init
  <2> QED BY <2>1, MaxFaultsAssumption
<1>2. pod \in [Pods -> PodRecord]
  BY Nothing DEF Init, PodRecord, Modes
<1>3. NoJob \in JobRecord
  BY Nothing DEF NoJob, JobRecord
<1>4. job \in [Reqs -> JobRecord]
  BY <1>3 DEF Init
<1>5. client \in [Clients -> ClientRecord]
  BY Nothing DEF Init, ClientRecord
<1>6. \A r \in Reqs : ~Live(r)
  BY DEF Init, Live, NoJob
<1> QED BY <1>1, <1>2, <1>4, <1>5, <1>6, <1>7, Types DEF Inv, Housed, OneWriter

-----------------------------------------------------------------------------
(* Processes.                                                              *)

\* A step that leaves the row, and gives no request a refresh, keeps the gate.
LEMMA SameGate ==
    ASSUME Inv, row'.status = row.status, row'.startedAt = row.startedAt,
           \A r \in Reqs : Live(r)' => Live(r) /\ job'[r].run = job[r].run
                                               /\ job'[r].pod = job[r].pod
    PROVE  Housed' /\ OneWriter'
BY DEF Inv, Housed, OneWriter

LEMMA StartPodInv ==
    ASSUME Inv, NEW p \in Pods, NEW config \in Configs, StartPod(p, config) PROVE Inv'
<1>1. pod' \in [Pods -> PodRecord]
  <2>1. pod \in [Pods -> PodRecord]
    BY Types DEF Inv
  <2>2. [pod[p] EXCEPT !.up = "up", !.config = config] \in PodRecord
    BY <2>1 DEF PodRecord
  <2>3. pod' = [pod EXCEPT ![p] = [pod[p] EXCEPT !.up = "up", !.config = config]]
    BY <2>1 DEF StartPod
  <2> QED BY <2>1, <2>2, <2>3
<1>2. UNCHANGED <<row, table, faults, job, client>>
  BY DEF StartPod, pgVars
<1>3. TypeOK'
  BY <1>1, <1>2, Types DEF Inv, TypeOK, PodRecord
<1>4. Housed' /\ OneWriter'
  BY <1>2, SameGate DEF Live
<1> QED BY <1>3, <1>4 DEF Inv

LEMMA StopPodInv == ASSUME Inv, NEW p \in Pods, StopPod(p) PROVE Inv'
<1>1. pod' \in [Pods -> PodRecord]
  BY Types DEF Inv, StopPod, PodRecord
<1>2. \A r \in Reqs : [job[r] EXCEPT !.pc = "killed", !.fetched = NoTeams] \in JobRecord
  BY Types, Nothing DEF Inv, JobRecord
<1>3. job' \in [Reqs -> JobRecord]
  BY <1>2, Types DEF Inv, StopPod
<1>4. \A c \in Clients : [client[c] EXCEPT !.pc = "lost"] \in ClientRecord
  BY Types DEF Inv, ClientRecord
<1>5. client' \in [Clients -> ClientRecord]
  BY <1>4, Types DEF Inv, StopPod
<1>6. UNCHANGED <<row, table, faults>>
  BY DEF StopPod, pgVars
<1>7. TypeOK'
  BY <1>1, <1>3, <1>5, <1>6 DEF Inv, TypeOK, PodRecord, JobRecord, ClientRecord
<1>8. ASSUME NEW r \in Reqs, Live(r)' PROVE job'[r] = job[r]
  <2>1. [job[r] EXCEPT !.pc = "killed", !.fetched = NoTeams].pc = "killed"
    BY Types DEF Inv, JobRecord
  <2> QED BY <1>8, <2>1 DEF StopPod, Live
<1>9. Housed' /\ OneWriter'
  BY <1>6, <1>8, SameGate DEF Live
<1> QED BY <1>7, <1>9 DEF Inv

-----------------------------------------------------------------------------
(* Requests.                                                               *)

\* The row was not running, so no refresh was: the new one is the only one.
LEMMA AcceptInv ==
    ASSUME Inv, NEW r \in Reqs, NEW p \in Pods, NEW query \in Queries,
           AcceptRequest(r, p, query)
    PROVE  Inv'
<1> DEFINE mode == IF query.mode # "" THEN query.mode ELSE pod[p].mode
           accepted == [NoJob EXCEPT !.pc = "fetching", !.pod = p, !.query = query,
                                     !.run = row.startedAt + 1]
<1>1. query \in Query /\ query.mode \in Modes /\ query.scope \in RefreshScope
  BY QueriesAssumption DEF Query
<1>2. /\ row' \in Row /\ row'.status = "running" /\ row'.startedAt = row.startedAt + 1
      /\ row.startedAt + 1 \in Nat
  BY Types, StartRow DEF Inv, AcceptRequest, Row
<1>3. pod' \in [Pods -> PodRecord]
  <2>1. pod \in [Pods -> PodRecord]
    BY Types DEF Inv
  <2>2. mode \in Modes
    BY <1>1, <2>1 DEF PodRecord
  <2>3. pod' = [pod EXCEPT ![p] = [pod[p] EXCEPT !.mode = mode, !.scope = query.scope]]
    BY <2>1 DEF AcceptRequest
  <2> HIDE DEF mode
  <2>4. [pod[p] EXCEPT !.mode = mode, !.scope = query.scope] \in PodRecord
    BY <1>1, <2>1, <2>2 DEF PodRecord
  <2> QED BY <2>1, <2>3, <2>4
<1>4. /\ accepted \in JobRecord /\ accepted.pc = "fetching"
      /\ accepted.pod = p /\ accepted.run = row.startedAt + 1
  BY <1>1, <1>2, Nothing DEF NoJob, JobRecord
<1>5. job' = [job EXCEPT ![r] = accepted]
  BY DEF AcceptRequest
<1> HIDE DEF accepted
<1>6. job' \in [Reqs -> JobRecord]
  BY <1>4, <1>5, Types DEF Inv
<1>7. UNCHANGED <<table, faults, client>>
  BY DEF AcceptRequest, NoFault
<1>8. TypeOK'
  BY <1>2, <1>3, <1>6, <1>7 DEF Inv, TypeOK, PodRecord, JobRecord, ClientRecord
<1>9. job'[r] = accepted /\ \A q \in Reqs : q # r => job'[q] = job[q]
  BY <1>5, Types DEF Inv
<1>10. \A q \in Reqs : ~Live(q)
  BY DEF AcceptRequest, Inv, OneWriter
<1>11. \A q \in Reqs : Live(q)' => q = r
  BY <1>9, <1>10 DEF Live
<1>12. Housed' /\ OneWriter'
  BY <1>2, <1>4, <1>9, <1>11 DEF Housed, OneWriter
<1> QED BY <1>8, <1>12 DEF Inv

\* A refused request leaves the row; or it set it, but then no refresh ran.
LEMMA RefuseInv ==
    ASSUME Inv, NEW r \in Reqs, NEW p \in Pods, RefuseRequest(r, p) PROVE Inv'
<1>1. [job[r] EXCEPT !.pc = "conflict", !.pod = p] \in JobRecord
  BY Types DEF Inv, JobRecord
<1>2. job' = [job EXCEPT ![r] = [job[r] EXCEPT !.pc = "conflict", !.pod = p]]
  BY Types DEF Inv, RefuseRequest, Refuse
<1>3. job' \in [Reqs -> JobRecord]
  BY <1>1, <1>2, Types DEF Inv
<1>4. job'[r].pc = "conflict" /\ \A q \in Reqs : q # r => job'[q] = job[q]
  BY <1>2, Types DEF Inv, JobRecord
<1>5. \/ row' = row
      \/ row.status # "running" /\ PGStartRefresh
  BY DEF RefuseRequest
<1>6. row' \in Row
  BY <1>5, StartRow, Types DEF Inv
<1>7. faults' \in 0..MaxFaults
  BY FaultsType, Types DEF Inv, RefuseRequest
<1>8. UNCHANGED <<table, pod, client>>
  BY DEF RefuseRequest
<1>9. TypeOK'
  BY <1>3, <1>6, <1>7, <1>8 DEF Inv, TypeOK, PodRecord, JobRecord, ClientRecord
<1>10. \A q \in Reqs : Live(q)' => Live(q) /\ job'[q] = job[q]
  BY <1>4 DEF Live
<1>11. CASE row' = row
  BY <1>10, <1>11, SameGate, <1>9 DEF Inv
<1>12. CASE row.status # "running"
  <2>1. \A q \in Reqs : ~Live(q)'
    BY <1>10, <1>12 DEF Inv, OneWriter
  <2> QED BY <2>1, <1>9 DEF Inv, Housed, OneWriter
<1> QED BY <1>5, <1>11, <1>12

-----------------------------------------------------------------------------
(* The refresh.                                                            *)

\* A refresh that goes on keeps its run and its process.
LEMMA GoesOnInv ==
    ASSUME Inv, NEW r \in Reqs, Live(r), NEW frame \in JobRecord,
           frame.run = job[r].run, frame.pod = job[r].pod,
           job' = [job EXCEPT ![r] = frame],
           row' \in Row, table' \in TeamMap, faults' \in 0..MaxFaults,
           row'.status = row.status, row'.startedAt = row.startedAt,
           UNCHANGED <<pod, client>>
    PROVE  Inv'
<1>1. TypeOK'
  BY Types DEF Inv, TypeOK, PodRecord, JobRecord, ClientRecord
<1>2. job'[r] = frame /\ \A q \in Reqs : q # r => job'[q] = job[q]
  BY Types DEF Inv
<1>3. \A q \in Reqs : Live(q)' => Live(q) /\ job'[q].run = job[q].run
                                           /\ job'[q].pod = job[q].pod
  BY <1>2 DEF Live
<1> QED BY <1>1, <1>3, SameGate DEF Inv

\* A refresh that returns was the only one, whatever it leaves in the row.
LEMMA ReturnInv ==
    ASSUME Inv, NEW r \in Reqs, Live(r), NEW outcome \in {"completed", "failed"},
           Return(r, outcome), row' \in Row, faults' \in 0..MaxFaults,
           UNCHANGED <<table, pod, client>>
    PROVE  Inv'
<1>1. [job[r] EXCEPT !.pc = outcome, !.fetched = NoTeams] \in JobRecord
  BY Types, Nothing DEF Inv, JobRecord
<1>2. job' = [job EXCEPT ![r] = [job[r] EXCEPT !.pc = outcome, !.fetched = NoTeams]]
  BY Types DEF Inv, Return, JobRecord
<1>3. job' \in [Reqs -> JobRecord]
  BY <1>1, <1>2, Types DEF Inv
<1>4. TypeOK'
  BY <1>3, Types DEF Inv, TypeOK, PodRecord, JobRecord, ClientRecord
<1>5. job'[r].pc = outcome /\ \A q \in Reqs : q # r => job'[q] = job[q]
  BY <1>2, Types DEF Inv, JobRecord
<1>6. \A q \in Reqs : q # r => ~Live(q)
  BY DEF Inv, OneWriter
<1>7. \A q \in Reqs : ~Live(q)'
  BY <1>5, <1>6 DEF Live
<1> QED BY <1>4, <1>7 DEF Inv, Housed, OneWriter

\* What a fetch returns are periods.
LEMMA FetchedPeriodsType ==
    ASSUME Inv, NEW r \in Reqs, Live(r)
    PROVE  Scope(r) \in RefreshScope /\ Fetched(r) \subseteq ScoringPeriod
<1>1. job[r].pod \in Pods /\ job[r].run \in Nat
  BY Types DEF Inv, Housed, JobRecord
<1>2. Scope(r) \in RefreshScope
  BY <1>1, Types DEF Inv, Scope, PodRecord
<1>3. RefreshCadences(Scope(r), 0) \in SUBSET Cadence
  BY <1>2, CadencesType
<1> QED BY <1>1, <1>2, <1>3, FetchedType DEF Fetched

LEMMA FetchTeamInv ==
    ASSUME Inv, NEW r \in Reqs, NEW t \in Teams, FetchTeam(r, t) PROVE Inv'
<1>1. Live(r) /\ job[r] \in JobRecord /\ job \in [Reqs -> JobRecord]
  BY Types DEF FetchTeam, Live, Inv
<1>2. PICK periods \in SUBSET ScoringPeriod :
          job' = [job EXCEPT ![r].fetched[t] = [periods |-> periods]]
  <2> DEFINE kept == IF Scope(r) # Unscoped /\ table[t] # Absent
                     THEN PreservedPeriods(table[t].periods, RefreshedTypes(Scope(r)))
                     ELSE {}
  <2>1. Fetched(r) \subseteq ScoringPeriod
    BY <1>1, FetchedPeriodsType
  <2>2. kept \subseteq ScoringPeriod
    <3>1. table[t] # Absent => table[t].periods \subseteq ScoringPeriod
      BY Types DEF Inv, TeamMap, TeamData
    <3> QED BY <3>1 DEF PreservedPeriods
  <2>3. \/ job' = [job EXCEPT ![r].fetched[t] = [periods |-> Fetched(r) \cup kept]]
        \/ job' = [job EXCEPT ![r].fetched[t] = [periods |-> Fetched(r)]]
    BY DEF FetchTeam
  <2> HIDE DEF kept
  <2> QED BY <2>1, <2>2, <2>3
<1> DEFINE fetched == [job[r].fetched EXCEPT ![t] = [periods |-> periods]]
           frame == [job[r] EXCEPT !.fetched = fetched]
<1>3. fetched \in TeamMap
  BY <1>1 DEF JobRecord, TeamMap, TeamData
<1>4. job' = [job EXCEPT ![r] = frame]
  BY <1>1, <1>2 DEF JobRecord
<1> HIDE DEF fetched
<1>5. frame \in JobRecord /\ frame.run = job[r].run /\ frame.pod = job[r].pod
  BY <1>1, <1>3 DEF JobRecord
<1> HIDE DEF frame
<1>6. faults' \in 0..MaxFaults
  BY FaultsType, Types DEF Inv, FetchTeam
<1>7. UNCHANGED <<row, table, pod, client>>
  BY DEF FetchTeam
<1> QED BY <1>1, <1>4, <1>5, <1>6, <1>7, GoesOnInv, Types DEF Inv

LEMMA FailTeamFetchInv == ASSUME Inv, NEW r \in Reqs, FailTeamFetch(r) PROVE Inv'
<1>1. row' \in Row
  BY FailRow, Types DEF Inv, FailTeamFetch
<1>2. faults' \in 0..MaxFaults
  BY FaultsType, Types DEF Inv, FailTeamFetch
<1> QED BY <1>1, <1>2, ReturnInv DEF FailTeamFetch, Live

LEMMA ApplyDataInv == ASSUME Inv, NEW r \in Reqs, ApplyData(r) PROVE Inv'
<1>1. Live(r) /\ job[r] \in JobRecord /\ job \in [Reqs -> JobRecord]
  BY Types DEF ApplyData, Live, Inv
<1>2. job[r].fetched \in TeamMap
  BY <1>1 DEF JobRecord
<1>3. /\ row' \in Row /\ table' \in TeamMap
      /\ row'.status = row.status /\ row'.startedAt = row.startedAt
  BY <1>2, StoredRow, Types DEF Inv, ApplyData
<1> DEFINE frame == [job[r] EXCEPT !.pc = "applied"]
<1>4. frame \in JobRecord /\ frame.run = job[r].run /\ frame.pod = job[r].pod
  BY <1>1 DEF JobRecord
<1>5. job' = [job EXCEPT ![r] = frame]
  BY <1>1 DEF ApplyData, JobRecord
<1> HIDE DEF frame
<1>6. faults' \in 0..MaxFaults
  BY FaultsType, Types DEF Inv, ApplyData
<1> QED BY <1>1, <1>3, <1>4, <1>5, <1>6, GoesOnInv DEF ApplyData

LEMMA FinishRefreshInv == ASSUME Inv, NEW r \in Reqs, FinishRefresh(r) PROVE Inv'
<1>1. job[r].fetched \in TeamMap
  BY Types DEF Inv, JobRecord
<1>2. row' \in Row
  BY <1>1, CompleteRow, Types DEF Inv, FinishRefresh
<1>3. faults' \in 0..MaxFaults
  BY FaultsType, Types DEF Inv, FinishRefresh
<1> QED BY <1>2, <1>3, ReturnInv DEF FinishRefresh, Live

-----------------------------------------------------------------------------
(* The scorecard reads.                                                    *)

\* What only concerns a client leaves the gate.
LEMMA ClientInv ==
    ASSUME Inv, NEW c \in Clients, ClientStep(c) PROVE Inv'
<1>1. UNCHANGED <<row, table, pod, job>>
  BY DEF ClientStep, CheckHasData, SelectTeams, SelectPeriods
<1>2. faults' \in 0..MaxFaults
  BY FaultsType, Types DEF Inv, ClientStep, CheckHasData, SelectTeams, SelectPeriods
<1>3. client \in [Clients -> ClientRecord] /\ table \in TeamMap
  BY Types DEF Inv
<1>4. client' \in [Clients -> ClientRecord]
  <2>1. ASSUME NEW p \in Pods, CheckHasData(c, p) PROVE client' \in [Clients -> ClientRecord]
    <3>1. PICK pc \in {"checked", "unavailable"} :
              client' = [client EXCEPT ![c] = [client[c] EXCEPT !.pod = p, !.pc = pc]]
      BY <1>3, <2>1 DEF CheckHasData, ClientRecord
    <3> QED BY <1>3, <3>1 DEF ClientRecord
  <2>2. CASE SelectTeams(c)
    BY <1>3, <2>2 DEF SelectTeams, ClientRecord, Present
  <2>3. CASE SelectPeriods(c)
    <3> DEFINE view == [t \in Teams |-> IF t \in client[c].rows /\ table[t] # Absent
                                        THEN table[t] ELSE Absent]
    <3>1. view \in TeamMap
      BY <1>3 DEF TeamMap
    <3>2. \/ client' = [client EXCEPT ![c] = [client[c] EXCEPT !.pc = "served", !.rows = {},
                                                              !.view = view]]
          \/ client' = [client EXCEPT ![c] = [client[c] EXCEPT !.pc = "served"]]
      BY <1>3, <2>3 DEF SelectPeriods, ClientRecord
    <3> HIDE DEF view
    <3> QED BY <1>3, <3>1, <3>2 DEF ClientRecord
  <2> QED BY <2>1, <2>2, <2>3 DEF ClientStep
<1>5. TypeOK'
  BY <1>1, <1>2, <1>4 DEF Inv, TypeOK, PodRecord, JobRecord, ClientRecord
<1>6. Housed' /\ OneWriter'
  BY <1>1, SameGate DEF Live
<1> QED BY <1>5, <1>6 DEF Inv

-----------------------------------------------------------------------------
LEMMA NextInv == Inv /\ [Next]_vars => Inv'
<1> SUFFICES ASSUME Inv, [Next]_vars PROVE Inv'
  OBVIOUS
<1>1. ASSUME NEW p \in Pods, PodStep(p) PROVE Inv'
  BY <1>1, StartPodInv, StopPodInv DEF PodStep
<1>2. ASSUME NEW r \in Reqs, RequestStep(r) PROVE Inv'
  BY <1>2, AcceptInv, RefuseInv DEF RequestStep
<1>3. ASSUME NEW r \in Reqs, RefreshStep(r) PROVE Inv'
  BY <1>3, FetchTeamInv, FailTeamFetchInv, ApplyDataInv, FinishRefreshInv DEF RefreshStep
<1>4. ASSUME NEW c \in Clients, ClientStep(c) PROVE Inv'
  BY <1>4, ClientInv
<1>5. CASE UNCHANGED vars
  BY <1>5 DEF vars, pgVars, Inv, TypeOK, Housed, OneWriter, Live
<1> QED BY <1>1, <1>2, <1>3, <1>4, <1>5 DEF Next

LEMMA Invariance == Spec => []Inv
BY InitInv, NextInv, PTL DEF Spec

\* The row, the tables and every process's frames always hold values of their
\* types, whatever statements fail and whatever processes stop.
THEOREM TypeCorrect == Spec => []TypeOK
BY Invariance, PTL DEF Inv

\* At most one refresh runs on the database, and the row is its own, for any
\* number of processes that start, stop at any point and share nothing but the
\* database, and for any statements that fail, before or after their effect.
THEOREM OneWriterAlways == Spec => []OneWriter
BY Invariance, PTL DEF Inv

-----------------------------------------------------------------------------
(* The data when no database statement fails, whenever the processes stop. *)
(* With one statement that fails these properties are lost, since the      *)
(* store ignores its errors.                                               *)

Covered(r) == RefreshedTypes(job[r].query.scope)

RunsOf(data, t, s) == {p.run : p \in PeriodsOf(data, t, s)}

Unsent(r) == job[r].pc \in {"none", "conflict"}

\* A refresh that was accepted has a number of its own, none greater than the
\* row's, and a process that was started.
Numbers ==
    /\ \A r \in Reqs : job[r].run <= row.startedAt
    /\ \A r \in Reqs : IF Unsent(r) THEN job[r].run = 0
                       ELSE /\ job[r].run > 0
                            /\ job[r].pod \in Pods
                            /\ pod[job[r].pod].up # "new"
    /\ \A r, q \in Reqs : job[r].run = job[q].run /\ job[r].run > 0 => r = q

\* A team's new data: of the set types the refresh covers, its own periods; of
\* the others, those that are stored.
Covers(r, data, t) ==
    /\ Unique(data[t].periods)
    /\ \A s \in Covered(r) : RunsOf(data, t, s) = {job[r].run}
    /\ \A s \in SetTypes \ Covered(r) : PeriodsOf(data, t, s) = PeriodsOf(table, t, s)

\* A refresh that runs finds the scope of its own request in its process, and
\* has fetched configured teams.
Frame(r) ==
    /\ Live(r) => Scope(r) = job[r].query.scope
    /\ job[r].pc = "fetching" =>
         /\ Present(job[r].fetched) \subseteq ConfigOf(r)
         /\ \A t \in Present(job[r].fetched) : Covers(r, job[r].fetched, t)

Reached(r) ==
    \A t \in ConfigOf(r), s \in Covered(r) : RunsOf(table, t, s) = {job[r].run}

\* What the last refresh has applied is there.
Stored ==
    /\ \A t \in Present(table) : Unique(table[t].periods)
    /\ \A r \in Reqs : job[r].pc \in {"applied", "completed"} /\ job[r].run = row.startedAt
                         => Reached(r)

DataInv ==
    /\ faults = 0
    /\ Numbers
    /\ \A r \in Reqs : Frame(r)
    /\ Stored

LEMMA Values ==
    ASSUME Inv
    PROVE  /\ row.startedAt \in Nat /\ table \in TeamMap
           /\ \A r \in Reqs : job[r] \in JobRecord /\ job[r].run \in Nat
                              /\ job[r].fetched \in TeamMap
                              /\ job[r].query.scope \in RefreshScope
           /\ \A p \in Pods : pod[p] \in PodRecord
           /\ job \in [Reqs -> JobRecord] /\ pod \in [Pods -> PodRecord]
BY Types DEF Inv, JobRecord, Row, Query

LEMMA InitData == ASSUME MaxFaults = 0, Init PROVE DataInv
<1>1. \A r \in Reqs : job[r].pc = "none" /\ job[r].run = 0
  BY DEF Init, NoJob
<1>2. row.startedAt = 0
  BY DEF Init, NewRow
<1>3. Numbers
  <2>1. ASSUME NEW r \in Reqs PROVE job[r].run <= row.startedAt /\ ~(job[r].run > 0)
    <3>1. job[r].run = 0 /\ row.startedAt = 0
      BY <1>1, <1>2
    <3> QED BY <3>1
  <2> QED BY <1>1, <2>1 DEF Numbers, Unsent
<1>4. Stored
  <2>1. Present(table) = {}
    BY DEF Init, Present, NoTeams
  <2> QED BY <1>1, <2>1 DEF Stored
<1>5. \A r \in Reqs : Frame(r)
  BY <1>1 DEF Frame, Live
<1>6. faults = 0
  BY DEF Init
<1> QED BY <1>3, <1>4, <1>5, <1>6 DEF DataInv

-----------------------------------------------------------------------------
(* Steps that leave the tables.                                            *)

LEMMA NumbersStay ==
    ASSUME Numbers, row'.startedAt = row.startedAt,
           \A x \in Reqs : job'[x].run = job[x].run,
           \A x \in Reqs : Unsent(x)' <=> Unsent(x),
           \A x \in Reqs : ~Unsent(x) => job'[x].pod = job[x].pod,
           \A p \in Pods : pod[p].up # "new" => pod'[p].up # "new"
    PROVE  Numbers'
BY DEF Numbers

LEMMA StoredStays ==
    ASSUME Stored, table' = table, row'.startedAt = row.startedAt,
           \A x \in Reqs : job'[x].pc \in {"applied", "completed"} =>
                /\ job[x].pc \in {"applied", "completed"}
                /\ job'[x].run = job[x].run
                /\ job'[x].query = job[x].query
                /\ ConfigOf(x)' = ConfigOf(x)
    PROVE  Stored'
<1>1. ASSUME NEW x \in Reqs, job'[x].pc \in {"applied", "completed"},
             job'[x].run = row'.startedAt
      PROVE  Reached(x)'
  <2>1. Covered(x)' = Covered(x) /\ job'[x].run = job[x].run /\ ConfigOf(x)' = ConfigOf(x)
    BY <1>1 DEF Covered
  <2>2. Reached(x)
    BY <1>1 DEF Stored
  <2> QED BY <2>1, <2>2 DEF Reached
<1> QED BY <1>1 DEF Stored

LEMMA SameFrame ==
    ASSUME NEW x \in Reqs, Frame(x), table' = table,
           Live(x)' => /\ job'[x] = job[x]
                       /\ Scope(x)' = Scope(x) /\ ConfigOf(x)' = ConfigOf(x)
    PROVE  Frame(x)'
<1>1. CASE ~Live(x)'
  BY <1>1 DEF Frame, Live
<1>2. CASE Live(x)'
  <2>1. /\ job'[x] = job[x] /\ Live(x) /\ Covered(x)' = Covered(x)
        /\ Scope(x)' = Scope(x) /\ ConfigOf(x)' = ConfigOf(x)
    BY <1>2 DEF Live, Covered
  <2>2. \A data, t : Covers(x, data, t) =>
            /\ Unique(data[t].periods)
            /\ \A s \in Covered(x)' : RunsOf(data, t, s) = {job'[x].run}
            /\ \A s \in SetTypes \ Covered(x)' : PeriodsOf(data, t, s) = PeriodsOf(table', t, s)
    BY <2>1 DEF Covers
  <2> QED BY <2>1, <2>2 DEF Frame, Covers
<1> QED BY <1>1, <1>2

\* A step that leaves the row's number, the tables, and the processes of the
\* refreshes that were accepted.
LEMMA DataStays ==
    ASSUME Inv, DataInv, faults' = faults, table' = table, row'.startedAt = row.startedAt,
           \A x \in Reqs : job'[x].run = job[x].run,
           \A x \in Reqs : Unsent(x)' <=> Unsent(x),
           \A x \in Reqs : ~Unsent(x) => job'[x].pod = job[x].pod
                                         /\ job'[x].query = job[x].query,
           \A x \in Reqs : job'[x].pc \in {"applied", "completed"} =>
                               job[x].pc \in {"applied", "completed"},
           \A x \in Reqs : Live(x)' => job'[x] = job[x],
           \A p \in Pods : pod[p].up # "new" =>
                               /\ pod'[p].up # "new"
                               /\ pod'[p].config = pod[p].config
                               /\ pod'[p].scope = pod[p].scope
    PROVE  DataInv'
<1>1. Numbers'
  BY NumbersStay DEF DataInv
<1>2. ASSUME NEW x \in Reqs, ~Unsent(x)
      PROVE  Scope(x)' = Scope(x) /\ ConfigOf(x)' = ConfigOf(x)
  BY <1>2 DEF DataInv, Numbers, Scope, ConfigOf
<1>3. \A x \in Reqs : Frame(x)'
  <2> TAKE x \in Reqs
  <2>1. Live(x)' => ~Unsent(x)
    BY DEF Live, Unsent
  <2> QED BY <1>2, <2>1, SameFrame DEF DataInv
<1>4. Stored'
  <2>1. \A x \in Reqs : job'[x].pc \in {"applied", "completed"} => ~Unsent(x)
    BY DEF Unsent
  <2> QED BY <1>2, <2>1, StoredStays DEF DataInv
<1> QED BY <1>1, <1>3, <1>4 DEF DataInv

-----------------------------------------------------------------------------
(* Processes, requests and clients.                                        *)

LEMMA StartPodData ==
    ASSUME Inv, DataInv, NEW p \in Pods, NEW config \in Configs, StartPod(p, config)
    PROVE  DataInv'
<1>1. UNCHANGED <<row, table, faults, job>> /\ pod[p].up = "new"
  BY DEF StartPod, pgVars
<1>2. \A q \in Pods : q # p => pod'[q] = pod[q]
  BY Values DEF StartPod
<1>3. \A q \in Pods : pod[q].up # "new" => pod'[q] = pod[q]
  BY <1>1, <1>2
<1> QED BY <1>1, <1>3, DataStays DEF Unsent

LEMMA StopPodData ==
    ASSUME Inv, DataInv, NEW p \in Pods, StopPod(p) PROVE DataInv'
<1>1. UNCHANGED <<row, table, faults>>
  BY DEF StopPod, pgVars
<1>2. \A q \in Pods : /\ pod[q].up # "new" => pod'[q].up # "new"
                      /\ pod'[q].config = pod[q].config /\ pod'[q].scope = pod[q].scope
  BY Values DEF StopPod, PodRecord
<1>3. ASSUME NEW x \in Reqs
      PROVE  \/ job'[x] = job[x]
             \/ Live(x) /\ job'[x] = [job[x] EXCEPT !.pc = "killed", !.fetched = NoTeams]
  BY DEF StopPod
<1>4. ASSUME NEW x \in Reqs
      PROVE  \/ job'[x] = job[x]
             \/ /\ Live(x) /\ job'[x].pc = "killed"
                /\ job'[x].run = job[x].run /\ job'[x].pod = job[x].pod
                /\ job'[x].query = job[x].query
  BY <1>3, Values DEF JobRecord
<1> QED BY <1>1, <1>2, <1>4, DataStays DEF Live, Unsent

\* The new refresh is the only one, and the scope is its own.
LEMMA AcceptData ==
    ASSUME Inv, DataInv, NEW r \in Reqs, NEW p \in Pods, NEW query \in Queries,
           AcceptRequest(r, p, query)
    PROVE  DataInv'
<1> DEFINE accepted == [NoJob EXCEPT !.pc = "fetching", !.pod = p, !.query = query,
                                     !.run = row.startedAt + 1]
<1>1. /\ accepted.pc = "fetching" /\ accepted.pod = p /\ accepted.query = query
      /\ accepted.run = row.startedAt + 1 /\ accepted.fetched = NoTeams
  BY DEF NoJob
<1>2. job' = [job EXCEPT ![r] = accepted]
  BY DEF AcceptRequest
<1> HIDE DEF accepted
<1>3. job'[r] = accepted /\ \A x \in Reqs : x # r => job'[x] = job[x]
  BY <1>2, Values
<1>4. row'.startedAt = row.startedAt + 1 /\ row.startedAt \in Nat
  BY Types, StartRow, Values DEF Inv, AcceptRequest
<1>5. /\ \A q \in Pods : pod'[q].up = pod[q].up /\ pod'[q].config = pod[q].config
      /\ pod'[p].scope = query.scope
  BY Values DEF AcceptRequest, PodRecord
<1>6. /\ table' = table /\ faults' = faults
      /\ Unsent(r) /\ pod[p].up # "new" /\ \A x \in Reqs : ~Live(x)
  BY DEF AcceptRequest, NoFault, Unsent, Up, Inv, OneWriter
<1>7. \A x \in Reqs : job[x].run \in Nat /\ job[x].run <= row.startedAt
  BY Values DEF DataInv, Numbers
<1>8. Numbers'
  <2>1. \A x \in Reqs : job'[x].run <= row'.startedAt
    BY <1>1, <1>3, <1>4, <1>7
  <2>2. ASSUME NEW x \in Reqs
        PROVE  IF Unsent(x)' THEN job'[x].run = 0
               ELSE job'[x].run > 0 /\ job'[x].pod \in Pods /\ pod'[job'[x].pod].up # "new"
    <3>1. CASE x = r
      BY <1>1, <1>3, <1>4, <1>5, <1>6, <3>1 DEF Unsent
    <3>2. CASE x # r
      BY <1>3, <1>5, <3>2 DEF Unsent, DataInv, Numbers
    <3> QED BY <3>1, <3>2
  <2>3. ASSUME NEW x \in Reqs, NEW y \in Reqs, job'[x].run = job'[y].run, job'[x].run > 0
        PROVE  x = y
    <3>1. CASE x # r /\ y # r
      BY <1>3, <2>3, <3>1 DEF DataInv, Numbers
    <3>2. CASE (x = r /\ y # r) \/ (x # r /\ y = r)
      BY <1>1, <1>3, <1>4, <1>7, <2>3, <3>2
    <3> QED BY <3>1, <3>2
  <2> QED BY <2>1, <2>2, <2>3 DEF Numbers
<1>9. ASSUME NEW x \in Reqs PROVE Frame(x)'
  <2>1. CASE x = r
    <3>1. Scope(r)' = job'[r].query.scope /\ Present(job'[r].fetched) = {}
      BY <1>1, <1>3, <1>5 DEF Scope, Present, NoTeams
    <3> QED BY <2>1, <3>1 DEF Frame
  <2>2. CASE x # r
    <3>1. ~Live(x)'
      BY <1>3, <1>6, <2>2 DEF Live
    <3> QED BY <3>1 DEF Frame, Live
  <2> QED BY <2>1, <2>2
<1>10. Stored'
  <2>1. \A x \in Reqs : ~(job'[x].pc \in {"applied", "completed"}
                          /\ job'[x].run = row'.startedAt)
    BY <1>1, <1>3, <1>4, <1>7
  <2> QED BY <1>6, <2>1 DEF Stored, DataInv
<1> QED BY <1>6, <1>8, <1>9, <1>10 DEF DataInv

LEMMA RefuseData ==
    ASSUME Inv, DataInv, NEW r \in Reqs, NEW p \in Pods, RefuseRequest(r, p)
    PROVE  DataInv'
<1>1. job[r].pc = "none" /\ UNCHANGED <<row, table, faults, pod>>
  BY DEF RefuseRequest, Fault, NoFault, DataInv
<1>2. /\ job'[r].pc = "conflict" /\ job'[r].run = job[r].run
      /\ \A x \in Reqs : x # r => job'[x] = job[x]
  BY Values DEF RefuseRequest, Refuse, JobRecord
<1>3. \A x \in Reqs : Live(x)' => job'[x] = job[x]
  BY <1>2 DEF Live
<1>4. \A x \in Reqs : job'[x].run = job[x].run /\ (Unsent(x)' <=> Unsent(x))
  BY <1>1, <1>2 DEF Unsent
<1>5. \A x \in Reqs : ~Unsent(x) => job'[x] = job[x]
  BY <1>1, <1>2 DEF Unsent
<1>6. \A x \in Reqs : job'[x].pc \in {"applied", "completed"} =>
                          job[x].pc \in {"applied", "completed"}
  BY <1>2
<1> QED BY <1>1, <1>3, <1>4, <1>5, <1>6, DataStays

LEMMA ClientData ==
    ASSUME Inv, DataInv, NEW c \in Clients, ClientStep(c) PROVE DataInv'
<1>1. UNCHANGED <<row, table, pod, job>>
  BY DEF ClientStep, CheckHasData, SelectTeams, SelectPeriods
<1>2. faults' = faults
  <2>1. Fault \/ NoFault
    BY DEF ClientStep, CheckHasData, SelectTeams, SelectPeriods
  <2> QED BY <2>1 DEF Fault, NoFault, DataInv
<1> QED BY <1>1, <1>2, DataStays DEF Unsent, Live

-----------------------------------------------------------------------------
(* The refresh.                                                            *)

\* A refresh that returns leaves the data it has applied.
LEMMA ReturnData ==
    ASSUME Inv, DataInv, NEW r \in Reqs, Live(r), NEW outcome \in {"completed", "failed"},
           Return(r, outcome), outcome = "completed" => job[r].pc = "applied",
           row'.startedAt = row.startedAt, UNCHANGED <<table, faults, pod>>
    PROVE  DataInv'
<1>1. /\ job'[r].pc = outcome /\ job'[r].run = job[r].run /\ job'[r].pod = job[r].pod
      /\ job'[r].query = job[r].query
      /\ \A x \in Reqs : x # r => job'[x] = job[x]
  BY Values DEF Return, JobRecord
<1>2. \A x \in Reqs : Live(x)' => job'[x] = job[x]
  BY <1>1 DEF Live
<1>3. \A x \in Reqs : Unsent(x)' <=> Unsent(x)
  BY <1>1 DEF Unsent, Live
<1>4. \A x \in Reqs : job'[x].run = job[x].run /\ job'[x].pod = job[x].pod
                      /\ job'[x].query = job[x].query
  BY <1>1
<1>5. \A x \in Reqs : job'[x].pc \in {"applied", "completed"} =>
                          job[x].pc \in {"applied", "completed"}
  BY <1>1
<1> QED BY <1>2, <1>3, <1>4, <1>5, DataStays

LEMMA FailTeamFetchData ==
    ASSUME Inv, DataInv, NEW r \in Reqs, FailTeamFetch(r) PROVE DataInv'
<1>1. /\ Live(r) /\ Return(r, "failed") /\ PGFailRefresh
      /\ UNCHANGED <<table, faults, pod>>
  BY DEF FailTeamFetch, Live, Fault, NoFault, DataInv
<1>2. row'.startedAt = row.startedAt
  BY <1>1, Types DEF PGFailRefresh, Inv, Row
<1> QED BY <1>1, <1>2, ReturnData

LEMMA FinishRefreshData ==
    ASSUME Inv, DataInv, NEW r \in Reqs, FinishRefresh(r) PROVE DataInv'
<1>1. /\ Live(r) /\ Return(r, "completed") /\ job[r].pc = "applied"
      /\ PGCompleteRefresh(CountOf(job[r].fetched)) /\ UNCHANGED <<table, faults, pod>>
  BY DEF FinishRefresh, Live, Fault, NoFault, DataInv
<1>2. row'.startedAt = row.startedAt
  BY <1>1, Types DEF PGCompleteRefresh, Inv, Row
<1> QED BY <1>1, <1>2, ReturnData

\* The periods a fetch with its merge returns: its own of the refreshed set
\* types, the stored ones of the others.
LEMMA MergeCovers ==
    ASSUME Inv, DataInv, NEW r \in Reqs, Live(r), NEW t \in Teams,
           NEW data, data[t] # Absent,
           data[t].periods = Fetched(r) \cup
                (IF Scope(r) # Unscoped /\ table[t] # Absent
                 THEN PreservedPeriods(table[t].periods, RefreshedTypes(Scope(r)))
                 ELSE {})
    PROVE  Covers(r, data, t)
<1> DEFINE fetched == Fetched(r)
           periods == data[t].periods
           stored == table[t].periods
           cadences == RefreshCadences(Scope(r), 0)
<1>1. Scope(r) = job[r].query.scope /\ Scope(r) \in RefreshScope /\ job[r].run \in Nat
  BY Values DEF DataInv, Frame
<1>2. Covered(r) \in SUBSET SetTypes /\ RefreshedTypes(Scope(r)) = Covered(r)
  BY <1>1, TypesType DEF Covered
<1>3. cadences # {} /\ \A c, d \in cadences : c.window = d.window => c = d
  BY <1>1, CadencesDiffer
<1> HIDE DEF cadences
<1>4. fetched = FetchedPeriods(cadences, Covered(r), 0, job[r].run)
  BY <1>2 DEF Fetched, cadences
<1>5. /\ Unique(fetched)
      /\ \A p \in fetched : p.run = job[r].run /\ p.setType \in Covered(r)
      /\ \A s \in Covered(r) : \E p \in fetched : p.setType = s
  BY <1>2, <1>3, <1>4, FetchedUnique, FetchedRuns
<1> HIDE DEF fetched
<1>6. \A s : PeriodsOf(data, t, s) = {p \in periods : p.setType = s}
  BY DEF PeriodsOf
<1>7. /\ Unique(periods)
      /\ \A p \in fetched : p \in periods
      /\ \A p \in periods : p \in fetched \/ p.setType \notin Covered(r)
      /\ \A s \in SetTypes \ Covered(r) :
            {p \in periods : p.setType = s} = PeriodsOf(table, t, s)
  <2>1. CASE Scope(r) # Unscoped /\ table[t] # Absent
    <3>1. periods = fetched \cup PreservedPeriods(stored, Covered(r))
      BY <1>2, <2>1 DEF fetched
    <3>2. Unique(stored)
      BY <2>1 DEF DataInv, Stored, Present
    <3>3. Unique(periods)
      BY <1>5, <3>1, <3>2, MergedUnique
    <3>4. \A s : PeriodsOf(table, t, s) = {p \in stored : p.setType = s}
      BY <2>1 DEF PeriodsOf
    <3> QED BY <1>5, <3>1, <3>3, <3>4 DEF PreservedPeriods
  <2>2. CASE Scope(r) = Unscoped
    <3>1. periods = fetched
      BY <2>2 DEF fetched
    <3>2. Covered(r) = SetTypes
      <4>1. Unscoped.status = ""
        BY DEF Unscoped
      <4> QED BY <1>1, <2>2, <4>1 DEF Covered, RefreshedTypes
    <3> QED BY <1>5, <3>1, <3>2
  <2>3. CASE table[t] = Absent
    <3>1. periods = fetched
      BY <2>3 DEF fetched
    <3>2. \A s : PeriodsOf(table, t, s) = {}
      BY <2>3 DEF PeriodsOf
    <3> QED BY <1>5, <3>1, <3>2
  <2> QED BY <2>1, <2>2, <2>3
<1> HIDE DEF periods, stored
<1>8. ASSUME NEW s \in Covered(r) PROVE RunsOf(data, t, s) = {job[r].run}
  <2>1. \A p \in PeriodsOf(data, t, s) : p.run = job[r].run
    BY <1>5, <1>6, <1>7
  <2>2. PICK p \in fetched : p.setType = s
    BY <1>5
  <2>3. p \in PeriodsOf(data, t, s) /\ p.run = job[r].run
    BY <1>5, <1>6, <1>7, <2>2
  <2> QED BY <2>1, <2>3 DEF RunsOf
<1>9. Unique(data[t].periods) /\ \A s \in SetTypes \ Covered(r) :
                                    PeriodsOf(data, t, s) = PeriodsOf(table, t, s)
  BY <1>6, <1>7 DEF periods
<1> QED BY <1>8, <1>9 DEF Covers

\* What a team's data covers is a matter of that team's entry.
LEMMA CoversEntry ==
    ASSUME NEW r \in Reqs, NEW data, NEW other, NEW t \in Teams, data[t] = other[t],
           Covers(r, other, t)
    PROVE  Covers(r, data, t)
<1>1. \A s : PeriodsOf(data, t, s) = PeriodsOf(other, t, s)
  BY DEF PeriodsOf
<1>2. \A s : RunsOf(data, t, s) = RunsOf(other, t, s)
  BY <1>1 DEF RunsOf
<1> QED BY <1>1, <1>2 DEF Covers

LEMMA FetchTeamData ==
    ASSUME Inv, DataInv, NEW r \in Reqs, NEW t \in Teams, FetchTeam(r, t)
    PROVE  DataInv'
<1> DEFINE kept == IF Scope(r) # Unscoped /\ table[t] # Absent
                   THEN PreservedPeriods(table[t].periods, RefreshedTypes(Scope(r)))
                   ELSE {}
           team == [periods |-> Fetched(r) \cup kept]
           more == [job[r].fetched EXCEPT ![t] = team]
           next == [job[r] EXCEPT !.fetched = more]
<1>1. /\ job[r].pc = "fetching" /\ Live(r) /\ t \in ConfigOf(r) \ Present(job[r].fetched)
      /\ UNCHANGED <<row, table, faults, pod>>
  BY DEF FetchTeam, Fault, NoFault, DataInv, Live
<1>2. job' = [job EXCEPT ![r].fetched[t] = team]
  BY DEF FetchTeam, Fault, DataInv
<1>3. team # Absent /\ team.periods = Fetched(r) \cup kept
  <2>1. Fetched(r) \subseteq ScoringPeriod
    BY <1>1, FetchedPeriodsType
  <2>2. kept \subseteq ScoringPeriod
    <3>1. table[t] # Absent => table[t].periods \subseteq ScoringPeriod
      BY Types DEF Inv, TeamMap, TeamData
    <3> QED BY <3>1 DEF PreservedPeriods
  <2> HIDE DEF kept
  <2>3. team \in TeamData
    BY <2>1, <2>2 DEF TeamData
  <2> QED BY <2>3, AbsentAssumption
<1> HIDE DEF team
<1>4. more[t] = team /\ \A u \in Teams : u # t => more[u] = job[r].fetched[u]
  BY Values DEF TeamMap
<1>5. job' = [job EXCEPT ![r] = next]
  BY <1>2, Values DEF JobRecord
<1> HIDE DEF more
<1>6. /\ next.pc = "fetching" /\ next.run = job[r].run /\ next.pod = job[r].pod
      /\ next.query = job[r].query /\ next.fetched = more
  BY <1>1, Values DEF JobRecord
<1> HIDE DEF next
<1>7. job'[r] = next /\ \A x \in Reqs : x # r => job'[x] = job[x]
  BY <1>5, Values
<1>8. \A u \in Present(more) : Covers(r, more, u) /\ u \in ConfigOf(r)
  <2>1. Covers(r, more, t)
    BY <1>1, <1>3, <1>4, MergeCovers DEF kept
  <2>2. ASSUME NEW u \in Present(more), u # t PROVE Covers(r, more, u) /\ u \in ConfigOf(r)
    <3>1. u \in Teams /\ more[u] = job[r].fetched[u] /\ u \in Present(job[r].fetched)
      BY <1>4, <2>2 DEF Present
    <3>2. Covers(r, job[r].fetched, u) /\ u \in ConfigOf(r)
      BY <1>1, <3>1 DEF DataInv, Frame
    <3> QED BY <3>1, <3>2, CoversEntry
  <2> QED BY <1>1, <2>1, <2>2
<1>9. Frame(r)'
  <2> PICK m : m = more
    OBVIOUS
  <2>1. /\ Covered(r)' = Covered(r) /\ ConfigOf(r)' = ConfigOf(r) /\ Scope(r)' = Scope(r)
        /\ job'[r].run = job[r].run /\ job'[r].query = job[r].query
    BY <1>1, <1>6, <1>7 DEF Covered, ConfigOf, Scope
  <2>2. ASSUME NEW u \in Present(m) PROVE Covers(r, m, u)'
    <3>1. Covers(r, m, u) /\ table' = table
      BY <1>1, <1>8
    <3> QED BY <2>1, <3>1 DEF Covers
  <2>3. Present(m) \subseteq ConfigOf(r)
    BY <1>8
  <2>4. job'[r].fetched = m /\ job'[r].pc = "fetching"
    BY <1>6, <1>7
  <2>5. Scope(r) = job[r].query.scope
    BY <1>1 DEF DataInv, Frame
  <2> QED BY <2>1, <2>2, <2>3, <2>4, <2>5 DEF Frame
<1>10. \A x \in Reqs : x # r => Frame(x)'
  <2> TAKE x \in Reqs
  <2>1. x # r => job'[x] = job[x] /\ Scope(x)' = Scope(x) /\ ConfigOf(x)' = ConfigOf(x)
    BY <1>1, <1>7 DEF Scope, ConfigOf
  <2> QED BY <1>1, <2>1, SameFrame DEF DataInv
<1>11. Numbers'
  BY <1>1, <1>6, <1>7, NumbersStay DEF DataInv, Unsent
<1>12. Stored'
  <2>1. ASSUME NEW x \in Reqs, job'[x].pc \in {"applied", "completed"}
        PROVE  job'[x] = job[x] /\ ConfigOf(x)' = ConfigOf(x)
    BY <1>1, <1>6, <1>7, <2>1 DEF ConfigOf
  <2> QED BY <1>1, <2>1, StoredStays DEF DataInv
<1> QED BY <1>1, <1>9, <1>10, <1>11, <1>12 DEF DataInv

-----------------------------------------------------------------------------
(* The step that stores.                                                   *)

\* What is stored of the configured teams is the refresh's; the other teams
\* stay, or a refresh of everything has taken them out.
LEMMA ApplyEffect ==
    ASSUME Inv, DataInv, NEW r \in Reqs, ApplyData(r)
    PROVE  /\ job[r].pc = "fetching" /\ job'[r].pc = "applied"
           /\ job'[r].run = job[r].run /\ job'[r].pod = job[r].pod
           /\ job'[r].query = job[r].query
           /\ \A x \in Reqs : x # r => job'[x] = job[x] /\ ~Live(x)
           /\ row'.startedAt = row.startedAt /\ job[r].run = row.startedAt
           /\ UNCHANGED <<faults, pod>>
           /\ \A t \in ConfigOf(r) : Covers(r, table', t) /\ table'[t] # Absent
           /\ \A t \in Teams \ ConfigOf(r) :
                \/ table'[t] = table[t]
                \/ table'[t] = Absent /\ Covered(r) = SetTypes
<1> PICK m : m = job[r].fetched
  OBVIOUS
<1>1. /\ job[r].pc = "fetching" /\ job'[r].pc = "applied" /\ job'[r].run = job[r].run
      /\ job'[r].pod = job[r].pod /\ job'[r].query = job[r].query
      /\ \A x \in Reqs : x # r => job'[x] = job[x]
  BY Values DEF ApplyData, JobRecord
<1>2. Live(r) /\ \A x \in Reqs : x # r => ~Live(x)
  BY <1>1 DEF Live, Inv, OneWriter
<1>3. job[r].run = row.startedAt
  BY <1>2 DEF Inv, OneWriter
<1>4. m \in TeamMap /\ table \in TeamMap /\ Present(m) = ConfigOf(r)
  BY Values DEF ApplyData
<1>5. \A t \in Present(m) : Covers(r, m, t)
  BY <1>1 DEF DataInv, Frame
<1>6. UniqueIndex(m)
  BY <1>5 DEF UniqueIndex, Covers, Unique
<1>7. UniqueIndex(Upserted(table, m))
  <2> DEFINE all == Upserted(table, m)
  <2>1. ASSUME NEW t \in Present(all) PROVE Unique(all[t].periods)
    <3>1. t \in Teams /\ all[t] # Absent
      BY DEF Present
    <3>2. CASE m[t] # Absent
      BY <1>5, <3>1, <3>2 DEF Upserted, Covers, Present
    <3>3. CASE m[t] = Absent
      BY <3>1, <3>3 DEF Upserted, Present, DataInv, Stored
    <3> QED BY <3>2, <3>3
  <2> HIDE DEF all
  <2>2. UniqueIndex(all)
    BY <2>1 DEF UniqueIndex, Unique
  <2> QED BY <2>2 DEF all
<1>8. /\ UNCHANGED <<faults, pod>>
      /\ \/ ForcesUpsert(r) /\ PGUpsertTeamData(m)
         \/ ~ForcesUpsert(r) /\ PGSwapData(m, CountOf(m))
  BY DEF ApplyData, Fault, NoFault, DataInv
<1>9. row'.startedAt = row.startedAt
  BY <1>4, <1>8, StoredRow, Types DEF Inv
<1>10. \/ table' = Upserted(table, m)
       \/ ~ForcesUpsert(r) /\ table' = m
  BY <1>6, <1>7, <1>8 DEF PGUpsertTeamData, StoreUpserted, PGSwapData
<1>11. ASSUME NEW t \in ConfigOf(r) PROVE Covers(r, table', t) /\ table'[t] # Absent
  <2>1. t \in Teams /\ m[t] # Absent
    BY <1>4 DEF Present
  <2>2. table'[t] = m[t]
    BY <1>10, <2>1 DEF Upserted
  <2>3. Covers(r, m, t)
    BY <1>4, <1>5
  <2> QED BY <2>1, <2>2, <2>3, CoversEntry
<1>12. ASSUME NEW t \in Teams \ ConfigOf(r)
       PROVE  \/ table'[t] = table[t]
              \/ table'[t] = Absent /\ Covered(r) = SetTypes
  <2>1. m[t] = Absent
    BY <1>4 DEF Present
  <2>2. CASE table' = Upserted(table, m)
    BY <2>1, <2>2 DEF Upserted
  <2>3. CASE ~ForcesUpsert(r) /\ table' = m
    <3>1. job[r].query.scope = Unscoped
      BY <1>2, <2>3 DEF ForcesUpsert, DataInv, Frame
    <3>2. Covered(r) = SetTypes
      <4>1. Unscoped.status = ""
        BY DEF Unscoped
      <4> QED BY <3>1, <4>1 DEF Covered, RefreshedTypes
    <3> QED BY <2>1, <2>3, <3>2
  <2> QED BY <1>10, <2>2, <2>3
<1> QED BY <1>1, <1>2, <1>3, <1>8, <1>9, <1>11, <1>12

LEMMA ApplyDataData ==
    ASSUME Inv, DataInv, NEW r \in Reqs, ApplyData(r) PROVE DataInv'
<1>1. /\ job[r].pc = "fetching" /\ job'[r].pc = "applied"
      /\ job'[r].run = job[r].run /\ job'[r].pod = job[r].pod
      /\ job'[r].query = job[r].query
      /\ \A x \in Reqs : x # r => job'[x] = job[x] /\ ~Live(x)
      /\ row'.startedAt = row.startedAt /\ job[r].run = row.startedAt
      /\ UNCHANGED <<faults, pod>>
      /\ \A t \in ConfigOf(r) : Covers(r, table', t)
      /\ \A t \in Teams \ ConfigOf(r) : table'[t] = table[t] \/ table'[t] = Absent
  BY ApplyEffect
<1>2. Numbers'
  BY <1>1, NumbersStay DEF DataInv, Unsent
<1>3. ConfigOf(r)' = ConfigOf(r) /\ Covered(r)' = Covered(r) /\ Scope(r)' = Scope(r)
  BY <1>1 DEF ConfigOf, Covered, Scope
<1>4. ASSUME NEW x \in Reqs PROVE Frame(x)'
  <2>1. CASE x = r
    <3>1. Scope(r) = job[r].query.scope
      BY <1>1 DEF DataInv, Frame, Live
    <3> QED BY <1>1, <1>3, <2>1, <3>1 DEF Frame
  <2>2. CASE x # r
    BY <1>1, <2>2 DEF Frame, Live
  <2> QED BY <2>1, <2>2
<1>5. Stored'
  <2>1. ASSUME NEW t \in Present(table') PROVE Unique(table'[t].periods)
    <3>1. t \in Teams /\ table'[t] # Absent
      BY DEF Present
    <3>2. CASE t \in ConfigOf(r)
      BY <1>1, <3>2 DEF Covers
    <3>3. CASE t \notin ConfigOf(r)
      BY <1>1, <3>1, <3>3 DEF Present, DataInv, Stored
    <3> QED BY <3>2, <3>3
  <2>2. ASSUME NEW x \in Reqs, job'[x].pc \in {"applied", "completed"},
               job'[x].run = row'.startedAt
        PROVE  Reached(x)'
    <3>1. x = r
      <4>1. job[x].run = job[r].run /\ job[r].run > 0
        BY <1>1, <2>2 DEF DataInv, Numbers, Unsent
      <4> QED BY <4>1 DEF DataInv, Numbers
    <3>2. \A t \in ConfigOf(r), s \in Covered(r) : RunsOf(table', t, s) = {job[r].run}
      BY <1>1 DEF Covers
    <3> QED BY <1>1, <1>3, <3>1, <3>2 DEF Reached
  <2> QED BY <2>1, <2>2 DEF Stored
<1> QED BY <1>1, <1>2, <1>4, <1>5 DEF DataInv

-----------------------------------------------------------------------------
LEMMA NextData == Inv /\ DataInv /\ [Next]_vars => DataInv'
<1> SUFFICES ASSUME Inv, DataInv, [Next]_vars PROVE DataInv'
  OBVIOUS
<1>1. ASSUME NEW p \in Pods, PodStep(p) PROVE DataInv'
  BY <1>1, StartPodData, StopPodData DEF PodStep
<1>2. ASSUME NEW r \in Reqs, RequestStep(r) PROVE DataInv'
  BY <1>2, AcceptData, RefuseData DEF RequestStep
<1>3. ASSUME NEW r \in Reqs, RefreshStep(r) PROVE DataInv'
  BY <1>3, FetchTeamData, FailTeamFetchData, ApplyDataData, FinishRefreshData DEF RefreshStep
<1>4. ASSUME NEW c \in Clients, ClientStep(c) PROVE DataInv'
  BY <1>4, ClientData
<1>5. CASE UNCHANGED vars
  BY <1>5, DataStays DEF vars, pgVars, Unsent, Live
<1> QED BY <1>1, <1>2, <1>3, <1>4, <1>5 DEF Next

LEMMA DataAlways == ASSUME MaxFaults = 0 PROVE Spec => [](Inv /\ DataInv)
<1>1. Init => DataInv
  BY InitData
<1> QED BY <1>1, NextData, Invariance, PTL DEF Spec

\* Once the row says completed, what the refresh covered is stored for every
\* team its process was configured with, whichever process it was, and
\* whatever processes have stopped and started since, if no statement fails.
THEOREM CompletedIsInTheTables ==
    ASSUME MaxFaults = 0 PROVE Spec => []CompletedIsStored
<1>1. Inv /\ DataInv => CompletedIsStored
  BY DEF DataInv, Stored, Reached, Covered, RunsOf, CompletedIsStored
<1> QED BY <1>1, DataAlways, PTL

\* Only the transaction of a refresh touches the tables.
LEMMA OnlyApplyStores ==
    ASSUME [Next]_vars PROVE table' = table \/ \E r \in Reqs : ApplyData(r)
<1>1. ASSUME NEW p \in Pods, PodStep(p) PROVE table' = table
  BY <1>1 DEF PodStep, StartPod, StopPod, pgVars
<1>2. ASSUME NEW r \in Reqs, RequestStep(r) PROVE table' = table
  BY <1>2 DEF RequestStep, AcceptRequest, RefuseRequest
<1>3. ASSUME NEW r \in Reqs, RefreshStep(r) PROVE table' = table \/ ApplyData(r)
  BY <1>3 DEF RefreshStep, FetchTeam, FailTeamFetch, FinishRefresh
<1>4. ASSUME NEW c \in Clients, ClientStep(c) PROVE table' = table
  BY <1>4 DEF ClientStep, CheckHasData, SelectTeams, SelectPeriods
<1>5. CASE UNCHANGED vars
  BY <1>5 DEF vars, pgVars
<1> QED BY <1>1, <1>2, <1>3, <1>4, <1>5 DEF Next

\* What a scoped refresh read and carries over is what is stored when it
\* writes it back, wherever its process and the others are stopped: the stored
\* periods of a set type change only for a request that covers it.
THEOREM KeptSurvives == ASSUME MaxFaults = 0 PROVE Spec => OutOfScopeSurvives
<1> DEFINE Survives ==
      \A t \in Teams, s \in SetTypes :
          PeriodsOf(table', t, s) # PeriodsOf(table, t, s) =>
            \E r \in Reqs : /\ job[r].pc = "fetching" /\ job'[r].pc = "applied"
                            /\ s \in RefreshedTypes(job[r].query.scope)
<1>1. Inv /\ DataInv /\ [Next]_vars => Survives
  <2> SUFFICES ASSUME Inv, DataInv, [Next]_vars, NEW t \in Teams, NEW s \in SetTypes,
                      PeriodsOf(table', t, s) # PeriodsOf(table, t, s)
               PROVE  \E r \in Reqs : /\ job[r].pc = "fetching" /\ job'[r].pc = "applied"
                                      /\ s \in Covered(r)
    BY DEF Covered
  <2>1. PICK r \in Reqs : ApplyData(r)
    BY OnlyApplyStores
  <2>2. s \in Covered(r)
    <3>1. CASE t \in ConfigOf(r)
      BY <2>1, <3>1, ApplyEffect DEF Covers
    <3>2. CASE t \notin ConfigOf(r)
      <4>1. table'[t] # table[t]
        BY DEF PeriodsOf
      <4> QED BY <2>1, <3>2, <4>1, ApplyEffect
    <3> QED BY <3>1, <3>2
  <2>3. job[r].pc = "fetching" /\ job'[r].pc = "applied"
    BY <2>1, ApplyEffect
  <2> QED BY <2>2, <2>3
<1>2. [][Survives]_vars => OutOfScopeSurvives
  BY DEF OutOfScopeSurvives
<1> QED BY <1>1, <1>2, DataAlways, PTL DEF Spec

-----------------------------------------------------------------------------
(* Scorecards of two SELECTs, when all processes have one configuration.   *)

\* The tables have all configured teams or none, and of each set type the same
\* refreshes; a client that has read a part of them will find the rest.
Whole(config) ==
    /\ \A p \in Pods : pod[p].up # "new" => pod[p].config = config
    /\ Present(table) \in {{}, config}
    /\ \A s \in SetTypes : \A t, u \in config : RunsOf(table, t, s) = RunsOf(table, u, s)

Reading(config, c) ==
    /\ client[c].pc \in {"checked", "selected", "served"} =>
         client[c].pod \in Pods /\ pod[client[c].pod].up # "new"
    /\ client[c].pc \in {"checked", "selected"} => Present(table) = config
    /\ client[c].pc = "selected" => client[c].rows = config
    /\ client[c].pc = "served" =>
         \A t, u \in config :
            /\ client[c].view[t] # Absent
            /\ \A s \in SetTypes : RunsOf(client[c].view, t, s) = RunsOf(client[c].view, u, s)

WholeInv(config) == Whole(config) /\ \A c \in Clients : Reading(config, c)

LEMMA InitWhole == ASSUME NEW config \in SUBSET Teams, Init PROVE WholeInv(config)
<1>1. \A p \in Pods : pod[p].up = "new"
  BY DEF Init
<1>2. Present(table) = {} /\ \A t \in Teams, s \in SetTypes : PeriodsOf(table, t, s) = {}
  BY DEF Init, Present, NoTeams, PeriodsOf
<1>3. \A c \in Clients : client[c].pc = "idle"
  BY DEF Init
<1>4. \A t \in config, s \in SetTypes : RunsOf(table, t, s) = {}
  BY <1>2 DEF RunsOf
<1> QED BY <1>1, <1>2, <1>3, <1>4 DEF WholeInv, Whole, Reading

\* A step that leaves the tables, and starts processes with the configuration.
LEMMA WholeStays ==
    ASSUME NEW config, WholeInv(config), table' = table,
           \A p \in Pods : pod'[p].up # "new" => pod'[p].config = config,
           \A p \in Pods : pod[p].up # "new" => pod'[p].up # "new",
           \A c \in Clients : client'[c] = client[c] \/ client'[c].pc = "lost"
    PROVE  WholeInv(config)'
<1>1. Whole(config)'
  BY DEF WholeInv, Whole
<1>2. ASSUME NEW c \in Clients PROVE Reading(config, c)'
  BY DEF WholeInv, Reading
<1> QED BY <1>1, <1>2 DEF WholeInv

LEMMA PodWhole ==
    ASSUME Inv, DataInv, NEW config, Configs = {config}, WholeInv(config),
           NEW p \in Pods, PodStep(p)
    PROVE  WholeInv(config)'
<1>1. CASE StartPod(p, config)
  <2>1. table' = table /\ client' = client
    BY <1>1 DEF StartPod, pgVars
  <2>2. /\ pod'[p].config = config /\ pod'[p].up = "up"
        /\ \A q \in Pods : q # p => pod'[q] = pod[q]
    BY <1>1, Values DEF StartPod, PodRecord
  <2> QED BY <2>1, <2>2, WholeStays DEF WholeInv, Whole
<1>2. CASE StopPod(p)
  <2>1. table' = table
    BY <1>2 DEF StopPod, pgVars
  <2>2. /\ pod[p].up # "new" /\ pod'[p].up = "down" /\ pod'[p].config = pod[p].config
        /\ \A q \in Pods : q # p => pod'[q] = pod[q]
    BY <1>2, Values DEF StopPod, PodRecord, Up
  <2>3. \A c \in Clients : client'[c] = client[c] \/ client'[c].pc = "lost"
    <3>1. client \in [Clients -> ClientRecord]
      BY Types DEF Inv
    <3> QED BY <1>2, <3>1 DEF StopPod, ClientRecord
  <2> QED BY <2>1, <2>2, <2>3, WholeStays DEF WholeInv, Whole
<1> QED BY <1>1, <1>2 DEF PodStep

LEMMA RequestWhole ==
    ASSUME Inv, DataInv, NEW config, WholeInv(config), NEW r \in Reqs, RequestStep(r)
    PROVE  WholeInv(config)'
<1>1. UNCHANGED <<table, client>>
  BY DEF RequestStep, AcceptRequest, RefuseRequest
<1>2. \A p \in Pods : pod'[p].up = pod[p].up /\ pod'[p].config = pod[p].config
  <2>1. ASSUME NEW p \in Pods, NEW query \in Queries, AcceptRequest(r, p, query)
        PROVE  \A q \in Pods : pod'[q].up = pod[q].up /\ pod'[q].config = pod[q].config
    BY <2>1, Values DEF AcceptRequest, PodRecord
  <2>2. ASSUME NEW p \in Pods, RefuseRequest(r, p) PROVE pod' = pod
    BY <2>2 DEF RefuseRequest
  <2> QED BY <2>1, <2>2 DEF RequestStep
<1> QED BY <1>1, <1>2, WholeStays DEF WholeInv, Whole

\* A refresh replaces the data of all configured teams at once.
LEMMA ApplyWhole ==
    ASSUME Inv, DataInv, NEW config \in SUBSET Teams, WholeInv(config),
           NEW r \in Reqs, ApplyData(r)
    PROVE  WholeInv(config)'
<1>1. ConfigOf(r) = config
  <2>1. ~Unsent(r)
    BY ApplyEffect DEF Unsent
  <2> QED BY <2>1 DEF DataInv, Numbers, WholeInv, Whole, ConfigOf
<1>2. /\ UNCHANGED <<pod, client>>
      /\ \A t \in config : Covers(r, table', t) /\ table'[t] # Absent
      /\ \A t \in Teams \ config : table'[t] = table[t] \/ table'[t] = Absent
  BY <1>1, ApplyEffect DEF ApplyData
<1>3. Present(table') = config
  <2>1. \A t \in Teams \ config : table[t] = Absent
    BY DEF WholeInv, Whole, Present
  <2> QED BY <1>2, <2>1 DEF Present
<1>4. ASSUME NEW s \in SetTypes, NEW t \in config, NEW u \in config
      PROVE  RunsOf(table', t, s) = RunsOf(table', u, s)
  <2>1. CASE s \in Covered(r)
    BY <1>2, <2>1 DEF Covers
  <2>2. CASE s \notin Covered(r)
    <3>1. /\ PeriodsOf(table', t, s) = PeriodsOf(table, t, s)
          /\ PeriodsOf(table', u, s) = PeriodsOf(table, u, s)
      BY <1>2, <2>2 DEF Covers
    <3>2. RunsOf(table, t, s) = RunsOf(table, u, s)
      BY DEF WholeInv, Whole
    <3> QED BY <3>1, <3>2 DEF RunsOf
  <2> QED BY <2>1, <2>2
<1>5. Whole(config)'
  BY <1>2, <1>3, <1>4 DEF WholeInv, Whole
<1>6. \A c \in Clients : Reading(config, c)'
  BY <1>2, <1>3 DEF WholeInv, Reading
<1> QED BY <1>5, <1>6 DEF WholeInv

LEMMA RefreshWhole ==
    ASSUME Inv, DataInv, NEW config \in SUBSET Teams, WholeInv(config),
           NEW r \in Reqs, RefreshStep(r)
    PROVE  WholeInv(config)'
<1>1. CASE ApplyData(r)
  BY <1>1, ApplyWhole
<1>2. CASE ~ApplyData(r)
  <2>1. UNCHANGED <<table, pod, client>>
    BY <1>2 DEF RefreshStep, FetchTeam, FailTeamFetch, FinishRefresh
  <2> QED BY <2>1, WholeStays DEF WholeInv, Whole
<1> QED BY <1>1, <1>2

\* What a client reads with its second SELECT is of the teams of its first.
LEMMA ClientWhole ==
    ASSUME Inv, DataInv, NEW config \in SUBSET Teams, WholeInv(config),
           NEW c \in Clients, ClientStep(c)
    PROVE  WholeInv(config)'
<1>1. UNCHANGED <<table, pod>>
  BY DEF ClientStep, CheckHasData, SelectTeams, SelectPeriods
<1>2. client \in [Clients -> ClientRecord] /\ ~Fault
  BY Types DEF Inv, Fault, DataInv
<1>3. \A d \in Clients : d # c => client'[d] = client[d]
  BY <1>2 DEF ClientStep, CheckHasData, SelectTeams, SelectPeriods
<1>4. Reading(config, c)'
  <2>1. ASSUME NEW p \in Pods, CheckHasData(c, p) PROVE Reading(config, c)'
    <3>1. /\ client'[c].pc \in {"checked", "unavailable"} /\ client'[c].pod = p
          /\ client'[c].pc = "checked" => Present(table) # {}
          /\ pod[p].up = "up"
      BY <1>2, <2>1 DEF CheckHasData, Up, ClientRecord
    <3> QED BY <1>1, <3>1 DEF Reading, WholeInv, Whole
  <2>2. CASE SelectTeams(c)
    <3>1. /\ client[c].pc = "checked" /\ client'[c].pc = "selected"
          /\ client'[c].pod = client[c].pod /\ client'[c].rows = Present(table)
      BY <1>2, <2>2 DEF SelectTeams, ClientRecord
    <3> QED BY <1>1, <3>1 DEF Reading, WholeInv
  <2>3. CASE SelectPeriods(c)
    <3> DEFINE view == [t \in Teams |-> IF t \in client[c].rows /\ table[t] # Absent
                                        THEN table[t] ELSE Absent]
    <3>1. /\ client[c].pc = "selected" /\ client'[c].pc = "served"
          /\ client'[c].pod = client[c].pod /\ client'[c].view = view
      BY <1>2, <2>3 DEF SelectPeriods, ClientRecord
    <3>2. client[c].rows = config /\ Present(table) = config
      BY <3>1 DEF WholeInv, Reading
    <3>3. \A t \in config : view[t] = table[t] /\ table[t] # Absent
      BY <3>2 DEF Present
    <3> HIDE DEF view
    <3> PICK v : v = view
      OBVIOUS
    <3>4. \A t \in config, s \in SetTypes : RunsOf(v, t, s) = RunsOf(table, t, s)
      BY <3>3 DEF RunsOf, PeriodsOf
    <3>5. \A t, u \in config : /\ v[t] # Absent
                               /\ \A s \in SetTypes : RunsOf(v, t, s) = RunsOf(v, u, s)
      BY <3>3, <3>4 DEF WholeInv, Whole
    <3>6. client'[c].view = v
      BY <3>1
    <3>7. client[c].pod \in Pods /\ pod[client[c].pod].up # "new"
      BY <3>1 DEF WholeInv, Reading
    <3> QED BY <1>1, <3>1, <3>5, <3>6, <3>7 DEF Reading
  <2> QED BY <2>1, <2>2, <2>3 DEF ClientStep
<1>5. \A d \in Clients : d # c => Reading(config, d)'
  BY <1>1, <1>3 DEF WholeInv, Reading
<1>6. Whole(config)'
  BY <1>1 DEF WholeInv, Whole
<1> QED BY <1>4, <1>5, <1>6 DEF WholeInv

\* A scorecard of two SELECTs, between which refreshes of other processes may
\* be applied, has one refresh's data for every configured team, if all the
\* processes have one configuration and no statement fails.
THEOREM ServedIsWhole ==
    ASSUME MaxFaults = 0, NEW config, Configs = {config} PROVE Spec => []ScorecardIsWhole
<1>1. config \in SUBSET Teams
  BY ConfigsAssumption
<1>2. Init => WholeInv(config)
  BY <1>1, InitWhole
<1>3. Inv /\ DataInv /\ WholeInv(config) /\ [Next]_vars => WholeInv(config)'
  <2> SUFFICES ASSUME Inv, DataInv, WholeInv(config), [Next]_vars PROVE WholeInv(config)'
    OBVIOUS
  <2>1. CASE UNCHANGED vars
    BY <2>1, WholeStays DEF vars, pgVars, WholeInv, Whole
  <2> QED BY <1>1, <2>1, PodWhole, RequestWhole, RefreshWhole, ClientWhole DEF Next
<1>4. WholeInv(config) => ScorecardIsWhole
  <2> SUFFICES ASSUME WholeInv(config), NEW c \in Clients, client[c].pc = "served",
                      NEW t \in pod[client[c].pod].config, NEW u \in pod[client[c].pod].config
               PROVE  /\ client[c].view[t] # Absent
                      /\ \A s \in SetTypes : {p.run : p \in PeriodsOf(client[c].view, t, s)}
                                            = {p.run : p \in PeriodsOf(client[c].view, u, s)}
    BY DEF ScorecardIsWhole
  <2>1. pod[client[c].pod].config = config
    BY DEF WholeInv, Whole, Reading
  <2>2. /\ client[c].view[t] # Absent
        /\ \A s \in SetTypes : RunsOf(client[c].view, t, s) = RunsOf(client[c].view, u, s)
    BY <2>1 DEF WholeInv, Reading
  <2> QED BY <2>2 DEF RunsOf
<1> QED BY <1>2, <1>3, <1>4, DataAlways, PTL DEF Spec

=============================================================================
