----------------------------- MODULE ServerProofs -----------------------------
(***************************************************************************)
(* Theorems about Server, for every set of teams, requests, clients and    *)
(* queries, every sprint length and every clock bound.                     *)
(***************************************************************************)
EXTENDS Server, ScoringPeriodsProofs

\* A request past its parameter checks carries parameters that passed them.
Checked ==
    \A r \in Reqs :
        req[r].pc \notin {"unsent", "answered"} => WellFormed(req[r].query)

TypeInv == TypeOK /\ Checked

-----------------------------------------------------------------------------
(* Types.                                                                  *)

\* A request whose parameters passed the checks asks for a scope.
LEMMA ScopeType ==
    ASSUME NEW query \in Queries \cup {EmptyQuery}, WellFormed(query)
    PROVE  /\ ScopeOf(query) \in RefreshScope
           /\ query.mode \in Modes
<1>1. EmptyQuery.start \in DateParam /\ EmptyQuery.end \in DateParam
  BY DEF EmptyQuery, DateParam
<1>2. EmptyQuery.mode \in Modes /\ EmptyQuery.status = ""
  BY DEF EmptyQuery, Modes
<1>3. EmptyQuery \in Query
  BY <1>1, <1>2 DEF EmptyQuery, Query
<1>4. query \in Query
  BY <1>3, QueriesAssumption
<1>5. query.start \in Int \cup {NoDate} /\ query.end \in Int \cup {NoDate}
  BY <1>4, BadDateAssumption DEF Query, DateParam, WellFormed
<1>6. query.status \in {""} \cup SetTypes /\ query.mode \in Modes
  BY <1>4 DEF Query, WellFormed
<1> QED BY <1>5, <1>6 DEF ScopeOf, RefreshScope

USE DEF TypeInv, TypeOK

\* The answers of the handler.
LEMMA CodesType == {"", "accepted", "bad_request", "conflict"} \subseteq Codes
BY DEF Codes

\* An answer leaves a request of its type.
LEMMA AnswerType ==
    ASSUME TypeInv, NEW r \in Reqs, NEW code \in Codes, NEW body \in {""} \cup Status,
           Answer(r, code, body)
    PROVE  req' \in [Reqs -> Request]
<1> DEFINE answered == [req[r] EXCEPT !.pc = "answered", !.code = code, !.body = body]
<1>1. req[r] \in Request
  OBVIOUS
<1>2. answered \in Request
  BY <1>1 DEF Request, ReqPC
<1>3. req' = [req EXCEPT ![r] = answered]
  BY <1>1 DEF Answer
<1> QED BY <1>2, <1>3

LEMMA InitTypes == Init => TypeInv
<1> SUFFICES ASSUME Init PROVE TypeInv
  OBVIOUS
<1>1. NoTeams \in TeamMap
  BY DEF NoTeams, TeamMap
<1>2. state \in State /\ teams \in TeamMap
  BY <1>1 DEF Init, StoreInit, State, Status
<1>3. refreshMode \in Modes /\ refreshScope \in RefreshScope
  BY DEF Init, ReconcilerInit, Modes, RefreshScope, Unscoped
<1>4. job \in [Reqs -> Job]
  BY <1>1 DEF Init, ReconcilerInit, NoJob, Job, JobPC
<1>5. req \in [Reqs -> Request] /\ Checked
  BY CodesType DEF Init, HandlersInit, Request, ReqPC, Checked
<1>6. client \in [Clients -> Client]
  BY <1>1 DEF Init, HandlersInit, Client, ClientPC
<1> QED BY <1>2, <1>3, <1>4, <1>5, <1>6 DEF Init

\* The steps of a request keep the types.
LEMMA SendTypes ==
    ASSUME TypeInv, NEW r \in Reqs, SendRequest(r) PROVE TypeInv'
<1> PICK q \in Queries : ParseRequest(r, q)
  BY DEF SendRequest
<1> DEFINE parsed == [req[r] EXCEPT !.pc = "parsed", !.query = q]
           refused == [req[r] EXCEPT !.pc = "answered", !.query = q, !.code = "bad_request"]
<1>1. req' \in [Reqs -> Request]
  <2>1. parsed \in Request /\ refused \in Request
    BY CodesType DEF Request, ReqPC
  <2>2. req' = [req EXCEPT ![r] = IF WellFormed(q) THEN parsed ELSE refused]
    BY DEF ParseRequest
  <2> QED BY <2>1, <2>2
<1>2. \A x \in Reqs : x # r => req'[x] = req[x]
  BY DEF ParseRequest
<1>3. req'[r].pc # "answered" => req'[r].query = q /\ WellFormed(q)
  BY DEF ParseRequest, Request
<1>4. Checked'
  BY <1>2, <1>3 DEF Checked
<1> QED BY <1>1, <1>4 DEF ParseRequest, SendRequest, storeVars, reconcilerVars

LEMMA HandlerTypes ==
    ASSUME TypeInv, NEW r \in Reqs, HandlerStep(r) PROVE TypeInv'
<1> USE DEF storeVars, reconcilerVars
<1>1. CASE AcceptRequest(r)
  <2>1. state' \in State
    <3>1. state.startedAt + 1 \in Nat
      BY DEF State
    <3> QED BY <1>1, <3>1 DEF AcceptRequest, StartRefresh, State, Status
  <2>2. req' \in [Reqs -> Request] /\ Checked'
    BY <1>1 DEF AcceptRequest, Request, ReqPC, Checked
  <2>3. job' \in [Reqs -> Job]
    BY <1>1 DEF AcceptRequest, Job, State
  <2> QED BY <1>1, <2>1, <2>2, <2>3 DEF AcceptRequest, StartRefresh, HandlerStep
<1>2. CASE RefuseRequest(r)
  <2>1. req' \in [Reqs -> Request]
    BY <1>2, CodesType, AnswerType DEF RefuseRequest
  <2>2. Checked'
    BY <1>2 DEF RefuseRequest, Answer, Request, Checked
  <2> QED BY <1>2, <2>1, <2>2 DEF RefuseRequest, HandlerStep
<1>3. CASE SetRefreshMode(r)
  <2>1. req[r].query \in Queries \cup {EmptyQuery} /\ WellFormed(req[r].query)
    BY <1>3 DEF SetRefreshMode, Request, Checked
  <2>2. refreshMode' \in Modes
    BY <1>3, <2>1, ScopeType DEF SetRefreshMode
  <2>3. req' \in [Reqs -> Request] /\ Checked'
    BY <1>3 DEF SetRefreshMode, Request, ReqPC, Checked
  <2> QED BY <1>3, <2>2, <2>3 DEF SetRefreshMode, HandlerStep
<1>4. CASE SetRefreshScope(r)
  <2>1. req[r].query \in Queries \cup {EmptyQuery} /\ WellFormed(req[r].query)
    BY <1>4 DEF SetRefreshScope, Request, Checked
  <2>2. refreshScope' \in RefreshScope
    BY <1>4, <2>1, ScopeType DEF SetRefreshScope
  <2>3. req' \in [Reqs -> Request] /\ Checked'
    BY <1>4 DEF SetRefreshScope, Request, ReqPC, Checked
  <2> QED BY <1>4, <2>2, <2>3 DEF SetRefreshScope, HandlerStep
<1>5. CASE LaunchRefresh(r)
  <2>1. req' \in [Reqs -> Request] /\ Checked'
    BY <1>5 DEF LaunchRefresh, Request, ReqPC, Checked
  <2>2. job' \in [Reqs -> Job]
    BY <1>5 DEF LaunchRefresh, Job, JobPC
  <2> QED BY <1>5, <2>1, <2>2 DEF LaunchRefresh, HandlerStep
<1>6. CASE AnswerAccepted(r)
  <2>1. state.status \in Status
    BY DEF State
  <2>2. req' \in [Reqs -> Request]
    BY <1>6, <2>1, CodesType, AnswerType DEF AnswerAccepted
  <2>3. Checked'
    BY <1>6 DEF AnswerAccepted, Answer, Request, Checked
  <2> QED BY <1>6, <2>2, <2>3 DEF AnswerAccepted, HandlerStep
<1> QED BY <1>1, <1>2, <1>3, <1>4, <1>5, <1>6 DEF HandlerStep

\* The steps of a refresh keep the types.
LEMMA BeginTypes ==
    ASSUME TypeInv, NEW r \in Reqs, BeginRefresh(r, now), UNCHANGED <<handlerVars, now>>
    PROVE  TypeInv'
<1> DEFINE cadences == RefreshCadences(refreshScope, now)
           types == RefreshedTypes(refreshScope)
<1>1. cadences \subseteq Cadence
  BY CadencesType
<1>2. types \subseteq SetTypes
  BY TypesType
<1>3. job' = [job EXCEPT ![r] = [job[r] EXCEPT !.pc = "fetching",
                                   !.cadences = cadences, !.types = types]]
  BY DEF BeginRefresh
<1> HIDE DEF cadences, types
<1>4. [job[r] EXCEPT !.pc = "fetching", !.cadences = cadences, !.types = types] \in Job
  BY <1>1, <1>2 DEF Job, JobPC
<1>5. job' \in [Reqs -> Job]
  BY <1>3, <1>4
<1> QED BY <1>5 DEF BeginRefresh, storeVars, handlerVars, Checked

LEMMA FetchTypes ==
    ASSUME TypeInv, NEW r \in Reqs, NEW t \in Teams, FetchTeam(r, t, now),
           UNCHANGED <<handlerVars, now>>
    PROVE  TypeInv'
<1> DEFINE fetched == FetchedPeriods(job[r].cadences, job[r].types, now, job[r].run)
           periods == MergeExistingPeriods(r, t, fetched)
<1>1. job[r] \in Job
  OBVIOUS
<1>2. fetched \subseteq ScoringPeriod
  BY <1>1, FetchedType DEF Job
<1>3. periods \subseteq ScoringPeriod
  BY <1>2 DEF MergeExistingPeriods, PreservedPeriods, TeamMap, TeamData
<1>4. [periods |-> periods] \in TeamData
  BY <1>3 DEF TeamData
<1> HIDE DEF periods, fetched
<1>5. [job[r].fetched EXCEPT ![t] = [periods |-> periods]] \in TeamMap
  BY <1>1, <1>4 DEF Job, TeamMap
<1>6. job[r].count \cup ({t} \X periods) \subseteq Teams \X ScoringPeriod
  BY <1>1, <1>3 DEF Job
<1>7. job' = [job EXCEPT ![r] = [job[r] EXCEPT
                 !.fetched = [job[r].fetched EXCEPT ![t] = [periods |-> periods]],
                 !.count = job[r].count \cup ({t} \X periods)]]
  BY <1>1 DEF FetchTeam, fetched, periods, Job
<1>8. job' \in [Reqs -> Job]
  BY <1>1, <1>5, <1>6, <1>7 DEF Job
<1> QED BY <1>8 DEF FetchTeam, storeVars, handlerVars, Checked

\* What a goroutine leaves behind is a frame.
LEMMA ReturnTypes ==
    ASSUME TypeInv, NEW r \in Reqs, NEW outcome \in JobPC, Return(r, outcome)
    PROVE  job' \in [Reqs -> Job]
<1>1. NoTeams \in TeamMap
  BY DEF NoTeams, TeamMap
<1> QED BY <1>1 DEF Return, NoJob, Job

LEMMA FailTypes ==
    ASSUME TypeInv, NEW r \in Reqs, FailTeamFetch(r), UNCHANGED <<handlerVars, now>>
    PROVE  TypeInv'
<1>1. job' \in [Reqs -> Job]
  BY ReturnTypes DEF FailTeamFetch, JobPC
<1>2. state' \in State
  BY DEF FailTeamFetch, FailRefresh, State, Status
<1> QED BY <1>1, <1>2 DEF FailTeamFetch, FailRefresh, handlerVars, Checked

LEMMA ApplyTypes ==
    ASSUME TypeInv, NEW r \in Reqs, ApplyData(r), UNCHANGED <<handlerVars, now>>
    PROVE  TypeInv'
<1>1. job[r].fetched \in TeamMap /\ job[r].count \subseteq Teams \X ScoringPeriod
  BY DEF Job
<1>2. job' \in [Reqs -> Job]
  BY DEF ApplyData, Job, JobPC
<1>3. Upserted(teams, job[r].fetched) \in TeamMap
  BY <1>1, UpsertedType
<1>4. CountOf(Upserted(teams, job[r].fetched)) \subseteq Teams \X ScoringPeriod
  BY <1>3, CountType
<1>5. teams' \in TeamMap /\ state' \in State
  BY <1>1, <1>3, <1>4 DEF ApplyData, SwapData, UpsertTeamData, State
<1> QED BY <1>2, <1>5 DEF ApplyData, handlerVars, Checked

LEMMA FinishTypes ==
    ASSUME TypeInv, NEW r \in Reqs, FinishRefresh(r), UNCHANGED <<handlerVars, now>>
    PROVE  TypeInv'
<1>1. job' \in [Reqs -> Job]
  BY ReturnTypes DEF FinishRefresh, JobPC
<1>2. job[r].count \subseteq Teams \X ScoringPeriod
  BY DEF Job
<1>3. state' \in State
  BY <1>2 DEF FinishRefresh, CompleteRefresh, State, Status
<1> QED BY <1>1, <1>3 DEF FinishRefresh, CompleteRefresh, handlerVars, Checked

\* The steps of a client keep the types.
LEMMA ClientTypes ==
    ASSUME TypeInv, NEW c \in Clients, ClientStep(c) PROVE TypeInv'
<1>1. client' \in [Clients -> Client]
  BY DEF ClientStep, PollStatus, CheckHasData, ComputeFullScorecard, Client, ClientPC, State
<1> QED BY <1>1 DEF ClientStep, PollStatus, CheckHasData, ComputeFullScorecard,
                    storeVars, reconcilerVars, Checked

LEMMA NextTypes == TypeInv /\ [Next]_vars => TypeInv'
<1> SUFFICES ASSUME TypeInv, [Next]_vars PROVE TypeInv'
  OBVIOUS
<1>1. ASSUME NEW r \in Reqs, SendRequest(r) PROVE TypeInv'
  BY <1>1, SendTypes
<1>2. ASSUME NEW r \in Reqs, HandlerStep(r) PROVE TypeInv'
  BY <1>2, HandlerTypes
<1>3. ASSUME NEW r \in Reqs, RefreshStep(r) PROVE TypeInv'
  BY <1>3, BeginTypes, FetchTypes, FailTypes, ApplyTypes, FinishTypes DEF RefreshStep
<1>4. ASSUME NEW c \in Clients, ClientStep(c) PROVE TypeInv'
  BY <1>4, ClientTypes
<1>5. CASE NextDay
  BY <1>5 DEF NextDay, storeVars, reconcilerVars, handlerVars, Checked
<1>6. CASE UNCHANGED vars
  BY <1>6 DEF vars, storeVars, reconcilerVars, handlerVars, Checked
<1> QED BY <1>1, <1>2, <1>3, <1>4, <1>5, <1>6 DEF Next, Waiting

LEMMA TypeInvAlways == Spec => []TypeInv
BY InitTypes, NextTypes, PTL DEF Spec

\* The variables of the server always have their types: in particular, the
\* scope of a refresh and its windows are made of days and set types, so no
\* malformed date or status gets past the handler's checks.
THEOREM TypeCorrect == Spec => []TypeOK
BY TypeInvAlways, PTL

-----------------------------------------------------------------------------
(* The refresh gate and the shared parameters.                             *)

\* A goroutine exists only for a request that launched it.
Placed ==
    \A r \in Reqs : job[r].pc # "none" => req[r].pc \in {"launched", "answered"}

\* The inductive invariant: the gate alone is not one, because a request that
\* is launched twice would hold it twice, and because what keeps the shared
\* mode and scope those of the running refresh is that no other holds the gate.
GateInv == Placed /\ OneRefreshAtATime /\ RunsOwnParameters

LEMMA InitGate == Init => GateInv
<1> SUFFICES ASSUME Init PROVE GateInv
  OBVIOUS
<1>1. \A r \in Reqs : req[r].pc = "unsent" /\ job[r].pc = "none"
  BY DEF Init, HandlersInit, ReconcilerInit, NoJob
<1>2. state.status = "idle"
  BY DEF Init, StoreInit
<1>3. \A r \in Reqs : ~Holds(r) /\ ~Live(r)
  BY <1>1 DEF Holds, Live
<1> QED BY <1>1, <1>2, <1>3 DEF GateInv, Placed, OneRefreshAtATime, RunsOwnParameters

\* A step that leaves the status, the shared parameters, every request's query
\* and the holders as they are, and lets nobody advance to a place where more
\* is asked of the parameters, keeps the gate.
LEMMA SameHolders ==
    ASSUME GateInv,
           state'.status = state.status,
           refreshMode' = refreshMode, refreshScope' = refreshScope,
           \A x \in Reqs : Holds(x)' <=> Holds(x),
           \A x \in Reqs : Live(x)' => Live(x) \/ req[x].pc = "scopeSet",
           \A x \in Reqs : Holds(x)' => req'[x].query = req[x].query,
           \A x \in Reqs : req'[x].pc \in {"modeSet", "scopeSet"} => req'[x].pc = req[x].pc
    PROVE  OneRefreshAtATime' /\ RunsOwnParameters'
<1>1. OneRefreshAtATime'
  BY DEF GateInv, OneRefreshAtATime
<1>2. \A x \in Reqs : Live(x)' \/ req'[x].pc \in {"modeSet", "scopeSet"} => Holds(x)'
  BY DEF Holds
<1>3. RunsOwnParameters'
  BY <1>2 DEF GateInv, RunsOwnParameters
<1> QED BY <1>1, <1>3

LEMMA SendGate ==
    ASSUME TypeInv, GateInv, NEW r \in Reqs, SendRequest(r) PROVE GateInv'
<1> PICK q \in Queries : ParseRequest(r, q)
  BY DEF SendRequest
<1>1. req[r].pc = "unsent" /\ req'[r].pc \in {"parsed", "answered"}
  BY DEF ParseRequest, Request
<1>2. \A x \in Reqs : x # r => req'[x] = req[x]
  BY DEF ParseRequest
<1>3. UNCHANGED <<state, refreshMode, refreshScope, job>>
  BY DEF ParseRequest, storeVars, reconcilerVars
<1>4. job[r].pc = "none"
  BY <1>1 DEF GateInv, Placed
<1>5. \A x \in Reqs : (Live(x)' <=> Live(x)) /\ (Holds(x)' <=> Holds(x))
  BY <1>1, <1>2, <1>3 DEF Holds, Live
<1>6. ~Holds(r)
  BY <1>1, <1>4 DEF Holds, Live
<1>7. OneRefreshAtATime' /\ RunsOwnParameters'
  BY <1>1, <1>2, <1>3, <1>5, <1>6, SameHolders
<1>8. Placed'
  BY <1>2, <1>3, <1>4 DEF GateInv, Placed
<1> QED BY <1>7, <1>8 DEF GateInv

LEMMA AcceptGate ==
    ASSUME TypeInv, GateInv, NEW r \in Reqs, AcceptRequest(r) PROVE GateInv'
<1>1. /\ req[r].pc = "parsed" /\ req'[r].pc = "started"
      /\ \A x \in Reqs : x # r => req'[x] = req[x]
  BY DEF AcceptRequest, Request
<1>2. state.status # "running" /\ state'.status = "running"
  BY DEF AcceptRequest, StartRefresh, CanStart, State
<1>3. \A x \in Reqs : job'[x].pc = job[x].pc
  BY DEF AcceptRequest, Job
<1>4. \A x \in Reqs : ~Holds(x)
  BY <1>2 DEF GateInv, OneRefreshAtATime
<1>5. \A x \in Reqs : ~Live(x)'
  BY <1>3, <1>4 DEF Holds, Live
<1>6. \A x \in Reqs : Holds(x)' <=> x = r
  BY <1>1, <1>4, <1>5 DEF Holds
<1>7. OneRefreshAtATime'
  BY <1>2, <1>6 DEF OneRefreshAtATime
<1>8. \A x \in Reqs : req'[x].pc \notin {"modeSet", "scopeSet"}
  BY <1>1, <1>4 DEF Holds
<1>9. RunsOwnParameters'
  BY <1>5, <1>8 DEF RunsOwnParameters
<1>10. Placed'
  BY <1>1, <1>3 DEF GateInv, Placed
<1> QED BY <1>7, <1>9, <1>10 DEF GateInv

LEMMA RefuseGate ==
    ASSUME TypeInv, GateInv, NEW r \in Reqs, RefuseRequest(r) PROVE GateInv'
<1>1. req[r].pc = "parsed" /\ req'[r].pc = "answered" /\ req'[r].query = req[r].query
  BY DEF RefuseRequest, Answer, Request
<1>2. \A x \in Reqs : x # r => req'[x] = req[x]
  BY DEF RefuseRequest, Answer
<1>3. UNCHANGED <<state, refreshMode, refreshScope, job>>
  BY DEF RefuseRequest, storeVars, reconcilerVars
<1>4. \A x \in Reqs : (Live(x)' <=> Live(x)) /\ (Holds(x)' <=> Holds(x))
  BY <1>1, <1>2, <1>3 DEF Holds, Live
<1>5. OneRefreshAtATime' /\ RunsOwnParameters'
  BY <1>1, <1>2, <1>3, <1>4, SameHolders
<1>6. Placed'
  BY <1>1, <1>2, <1>3 DEF GateInv, Placed
<1> QED BY <1>5, <1>6 DEF GateInv

\* The holder writes the mode: nobody else relies on it.
LEMMA ModeGate ==
    ASSUME TypeInv, GateInv, NEW r \in Reqs, SetRefreshMode(r) PROVE GateInv'
<1>1. req[r].pc = "started" /\ req'[r].pc = "modeSet" /\ req'[r].query = req[r].query
  BY DEF SetRefreshMode, Request
<1>2. \A x \in Reqs : x # r => req'[x] = req[x]
  BY DEF SetRefreshMode
<1>3. UNCHANGED <<state, refreshScope, job>>
  BY DEF SetRefreshMode, storeVars
<1>4. \A x \in Reqs : (Live(x)' <=> Live(x)) /\ (Holds(x)' <=> Holds(x))
  BY <1>1, <1>2, <1>3 DEF Holds, Live
<1>5. Holds(r) /\ ~Live(r)
  BY <1>1 DEF Holds, Live, GateInv, Placed
<1>6. \A x \in Reqs : x # r => ~Holds(x)
  BY <1>5 DEF GateInv, OneRefreshAtATime
<1>7. OneRefreshAtATime'
  BY <1>3, <1>4 DEF GateInv, OneRefreshAtATime
<1>8. req'[r].query.mode # "" => refreshMode' = req'[r].query.mode
  BY <1>1 DEF SetRefreshMode
<1>9. \A x \in Reqs :
        Live(x)' \/ req'[x].pc \in {"modeSet", "scopeSet"} => x = r
  BY <1>4, <1>6 DEF Holds
<1>10. RunsOwnParameters'
  BY <1>1, <1>4, <1>5, <1>8, <1>9 DEF RunsOwnParameters
<1>11. Placed'
  BY <1>1, <1>2, <1>3 DEF GateInv, Placed
<1> QED BY <1>7, <1>10, <1>11 DEF GateInv

\* The holder writes the scope, whether it gave one or not.
LEMMA ScopeGate ==
    ASSUME TypeInv, GateInv, NEW r \in Reqs, SetRefreshScope(r) PROVE GateInv'
<1>1. req[r].pc = "modeSet" /\ req'[r].pc = "scopeSet" /\ req'[r].query = req[r].query
  BY DEF SetRefreshScope, Request
<1>2. \A x \in Reqs : x # r => req'[x] = req[x]
  BY DEF SetRefreshScope
<1>3. UNCHANGED <<state, refreshMode, job>>
  BY DEF SetRefreshScope, storeVars
<1>4. \A x \in Reqs : (Live(x)' <=> Live(x)) /\ (Holds(x)' <=> Holds(x))
  BY <1>1, <1>2, <1>3 DEF Holds, Live
<1>5. Holds(r)
  BY <1>1 DEF Holds
<1>6. \A x \in Reqs : x # r => ~Holds(x)
  BY <1>5 DEF GateInv, OneRefreshAtATime
<1>7. OneRefreshAtATime'
  BY <1>3, <1>4 DEF GateInv, OneRefreshAtATime
<1>8. refreshScope' = ScopeOf(req'[r].query)
  BY <1>1 DEF SetRefreshScope
<1>9. req'[r].query.mode # "" => refreshMode' = req'[r].query.mode
  BY <1>1, <1>3 DEF GateInv, RunsOwnParameters
<1>10. \A x \in Reqs :
        Live(x)' \/ req'[x].pc \in {"modeSet", "scopeSet"} => x = r
  BY <1>4, <1>6 DEF Holds
<1>11. RunsOwnParameters'
  BY <1>8, <1>9, <1>10 DEF RunsOwnParameters
<1>12. Placed'
  BY <1>1, <1>2, <1>3 DEF GateInv, Placed
<1> QED BY <1>7, <1>11, <1>12 DEF GateInv

\* The gate passes from the handler to the goroutine it launches.
LEMMA LaunchGate ==
    ASSUME TypeInv, GateInv, NEW r \in Reqs, LaunchRefresh(r) PROVE GateInv'
<1>1. /\ req[r].pc = "scopeSet" /\ req'[r].pc = "launched"
      /\ req'[r].query = req[r].query
      /\ job'[r].pc = "launched"
  BY DEF LaunchRefresh, Request, Job
<1>2. \A x \in Reqs : x # r => req'[x] = req[x] /\ job'[x] = job[x]
  BY DEF LaunchRefresh
<1>3. UNCHANGED <<state, refreshMode, refreshScope>>
  BY DEF LaunchRefresh, storeVars
<1>4. \A x \in Reqs : Holds(x)' <=> Holds(x)
  BY <1>1, <1>2 DEF Holds, Live
<1>5. \A x \in Reqs : Live(x)' => Live(x) \/ req[x].pc = "scopeSet"
  BY <1>1, <1>2 DEF Live
<1>6. OneRefreshAtATime' /\ RunsOwnParameters'
  BY <1>1, <1>2, <1>3, <1>4, <1>5, SameHolders
<1>7. Placed'
  BY <1>1, <1>2 DEF GateInv, Placed
<1> QED BY <1>6, <1>7 DEF GateInv

LEMMA AnswerGate ==
    ASSUME TypeInv, GateInv, NEW r \in Reqs, AnswerAccepted(r) PROVE GateInv'
<1>1. req[r].pc = "launched" /\ req'[r].pc = "answered" /\ req'[r].query = req[r].query
  BY DEF AnswerAccepted, Answer, Request
<1>2. \A x \in Reqs : x # r => req'[x] = req[x]
  BY DEF AnswerAccepted, Answer
<1>3. UNCHANGED <<state, refreshMode, refreshScope, job>>
  BY DEF AnswerAccepted, storeVars, reconcilerVars
<1>4. \A x \in Reqs : (Live(x)' <=> Live(x)) /\ (Holds(x)' <=> Holds(x))
  BY <1>1, <1>2, <1>3 DEF Holds, Live
<1>5. OneRefreshAtATime' /\ RunsOwnParameters'
  BY <1>1, <1>2, <1>3, <1>4, SameHolders
<1>6. Placed'
  BY <1>1, <1>2, <1>3 DEF GateInv, Placed
<1> QED BY <1>5, <1>6 DEF GateInv

\* A step of a goroutine that goes on, and leaves the status, keeps the gate.
LEMMA GoesOnGate ==
    ASSUME TypeInv, GateInv, NEW r \in Reqs, Live(r),
           job'[r].pc \in {"launched", "fetching", "applied"},
           \A x \in Reqs : x # r => job'[x] = job[x],
           state'.status = state.status,
           UNCHANGED <<req, refreshMode, refreshScope>>
    PROVE  GateInv'
<1>1. \A x \in Reqs : (Live(x)' <=> Live(x)) /\ (Holds(x)' <=> Holds(x))
  BY DEF Holds, Live
<1>2. OneRefreshAtATime' /\ RunsOwnParameters'
  BY <1>1, SameHolders
<1>3. Placed'
  BY DEF GateInv, Placed, Live
<1> QED BY <1>2, <1>3 DEF GateInv

\* A goroutine that returns frees the gate, if it moves the status with it.
LEMMA ReturnGate ==
    ASSUME TypeInv, GateInv, NEW r \in Reqs, Live(r),
           NEW outcome \in {"completed", "failed"}, Return(r, outcome),
           state'.status # "running",
           UNCHANGED <<req, refreshMode, refreshScope>>
    PROVE  GateInv'
<1>1. job'[r].pc = outcome /\ \A x \in Reqs : x # r => job'[x] = job[x]
  BY DEF Return, NoJob
<1>2. req[r].pc \in {"launched", "answered"}
  BY DEF GateInv, Placed, Live
<1>3. \A x \in Reqs : x # r => ~Holds(x)
  BY DEF GateInv, OneRefreshAtATime, Holds
<1>4. ~Holds(r)' /\ ~Live(r)'
  BY <1>1, <1>2 DEF Holds, Live
<1>5. \A x \in Reqs : ~Holds(x)' /\ ~Live(x)'
  BY <1>1, <1>3, <1>4 DEF Holds, Live
<1>6. OneRefreshAtATime'
  BY <1>5 DEF OneRefreshAtATime
<1>7. \A x \in Reqs : req'[x].pc \notin {"modeSet", "scopeSet"}
  BY <1>5 DEF Holds
<1>8. RunsOwnParameters'
  BY <1>5, <1>7 DEF RunsOwnParameters
<1>9. Placed'
  BY <1>1, <1>2 DEF GateInv, Placed
<1> QED BY <1>6, <1>8, <1>9 DEF GateInv

LEMMA RefreshGate ==
    ASSUME TypeInv, GateInv, NEW r \in Reqs, RefreshStep(r) PROVE GateInv'
<1>1. req' = req
  BY DEF RefreshStep, handlerVars
<1>2. CASE BeginRefresh(r, now)
  <2>1. /\ Live(r) /\ job'[r].pc = "fetching"
        /\ \A x \in Reqs : x # r => job'[x] = job[x]
    BY <1>2 DEF BeginRefresh, Live, Job
  <2> QED BY <1>1, <1>2, <2>1, GoesOnGate DEF BeginRefresh, storeVars
<1>3. ASSUME NEW t \in Teams, FetchTeam(r, t, now) PROVE GateInv'
  <2>1. /\ Live(r) /\ job'[r].pc = "fetching"
        /\ \A x \in Reqs : x # r => job'[x] = job[x]
    BY <1>3 DEF FetchTeam, Live, Job
  <2> QED BY <1>1, <1>3, <2>1, GoesOnGate DEF FetchTeam, storeVars
<1>4. CASE FailTeamFetch(r)
  <2>1. Live(r) /\ state'.status = "failed"
    BY <1>4 DEF FailTeamFetch, FailRefresh, Live, State
  <2> QED BY <1>1, <1>4, <2>1, ReturnGate DEF FailTeamFetch
<1>5. CASE ApplyData(r)
  <2>1. /\ Live(r) /\ job'[r].pc = "applied"
        /\ \A x \in Reqs : x # r => job'[x] = job[x]
    BY <1>5 DEF ApplyData, Live, Job
  <2>2. state'.status = state.status
    BY <1>5 DEF ApplyData, SwapData, UpsertTeamData, State
  <2> QED BY <1>1, <1>5, <2>1, <2>2, GoesOnGate DEF ApplyData
<1>6. CASE FinishRefresh(r)
  <2>1. Live(r) /\ state'.status = "completed"
    BY <1>6 DEF FinishRefresh, CompleteRefresh, Live, State
  <2> QED BY <1>1, <1>6, <2>1, ReturnGate DEF FinishRefresh
<1> QED BY <1>2, <1>3, <1>4, <1>5, <1>6 DEF RefreshStep

LEMMA HandlerGate ==
    ASSUME TypeInv, GateInv, NEW r \in Reqs, HandlerStep(r) PROVE GateInv'
BY AcceptGate, RefuseGate, ModeGate, ScopeGate, LaunchGate, AnswerGate DEF HandlerStep

\* What the gate is about is left alone by the clients and the clock.
LEMMA OthersGate ==
    ASSUME GateInv, UNCHANGED <<state, refreshMode, refreshScope, job, req>> PROVE GateInv'
BY DEF GateInv, Placed, OneRefreshAtATime, RunsOwnParameters, Holds, Live

LEMMA NextGate == TypeInv /\ GateInv /\ [Next]_vars => GateInv'
<1> SUFFICES ASSUME TypeInv, GateInv, [Next]_vars PROVE GateInv'
  OBVIOUS
<1>1. ASSUME NEW r \in Reqs, SendRequest(r) \/ HandlerStep(r) \/ RefreshStep(r)
      PROVE  GateInv'
  BY <1>1, SendGate, HandlerGate, RefreshGate
<1>2. ASSUME NEW c \in Clients, ClientStep(c) PROVE GateInv'
  BY <1>2, OthersGate
     DEF ClientStep, PollStatus, CheckHasData, ComputeFullScorecard, storeVars, reconcilerVars
<1>3. CASE NextDay \/ UNCHANGED vars
  BY <1>3, OthersGate DEF NextDay, vars, storeVars, reconcilerVars, handlerVars
<1> QED BY <1>1, <1>2, <1>3 DEF Next, Waiting

LEMMA GateAlways == Spec => []GateInv
BY InitGate, NextGate, TypeInvAlways, PTL DEF Spec

\* The status is running exactly while one request holds the refresh, and two
\* never do, however many requests arrive and however their steps interleave.
THEOREM OneRefresh == Spec => []OneRefreshAtATime
BY GateAlways, PTL DEF GateInv

\* The unlocked mode and scope fields are always the running request's own.
THEOREM OwnParameters == Spec => []RunsOwnParameters
BY GateAlways, PTL DEF GateInv

-----------------------------------------------------------------------------
(* The data: what the store, the running refresh and the clients hold.     *)
(* All of it rests on the gate above: whoever holds it is alone, so what   *)
(* it read of the store is still there when it writes.                     *)

HIDE DEF TypeInv, TypeOK

Early(r) == req[r].pc \in {"unsent", "parsed"}

-----------------------------------------------------------------------------
(* The numbers of the refreshes.                                           *)

\* A request that was accepted has a number of its own, none greater than the
\* store's; the holder's is the store's; and a store that says completed means
\* its last refresh.
Numbers ==
    /\ \A r \in Reqs : job[r].run <= state.startedAt
    /\ \A r \in Reqs : Early(r) => job[r].run = 0
    /\ \A r \in Reqs : Holds(r) => job[r].run = state.startedAt
    /\ \A r \in Reqs : Holds(r) \/ req[r].pc = "launched" => job[r].run > 0
    /\ \A r, q \in Reqs : job[r].run = job[q].run /\ job[r].run > 0 => r = q
    /\ state.status = "completed" =>
         \A r \in Reqs : job[r].run = state.startedAt /\ job[r].run > 0
                           => job[r].pc = "completed"
    /\ state.status = "idle" => state.startedAt = 0

\* The answers that were given are true, and are given once.
Answers ==
    /\ \A r \in Reqs : req[r].code = "accepted" => req[r].pc = "answered"
    /\ AnswerIsTrue

\* A client that saw a refresh completed saw one that is.
Seen ==
    \A c \in Clients :
        /\ client[c].seen <= state.startedAt
        /\ \A r \in Reqs : job[r].run = client[c].seen /\ client[c].seen > 0
                             => job[r].pc = "completed"

\* What the steps after the checks know of the types.
LEMMA RunType ==
    ASSUME TypeInv
    PROVE  /\ state.startedAt \in Nat /\ state.status \in Status
           /\ \A r \in Reqs : job[r] \in Job /\ job[r].run \in Nat /\ job[r].pc \in JobPC
           /\ \A r \in Reqs : req[r] \in Request /\ req[r].pc \in ReqPC
           /\ \A c \in Clients : client[c] \in Client /\ client[c].seen \in Nat
           /\ teams \in TeamMap /\ refreshScope \in RefreshScope /\ now \in Nat
           /\ state \in State /\ job \in [Reqs -> Job] /\ req \in [Reqs -> Request]
           /\ client \in [Clients -> Client]
BY DEF TypeInv, TypeOK, State, Job, Request, Client

\* A step that starts and ends no refresh keeps the numbers.
LEMMA NumbersStay ==
    ASSUME Numbers, state'.startedAt = state.startedAt, state'.status = state.status,
           \A x \in Reqs : job'[x].run = job[x].run,
           \A x \in Reqs : job[x].pc = "completed" => job'[x].pc = "completed",
           \A x \in Reqs : Holds(x)' => Holds(x),
           \A x \in Reqs : req'[x].pc = "launched" => Holds(x) \/ req[x].pc = "launched",
           \A x \in Reqs : Early(x)' => Early(x)
    PROVE  Numbers'
BY DEF Numbers

\* An answer stays true: a refresh that has ended does not run again.
LEMMA AnswersStay ==
    ASSUME TypeInv, Answers,
           \A x \in Reqs : Live(x)' => Live(x) \/ req[x].pc = "scopeSet",
           \A x \in Reqs : req'[x].code = "accepted" => req'[x] = req[x]
    PROVE  Answers'
<1>1. ASSUME NEW x \in Reqs, req'[x].code = "accepted"
      PROVE  /\ req'[x].pc = "answered"
             /\ req'[x].body \in {"running", "completed", "failed"}
             /\ req'[x].body # "running" => ~Live(x)'
  BY <1>1 DEF Answers, AnswerIsTrue
<1> QED BY <1>1 DEF Answers, AnswerIsTrue

\* What a client saw stays completed.
LEMMA SeenStays ==
    ASSUME TypeInv, Seen, state'.startedAt \in Nat, state'.startedAt >= state.startedAt,
           \A x \in Reqs : \/ job'[x].run = job[x].run
                           \/ job'[x].run > state.startedAt,
           \A x \in Reqs : job[x].pc = "completed" => job'[x].pc = "completed",
           \A c \in Clients : client'[c].seen = client[c].seen
    PROVE  Seen'
<1>1. ASSUME NEW c \in Clients PROVE client'[c].seen <= state'.startedAt
  BY RunType DEF Seen
<1>2. ASSUME NEW c \in Clients, NEW r \in Reqs, job'[r].run = client'[c].seen,
             client'[c].seen > 0
      PROVE  job'[r].pc = "completed"
  <2>1. client[c].seen \in Nat /\ client[c].seen <= state.startedAt /\ state.startedAt \in Nat
    BY RunType DEF Seen
  <2>2. job'[r].run = job[r].run
    BY <1>2, <2>1
  <2> QED BY <1>2, <2>2 DEF Seen
<1> QED BY <1>1, <1>2 DEF Seen

Records == Numbers /\ Answers /\ Seen

\* A step of a handler that only moves on.
LEMMA RecordsStay ==
    ASSUME TypeInv, Records, state'.startedAt = state.startedAt, state'.status = state.status,
           \A x \in Reqs : job'[x].run = job[x].run,
           \A x \in Reqs : job[x].pc = "completed" => job'[x].pc = "completed",
           \A x \in Reqs : Holds(x)' => Holds(x),
           \A x \in Reqs : Live(x)' => Live(x) \/ req[x].pc = "scopeSet",
           \A x \in Reqs : req'[x].pc = "launched" => Holds(x) \/ req[x].pc = "launched",
           \A x \in Reqs : Early(x)' => Early(x),
           \A x \in Reqs : req'[x].code = "accepted" => req'[x] = req[x],
           \A c \in Clients : client'[c].seen = client[c].seen
    PROVE  Records'
<1>1. Numbers'
  BY NumbersStay DEF Records
<1>2. Answers'
  BY AnswersStay DEF Records
<1>3. Seen'
  BY SeenStays, RunType DEF Records
<1> QED BY <1>1, <1>2, <1>3 DEF Records

LEMMA InitRecords == Init => Records
<1> SUFFICES ASSUME Init PROVE Records
  OBVIOUS
<1>1. \A r \in Reqs : /\ req[r].pc = "unsent" /\ req[r].code = ""
                      /\ job[r].pc = "none" /\ job[r].run = 0
  BY DEF Init, HandlersInit, ReconcilerInit, NoJob
<1>2. state.status = "idle" /\ state.startedAt = 0
  BY DEF Init, StoreInit
<1>3. \A c \in Clients : client[c].seen = 0
  BY DEF Init, HandlersInit
<1>4. \A r \in Reqs : ~Holds(r) /\ ~Live(r)
  BY <1>1 DEF Holds, Live
<1>5. Numbers
  <2>1. ASSUME NEW r \in Reqs PROVE job[r].run <= state.startedAt /\ ~(job[r].run > 0)
    <3>1. job[r].run = 0 /\ state.startedAt = 0
      BY <1>1, <1>2
    <3> QED BY <3>1
  <2>2. \A r \in Reqs : req[r].pc # "launched"
    BY <1>1
  <2>3. state.status # "completed"
    BY <1>2
  <2> QED BY <1>1, <1>2, <1>4, <2>1, <2>2, <2>3 DEF Numbers
<1>6. Answers
  BY <1>1 DEF Answers, AnswerIsTrue
<1>7. Seen
  BY <1>2, <1>3 DEF Seen
<1> QED BY <1>5, <1>6, <1>7 DEF Records

LEMMA SendRecords ==
    ASSUME TypeInv, GateInv, Records, NEW r \in Reqs, SendRequest(r) PROVE Records'
<1>1. UNCHANGED <<state, job, client>>
  BY DEF SendRequest, ParseRequest, storeVars, reconcilerVars
<1>2. /\ req[r].pc = "unsent" /\ req'[r].pc \in {"parsed", "answered"}
      /\ req'[r].code # "accepted"
      /\ \A x \in Reqs : x # r => req'[x] = req[x]
  <2>1. PICK q \in Queries : ParseRequest(r, q)
    BY DEF SendRequest
  <2>2. req[r].pc = "unsent" /\ req[r].code # "accepted"
    BY <2>1 DEF ParseRequest, Records, Answers
  <2> DEFINE parsed == [req[r] EXCEPT !.pc = "parsed", !.query = q]
             refused == [req[r] EXCEPT !.pc = "answered", !.query = q, !.code = "bad_request"]
  <2>3. req' = [req EXCEPT ![r] = parsed] \/ req' = [req EXCEPT ![r] = refused]
    BY <2>1, RunType DEF ParseRequest
  <2>4. parsed.pc = "parsed" /\ parsed.code = req[r].code
    BY RunType DEF Request
  <2>5. refused.pc = "answered" /\ refused.code = "bad_request"
    BY RunType DEF Request
  <2>6. req'[r] \in {parsed, refused} /\ \A x \in Reqs : x # r => req'[x] = req[x]
    BY <2>3, RunType
  <2> HIDE DEF parsed, refused
  <2> QED BY <2>1, <2>2, <2>4, <2>5, <2>6 DEF ParseRequest
<1>3. \A x \in Reqs : (Holds(x)' => Holds(x)) /\ (Live(x)' => Live(x))
  BY <1>1, <1>2 DEF Holds, Live
<1> QED BY <1>1, <1>2, <1>3, RecordsStay DEF Early

\* The gate was free, so every number was smaller.
LEMMA AcceptRecords ==
    ASSUME TypeInv, GateInv, Records, NEW r \in Reqs, AcceptRequest(r) PROVE Records'
<1>1. /\ req[r].pc = "parsed" /\ req'[r].pc = "started" /\ req'[r].code = req[r].code
      /\ \A x \in Reqs : x # r => req'[x] = req[x]
  BY RunType DEF AcceptRequest, Request
<1>2. /\ job'[r].run = state.startedAt + 1 /\ job'[r].pc = job[r].pc
      /\ \A x \in Reqs : x # r => job'[x] = job[x]
  BY RunType DEF AcceptRequest, Job
<1>3. /\ state.status # "running" /\ state'.status = "running"
      /\ state'.startedAt = state.startedAt + 1
      /\ client' = client
  BY RunType DEF AcceptRequest, StartRefresh, CanStart, State
<1>4. \A x \in Reqs : ~Holds(x)
  BY <1>3 DEF GateInv, OneRefreshAtATime
<1>5. \A x \in Reqs : Holds(x)' => x = r
  BY <1>1, <1>2, <1>4 DEF Holds, Live
<1>6. \A x \in Reqs : job[x].run \in Nat /\ job[x].run <= state.startedAt
  BY RunType DEF Records, Numbers
<1>7. state.startedAt \in Nat
  BY RunType
<1>8. Numbers'
  <2>1. \A x \in Reqs : job'[x].run <= state'.startedAt
    BY <1>2, <1>3, <1>6, <1>7
  <2>2. \A x \in Reqs : Early(x)' => job'[x].run = 0
    BY <1>1, <1>2 DEF Early, Records, Numbers
  <2>3. \A x \in Reqs : Holds(x)' => job'[x].run = state'.startedAt
    BY <1>2, <1>3, <1>5
  <2>4. \A x \in Reqs : Holds(x)' \/ req'[x].pc = "launched" => job'[x].run > 0
    BY <1>1, <1>2, <1>5, <1>7 DEF Records, Numbers
  <2>5. \A x, y \in Reqs : job'[x].run = job'[y].run /\ job'[x].run > 0 => x = y
    BY <1>2, <1>6, <1>7 DEF Records, Numbers
  <2> QED BY <1>3, <2>1, <2>2, <2>3, <2>4, <2>5 DEF Numbers
<1>9. Answers'
  <2>1. \A x \in Reqs : req'[x].code = "accepted" => req'[x] = req[x]
    BY <1>1 DEF Records, Answers
  <2>2. \A x \in Reqs : Live(x)' => Live(x)
    BY <1>2 DEF Live
  <2> QED BY <2>1, <2>2, AnswersStay DEF Records
<1>10. Seen'
  <2>1. \A x \in Reqs : job'[x].run = job[x].run \/ job'[x].run > state.startedAt
    BY <1>2, <1>7
  <2>2. \A x \in Reqs : job[x].pc = "completed" => job'[x].pc = "completed"
    BY <1>2
  <2> QED BY <1>3, <1>7, <2>1, <2>2, SeenStays DEF Records
<1> QED BY <1>8, <1>9, <1>10 DEF Records

LEMMA HandlerRecords ==
    ASSUME TypeInv, GateInv, Records, NEW r \in Reqs, HandlerStep(r) PROVE Records'
<1> USE DEF storeVars, reconcilerVars
<1>1. CASE AcceptRequest(r)
  BY <1>1, AcceptRecords
<1>2. CASE RefuseRequest(r)
  <2>1. UNCHANGED <<state, job, client>>
    BY <1>2 DEF RefuseRequest
  <2>2. /\ req[r].pc = "parsed" /\ req'[r].pc = "answered" /\ req'[r].code = "conflict"
        /\ \A x \in Reqs : x # r => req'[x] = req[x]
    BY <1>2, RunType DEF RefuseRequest, Answer, Request
  <2>3. \A x \in Reqs : (Holds(x)' => Holds(x)) /\ (Live(x)' => Live(x))
    BY <2>1, <2>2 DEF Holds, Live
  <2> QED BY <2>1, <2>2, <2>3, RecordsStay DEF Early
<1>3. CASE SetRefreshMode(r)
  <2>1. UNCHANGED <<state, job, client>>
    BY <1>3 DEF SetRefreshMode
  <2>2. /\ req[r].pc = "started" /\ req'[r].pc = "modeSet" /\ req'[r].code = req[r].code
        /\ \A x \in Reqs : x # r => req'[x] = req[x]
    BY <1>3, RunType DEF SetRefreshMode, Request
  <2>3. \A x \in Reqs : (Holds(x)' => Holds(x)) /\ (Live(x)' => Live(x))
    BY <2>1, <2>2 DEF Holds, Live
  <2>4. req'[r].code # "accepted"
    BY <2>2 DEF Records, Answers
  <2> QED BY <2>1, <2>2, <2>3, <2>4, RecordsStay DEF Early
<1>4. CASE SetRefreshScope(r)
  <2>1. UNCHANGED <<state, job, client>>
    BY <1>4 DEF SetRefreshScope
  <2>2. /\ req[r].pc = "modeSet" /\ req'[r].pc = "scopeSet" /\ req'[r].code = req[r].code
        /\ \A x \in Reqs : x # r => req'[x] = req[x]
    BY <1>4, RunType DEF SetRefreshScope, Request
  <2>3. \A x \in Reqs : (Holds(x)' => Holds(x)) /\ (Live(x)' => Live(x))
    BY <2>1, <2>2 DEF Holds, Live
  <2>4. req'[r].code # "accepted"
    BY <2>2 DEF Records, Answers
  <2> QED BY <2>1, <2>2, <2>3, <2>4, RecordsStay DEF Early
<1>5. CASE LaunchRefresh(r)
  <2>1. UNCHANGED <<state, client>>
    BY <1>5 DEF LaunchRefresh
  <2>2. /\ req[r].pc = "scopeSet" /\ req'[r].pc = "launched" /\ req'[r].code = req[r].code
        /\ \A x \in Reqs : x # r => req'[x] = req[x]
    BY <1>5, RunType DEF LaunchRefresh, Request
  <2>3. /\ job'[r].run = job[r].run /\ job[r].pc = "none"
        /\ \A x \in Reqs : x # r => job'[x] = job[x]
    BY <1>5, <2>2, RunType DEF LaunchRefresh, Job, GateInv, Placed
  <2>4. Holds(r)
    BY <2>2 DEF Holds
  <2>5. \A x \in Reqs : (Holds(x)' => Holds(x)) /\ (Live(x)' => Live(x) \/ x = r)
    BY <2>2, <2>3, <2>4 DEF Holds, Live
  <2>6. req'[r].code # "accepted"
    BY <2>2 DEF Records, Answers
  <2> QED BY <2>1, <2>2, <2>3, <2>4, <2>5, <2>6, RecordsStay DEF Early
<1>6. CASE AnswerAccepted(r)
  <2>1. UNCHANGED <<state, job, client>>
    BY <1>6 DEF AnswerAccepted
  <2>2. /\ req[r].pc = "launched" /\ req'[r].pc = "answered" /\ req'[r].code = "accepted"
        /\ req'[r].body = state.status
        /\ \A x \in Reqs : x # r => req'[x] = req[x]
    BY <1>6, RunType DEF AnswerAccepted, Answer, Request
  <2>3. \A x \in Reqs : (Holds(x)' => Holds(x)) /\ (Live(x)' <=> Live(x))
    BY <2>1, <2>2 DEF Holds, Live
  <2>4. Numbers'
    BY <2>1, <2>2, <2>3, NumbersStay DEF Records, Early
  <2>5. state.status \in {"running", "completed", "failed"}
    <3>1. job[r].run > 0 /\ job[r].run <= state.startedAt
      BY <2>2 DEF Records, Numbers
    <3>2. state.status # "idle"
      BY <3>1, RunType DEF Records, Numbers
    <3> QED BY <3>2, RunType DEF Status
  <2>6. state.status # "running" => ~Live(r)
    BY DEF GateInv, OneRefreshAtATime, Holds
  <2>7. Answers'
    BY <2>2, <2>3, <2>5, <2>6 DEF Records, Answers, AnswerIsTrue
  <2>8. Seen'
    BY <2>1, RunType, SeenStays DEF Records
  <2> QED BY <2>4, <2>7, <2>8 DEF Records
<1> QED BY <1>1, <1>2, <1>3, <1>4, <1>5, <1>6 DEF HandlerStep

\* A goroutine that goes on starts and ends nothing.
LEMMA GoesOnRecords ==
    ASSUME TypeInv, Records, NEW r \in Reqs, Live(r),
           job'[r].pc \in {"launched", "fetching", "applied"}, job'[r].run = job[r].run,
           \A x \in Reqs : x # r => job'[x] = job[x],
           state'.startedAt = state.startedAt, state'.status = state.status,
           UNCHANGED <<req, client>>
    PROVE  Records'
<1>1. \A x \in Reqs : (Holds(x)' => Holds(x)) /\ (Live(x)' => Live(x))
  BY DEF Holds, Live
<1>2. job[r].pc # "completed"
  BY DEF Live
<1> QED BY <1>1, <1>2, RecordsStay DEF Early, Records, Answers

\* A goroutine that returns was the one with the store's number.
LEMMA ReturnRecords ==
    ASSUME TypeInv, GateInv, Records, NEW r \in Reqs, Live(r),
           NEW outcome \in {"completed", "failed"}, Return(r, outcome),
           state'.status = outcome, state'.startedAt = state.startedAt,
           UNCHANGED <<req, client>>
    PROVE  Records'
<1>1. /\ job'[r].pc = outcome /\ job'[r].run = job[r].run
      /\ \A x \in Reqs : x # r => job'[x] = job[x]
  BY RunType DEF Return, NoJob, Job
<1>2. Holds(r) /\ job[r].pc # "completed"
  BY DEF Holds, Live
<1>3. \A x \in Reqs : (Holds(x)' => Holds(x)) /\ (Live(x)' => Live(x))
  BY <1>1 DEF Holds, Live
<1>4. job[r].run = state.startedAt /\ job[r].run > 0
  BY <1>2 DEF Records, Numbers
<1>5. Numbers'
  <2>1. \A x \in Reqs : job'[x].run = job[x].run
    BY <1>1
  <2>2. ASSUME outcome = "completed", NEW x \in Reqs, job'[x].run = state'.startedAt,
               job'[x].run > 0
        PROVE  job'[x].pc = "completed"
    BY <1>1, <1>4, <2>1, <2>2 DEF Records, Numbers
  <2>3. state'.status # "idle"
    OBVIOUS
  <2> QED BY <1>3, <2>1, <2>2, <2>3 DEF Records, Numbers, Early
<1>6. Answers'
  BY <1>3, AnswersStay DEF Records
<1>7. Seen'
  BY <1>1, <1>2, SeenStays, RunType DEF Records
<1> QED BY <1>5, <1>6, <1>7 DEF Records

LEMMA RefreshRecords ==
    ASSUME TypeInv, GateInv, Records, NEW r \in Reqs, RefreshStep(r) PROVE Records'
<1>1. UNCHANGED <<req, client>>
  BY DEF RefreshStep, handlerVars
<1>2. CASE BeginRefresh(r, now)
  <2>1. /\ Live(r) /\ job'[r].pc = "fetching" /\ job'[r].run = job[r].run
        /\ \A x \in Reqs : x # r => job'[x] = job[x]
        /\ state' = state
    BY <1>2, RunType DEF BeginRefresh, Live, Job, storeVars
  <2> QED BY <1>1, <2>1, GoesOnRecords
<1>3. ASSUME NEW t \in Teams, FetchTeam(r, t, now) PROVE Records'
  <2>1. /\ Live(r) /\ job'[r].pc = "fetching" /\ job'[r].run = job[r].run
        /\ \A x \in Reqs : x # r => job'[x] = job[x]
        /\ state' = state
    BY <1>3, RunType DEF FetchTeam, Live, Job, storeVars
  <2> QED BY <1>1, <2>1, GoesOnRecords
<1>4. CASE FailTeamFetch(r)
  <2>1. Live(r) /\ state'.status = "failed" /\ state'.startedAt = state.startedAt
    BY <1>4, RunType DEF FailTeamFetch, FailRefresh, Live, State
  <2> QED BY <1>1, <1>4, <2>1, ReturnRecords DEF FailTeamFetch
<1>5. CASE ApplyData(r)
  <2>1. /\ Live(r) /\ job'[r].pc = "applied" /\ job'[r].run = job[r].run
        /\ \A x \in Reqs : x # r => job'[x] = job[x]
    BY <1>5, RunType DEF ApplyData, Live, Job
  <2>2. state'.status = state.status /\ state'.startedAt = state.startedAt
    BY <1>5, RunType DEF ApplyData, SwapData, UpsertTeamData, State
  <2> QED BY <1>1, <2>1, <2>2, GoesOnRecords
<1>6. CASE FinishRefresh(r)
  <2>1. Live(r) /\ state'.status = "completed" /\ state'.startedAt = state.startedAt
    BY <1>6, RunType DEF FinishRefresh, CompleteRefresh, Live, State
  <2> QED BY <1>1, <1>6, <2>1, ReturnRecords DEF FinishRefresh
<1> QED BY <1>2, <1>3, <1>4, <1>5, <1>6 DEF RefreshStep

LEMMA ClientRecords ==
    ASSUME TypeInv, Records, NEW c \in Clients, ClientStep(c) PROVE Records'
<1>1. UNCHANGED <<state, job, req>>
  BY DEF ClientStep, PollStatus, CheckHasData, ComputeFullScorecard, storeVars, reconcilerVars
<1>2. \A x \in Reqs : (Holds(x)' <=> Holds(x)) /\ (Live(x)' <=> Live(x))
  BY <1>1 DEF Holds, Live
<1>3. Numbers'
  BY <1>1, <1>2 DEF Records, Numbers, Early
<1>4. Answers'
  BY <1>1, <1>2 DEF Records, Answers, AnswerIsTrue
<1>5. \A d \in Clients : d # c => client'[d] = client[d]
  BY RunType DEF ClientStep, PollStatus, CheckHasData, ComputeFullScorecard
<1>6. \/ client'[c].seen = client[c].seen
      \/ client'[c].seen = 0
      \/ state.status = "completed" /\ client'[c].seen = state.startedAt
  BY RunType DEF ClientStep, PollStatus, CheckHasData, ComputeFullScorecard, Client
<1>7. Seen'
  <2>1. ASSUME NEW d \in Clients PROVE client'[d].seen <= state'.startedAt
    BY <1>1, <1>5, <1>6, RunType DEF Records, Seen
  <2>2. ASSUME NEW d \in Clients, NEW x \in Reqs, job'[x].run = client'[d].seen,
               client'[d].seen > 0
        PROVE  job'[x].pc = "completed"
    BY <1>1, <1>5, <1>6, <2>2, RunType DEF Records, Seen, Numbers
  <2> QED BY <2>1, <2>2 DEF Seen
<1> QED BY <1>3, <1>4, <1>7 DEF Records

LEMMA NextRecords == TypeInv /\ GateInv /\ Records /\ [Next]_vars => Records'
<1> SUFFICES ASSUME TypeInv, GateInv, Records, [Next]_vars PROVE Records'
  OBVIOUS
<1>1. ASSUME NEW r \in Reqs, SendRequest(r) \/ HandlerStep(r) \/ RefreshStep(r)
      PROVE  Records'
  BY <1>1, SendRecords, HandlerRecords, RefreshRecords
<1>2. ASSUME NEW c \in Clients, ClientStep(c) PROVE Records'
  BY <1>2, ClientRecords
<1>3. CASE NextDay \/ UNCHANGED vars
  <2>1. UNCHANGED <<state, job, req, client>>
    BY <1>3 DEF NextDay, vars, storeVars, reconcilerVars, handlerVars
  <2> QED BY <2>1 DEF Records, Numbers, Answers, AnswerIsTrue, Seen, Holds, Live, Early
<1> QED BY <1>1, <1>2, <1>3 DEF Next, Waiting

LEMMA RecordsAlways == Spec => []Records
BY InitRecords, NextRecords, TypeInvAlways, GateAlways, PTL DEF Spec

\* A 202 says failed or completed only of a refresh that has ended, its own or
\* a later one, although the state is read after the goroutine was launched.
THEOREM AnswersAreTrue == Spec => []AnswerIsTrue
BY RecordsAlways, PTL DEF Records, Answers

-----------------------------------------------------------------------------
(* The data.                                                               *)

Types(r) == RefreshedTypes(ScopeOf(req[r].query))

RunsOf(data, t, s) == {p.run : p \in PeriodsOf(data, t, s)}

\* A team's new data: of the set types the refresh covers, its own periods; of
\* the others, those that are stored.
Covers(r, data, t) ==
    /\ Unique(data[t].periods)
    /\ \A s \in Types(r) : RunsOf(data, t, s) = {job[r].run}
    /\ \A s \in SetTypes \ Types(r) : PeriodsOf(data, t, s) = PeriodsOf(teams, t, s)

\* What the goroutine of a request has in its frame.
Frame(r) ==
    /\ job[r].pc \in {"none", "launched"} =>
         job[r].fetched = NoTeams /\ job[r].count = {}
    /\ job[r].pc = "fetching" =>
         /\ job[r].types = Types(r)
         /\ job[r].cadences # {}
         /\ \A c, d \in job[r].cadences : c.window = d.window => c = d
         /\ job[r].count = CountOf(job[r].fetched)
         /\ \A t \in Present(job[r].fetched) : Covers(r, job[r].fetched, t)
    /\ job[r].pc = "applied" => job[r].count = CountOf(teams)

\* All teams are stored or none, and of each set type the same refreshes.
Whole(data) ==
    /\ Present(data) \in {{}, Teams}
    /\ \A s \in SetTypes : \A t, u \in Teams : RunsOf(data, t, s) = RunsOf(data, u, s)

\* What a refresh has applied is there, or something newer is.
Reached(r) ==
    /\ Types(r) \subseteq SetTypes
    /\ \A t \in Teams, s \in Types(r) :
        /\ PeriodsOf(teams, t, s) # {}
        /\ \A p \in PeriodsOf(teams, t, s) : p.run >= job[r].run

Stored ==
    /\ \A t \in Present(teams) : Unique(teams[t].periods)
    /\ CountMatchesData
    /\ Whole(teams)
    /\ \A r \in Reqs : job[r].pc \in {"applied", "completed"} => Reached(r)

Views ==
    /\ \A c \in Clients : client[c].pc = "checked" => Present(teams) = Teams
    /\ ScorecardIsWhole
    /\ CompletedIsVisible

DataInv == /\ \A r \in Reqs : Frame(r)
           /\ Stored
           /\ Views

LEMMA InitData == Init => DataInv
<1> SUFFICES ASSUME Init PROVE DataInv
  OBVIOUS
<1>1. teams = NoTeams /\ state.issueCount = {}
  BY DEF Init, StoreInit
<1>2. \A r \in Reqs : job[r].pc = "none" /\ job[r].fetched = NoTeams /\ job[r].count = {}
  BY DEF Init, ReconcilerInit, NoJob
<1>3. \A c \in Clients : client[c].pc = "idle"
  BY DEF Init, HandlersInit
<1>4. \A t \in Teams, s \in SetTypes : PeriodsOf(NoTeams, t, s) = {}
  BY DEF PeriodsOf, NoTeams
<1>5. \A t, u \in Teams, s \in SetTypes : RunsOf(NoTeams, t, s) = RunsOf(NoTeams, u, s)
  BY <1>4 DEF RunsOf
<1>6. Stored
  <2>1. Whole(teams)
    BY <1>1, <1>5, CountOfNone DEF Whole
  <2> QED BY <1>1, <1>2, <2>1, CountOfNone DEF Stored, CountMatchesData
<1>7. Views
  BY <1>3 DEF Views, ScorecardIsWhole, CompletedIsVisible
<1> QED BY <1>2, <1>6, <1>7 DEF DataInv, Frame

-----------------------------------------------------------------------------
(* Steps that leave the stored data.                                       *)

LEMMA SameFrame ==
    ASSUME NEW x \in Reqs, Frame(x), job'[x] = job[x], req'[x].query = req[x].query,
           teams' = teams
    PROVE  Frame(x)'
<1>1. Types(x)' = Types(x)
  BY DEF Types
<1>2. \A data, t : Covers(x, data, t) =>
          /\ Unique(data[t].periods)
          /\ \A s \in Types(x)' : RunsOf(data, t, s) = {job'[x].run}
          /\ \A s \in SetTypes \ Types(x)' : PeriodsOf(data, t, s) = PeriodsOf(teams', t, s)
  BY <1>1 DEF Covers
<1> QED BY <1>1, <1>2 DEF Frame, Covers

LEMMA DeadFrame ==
    ASSUME NEW x \in Reqs, ~Live(x), Frame(x),
           job'[x].pc = job[x].pc, job'[x].fetched = job[x].fetched,
           job'[x].count = job[x].count
    PROVE  Frame(x)'
BY DEF Frame, Live

\* What is stored stays what it should be if the data and its count stay, and
\* nobody claims to have applied what it has not.
LEMMA StoredStays ==
    ASSUME Stored, teams' = teams, state'.issueCount = state.issueCount,
           \A x \in Reqs : job'[x].pc \in {"applied", "completed"} =>
                /\ job[x].pc \in {"applied", "completed"}
                /\ job'[x].run = job[x].run
                /\ req'[x].query = req[x].query
    PROVE  Stored'
<1>1. ASSUME NEW x \in Reqs, job'[x].pc \in {"applied", "completed"} PROVE Reached(x)'
  <2>1. Types(x)' = Types(x) /\ job'[x].run = job[x].run /\ Reached(x)
    BY <1>1 DEF Types, Stored
  <2> QED BY <2>1 DEF Reached
<1>2. Whole(teams)' /\ CountMatchesData'
  BY DEF Stored, Whole, CountMatchesData
<1> QED BY <1>1, <1>2 DEF Stored

\* What clients hold stays what it should be: a new number is greater than all
\* they saw, and a request not yet accepted has none.
LEMMA ViewsStay ==
    ASSUME TypeInv, Records, Views, client' = client,
           Present(teams') = Teams \/ teams' = teams,
           \A x \in Reqs : \/ job'[x].run > state.startedAt
                           \/ job'[x].run = 0
                           \/ job'[x].run = job[x].run /\ req'[x].query = req[x].query
    PROVE  Views'
<1>1. \A c \in Clients : client'[c].pc = "checked" => Present(teams') = Teams
  BY DEF Views
<1>2. ScorecardIsWhole'
  BY DEF Views, ScorecardIsWhole
<1>3. CompletedIsVisible'
  <2> SUFFICES ASSUME NEW c \in Clients, NEW r \in Reqs, client'[c].pc = "served",
                      job'[r].run = client'[c].seen, client'[c].seen > 0,
                      NEW t \in Teams, NEW s \in RefreshedTypes(ScopeOf(req'[r].query))
               PROVE  /\ PeriodsOf(client'[c].view, t, s) # {}
                      /\ \A p \in PeriodsOf(client'[c].view, t, s) : p.run >= client'[c].seen
    BY DEF CompletedIsVisible
  <2>1. client[c].seen \in Nat /\ client[c].seen <= state.startedAt /\ state.startedAt \in Nat
    BY RunType DEF Records, Seen
  <2>2. job'[r].run = job[r].run /\ req'[r].query = req[r].query
    BY <2>1
  <2> QED BY <2>2 DEF Views, CompletedIsVisible
<1> QED BY <1>1, <1>2, <1>3 DEF Views

\* A step that leaves the stored data and what the clients hold.
LEMMA DataStays ==
    ASSUME TypeInv, Records, DataInv,
           teams' = teams, state'.issueCount = state.issueCount, client' = client,
           \A x \in Reqs : Frame(x)',
           \A x \in Reqs : job'[x].pc \in {"applied", "completed"} =>
                /\ job[x].pc \in {"applied", "completed"}
                /\ job'[x].run = job[x].run
                /\ req'[x].query = req[x].query,
           \A x \in Reqs : \/ job'[x].run > state.startedAt
                           \/ job'[x].run = 0
                           \/ job'[x].run = job[x].run /\ req'[x].query = req[x].query
    PROVE  DataInv'
<1>1. Stored'
  BY StoredStays DEF DataInv
<1>2. Views'
  BY ViewsStay DEF DataInv
<1> QED BY <1>1, <1>2 DEF DataInv

\* A step of a handler that leaves the refreshes and the queries.
LEMMA HandlerOnData ==
    ASSUME TypeInv, Records, DataInv, UNCHANGED <<state, teams, job, client>>,
           \A x \in Reqs : req'[x].query = req[x].query
    PROVE  DataInv'
<1>1. \A x \in Reqs : Frame(x)'
  BY SameFrame DEF DataInv
<1> QED BY <1>1, DataStays

LEMMA SendData ==
    ASSUME TypeInv, GateInv, Records, DataInv, NEW r \in Reqs, SendRequest(r)
    PROVE  DataInv'
<1>1. UNCHANGED <<state, teams, job, client>>
  BY DEF SendRequest, ParseRequest, storeVars, reconcilerVars
<1>2. req[r].pc = "unsent" /\ \A x \in Reqs : x # r => req'[x] = req[x]
  BY RunType DEF SendRequest, ParseRequest
<1>3. job[r].pc = "none" /\ job[r].run = 0
  BY <1>2 DEF GateInv, Placed, Records, Numbers, Early
<1>4. ASSUME NEW x \in Reqs PROVE Frame(x)'
  <2>1. CASE x = r
    BY <1>1, <1>3, <2>1, DeadFrame DEF Live, DataInv
  <2>2. CASE x # r
    BY <1>1, <1>2, <2>2, SameFrame DEF DataInv
  <2> QED BY <2>1, <2>2
<1> QED BY <1>1, <1>2, <1>3, <1>4, DataStays

LEMMA AcceptData ==
    ASSUME TypeInv, GateInv, Records, DataInv, NEW r \in Reqs, AcceptRequest(r)
    PROVE  DataInv'
<1>1. /\ req[r].pc = "parsed" /\ req'[r].query = req[r].query
      /\ \A x \in Reqs : x # r => req'[x] = req[x]
  BY RunType DEF AcceptRequest, Request
<1>2. /\ job'[r].run = state.startedAt + 1
      /\ job'[r].pc = job[r].pc /\ job'[r].fetched = job[r].fetched
      /\ job'[r].count = job[r].count
      /\ \A x \in Reqs : x # r => job'[x] = job[x]
  BY RunType DEF AcceptRequest, Job
<1>3. teams' = teams /\ client' = client /\ state'.issueCount = state.issueCount
  BY RunType DEF AcceptRequest, StartRefresh, State
<1>4. job[r].pc = "none"
  BY <1>1 DEF GateInv, Placed
<1>5. job'[r].run > state.startedAt
  BY <1>2, RunType
<1>6. ASSUME NEW x \in Reqs PROVE Frame(x)'
  <2>1. CASE x = r
    BY <1>2, <1>4, <2>1, DeadFrame DEF Live, DataInv
  <2>2. CASE x # r
    BY <1>1, <1>2, <1>3, <2>2, SameFrame DEF DataInv
  <2> QED BY <2>1, <2>2
<1> QED BY <1>1, <1>2, <1>3, <1>4, <1>5, <1>6, DataStays

LEMMA LaunchData ==
    ASSUME TypeInv, GateInv, Records, DataInv, NEW r \in Reqs, LaunchRefresh(r)
    PROVE  DataInv'
<1>1. /\ req[r].pc = "scopeSet" /\ req'[r].query = req[r].query
      /\ \A x \in Reqs : x # r => req'[x] = req[x]
  BY RunType DEF LaunchRefresh, Request
<1>2. /\ job'[r].pc = "launched" /\ job'[r].run = job[r].run
      /\ job'[r].fetched = job[r].fetched /\ job'[r].count = job[r].count
      /\ \A x \in Reqs : x # r => job'[x] = job[x]
  BY RunType DEF LaunchRefresh, Job
<1>3. UNCHANGED <<state, teams, client>>
  BY DEF LaunchRefresh, storeVars
<1>4. job[r].pc = "none"
  BY <1>1 DEF GateInv, Placed
<1>5. ASSUME NEW x \in Reqs PROVE Frame(x)'
  <2>1. CASE x = r
    BY <1>2, <1>4, <2>1 DEF Frame, DataInv
  <2>2. CASE x # r
    BY <1>1, <1>2, <1>3, <2>2, SameFrame DEF DataInv
  <2> QED BY <2>1, <2>2
<1> QED BY <1>1, <1>2, <1>3, <1>4, <1>5, DataStays

LEMMA HandlerData ==
    ASSUME TypeInv, GateInv, Records, DataInv, NEW r \in Reqs, HandlerStep(r)
    PROVE  DataInv'
<1> USE DEF storeVars, reconcilerVars
<1>1. CASE RefuseRequest(r) \/ SetRefreshMode(r) \/ SetRefreshScope(r) \/ AnswerAccepted(r)
  <2>1. UNCHANGED <<state, teams, job, client>>
    BY <1>1 DEF RefuseRequest, SetRefreshMode, SetRefreshScope, AnswerAccepted
  <2>2. \A x \in Reqs : req'[x].query = req[x].query
    <3>1. \A x \in Reqs : x # r => req'[x] = req[x]
      BY <1>1, RunType DEF RefuseRequest, SetRefreshMode, SetRefreshScope, AnswerAccepted, Answer
    <3>2. CASE RefuseRequest(r)
      BY <3>1, <3>2, RunType DEF RefuseRequest, Answer, Request
    <3>3. CASE SetRefreshMode(r)
      BY <3>1, <3>3, RunType DEF SetRefreshMode, Request
    <3>4. CASE SetRefreshScope(r)
      BY <3>1, <3>4, RunType DEF SetRefreshScope, Request
    <3>5. CASE AnswerAccepted(r)
      BY <3>1, <3>5, RunType DEF AnswerAccepted, Answer, Request
    <3> QED BY <1>1, <3>2, <3>3, <3>4, <3>5
  <2> QED BY <2>1, <2>2, HandlerOnData
<1> QED BY <1>1, AcceptData, LaunchData DEF HandlerStep

\* What a client is served is what is stored.
LEMMA ClientData ==
    ASSUME TypeInv, GateInv, Records, DataInv, NEW c \in Clients, ClientStep(c)
    PROVE  DataInv'
<1>1. UNCHANGED <<state, teams, job, req>>
  BY DEF ClientStep, PollStatus, CheckHasData, ComputeFullScorecard, storeVars, reconcilerVars
<1>2. \A d \in Clients : d # c => client'[d] = client[d]
  BY RunType DEF ClientStep, PollStatus, CheckHasData, ComputeFullScorecard
<1>3. \A x \in Reqs : Frame(x)'
  BY <1>1, SameFrame DEF DataInv
<1>4. Stored'
  BY <1>1, StoredStays DEF DataInv
<1>5. \/ client'[c].pc \in {"polled", "unavailable"}
      \/ client'[c].pc = "checked" /\ Present(teams) = Teams
      \/ /\ client[c].pc = "checked" /\ client'[c].pc = "served"
         /\ client'[c].view = teams /\ client'[c].seen = client[c].seen
  <2>1. CASE PollStatus(c)
    BY <2>1, RunType DEF PollStatus, Client
  <2>2. CASE CheckHasData(c)
    <3>1. HasData => Present(teams) = Teams
      BY DEF HasData, DataInv, Stored, Whole
    <3> QED BY <2>2, <3>1, RunType DEF CheckHasData, Client
  <2>3. CASE ComputeFullScorecard(c)
    BY <2>3, RunType DEF ComputeFullScorecard, Client
  <2> QED BY <2>1, <2>2, <2>3 DEF ClientStep
<1>6. Views'
  <2>1. ASSUME NEW d \in Clients, client'[d].pc = "checked" PROVE Present(teams') = Teams
    BY <1>1, <1>2, <1>5, <2>1 DEF DataInv, Views
  <2>2. ASSUME NEW d \in Clients, client'[d].pc = "served"
        PROVE  /\ Present(client'[d].view) = Teams
               /\ \A s \in SetTypes, t, u \in Teams :
                    RunsOf(client'[d].view, t, s) = RunsOf(client'[d].view, u, s)
    <3>1. CASE d = c
      <4>1. client'[d].view = teams /\ Present(teams) = Teams
        BY <1>5, <2>2, <3>1 DEF DataInv, Views
      <4>2. Whole(teams)
        BY DEF DataInv, Stored
      <4> QED BY <4>1, <4>2 DEF Whole
    <3>2. CASE d # c
      <4>1. client'[d] = client[d]
        BY <1>2, <3>2
      <4>2. Present(client[d].view) = Teams
        BY <2>2, <4>1 DEF DataInv, Views, ScorecardIsWhole
      <4>3. ASSUME NEW s \in SetTypes, NEW t \in Teams, NEW u \in Teams
            PROVE  RunsOf(client[d].view, t, s) = RunsOf(client[d].view, u, s)
        BY <2>2, <4>1 DEF DataInv, Views, ScorecardIsWhole, RunsOf
      <4> QED BY <4>1, <4>2, <4>3
    <3> QED BY <3>1, <3>2
  <2>3. ScorecardIsWhole'
    BY <2>2 DEF ScorecardIsWhole, RunsOf
  <2>4. CompletedIsVisible'
    <3> SUFFICES ASSUME NEW d \in Clients, NEW r \in Reqs, client'[d].pc = "served",
                        job'[r].run = client'[d].seen, client'[d].seen > 0,
                        NEW t \in Teams, NEW s \in RefreshedTypes(ScopeOf(req'[r].query))
                 PROVE  /\ PeriodsOf(client'[d].view, t, s) # {}
                        /\ \A p \in PeriodsOf(client'[d].view, t, s) :
                             p.run >= client'[d].seen
      BY DEF CompletedIsVisible
    <3>1. CASE d # c
      BY <1>1, <1>2, <3>1 DEF DataInv, Views, CompletedIsVisible
    <3>2. CASE d = c
      <4>1. job[r].run = client[c].seen /\ client[c].seen > 0
        BY <1>1, <1>5, <3>2
      <4>2. Reached(r)
        BY <4>1 DEF DataInv, Stored, Records, Seen
      <4> QED BY <1>1, <1>5, <3>2, <4>1, <4>2 DEF Reached, Types
    <3> QED BY <3>1, <3>2
  <2> QED BY <2>1, <2>3, <2>4 DEF Views
<1> QED BY <1>3, <1>4, <1>6 DEF DataInv

\* A goroutine that returns leaves the store's count as it is: what it counted
\* is what has been stored since it applied it.
LEMMA ReturnData ==
    ASSUME TypeInv, GateInv, Records, DataInv, NEW r \in Reqs,
           FailTeamFetch(r) \/ FinishRefresh(r), UNCHANGED <<req, client>>
    PROVE  DataInv'
<1>1. CASE FailTeamFetch(r)
  <2>1. /\ job'[r].pc = "failed" /\ job'[r].run = job[r].run
        /\ \A x \in Reqs : x # r => job'[x] = job[x]
    BY <1>1, RunType DEF FailTeamFetch, Return, NoJob
  <2>2. teams' = teams /\ state'.issueCount = state.issueCount
    BY <1>1, RunType DEF FailTeamFetch, FailRefresh, State
  <2>3. Frame(r)'
    BY <2>1 DEF Frame
  <2>4. \A x \in Reqs : x # r => Frame(x)'
    BY <2>1, <2>2, SameFrame DEF DataInv
  <2> QED BY <2>1, <2>2, <2>3, <2>4, DataStays
<1>2. CASE FinishRefresh(r)
  <2>1. /\ job[r].pc = "applied" /\ job'[r].pc = "completed" /\ job'[r].run = job[r].run
        /\ \A x \in Reqs : x # r => job'[x] = job[x]
    BY <1>2, RunType DEF FinishRefresh, Return, NoJob
  <2>2. teams' = teams /\ state'.issueCount = job[r].count
    BY <1>2, RunType DEF FinishRefresh, CompleteRefresh, State
  <2>3. state'.issueCount = state.issueCount
    BY <2>1, <2>2 DEF DataInv, Frame, Stored, CountMatchesData
  <2>4. Frame(r)'
    BY <2>1 DEF Frame
  <2>5. \A x \in Reqs : x # r => Frame(x)'
    BY <2>1, <2>2, SameFrame DEF DataInv
  <2> QED BY <2>1, <2>2, <2>3, <2>4, <2>5, DataStays
<1> QED BY <1>1, <1>2

\* The refresh takes the scope of its own request.
LEMMA BeginData ==
    ASSUME TypeInv, GateInv, Records, DataInv, NEW r \in Reqs, BeginRefresh(r, now),
           UNCHANGED <<req, client>>
    PROVE  DataInv'
<1> DEFINE cadences == RefreshCadences(refreshScope, now)
           types == RefreshedTypes(refreshScope)
           next == [job[r] EXCEPT !.pc = "fetching", !.cadences = cadences, !.types = types]
<1>1. job[r].pc = "launched" /\ UNCHANGED <<state, teams>>
  BY DEF BeginRefresh, storeVars
<1>2. job' = [job EXCEPT ![r] = next]
  BY DEF BeginRefresh
<1>3. /\ next.pc = "fetching" /\ next.cadences = cadences /\ next.types = types
      /\ next.run = job[r].run /\ next.fetched = job[r].fetched
      /\ next.count = job[r].count
  BY RunType DEF Job
<1> HIDE DEF next
<1>4. job'[r] = next /\ \A x \in Reqs : x # r => job'[x] = job[x]
  BY <1>2, RunType
<1>5. types = Types(r)'
  <2>1. refreshScope = ScopeOf(req[r].query)
    BY <1>1 DEF GateInv, RunsOwnParameters, Live
  <2> QED BY <2>1 DEF Types
<1>6. cadences # {} /\ \A c, d \in cadences : c.window = d.window => c = d
  BY RunType, CadencesDiffer
<1>7. next.fetched = NoTeams /\ next.count = CountOf(next.fetched)
      /\ Present(next.fetched) = {}
  BY <1>1, <1>3, CountOfNone DEF DataInv, Frame
<1> HIDE DEF cadences, types
<1>8. Frame(r)'
  BY <1>3, <1>4, <1>5, <1>6, <1>7 DEF Frame
<1>9. \A x \in Reqs : x # r => Frame(x)'
  BY <1>1, <1>4, SameFrame DEF DataInv
<1> QED BY <1>1, <1>3, <1>4, <1>8, <1>9, DataStays

\* The periods a merge returns: its own of the refreshed set types, the stored
\* ones of the others.
LEMMA MergeCovers ==
    ASSUME TypeInv, GateInv, DataInv, NEW r \in Reqs, job[r].pc = "fetching",
           NEW t \in Teams, NEW day \in Nat, NEW data, data[t] # Absent,
           data[t].periods = MergeExistingPeriods(r, t,
                FetchedPeriods(job[r].cadences, job[r].types, day, job[r].run))
    PROVE  Covers(r, data, t)
<1> DEFINE fetched == FetchedPeriods(job[r].cadences, job[r].types, day, job[r].run)
           periods == MergeExistingPeriods(r, t, fetched)
           stored == teams[t].periods
<1>1. /\ refreshScope = ScopeOf(req[r].query)
      /\ job[r].types = Types(r) /\ job[r].cadences # {}
      /\ \A c, d \in job[r].cadences : c.window = d.window => c = d
  BY DEF GateInv, RunsOwnParameters, Live, DataInv, Frame
<1>2. Types(r) \subseteq SetTypes
  BY <1>1, RunType, TypesType DEF Types
<1>3. Unique(fetched)
  BY <1>1, FetchedUnique
<1>4. \A p \in fetched : p.run = job[r].run /\ p.setType \in Types(r)
  <2>1. job[r].types \in SUBSET SetTypes
    BY <1>1, <1>2
  <2> QED BY <1>1, <2>1, FetchedRuns
<1>5. \A s \in Types(r) : \E p \in fetched : p.setType = s
  BY <1>1, <1>2, FetchedRuns
<1> HIDE DEF fetched
<1>6. data[t].periods = periods /\ \A s : PeriodsOf(data, t, s) = {p \in periods : p.setType = s}
  BY DEF PeriodsOf, fetched
<1>7. /\ Unique(periods)
      /\ \A p \in fetched : p \in periods
      /\ \A p \in periods : p \in fetched \/ p.setType \notin Types(r)
      /\ \A s \in SetTypes \ Types(r) :
            {p \in periods : p.setType = s} = PeriodsOf(teams, t, s)
  <2>1. CASE refreshScope # Unscoped /\ teams[t] # Absent
    <3>1. periods = fetched \cup PreservedPeriods(stored, Types(r))
      BY <1>1, <2>1 DEF MergeExistingPeriods
    <3>2. Unique(stored)
      BY <2>1 DEF DataInv, Stored, Present
    <3>3. Unique(periods)
      BY <1>3, <1>4, <3>1, <3>2, MergedUnique
    <3>4. \A s : PeriodsOf(teams, t, s) = {p \in stored : p.setType = s}
      BY <2>1 DEF PeriodsOf
    <3> QED BY <1>4, <3>1, <3>3, <3>4 DEF PreservedPeriods
  <2>2. CASE refreshScope = Unscoped
    <3>1. periods = fetched
      BY <2>2 DEF MergeExistingPeriods
    <3>2. Types(r) = SetTypes
      <4>1. Unscoped.status = ""
        BY DEF Unscoped
      <4> QED BY <1>1, <2>2, <4>1 DEF Types, RefreshedTypes
    <3> QED BY <1>3, <3>1, <3>2
  <2>3. CASE teams[t] = Absent
    <3>1. periods = fetched
      BY <2>3 DEF MergeExistingPeriods
    <3>2. \A s : PeriodsOf(teams, t, s) = {}
      BY <2>3 DEF PeriodsOf
    <3> QED BY <1>3, <1>4, <3>1, <3>2
  <2> QED BY <2>1, <2>2, <2>3
<1> HIDE DEF periods, stored
<1>8. ASSUME NEW s \in Types(r) PROVE RunsOf(data, t, s) = {job[r].run}
  <2>1. \A p \in PeriodsOf(data, t, s) : p.run = job[r].run
    BY <1>4, <1>6, <1>7
  <2>2. PICK p \in fetched : p.setType = s
    BY <1>5
  <2>3. p \in PeriodsOf(data, t, s) /\ p.run = job[r].run
    BY <1>4, <1>6, <1>7, <2>2
  <2> QED BY <2>1, <2>3 DEF RunsOf
<1> QED BY <1>6, <1>7, <1>8 DEF Covers

\* What a team's data covers is a matter of that team's entry.
LEMMA CoversEntry ==
    ASSUME NEW r \in Reqs, NEW data, NEW other, NEW t \in Teams, data[t] = other[t],
           Covers(r, other, t)
    PROVE  Covers(r, data, t)
<1>1. \A s : PeriodsOf(data, t, s) = PeriodsOf(other, t, s)
  BY DEF PeriodsOf
<1>2. \A s : RunsOf(data, t, s) = RunsOf(other, t, s)
  BY <1>1 DEF RunsOf
<1> QED BY <1>1, <1>2 DEF Covers

LEMMA FetchData ==
    ASSUME TypeInv, GateInv, Records, DataInv, NEW r \in Reqs, NEW t \in Teams,
           FetchTeam(r, t, now), UNCHANGED <<req, client>>
    PROVE  DataInv'
<1> DEFINE fetched == FetchedPeriods(job[r].cadences, job[r].types, now, job[r].run)
           periods == MergeExistingPeriods(r, t, fetched)
           more == [job[r].fetched EXCEPT ![t] = [periods |-> periods]]
           next == [job[r] EXCEPT !.fetched = more,
                                  !.count = job[r].count \cup ({t} \X periods)]
<1>1. job[r].pc = "fetching" /\ job[r].fetched[t] = Absent /\ UNCHANGED <<state, teams>>
  BY DEF FetchTeam, storeVars
<1>2. job[r] \in Job /\ job[r].fetched \in TeamMap
  BY RunType DEF Job
<1>3. periods \subseteq ScoringPeriod
  <2>1. fetched \subseteq ScoringPeriod
    BY <1>2, RunType, FetchedType DEF Job
  <2> HIDE DEF fetched
  <2> QED BY <2>1, RunType DEF MergeExistingPeriods, PreservedPeriods, TeamMap, TeamData
<1>4. job' = [job EXCEPT ![r] = next]
  BY <1>2 DEF FetchTeam, Job
<1> HIDE DEF periods
<1>5. /\ more \in TeamMap /\ more[t].periods = periods /\ more[t] # Absent
      /\ CountOf(more) = CountOf(job[r].fetched) \cup ({t} \X periods)
  BY <1>1, <1>2, <1>3, CountOfOneMore
<1>6. \A u \in Teams : u # t => more[u] = job[r].fetched[u]
  BY <1>2 DEF TeamMap
<1> HIDE DEF more
<1>7. /\ next.pc = "fetching" /\ next.run = job[r].run /\ next.types = job[r].types
      /\ next.cadences = job[r].cadences /\ next.fetched = more
      /\ next.count = job[r].count \cup ({t} \X periods)
  BY <1>1, <1>2 DEF Job
<1> HIDE DEF next
<1>8. job'[r] = next /\ \A x \in Reqs : x # r => job'[x] = job[x]
  BY <1>4, RunType
<1>9. \A u \in Present(more) : Covers(r, more, u)
  <2>1. Covers(r, more, t)
    BY <1>1, <1>5, RunType, MergeCovers DEF periods
  <2>2. ASSUME NEW u \in Present(more), u # t PROVE Covers(r, more, u)
    <3>1. u \in Teams /\ more[u] = job[r].fetched[u] /\ u \in Present(job[r].fetched)
      BY <1>6, <2>2 DEF Present
    <3>2. Covers(r, job[r].fetched, u)
      BY <1>1, <3>1 DEF DataInv, Frame
    <3> QED BY <3>1, <3>2, CoversEntry
  <2> QED BY <2>1, <2>2
<1>10. next.count = CountOf(more)
  BY <1>1, <1>5, <1>7 DEF DataInv, Frame
<1>11. Frame(r)'
  <2> PICK m : m = more
    OBVIOUS
  <2>1. Types(r)' = Types(r)
    BY DEF Types
  <2>2. /\ next.types = Types(r) /\ next.cadences # {}
        /\ \A c, d \in next.cadences : c.window = d.window => c = d
    BY <1>1, <1>7 DEF DataInv, Frame
  <2>3. ASSUME NEW u \in Present(m) PROVE Covers(r, m, u)'
    <3>1. Covers(r, m, u)
      BY <1>9
    <3>2. teams' = teams /\ job'[r].run = job[r].run
      BY <1>1, <1>7, <1>8
    <3> QED BY <2>1, <3>1, <3>2 DEF Covers
  <2>4. job'[r].fetched = m /\ job'[r].count = CountOf(m) /\ job'[r].pc = "fetching"
    BY <1>7, <1>8, <1>10
  <2> QED BY <1>7, <1>8, <2>1, <2>2, <2>3, <2>4 DEF Frame
<1>12. \A x \in Reqs : x # r => Frame(x)'
  BY <1>1, <1>8, SameFrame DEF DataInv
<1> QED BY <1>1, <1>7, <1>8, <1>11, <1>12, DataStays

-----------------------------------------------------------------------------
(* The step that stores.                                                   *)

\* All teams are there, so that an upsert stores what a swap would; and what
\* it stores covers every team.
LEMMA ApplyEffect ==
    ASSUME TypeInv, GateInv, Records, DataInv, NEW r \in Reqs, ApplyData(r),
           UNCHANGED <<req, client>>
    PROVE  /\ job[r].pc = "fetching" /\ job'[r].pc = "applied"
           /\ job'[r].run = job[r].run /\ job[r].run = state.startedAt
           /\ job'[r].count = CountOf(teams') /\ state'.issueCount = CountOf(teams')
           /\ \A x \in Reqs : x # r => job'[x] = job[x] /\ ~Live(x)
           /\ Present(teams') = Teams
           /\ \A t \in Teams : Covers(r, teams', t)
<1> PICK m : m = job[r].fetched
  OBVIOUS
<1>1. /\ job[r].pc = "fetching" /\ job'[r].pc = "applied" /\ job'[r].run = job[r].run
      /\ job'[r].count = job[r].count
      /\ \A x \in Reqs : x # r => job'[x] = job[x]
  BY RunType DEF ApplyData, Job
<1>2. Present(m) = Teams /\ m \in TeamMap /\ teams \in TeamMap
  BY RunType DEF ApplyData, Job
<1>3. job[r].count = CountOf(m)
  BY <1>1 DEF DataInv, Frame
<1>4. teams' = m /\ state'.issueCount = CountOf(m)
  <2>1. Upserted(teams, m) = m
    BY <1>2, UpsertOfAll
  <2> QED BY <1>3, <2>1, RunType DEF ApplyData, SwapData, UpsertTeamData, State
<1>5. Holds(r)
  BY <1>1 DEF Holds, Live
<1>6. job[r].run = state.startedAt
  BY <1>5 DEF Records, Numbers
<1>7. \A x \in Reqs : x # r => ~Live(x)
  BY <1>5 DEF GateInv, OneRefreshAtATime, Holds
<1>8. \A t \in Teams : Covers(r, m, t)
  BY <1>1, <1>2 DEF DataInv, Frame
<1> QED BY <1>1, <1>2, <1>3, <1>4, <1>6, <1>7, <1>8

\* The runs of the stored periods after the step.
LEMMA ApplyRuns ==
    ASSUME TypeInv, GateInv, Records, DataInv, NEW r \in Reqs, ApplyData(r),
           UNCHANGED <<req, client>>, NEW t \in Teams
    PROVE  /\ \A s \in Types(r) : RunsOf(teams', t, s) = {state.startedAt}
           /\ \A s \in SetTypes \ Types(r) :
                /\ PeriodsOf(teams', t, s) = PeriodsOf(teams, t, s)
                /\ RunsOf(teams', t, s) = RunsOf(teams, t, s)
<1>1. Covers(r, teams', t) /\ job[r].run = state.startedAt
  BY ApplyEffect
<1> QED BY <1>1 DEF Covers, RunsOf

LEMMA ApplyStoresData ==
    ASSUME TypeInv, GateInv, Records, DataInv, NEW r \in Reqs, ApplyData(r),
           UNCHANGED <<req, client>>
    PROVE  DataInv'
<1>1. /\ job'[r].pc = "applied" /\ job'[r].run = job[r].run
      /\ job[r].run = state.startedAt
      /\ job'[r].count = CountOf(teams') /\ state'.issueCount = CountOf(teams')
      /\ \A x \in Reqs : x # r => job'[x] = job[x] /\ ~Live(x)
      /\ Present(teams') = Teams
      /\ \A t \in Teams : Covers(r, teams', t)
  BY ApplyEffect
<1>2. Types(r) \subseteq SetTypes /\ \A x \in Reqs : Types(x)' = Types(x)
  <2>1. job[r].types = Types(r)
    BY ApplyEffect DEF DataInv, Frame
  <2> QED BY <1>1, <2>1, RunType DEF Types, Job
<1>3. \A x \in Reqs : Frame(x)'
  <2>1. Frame(r)'
    BY <1>1 DEF Frame
  <2>2. ASSUME NEW x \in Reqs, x # r PROVE Frame(x)'
    BY <1>1, <2>2, DeadFrame DEF DataInv
  <2> QED BY <2>1, <2>2
<1>4. Whole(teams)'
  <2>1. ASSUME NEW s \in SetTypes, NEW t \in Teams, NEW u \in Teams
        PROVE  RunsOf(teams', t, s) = RunsOf(teams', u, s)
    <3>1. RunsOf(teams, t, s) = RunsOf(teams, u, s)
      BY DEF DataInv, Stored, Whole
    <3> QED BY <3>1, ApplyRuns
  <2> QED BY <1>1, <2>1 DEF Whole
<1>5. ASSUME NEW x \in Reqs, job'[x].pc \in {"applied", "completed"} PROVE Reached(x)'
  <2>1. x # r => Reached(x)
    BY <1>1, <1>5 DEF DataInv, Stored
  <2>2. Types(x) \subseteq SetTypes
    BY <1>2, <2>1 DEF Reached
  <2> SUFFICES ASSUME NEW t \in Teams, NEW s \in Types(x)
               PROVE  /\ PeriodsOf(teams', t, s) # {}
                      /\ \A p \in PeriodsOf(teams', t, s) : p.run >= job[x].run
    <3>1. job'[x].run = job[x].run
      BY <1>1
    <3> QED BY <1>2, <2>2, <3>1 DEF Reached
  <2>3. job[x].run <= state.startedAt /\ state.startedAt \in Nat /\ job[x].run \in Nat
    BY RunType DEF Records, Numbers
  <2>4. CASE s \in Types(r)
    <3>1. RunsOf(teams', t, s) = {state.startedAt}
      BY <2>4, ApplyRuns
    <3>2. PeriodsOf(teams', t, s) # {}
      BY <3>1 DEF RunsOf
    <3>3. \A p \in PeriodsOf(teams', t, s) : p.run = state.startedAt
      BY <3>1 DEF RunsOf
    <3> QED BY <2>3, <3>2, <3>3
  <2>5. CASE s \notin Types(r)
    <3>1. x # r /\ s \in SetTypes
      BY <2>5, <2>2
    <3>2. Reached(x)
      BY <2>1, <3>1
    <3>3. PeriodsOf(teams', t, s) = PeriodsOf(teams, t, s)
      BY <2>5, <3>1, ApplyRuns
    <3> QED BY <3>2, <3>3 DEF Reached
  <2> QED BY <2>4, <2>5
<1>6. Stored'
  <2>1. \A t \in Present(teams') : Unique(teams'[t].periods)
    BY <1>1 DEF Covers
  <2> QED BY <1>1, <1>4, <1>5, <2>1 DEF Stored, CountMatchesData
<1>7. Views'
  <2>1. \A x \in Reqs : job'[x].run = job[x].run /\ req'[x].query = req[x].query
    BY <1>1
  <2> QED BY <1>1, <2>1, ViewsStay DEF DataInv
<1> QED BY <1>3, <1>6, <1>7 DEF DataInv

LEMMA RefreshData ==
    ASSUME TypeInv, GateInv, Records, DataInv, NEW r \in Reqs, RefreshStep(r)
    PROVE  DataInv'
<1>1. UNCHANGED <<req, client>>
  BY DEF RefreshStep, handlerVars
<1> QED BY <1>1, BeginData, FetchData, ReturnData, ApplyStoresData DEF RefreshStep

LEMMA NextData == TypeInv /\ GateInv /\ Records /\ DataInv /\ [Next]_vars => DataInv'
<1> SUFFICES ASSUME TypeInv, GateInv, Records, DataInv, [Next]_vars PROVE DataInv'
  OBVIOUS
<1>1. ASSUME NEW r \in Reqs, SendRequest(r) \/ HandlerStep(r) \/ RefreshStep(r)
      PROVE  DataInv'
  BY <1>1, SendData, HandlerData, RefreshData
<1>2. ASSUME NEW c \in Clients, ClientStep(c) PROVE DataInv'
  BY <1>2, ClientData
<1>3. CASE NextDay \/ UNCHANGED vars
  <2>1. UNCHANGED <<state, teams, job, req, client>>
    BY <1>3 DEF NextDay, vars, storeVars, reconcilerVars, handlerVars
  <2> QED BY <2>1, HandlerOnData
<1> QED BY <1>1, <1>2, <1>3 DEF Next, Waiting

LEMMA DataAlways == Spec => []DataInv
BY InitData, NextData, TypeInvAlways, GateAlways, RecordsAlways, PTL DEF Spec

\* No team ever stores two closed periods of one window, or two in-progress
\* ones: a merge keeps what the refresh does not fetch, and no more.
THEOREM PeriodsAreUnique == Spec => []UniquePeriods
<1>1. DataInv => UniquePeriods
  BY DEF DataInv, Stored, Unique, UniquePeriods
<1> QED BY <1>1, DataAlways, PTL

\* The issue count is that of the stored periods, whoever wrote it last.
THEOREM CountIsRight == Spec => []CountMatchesData
BY DataAlways, PTL DEF DataInv, Stored

\* Who saw a refresh completed is served its data, or newer data.
THEOREM CompletedIsSeen == Spec => []CompletedIsVisible
BY DataAlways, PTL DEF DataInv, Views

\* A scorecard is over all teams, and over one refresh per set type.
THEOREM ServedIsWhole == Spec => []ScorecardIsWhole
BY DataAlways, PTL DEF DataInv, Views

-----------------------------------------------------------------------------
(* The steps, and the lifecycle they implement.                            *)

AllInv == TypeInv /\ GateInv /\ Records /\ DataInv

LEMMA AllAlways == Spec => []AllInv
BY TypeInvAlways, GateAlways, RecordsAlways, DataAlways, PTL DEF AllInv

\* Only the step that applies a refresh touches the stored data.
LEMMA OnlyApplyStores ==
    ASSUME [Next]_vars
    PROVE  \/ teams' = teams
           \/ \E r \in Reqs : ApplyData(r) /\ UNCHANGED <<req, client>>
<1> USE DEF storeVars, reconcilerVars, handlerVars
<1>1. ASSUME NEW r \in Reqs, SendRequest(r) PROVE teams' = teams
  BY <1>1 DEF SendRequest, ParseRequest
<1>2. ASSUME NEW r \in Reqs, HandlerStep(r) PROVE teams' = teams
  BY <1>2 DEF HandlerStep, AcceptRequest, StartRefresh, RefuseRequest, SetRefreshMode,
              SetRefreshScope, LaunchRefresh, AnswerAccepted
<1>3. ASSUME NEW r \in Reqs, RefreshStep(r)
      PROVE  teams' = teams \/ (ApplyData(r) /\ UNCHANGED <<req, client>>)
  BY <1>3 DEF RefreshStep, BeginRefresh, FetchTeam, FailTeamFetch, FailRefresh,
              FinishRefresh, CompleteRefresh
<1>4. ASSUME NEW c \in Clients, ClientStep(c) PROVE teams' = teams
  BY <1>4 DEF ClientStep, PollStatus, CheckHasData, ComputeFullScorecard
<1>5. CASE NextDay \/ UNCHANGED vars
  BY <1>5 DEF NextDay, vars
<1> QED BY <1>1, <1>2, <1>3, <1>4, <1>5 DEF Next, Waiting

\* The stored periods of a set type change only when a refresh is applied whose
\* request asked for that set type: what a scoped refresh carries over, read
\* long before, is what is stored when it writes it back.
THEOREM OnlyRequestedChange == Spec => OnlyRequestedTypesChange
<1> DEFINE Kept ==
      \A t \in Teams, s \in SetTypes :
          PeriodsOf(teams', t, s) # PeriodsOf(teams, t, s) =>
            \E r \in Reqs : /\ job[r].pc = "fetching" /\ job'[r].pc = "applied"
                            /\ s \in RefreshedTypes(ScopeOf(req[r].query))
<1>1. AllInv /\ [Next]_vars => Kept
  <2> SUFFICES ASSUME AllInv, [Next]_vars, NEW t \in Teams, NEW s \in SetTypes,
                      PeriodsOf(teams', t, s) # PeriodsOf(teams, t, s)
               PROVE  \E r \in Reqs : /\ job[r].pc = "fetching" /\ job'[r].pc = "applied"
                                      /\ s \in Types(r)
    BY DEF Types
  <2>1. PICK r \in Reqs : ApplyData(r) /\ UNCHANGED <<req, client>>
    BY OnlyApplyStores
  <2>2. s \in Types(r)
    BY <2>1, ApplyRuns DEF AllInv
  <2>3. job[r].pc = "fetching" /\ job'[r].pc = "applied"
    BY <2>1, ApplyEffect DEF AllInv
  <2> QED BY <2>2, <2>3
<1>2. [][Kept]_vars => OnlyRequestedTypesChange
  BY DEF OnlyRequestedTypesChange
<1> QED BY <1>1, <1>2, AllAlways, PTL DEF Spec

LEMMA InitLifecycle == Init => Lifecycle!Init
<1> SUFFICES ASSUME Init PROVE Lifecycle!Init
  OBVIOUS
<1>1. state.status = "idle" /\ state.startedAt = 0
  BY DEF Init, StoreInit
<1>2. \A r \in Reqs : job[r].pc # "applied"
  BY DEF Init, ReconcilerInit, NoJob
<1>3. \A t \in Teams, s \in SetTypes : RunsOf(teams, t, s) = {}
  BY DEF Init, StoreInit, NoTeams, RunsOf, PeriodsOf
<1>4. RunsStored = [t \in Teams |-> [s \in SetTypes |-> {}]]
  BY <1>3 DEF RunsStored, RunsOf
<1> QED BY <1>1, <1>2, <1>4 DEF Lifecycle!Init

\* A step that leaves the status, the number, the data and what is applied is
\* not seen.
LEMMA Unseen ==
    ASSUME state'.status = state.status, state'.startedAt = state.startedAt,
           teams' = teams,
           \A x \in Reqs : job'[x].pc = "applied" <=> job[x].pc = "applied"
    PROVE  UNCHANGED Lifecycle!vars
<1>1. RunsStored' = RunsStored
  BY DEF RunsStored
<1>2. (\E x \in Reqs : job'[x].pc = "applied") <=> (\E x \in Reqs : job[x].pc = "applied")
  OBVIOUS
<1> QED BY <1>1, <1>2 DEF Lifecycle!vars

LEMMA AcceptIsStart ==
    ASSUME AllInv, NEW r \in Reqs, AcceptRequest(r) PROVE Lifecycle!Start
<1>1. /\ state.status # "running" /\ state'.status = "running"
      /\ state'.startedAt = state.startedAt + 1 /\ teams' = teams
  BY RunType DEF AllInv, AcceptRequest, StartRefresh, CanStart, State
<1>2. \A x \in Reqs : job'[x].pc = job[x].pc
  BY RunType DEF AllInv, AcceptRequest, Job
<1>3. RunsStored' = RunsStored
  BY <1>1 DEF RunsStored
<1> QED BY <1>1, <1>2, <1>3 DEF Lifecycle!Start

LEMMA ApplyIsPublish ==
    ASSUME AllInv, NEW r \in Reqs, ApplyData(r), UNCHANGED <<req, client>>
    PROVE  Lifecycle!Publish
<1>1. /\ job[r].pc = "fetching" /\ job'[r].pc = "applied"
      /\ \A x \in Reqs : x # r => ~Live(x)
  BY ApplyEffect DEF AllInv
<1>2. state.status = "running" /\ state'.status = state.status
      /\ state'.startedAt = state.startedAt
  <2>1. Holds(r)
    BY <1>1 DEF Holds, Live
  <2>2. state.status = "running"
    BY <2>1 DEF AllInv, GateInv, OneRefreshAtATime
  <2> QED BY <2>2, RunType DEF AllInv, ApplyData, SwapData, UpsertTeamData, State
<1>3. ~(\E x \in Reqs : job[x].pc = "applied") /\ \E x \in Reqs : job'[x].pc = "applied"
  BY <1>1 DEF Live
<1>4. Types(r) \in (SUBSET SetTypes) \ {{}}
  <2>1. job[r].types = Types(r)
    BY <1>1 DEF AllInv, DataInv, Frame
  <2>2. Types(r) \subseteq SetTypes
    BY <2>1, RunType DEF AllInv, Job
  <2>3. Types(r) # {}
    BY DEF Types, RefreshedTypes, SetTypes
  <2> QED BY <2>2, <2>3
<1>5. RunsStored' = [t \in Teams |-> [s \in SetTypes |->
                        IF s \in Types(r) THEN {state.startedAt} ELSE RunsStored[t][s]]]
  <2>1. ASSUME NEW t \in Teams, NEW s \in SetTypes
        PROVE  RunsOf(teams', t, s) = IF s \in Types(r) THEN {state.startedAt}
                                                        ELSE RunsStored[t][s]
    BY ApplyRuns DEF AllInv, RunsStored, RunsOf
  <2> QED BY <2>1 DEF RunsStored, RunsOf
<1> QED BY <1>2, <1>3, <1>4, <1>5 DEF Lifecycle!Publish

LEMMA ReturnEndsIt ==
    ASSUME AllInv, NEW r \in Reqs, FailTeamFetch(r) \/ FinishRefresh(r)
    PROVE  Lifecycle!Fail \/ Lifecycle!Complete
<1>1. Live(r)
  BY DEF FailTeamFetch, FinishRefresh, Live
<1>2. state.status = "running" /\ \A x \in Reqs : x # r => ~Live(x)
  <2>1. Holds(r)
    BY <1>1 DEF Holds
  <2> QED BY <2>1 DEF AllInv, GateInv, OneRefreshAtATime, Holds
<1>3. /\ job'[r].pc \in {"failed", "completed"}
      /\ \A x \in Reqs : x # r => job'[x] = job[x]
  BY RunType DEF AllInv, FailTeamFetch, FinishRefresh, Return, NoJob
<1>4. ~(\E x \in Reqs : job'[x].pc = "applied")
  BY <1>2, <1>3 DEF Live
<1>5. CASE FailTeamFetch(r)
  <2>1. ~(\E x \in Reqs : job[x].pc = "applied")
    BY <1>2, <1>5 DEF FailTeamFetch, Live
  <2>2. /\ state'.status = "failed" /\ state'.startedAt = state.startedAt
        /\ teams' = teams
    BY <1>5, RunType DEF AllInv, FailTeamFetch, FailRefresh, State
  <2>3. RunsStored' = RunsStored
    BY <2>2 DEF RunsStored
  <2>4. Lifecycle!Fail
    BY <1>2, <1>4, <2>1, <2>2, <2>3 DEF Lifecycle!Fail
  <2> QED BY <2>4
<1>6. CASE FinishRefresh(r)
  <2>1. \E x \in Reqs : job[x].pc = "applied"
    BY <1>6 DEF FinishRefresh
  <2>2. /\ state'.status = "completed" /\ state'.startedAt = state.startedAt
        /\ teams' = teams
    BY <1>6, RunType DEF AllInv, FinishRefresh, CompleteRefresh, State
  <2>3. RunsStored' = RunsStored
    BY <2>2 DEF RunsStored
  <2>4. Lifecycle!Complete
    BY <1>2, <1>4, <2>1, <2>2, <2>3 DEF Lifecycle!Complete
  <2> QED BY <2>4
<1> QED BY <1>5, <1>6

LEMMA NextLifecycle == AllInv /\ [Next]_vars => [Lifecycle!Next]_(Lifecycle!vars)
<1> SUFFICES ASSUME AllInv, [Next]_vars PROVE Lifecycle!Next \/ UNCHANGED Lifecycle!vars
  OBVIOUS
<1> USE DEF storeVars, reconcilerVars, handlerVars
<1>1. ASSUME UNCHANGED <<state, teams, job>> PROVE UNCHANGED Lifecycle!vars
  BY <1>1, Unseen
<1>2. ASSUME NEW r \in Reqs, SendRequest(r) PROVE UNCHANGED Lifecycle!vars
  BY <1>1, <1>2 DEF SendRequest, ParseRequest
<1>3. ASSUME NEW r \in Reqs, HandlerStep(r)
      PROVE  Lifecycle!Start \/ UNCHANGED Lifecycle!vars
  <2>1. CASE LaunchRefresh(r)
    <3>1. \A x \in Reqs : job'[x].pc = "applied" <=> job[x].pc = "applied"
      BY <2>1, RunType DEF AllInv, GateInv, Placed, LaunchRefresh, Job
    <3> QED BY <2>1, <3>1, Unseen DEF LaunchRefresh
  <2>2. CASE RefuseRequest(r) \/ SetRefreshMode(r) \/ SetRefreshScope(r) \/ AnswerAccepted(r)
    BY <1>1, <2>2 DEF RefuseRequest, SetRefreshMode, SetRefreshScope, AnswerAccepted
  <2> QED BY <1>3, <2>1, <2>2, AcceptIsStart DEF HandlerStep
<1>4. ASSUME NEW r \in Reqs, RefreshStep(r)
      PROVE  Lifecycle!Next \/ UNCHANGED Lifecycle!vars
  <2>1. CASE BeginRefresh(r, now) \/ \E t \in Teams : FetchTeam(r, t, now)
    <3>1. job[r].pc \in {"launched", "fetching"}
      BY <2>1 DEF BeginRefresh, FetchTeam
    <3>2. job'[r].pc = "fetching" /\ \A x \in Reqs : x # r => job'[x] = job[x]
      <4>1. CASE BeginRefresh(r, now)
        BY <4>1, RunType DEF AllInv, BeginRefresh, Job
      <4>2. ASSUME NEW t \in Teams, FetchTeam(r, t, now)
            PROVE  job'[r].pc = "fetching" /\ \A x \in Reqs : x # r => job'[x] = job[x]
        BY <4>2, RunType DEF AllInv, FetchTeam, Job
      <4> QED BY <2>1, <4>1, <4>2
    <3>3. \A x \in Reqs : job'[x].pc = "applied" <=> job[x].pc = "applied"
      BY <3>1, <3>2
    <3> QED BY <2>1, <3>3, Unseen DEF BeginRefresh, FetchTeam
  <2>2. CASE ApplyData(r)
    BY <1>4, <2>2, ApplyIsPublish DEF RefreshStep, Lifecycle!Next
  <2>3. CASE FailTeamFetch(r) \/ FinishRefresh(r)
    BY <2>3, ReturnEndsIt DEF Lifecycle!Next
  <2> QED BY <1>4, <2>1, <2>2, <2>3 DEF RefreshStep
<1>5. ASSUME NEW c \in Clients, ClientStep(c) PROVE UNCHANGED Lifecycle!vars
  BY <1>1, <1>5 DEF ClientStep, PollStatus, CheckHasData, ComputeFullScorecard
<1>6. CASE NextDay \/ UNCHANGED vars
  BY <1>1, <1>6 DEF NextDay, vars
<1> QED BY <1>2, <1>3, <1>4, <1>5, <1>6 DEF Next, Waiting, Lifecycle!Next

\* The service implements the safety part of the lifecycle it promises: one
\* refresh at a time, which publishes once, whole, before it is called
\* completed, and nothing if it failed.
THEOREM LifecycleSafety == Spec => Lifecycle!Init /\ [][Lifecycle!Next]_(Lifecycle!vars)
BY InitLifecycle, NextLifecycle, AllAlways, PTL DEF Spec

=============================================================================
