------------------------------- MODULE Handlers -------------------------------
(***************************************************************************)
(* The HTTP handlers (handlers.go).  net/http runs every request in a      *)
(* goroutine of its own, so a POST /api/refresh_data is a process whose    *)
(* steps interleave with the other requests', with the refreshes and with  *)
(* the readers.  Each step makes one access to a shared variable: the      *)
(* store, or the mode and the scope of the shared Reconciler.              *)
(*                                                                         *)
(* A client asks for the refresh status and then for the scorecard, as the *)
(* web page does; one that saw nothing completed stands for one that only  *)
(* asks for the scorecard.                                                 *)
(***************************************************************************)
EXTENDS Reconciler

CONSTANTS Queries,  \* the query strings a refresh request may carry, parsed
          Clients,  \* the GET /api/refresh_status, /api/scorecard clients
          BadDate   \* a date parameter that is not YYYY-MM-DD

VARIABLES req,     \* per request, its query, its place in the handler, its answer
          client   \* per client, what it was told and what it was served

handlerVars == <<req, client>>

ReqPC == {"unsent", "parsed", "started", "modeSet", "scopeSet", "launched", "answered"}

\* A date, a mode and a status as the query string gives them.
DateParam == Int \cup {NoDate, BadDate}
Query == [mode: Modes \cup {"invalid"}, start: DateParam, end: DateParam,
          status: {"", "invalid"} \cup SetTypes]

ASSUME QueriesAssumption == Queries \subseteq Query
ASSUME BadDateAssumption == BadDate \notin Int \cup {NoDate}

EmptyQuery == [mode |-> "", start |-> NoDate, end |-> NoDate, status |-> ""]

ScopeOf(query) == [start |-> query.start, end |-> query.end, status |-> query.status]

\* The error field of an answer's body; accepted for a 202, whose body has none.
Codes == {"", "accepted", "bad_request", "conflict"}

\* body is the status field of a 202's body.
Request == [pc: ReqPC, query: Queries \cup {EmptyQuery}, code: Codes,
            body: {""} \cup Status]

ClientPC == {"idle", "polled", "checked", "served", "unavailable"}

Client == [pc: ClientPC, seen: Nat, view: TeamMap]

HandlersInit ==
    /\ req = [r \in Reqs |->
                [pc |-> "unsent", query |-> EmptyQuery, code |-> "", body |-> ""]]
    /\ client = [c \in Clients |-> [pc |-> "idle", seen |-> 0, view |-> NoTeams]]

-----------------------------------------------------------------------------
(* POST /api/refresh_data                                                  *)

Answer(r, code, body) ==
    req' = [req EXCEPT ![r].pc = "answered", ![r].code = code, ![r].body = body]

WellFormed(query) ==
    /\ query.mode \in Modes
    /\ query.start # BadDate /\ query.end # BadDate
    /\ query.status # "invalid"
    /\ query.mode = "replace" => ScopeOf(query) = Unscoped

ParseRequest(r, query) ==
    /\ req[r].pc = "unsent"
    /\ req' = IF WellFormed(query)
              THEN [req EXCEPT ![r].pc = "parsed", ![r].query = query]
              ELSE [req EXCEPT ![r].pc = "answered", ![r].query = query, ![r].code = "bad_request"]
    /\ UNCHANGED <<storeVars, reconcilerVars, client>>

AcceptRequest(r) ==
    /\ req[r].pc = "parsed"
    /\ StartRefresh
    /\ req' = [req EXCEPT ![r].pc = "started"]
    /\ job' = [job EXCEPT ![r].run = state.startedAt + 1]
    /\ UNCHANGED <<refreshMode, refreshScope, client>>

RefuseRequest(r) ==
    /\ req[r].pc = "parsed"
    /\ ~CanStart
    /\ Answer(r, "conflict", "")
    /\ UNCHANGED <<storeVars, reconcilerVars, client>>

\* A request without a mode leaves the mode of an earlier request in place.
SetRefreshMode(r) ==
    /\ req[r].pc = "started"
    /\ refreshMode' = IF req[r].query.mode # "" THEN req[r].query.mode ELSE refreshMode
    /\ req' = [req EXCEPT ![r].pc = "modeSet"]
    /\ UNCHANGED <<storeVars, refreshScope, job, client>>

\* Faulty variant: like the mode, the scope is set only if one is given.
SetRefreshScopeIfGiven(r) ==
    /\ req[r].pc = "modeSet"
    /\ refreshScope' = IF ScopeOf(req[r].query) # Unscoped
                       THEN ScopeOf(req[r].query) ELSE refreshScope
    /\ req' = [req EXCEPT ![r].pc = "scopeSet"]
    /\ UNCHANGED <<storeVars, refreshMode, job, client>>

SetRefreshScope(r) ==
    /\ req[r].pc = "modeSet"
    /\ refreshScope' = ScopeOf(req[r].query)
    /\ req' = [req EXCEPT ![r].pc = "scopeSet"]
    /\ UNCHANGED <<storeVars, refreshMode, job, client>>

LaunchRefresh(r) ==
    /\ req[r].pc = "scopeSet"
    /\ req' = [req EXCEPT ![r].pc = "launched"]
    /\ job' = [job EXCEPT ![r].pc = "launched"]
    /\ UNCHANGED <<storeVars, refreshMode, refreshScope, client>>

\* Faulty variant: the handler waits until it reads the running state.
AnswerWhenRunning(r) ==
    /\ req[r].pc = "launched"
    /\ state.status = "running"
    /\ Answer(r, "accepted", state.status)
    /\ UNCHANGED <<storeVars, reconcilerVars, client>>

\* The state is read only now: the refresh may already have gone on.
AnswerAccepted(r) ==
    /\ req[r].pc = "launched"
    /\ Answer(r, "accepted", state.status)
    /\ UNCHANGED <<storeVars, reconcilerVars, client>>

-----------------------------------------------------------------------------
(* GET /api/refresh_status and GET /api/scorecard                          *)

PollStatus(c) ==
    /\ client[c].pc = "idle"
    /\ client' = [client EXCEPT ![c].pc = "polled",
                    ![c].seen = IF state.status = "completed" THEN state.startedAt ELSE 0]
    /\ UNCHANGED <<storeVars, reconcilerVars, req>>

CheckHasData(c) ==
    /\ client[c].pc = "polled"
    /\ client' = [client EXCEPT ![c].pc = IF HasData THEN "checked" ELSE "unavailable"]
    /\ UNCHANGED <<storeVars, reconcilerVars, req>>

ComputeFullScorecard(c) ==
    /\ client[c].pc = "checked"
    /\ client' = [client EXCEPT ![c].pc = "served", ![c].view = teams]
    /\ UNCHANGED <<storeVars, reconcilerVars, req>>
=============================================================================
