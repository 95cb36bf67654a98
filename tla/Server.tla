-------------------------------- MODULE Server --------------------------------
(***************************************************************************)
(* The server with the in-memory store: the handlers, the refreshes they   *)
(* start, the readers and the passing days, and what they do together.     *)
(***************************************************************************)
EXTENDS Handlers

CONSTANT MaxDay  \* the last day of a behaviour: bounds the clock

ASSUME MaxDayAssumption == MaxDay \in Nat

VARIABLE now  \* the day time.Now() falls on

vars == <<storeVars, reconcilerVars, handlerVars, now>>

Init == StoreInit /\ ReconcilerInit /\ HandlersInit /\ now = 0

HandlerStep(r) ==
    /\ \/ AcceptRequest(r) \/ RefuseRequest(r)
       \/ SetRefreshMode(r) \/ SetRefreshScope(r)
       \/ LaunchRefresh(r) \/ AnswerAccepted(r)
    /\ UNCHANGED now

RefreshStep(r) ==
    /\ \/ BeginRefresh(r, now)
       \/ \E t \in Teams : FetchTeam(r, t, now)
       \/ FailTeamFetch(r)
       \/ ApplyData(r)
       \/ FinishRefresh(r)
    /\ UNCHANGED <<handlerVars, now>>

ClientStep(c) ==
    /\ PollStatus(c) \/ CheckHasData(c) \/ ComputeFullScorecard(c)
    /\ UNCHANGED now

SendRequest(r) == (\E q \in Queries : ParseRequest(r, q)) /\ UNCHANGED now

NextDay ==
    /\ now < MaxDay
    /\ now' = now + 1
    /\ UNCHANGED <<storeVars, reconcilerVars, handlerVars>>

\* All requests of the behaviour are dealt with: a server waiting for more.
Waiting ==
    /\ \A r \in Reqs : req[r].pc = "answered" /\ ~Live(r)
    /\ \A c \in Clients : client[c].pc \in {"served", "unavailable"}
    /\ now = MaxDay
    /\ UNCHANGED vars

Next ==
    \/ \E r \in Reqs : SendRequest(r) \/ HandlerStep(r) \/ RefreshStep(r)
    \/ \E c \in Clients : ClientStep(c)
    \/ NextDay
    \/ Waiting

\* Goroutines are scheduled, the mutex is not held for ever, and a team's
\* fetch returns within its 60 s: a step that can be taken is taken.
Fairness ==
    \A r \in Reqs : WF_vars(HandlerStep(r)) /\ WF_vars(RefreshStep(r))

Spec == Init /\ [][Next]_vars

FairSpec == Spec /\ Fairness

-----------------------------------------------------------------------------
(* Types.                                                                  *)

State == [status: Status, startedAt: Nat, finished: BOOLEAN, error: BOOLEAN,
          issueCount: SUBSET (Teams \X ScoringPeriod)]

\* Every variable holds a value of its type.
TypeOK ==
    /\ state \in State
    /\ teams \in TeamMap
    /\ refreshMode \in Modes
    /\ refreshScope \in RefreshScope
    /\ job \in [Reqs -> Job]
    /\ req \in [Reqs -> Request]
    /\ client \in [Clients -> Client]
    /\ now \in Nat

-----------------------------------------------------------------------------
(* Safety.                                                                 *)

\* r holds the service's one refresh: StartRefresh succeeded for it, and
\* neither CompleteRefresh nor FailRefresh has been called for it.
Holds(r) == req[r].pc \in {"started", "modeSet", "scopeSet"} \/ Live(r)

\* The status is running exactly while some request holds the refresh, and no
\* two requests hold it: handleRefreshData's check, its goroutine and the
\* FailRefresh and CompleteRefresh in it keep one gate between them.
OneRefreshAtATime ==
    /\ state.status = "running" <=> \E r \in Reqs : Holds(r)
    /\ \A r, q \in Reqs : Holds(r) /\ Holds(q) => r = q

\* A refresh runs with the scope of its own request, and with its mode if it
\* gave one, although both are fields all requests write without a lock.
RunsOwnParameters ==
    \A r \in Reqs :
        /\ req[r].pc = "scopeSet" \/ Live(r) => refreshScope = ScopeOf(req[r].query)
        /\ (req[r].pc \in {"modeSet", "scopeSet"} \/ Live(r)) /\ req[r].query.mode # ""
             => refreshMode = req[r].query.mode

\* No team ever stores two closed periods of one window or two in-progress
\* ones: the (team, label, set type) index of the database rejects them.
UniquePeriods ==
    \A t \in Present(teams) : \A p, q \in teams[t].periods :
        p.setType = q.setType /\ SameLabel(p, q) => p = q

\* issue_count is the number of issues in the stored periods, whichever of
\* Swap, Upsert and CompleteRefresh wrote it last, from its own count.
CountMatchesData == state.issueCount = CountOf(teams)

\* The answer to an accepted request says failed or completed only if its own
\* refresh has ended: the handler reads the state after it has launched the
\* goroutine, when that may be over and another request may hold the service.
AnswerIsTrue ==
    \A r \in Reqs :
        req[r].code = "accepted" =>
            /\ req[r].body \in {"running", "completed", "failed"}
            /\ req[r].body # "running" => ~Live(r)

\* A client that saw a refresh completed and asks for the scorecard gets that
\* refresh's data, or a later one's, for every team and set type it covered.
CompletedIsVisible ==
    \A c \in Clients, r \in Reqs :
        client[c].pc = "served" /\ job[r].run = client[c].seen /\ client[c].seen > 0 =>
            \A t \in Teams, s \in RefreshedTypes(ScopeOf(req[r].query)) :
                /\ PeriodsOf(client[c].view, t, s) # {}
                /\ \A p \in PeriodsOf(client[c].view, t, s) : p.run >= client[c].seen

\* A scorecard is computed over all teams, and for a set type over the data
\* of one refresh: it never shows a refresh that is half way through, even
\* though HasData and GetAllTeamData are two separate reads.
ScorecardIsWhole ==
    \A c \in Clients : client[c].pc = "served" =>
        /\ Present(client[c].view) = Teams
        /\ \A s \in SetTypes : \A t, u \in Teams :
             {p.run : p \in PeriodsOf(client[c].view, t, s)}
               = {p.run : p \in PeriodsOf(client[c].view, u, s)}

-----------------------------------------------------------------------------
(* What a step may never do.                                               *)

\* The stored periods of a set type change only in the step that applies the
\* refresh of a request that asked for that set type: a failed refresh, and a
\* status-scoped one for the other type, leave them as they were, although a
\* scoped refresh read what it keeps long before it writes it back.
OnlyRequestedTypesChange ==
    [][ \A t \in Teams, s \in SetTypes :
          PeriodsOf(teams', t, s) # PeriodsOf(teams, t, s) =>
            \E r \in Reqs : /\ job[r].pc = "fetching" /\ job'[r].pc = "applied"
                            /\ s \in RefreshedTypes(ScopeOf(req[r].query)) ]_vars

-----------------------------------------------------------------------------
(* Liveness.                                                               *)

\* Every request is answered and the refresh of an accepted one ends, whatever
\* team of it fails, and each time the status moves away from running again, so
\* that the next one can start.
RequestsEnd ==
    /\ \A r \in Reqs : (req[r].pc = "parsed") ~> (req[r].pc = "answered" /\ ~Live(r))
    /\ []<>(state.status # "running")

-----------------------------------------------------------------------------
(* The service implements the lifecycle it promises.                       *)

RunsStored == [t \in Teams |-> [s \in SetTypes |-> {p.run : p \in PeriodsOf(teams, t, s)}]]

Lifecycle == INSTANCE RefreshLifecycle WITH
    status <- state.status,
    run <- state.startedAt,
    published <- (\E r \in Reqs : job[r].pc = "applied"),
    data <- RunsStored

\* Whatever the interleaving, what is seen from outside is one refresh at a
\* time that publishes once, whole, and before it is called completed.
ImplementsLifecycle == Lifecycle!Spec

-----------------------------------------------------------------------------
(* What the repository's documents say and the code does not do.           *)

Disjoint(w, v) == w.until < v.since \/ v.until < w.since

\* openapi.yaml: a refresh with scope parameters preserves out-of-scope data;
\* here, the closed periods whose window lies outside the requested dates.
OutOfRangeIsKept ==
    [][ \A r \in Reqs, t \in Present(teams) :
          job[r].pc = "fetching" /\ job'[r].pc = "applied"
            /\ HasDates(ScopeOf(req[r].query)) =>
              \A p \in PeriodsOf(teams, t, "closed") :
                (\A c \in job[r].cadences : Disjoint(p.window, c.window))
                  => teams'[t] # Absent /\ p \in teams'[t].periods ]_vars
=============================================================================
