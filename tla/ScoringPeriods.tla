--------------------------- MODULE ScoringPeriods ---------------------------
(***************************************************************************)
(* The data a refresh moves about, and the pure functions that decide what *)
(* a refresh fetches and what it keeps: the sprint calendar (sprint.go),   *)
(* the cadences of a refresh and the merge of the periods it does not      *)
(* refresh (reconciler.go), the parameters of a request (handlers.go).     *)
(*                                                                         *)
(* A day is an integer, counted from the configured sprint reference date. *)
(* A period's issues and its counters are one value here: the number of    *)
(* the refresh that fetched them.  A count of issues is the set of the     *)
(* <<team, period>> pairs whose TotalCount is summed.                      *)
(***************************************************************************)
EXTENDS Integers

CONSTANTS Teams,       \* the identifiers of the configured teams
          SprintDays,  \* config.SprintDurationDays
          NoDate,      \* a query parameter or *time.Time that is not set
          Absent       \* the entry of a team a map has no data for

ASSUME SprintAssumption == SprintDays \in Nat \ {0}
ASSUME NoDateAssumption == NoDate \notin Int

SetTypes == {"closed", "in_progress"}

TimeWindow == [since: Int, until: Int]

\* Label is not a field of its own: it is the two days of a closed period's
\* window, and the same for every in-progress period.
ScoringPeriod ==
    [setType: SetTypes, window: TimeWindow, current: BOOLEAN, run: Nat]

TeamData == [periods: SUBSET ScoringPeriod]

ASSUME AbsentAssumption == Absent \notin TeamData

SameLabel(p, q) == p.setType = "closed" => p.window = q.window

-----------------------------------------------------------------------------
(* The sprint calendar.                                                    *)

SprintStart(now) == (now \div SprintDays) * SprintDays

CurrentSprint(now) ==
    [since |-> SprintStart(now), until |-> SprintStart(now) + SprintDays]

PreviousSprint(now) ==
    [since |-> SprintStart(now) - SprintDays, until |-> SprintStart(now)]

Cadence == [window: TimeWindow, current: BOOLEAN]

CalculateCadences(now) ==
    { [window |-> PreviousSprint(now), current |-> FALSE],
      [window |-> CurrentSprint(now),  current |-> TRUE] }

-----------------------------------------------------------------------------
(* A refresh scope: the record stands for *RefreshScope, Unscoped for nil. *)

RefreshScope ==
    [start: Int \cup {NoDate}, end: Int \cup {NoDate}, status: {""} \cup SetTypes]

Unscoped == [start |-> NoDate, end |-> NoDate, status |-> ""]

HasDates(scope) == scope.start # NoDate \/ scope.end # NoDate

\* Faulty variant: an end that is not given is taken as it is.
ScopedCadenceNoEnd(scope, now) ==
    [ window |-> [ since |-> IF scope.start # NoDate THEN scope.start ELSE SprintStart(now),
                   until |-> scope.end ],
      current |-> TRUE ]

\* A date range replaces both sprints by one window, and marks it current.
ScopedCadence(scope, now) ==
    [ window |->
        [ since |-> IF scope.start # NoDate THEN scope.start ELSE SprintStart(now),
          until |-> IF scope.end # NoDate THEN scope.end ELSE now ],
      current |-> TRUE ]

RefreshCadences(scope, now) ==
    IF HasDates(scope) THEN {ScopedCadence(scope, now)} ELSE CalculateCadences(now)

\* Faulty variant: the default, both set types, is forgotten.
RefreshedTypesNoDefault(scope) == {scope.status}

RefreshedTypes(scope) ==
    IF scope.status = "" THEN SetTypes ELSE {scope.status}

-----------------------------------------------------------------------------
(* What one team's fetch returns, and what it carries over from the store. *)

ClosedPeriod(cadence, run) ==
    [setType |-> "closed", window |-> cadence.window,
     current |-> cadence.current, run |-> run]

InProgressPeriod(now, run) ==
    [setType |-> "in_progress", window |-> [since |-> now, until |-> now],
     current |-> TRUE, run |-> run]

FetchedPeriods(cadences, types, now, run) ==
    { ClosedPeriod(c, run) : c \in {d \in cadences : "closed" \in types} }
      \cup
    { p \in {InProgressPeriod(now, run)} : "in_progress" \in types }

\* Faulty variant: the refreshed set types are carried over too.
PreservedPeriodsAll(existing, types) == existing

PreservedPeriods(existing, types) == {p \in existing : p.setType \notin types}

-----------------------------------------------------------------------------
(* The data of several teams.  A team the map has no key for is Absent.    *)

TeamMap == [Teams -> TeamData \cup {Absent}]

NoTeams == [t \in Teams |-> Absent]

Present(data) == {t \in Teams : data[t] # Absent}

\* The teams of new replace those of old; the others stay.
Upserted(old, new) == [t \in Teams |-> IF new[t] # Absent THEN new[t] ELSE old[t]]

CountOf(data) == UNION {{t} \X data[t].periods : t \in Present(data)}

\* The periods of one set type a team has; none when the team has no data.
PeriodsOf(data, t, type) ==
    IF data[t] = Absent THEN {} ELSE {p \in data[t].periods : p.setType = type}
=============================================================================
