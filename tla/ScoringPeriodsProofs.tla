------------------------- MODULE ScoringPeriodsProofs -------------------------
(***************************************************************************)
(* What the operators of ScoringPeriods return and preserve, for any teams *)
(* and any sprint length: the lemmas the proofs about the two servers cite.*)
(***************************************************************************)
EXTENDS ScoringPeriods, TLAPS

-----------------------------------------------------------------------------
(* Types.                                                                  *)

\* A scope's cadences are windows of days.
LEMMA CadencesType ==
    ASSUME NEW scope \in RefreshScope, NEW day \in Nat
    PROVE  RefreshCadences(scope, day) \subseteq Cadence
<1>1. SprintStart(day) \in Int /\ SprintDays \in Int
  BY SprintAssumption DEF SprintStart
<1>2. CalculateCadences(day) \subseteq Cadence
  BY <1>1 DEF CalculateCadences, Cadence, TimeWindow, CurrentSprint, PreviousSprint
<1>3. ScopedCadence(scope, day) \in Cadence
  <2> DEFINE since == IF scope.start # NoDate THEN scope.start ELSE SprintStart(day)
             until == IF scope.end # NoDate THEN scope.end ELSE day
  <2>1. scope.start \in Int \cup {NoDate} /\ scope.end \in Int \cup {NoDate}
    BY DEF RefreshScope
  <2>2. since \in Int
    BY <1>1, <2>1
  <2>3. until \in Int
    BY <2>1
  <2>4. [since |-> since, until |-> until] \in TimeWindow
    BY <2>2, <2>3 DEF TimeWindow
  <2> QED BY <2>4 DEF ScopedCadence, Cadence
<1> QED BY <1>2, <1>3 DEF RefreshCadences

\* A scope names set types.
LEMMA TypesType ==
    ASSUME NEW scope \in RefreshScope
    PROVE  RefreshedTypes(scope) \subseteq SetTypes
BY DEF RefreshedTypes, RefreshScope

\* A fetch returns periods.
LEMMA FetchedType ==
    ASSUME NEW cadences \in SUBSET Cadence, NEW types, NEW day \in Nat, NEW run \in Nat
    PROVE  FetchedPeriods(cadences, types, day, run) \subseteq ScoringPeriod
<1>1. \A c \in Cadence : ClosedPeriod(c, run) \in ScoringPeriod
  BY DEF ClosedPeriod, ScoringPeriod, Cadence, SetTypes
<1>2. InProgressPeriod(day, run) \in ScoringPeriod
  BY DEF InProgressPeriod, ScoringPeriod, TimeWindow, SetTypes
<1> QED BY <1>1, <1>2 DEF FetchedPeriods

\* An upsert of a map of teams into another is a map of teams.
LEMMA UpsertedType ==
    ASSUME NEW old \in TeamMap, NEW new \in TeamMap
    PROVE  Upserted(old, new) \in TeamMap
BY DEF Upserted, TeamMap

\* The issues counted in a map are those of its teams' periods.
LEMMA CountType ==
    ASSUME NEW data \in TeamMap
    PROVE  CountOf(data) \subseteq Teams \X ScoringPeriod
BY DEF CountOf, Present, TeamMap, TeamData

-----------------------------------------------------------------------------
(* What a refresh fetches.                                                 *)

\* No two closed periods have one window, and no two in-progress ones exist.
Unique(periods) ==
    \A p, q \in periods : p.setType = q.setType /\ SameLabel(p, q) => p = q

\* The windows of a refresh differ: a sprint is not as long as no time at all.
LEMMA CadencesDiffer ==
    ASSUME NEW scope \in RefreshScope, NEW day \in Nat
    PROVE  /\ RefreshCadences(scope, day) # {}
           /\ \A c, d \in RefreshCadences(scope, day) : c.window = d.window => c = d
<1>1. CASE HasDates(scope)
  BY <1>1 DEF RefreshCadences
<1>2. CASE ~HasDates(scope)
  <2>1. RefreshCadences(scope, day) =
          { [window |-> PreviousSprint(day), current |-> FALSE],
            [window |-> CurrentSprint(day),  current |-> TRUE] }
    BY <1>2 DEF RefreshCadences, CalculateCadences
  <2>2. SprintStart(day) \in Int /\ SprintDays \in Nat \ {0}
    BY SprintAssumption DEF SprintStart
  <2>3. PreviousSprint(day).since # CurrentSprint(day).since
    BY <2>2 DEF PreviousSprint, CurrentSprint
  <2>4. PreviousSprint(day) # CurrentSprint(day)
    BY <2>3
  <2> QED BY <2>1, <2>4
<1> QED BY <1>1, <1>2

\* A fetch returns, of each set type it was asked for, periods of its own run,
\* and of the others none.
LEMMA FetchedRuns ==
    ASSUME NEW cadences, cadences # {}, NEW types \in SUBSET SetTypes, NEW day, NEW run
    PROVE  /\ \A p \in FetchedPeriods(cadences, types, day, run) :
                p.run = run /\ p.setType \in types
           /\ \A s \in types : \E p \in FetchedPeriods(cadences, types, day, run) :
                p.setType = s
<1> DEFINE fetched == FetchedPeriods(cadences, types, day, run)
<1>1. \A c : /\ ClosedPeriod(c, run).run = run
             /\ ClosedPeriod(c, run).setType = "closed"
  BY DEF ClosedPeriod
<1>2. /\ InProgressPeriod(day, run).run = run
      /\ InProgressPeriod(day, run).setType = "in_progress"
  BY DEF InProgressPeriod
<1>3. \A p \in fetched : \/ /\ "closed" \in types
                            /\ \E c \in cadences : p = ClosedPeriod(c, run)
                         \/ "in_progress" \in types /\ p = InProgressPeriod(day, run)
  BY DEF FetchedPeriods
<1>4. \A p \in fetched : p.run = run /\ p.setType \in types
  BY <1>1, <1>2, <1>3
<1>5. "closed" \in types => \E c \in cadences : ClosedPeriod(c, run) \in fetched
  BY DEF FetchedPeriods
<1>6. "in_progress" \in types => InProgressPeriod(day, run) \in fetched
  BY DEF FetchedPeriods
<1>7. \A s \in types : \E p \in fetched : p.setType = s
  BY <1>1, <1>2, <1>5, <1>6 DEF SetTypes
<1> QED BY <1>4, <1>7

\* A fetch over different windows returns no period twice.
LEMMA FetchedUnique ==
    ASSUME NEW cadences, \A c, d \in cadences : c.window = d.window => c = d,
           NEW types, NEW day, NEW run
    PROVE  Unique(FetchedPeriods(cadences, types, day, run))
<1> DEFINE fetched == FetchedPeriods(cadences, types, day, run)
<1> SUFFICES ASSUME NEW p \in fetched, NEW q \in fetched, p.setType = q.setType,
                    SameLabel(p, q)
             PROVE  p = q
  BY DEF Unique
<1>1. \A c : /\ ClosedPeriod(c, run).window = c.window
             /\ ClosedPeriod(c, run).setType = "closed"
  BY DEF ClosedPeriod
<1>2. InProgressPeriod(day, run).setType = "in_progress"
  BY DEF InProgressPeriod
<1>3. \A x \in fetched : \/ \E c \in cadences : x = ClosedPeriod(c, run)
                         \/ x = InProgressPeriod(day, run)
  BY DEF FetchedPeriods
<1>4. CASE p.setType = "closed"
  <2>1. PICK c \in cadences : p = ClosedPeriod(c, run)
    BY <1>2, <1>3, <1>4
  <2>2. PICK d \in cadences : q = ClosedPeriod(d, run)
    BY <1>2, <1>3, <1>4
  <2>3. c.window = d.window
    BY <1>1, <1>4, <2>1, <2>2 DEF SameLabel
  <2> QED BY <2>1, <2>2, <2>3
<1>5. CASE p.setType # "closed"
  BY <1>1, <1>3, <1>5
<1> QED BY <1>4, <1>5

\* What a scoped refresh carries over is of the other set types, so that
\* nothing is there twice after the merge.
LEMMA MergedUnique ==
    ASSUME NEW fetched, NEW existing, NEW types,
           Unique(fetched), Unique(existing), \A p \in fetched : p.setType \in types
    PROVE  Unique(fetched \cup PreservedPeriods(existing, types))
BY DEF Unique, PreservedPeriods

-----------------------------------------------------------------------------
(* Maps of teams.                                                          *)

\* An upsert of all teams is a swap.
LEMMA UpsertOfAll ==
    ASSUME NEW old \in TeamMap, NEW new \in TeamMap, Present(new) = Teams
    PROVE  Upserted(old, new) = new
<1>1. \A t \in Teams : new[t] # Absent
  BY DEF Present
<1>2. \A t \in Teams : Upserted(old, new)[t] = new[t]
  BY <1>1 DEF Upserted
<1> QED BY <1>2 DEF Upserted, TeamMap

\* The count of a map with one more team.
LEMMA CountOfOneMore ==
    ASSUME NEW data \in TeamMap, NEW t \in Teams, data[t] = Absent,
           NEW periods \in SUBSET ScoringPeriod
    PROVE  LET more == [data EXCEPT ![t] = [periods |-> periods]] IN
           /\ more \in TeamMap /\ more[t].periods = periods /\ more[t] # Absent
           /\ CountOf(more) = CountOf(data) \cup ({t} \X periods)
<1> DEFINE more == [data EXCEPT ![t] = [periods |-> periods]]
<1>1. [periods |-> periods] \in TeamData /\ [periods |-> periods].periods = periods
  BY DEF TeamData
<1>2. [periods |-> periods] # Absent
  BY <1>1, AbsentAssumption
<1>3. /\ more \in TeamMap /\ more[t] = [periods |-> periods]
      /\ \A u \in Teams : u # t => more[u] = data[u]
  BY <1>1 DEF TeamMap
<1> HIDE DEF more
<1>4. Present(more) = Present(data) \cup {t} /\ t \notin Present(data)
  BY <1>2, <1>3 DEF Present
<1>5. \A u \in Present(data) : {u} \X more[u].periods = {u} \X data[u].periods
  BY <1>3, <1>4 DEF Present
<1>6. {t} \X more[t].periods = {t} \X periods
  BY <1>1, <1>3
<1>7. CountOf(more) = CountOf(data) \cup ({t} \X periods)
  <2>1. \A x : x \in CountOf(more) <=> \E u \in Present(more) : x \in {u} \X more[u].periods
    BY DEF CountOf
  <2>2. \A x : x \in CountOf(data) <=> \E u \in Present(data) : x \in {u} \X data[u].periods
    BY DEF CountOf
  <2> QED BY <1>4, <1>5, <1>6, <2>1, <2>2
<1> QED BY <1>1, <1>2, <1>3, <1>7 DEF more

LEMMA CountOfNone == NoTeams \in TeamMap /\ Present(NoTeams) = {} /\ CountOf(NoTeams) = {}
BY DEF NoTeams, TeamMap, Present, CountOf
=============================================================================
