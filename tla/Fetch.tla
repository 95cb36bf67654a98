-------------------------------- MODULE Fetch --------------------------------
(***************************************************************************)
(* One team's fetch in a refresh (fetchTeamDataScoped): the sprints of its *)
(* boards, then one paged query for each period, with a pause between two  *)
(* pages once one had issues, a retry of what Jira rejects with 429, and   *)
(* the team's timeout.                                                     *)
(*                                                                         *)
(* This is the inside of FetchTeam and FailTeamFetch of module Reconciler. *)
(* Jira is external: it answers a page with some of the issues that match  *)
(* at that moment, in its order, and issues are resolved, reopened and     *)
(* edited while the pages are read.  Time is counted in units of which     *)
(* Delay, the back-off and the timeout are multiples.                      *)
(*                                                                         *)
(* A closed query is about resolved issues of one window and the last      *)
(* query about issues in progress, so an issue matches one of them at a    *)
(* time, or none: place[i] is the number of that period, or 0.             *)
(***************************************************************************)
EXTENDS Integers, SequencesExt

CONSTANTS Order,         \* the issues, in the order Jira answers them
          Starts,        \* the places they may have when the fetch begins
          BoardSprints,  \* per board of the team, its active and closed sprints
          SprintPage,    \* sprints the Agile API answers at most in a response
          Periods,       \* the periods of the refresh: closed ones and the in-progress one
          MaxResults,    \* issues asked for in a page: 100
          Delay,         \* config.Jira.RequestDelayMs
          MinBackoff,    \* time.Second
          Timeout,       \* 60*time.Second
          MaxChanges     \* bounds the changes in Jira during the fetch

ASSUME FetchAssumption ==
    /\ Periods \in Nat \ {0} /\ MaxResults \in Nat \ {0} /\ SprintPage \in Nat \ {0}
    /\ Delay \in Nat /\ MinBackoff \in Nat \ {0} /\ Timeout \in Nat \ {0}
    /\ MaxChanges \in Nat
    /\ Order \in Seq(Range(Order))
    /\ \A m, n \in DOMAIN Order : m # n => Order[m] # Order[n]
    /\ BoardSprints \in Seq(Range(BoardSprints))
    /\ \A b \in DOMAIN BoardSprints : BoardSprints[b] \in Seq(Range(BoardSprints[b]))
    /\ Starts \subseteq [Range(Order) -> 0..Periods]

VARIABLES fetch,     \* the local variables of the fetch, and when its timer fires
          clock,     \* time since the fetch began
          place,     \* per issue, the period whose query it matches
          changes,   \* the changes Jira has left
          seen,      \* what matched when the query's first page was read, how
                     \* that changed since, and what was reopened in the fetch
          call       \* when the last query was sent, and its answer

vars == <<fetch, clock, place, changes, seen, call>>

Issues == Range(Order)

\* The period of the issues in progress.
InProgress == Periods

Ended == fetch.pc \in {"done", "failed"}

Expired == clock >= Timeout

Init ==
    /\ fetch = [pc |-> IF BoardSprints = <<>> THEN "calling" ELSE "discovering",
                board |-> 1, sprintIDs |-> <<>>, startAt |-> 0,
                allIssues |-> <<>>, wake |-> 0, periods |-> <<>>]
    /\ clock = 0
    /\ place \in Starts
    /\ changes = MaxChanges
    /\ seen = [first |-> <<>>, kinds |-> {}, reopened |-> {}]
    /\ call = [at |-> 0, answer |-> "none"]

Fail == fetch' = [fetch EXCEPT !.pc = "failed"]

-----------------------------------------------------------------------------
(* The sprints of a sprint_board team.                                     *)

\* One response, whatever its isLast says.
FetchBoardSprints(board) ==
    SubSeq(BoardSprints[board], 1,
           IF Len(BoardSprints[board]) < SprintPage THEN Len(BoardSprints[board])
                                                    ELSE SprintPage)

DiscoverSprintIDs ==
    /\ fetch.pc = "discovering"
    /\ ~Expired
    /\ fetch' = [fetch EXCEPT
                   !.sprintIDs = @ \o FetchBoardSprints(fetch.board),
                   !.board = @ + 1,
                   !.pc = IF fetch.board = Len(BoardSprints) THEN "calling" ELSE @]
    /\ UNCHANGED <<clock, place, changes, seen, call>>

\* Any other answer than 200 fails the fetch, 429 too.
FailDiscovery ==
    /\ fetch.pc = "discovering"
    /\ Fail
    /\ UNCHANGED <<clock, place, changes, seen, call>>

-----------------------------------------------------------------------------
(* fetchAllIssues.                                                         *)

Called(answer) == call' = [at |-> clock, answer |-> answer]

\* Faulty variant: the issues in progress are asked for before the closed ones.
QueryOfInProgressFirst(n) == IF n = 1 THEN InProgress ELSE n - 1

\* The period the nth query is for: the closed ones come first.
QueryOf(n) == n

Asked == QueryOf(Len(fetch.periods) + 1)

\* Where in Jira's order the issues are that the current query matches.
Hits == {m \in DOMAIN Order : place[Order[m]] = Asked}

Upto(hits, m) == {k \in hits : k <= m}

\* What the current query matches: the nth issue has n hits up to its own place.
matching ==
    LET hits == Hits
    IN  [n \in 1..Cardinality(hits) |->
           Order[CHOOSE m \in hits : Cardinality(Upto(hits, m)) = n]]

\* Jira may cap a page below what is asked for, or answer an empty one.
Pages(all) == {SubSeq(all, fetch.startAt + 1,
                      IF fetch.startAt + n < Len(all) THEN fetch.startAt + n ELSE Len(all)) :
                 n \in 0..MaxResults}

\* Faulty variant: the last period is asked for once more.
CompleteQueryOffByOne(all) ==
    fetch' = [fetch EXCEPT !.periods = Append(@, all), !.allIssues = <<>>, !.startAt = 0,
                           !.pc = IF Len(fetch.periods) = Periods THEN "done" ELSE "calling"]

\* The query is answered in full: its period is there, the next query starts.
CompleteQuery(all) ==
    fetch' = [fetch EXCEPT !.periods = Append(@, all), !.allIssues = <<>>, !.startAt = 0,
                           !.pc = IF Len(fetch.periods) + 1 = Periods THEN "done" ELSE "calling"]

\* The loop starts over with the variables f: it pauses only when issues of the
\* query have been read, and calls Jira at once at offset 0.
LoopAgain(f) ==
    IF f.startAt > 0 /\ Delay > 0 THEN [f EXCEPT !.pc = "pausing", !.wake = clock + Delay]
                                  ELSE [f EXCEPT !.pc = "calling", !.wake = 0]

\* Faulty variant: the offset is not advanced.
NextPageSameOffset(page, all) == fetch' = LoopAgain([fetch EXCEPT !.allIssues = all])

\* An empty page short of what matches leaves the offset where it is.
NextPage(page, all) ==
    fetch' = LoopAgain([fetch EXCEPT !.allIssues = all, !.startAt = @ + Len(page)])

ReceivePage ==
    /\ fetch.pc = "calling"
    /\ ~Expired
    /\ LET answer == matching
       IN  /\ \E page \in Pages(answer) :
                LET all == fetch.allIssues \o page
                IN  IF Len(all) >= Len(answer) THEN CompleteQuery(all) ELSE NextPage(page, all)
           /\ seen' = IF fetch.startAt = 0 THEN [seen EXCEPT !.first = answer, !.kinds = {}]
                                            ELSE seen
    /\ Called("page")
    /\ UNCHANGED <<clock, place, changes>>

Backoff == IF 2 * Delay < MinBackoff THEN MinBackoff ELSE 2 * Delay

\* Faulty variant: the query is repeated at once.
ReceiveRateLimitAndRetry ==
    /\ fetch.pc = "calling"
    /\ ~Expired
    /\ fetch' = [fetch EXCEPT !.pc = "backingOff", !.wake = clock]
    /\ Called("429")
    /\ UNCHANGED <<clock, place, changes, seen>>

ReceiveRateLimit ==
    /\ fetch.pc = "calling"
    /\ ~Expired
    /\ fetch' = [fetch EXCEPT !.pc = "backingOff", !.wake = clock + Backoff]
    /\ Called("429")
    /\ UNCHANGED <<clock, place, changes, seen>>

\* Faulty variant: the error of an expired context is tried again like a 429.
ReceiveErrorAndRetry ==
    /\ fetch.pc = "calling"
    /\ IF Expired THEN fetch' = [fetch EXCEPT !.pc = "backingOff", !.wake = clock] ELSE Fail
    /\ Called("error")
    /\ UNCHANGED <<clock, place, changes, seen>>

\* Any other error of Jira's, or of the context when it has expired.
ReceiveError ==
    /\ fetch.pc = "calling"
    /\ Fail
    /\ Called("error")
    /\ UNCHANGED <<clock, place, changes, seen>>

\* The select on the timer and the context: both may be ready.
EndPause ==
    /\ fetch.pc = "pausing"
    /\ \/ clock >= fetch.wake /\ fetch' = [fetch EXCEPT !.pc = "calling", !.wake = 0]
       \/ Expired /\ Fail
    /\ UNCHANGED <<clock, place, changes, seen, call>>

EndBackoff ==
    /\ fetch.pc = "backingOff"
    /\ \/ clock >= fetch.wake /\ fetch' = LoopAgain(fetch)
       \/ Expired /\ Fail
    /\ UNCHANGED <<clock, place, changes, seen, call>>

-----------------------------------------------------------------------------
(* Time, and Jira.                                                         *)

Tick ==
    /\ ~Ended /\ ~Expired
    /\ clock' = clock + 1
    /\ UNCHANGED <<fetch, place, changes, seen, call>>

\* An issue is resolved, reopened or edited.
Move(i, to) ==
    /\ ~Ended /\ changes > 0
    /\ place[i] # to
    /\ place' = [place EXCEPT ![i] = to]
    /\ changes' = changes - 1
    /\ seen' = [seen EXCEPT
                  !.kinds = @ \cup (IF place[i] = Asked THEN {"removed"} ELSE {})
                              \cup (IF to = Asked THEN {"added"} ELSE {}),
                  !.reopened = @ \cup (IF place[i] \notin {0, InProgress} THEN {i} ELSE {})]
    /\ UNCHANGED <<fetch, clock, call>>

JiraChanges == \E i \in Issues, to \in 0..Periods : Move(i, to)

-----------------------------------------------------------------------------
Query == ReceivePage \/ ReceiveRateLimit \/ ReceiveError

Step == DiscoverSprintIDs \/ FailDiscovery \/ Query \/ EndPause \/ EndBackoff

Finished == Ended /\ UNCHANGED vars

Next == Step \/ Tick \/ JiraChanges \/ Finished

Spec == Init /\ [][Next]_vars

\* The goroutine runs, and so does the clock.
FairSpec == Spec /\ WF_vars(Step) /\ WF_vars(Tick)

-----------------------------------------------------------------------------
(* Properties.                                                             *)

Sprints == UNION {Range(BoardSprints[b]) : b \in DOMAIN BoardSprints}

\* Every variable holds a value of its type, and a fetch is done when it has
\* all its periods.
TypeOK ==
    /\ fetch \in [pc: {"discovering", "calling", "pausing", "backingOff", "done", "failed"},
                  board: 1..(Len(BoardSprints) + 1), sprintIDs: Seq(Sprints),
                  startAt: Nat, allIssues: Seq(Issues), wake: Nat,
                  periods: Seq(Seq(Issues))]
    /\ fetch.pc = "done" <=> Len(fetch.periods) = Periods
    /\ clock \in 0..Timeout
    /\ place \in [Issues -> 0..Periods]
    /\ changes \in 0..MaxChanges
    /\ seen \in [first: Seq(Issues), kinds: SUBSET {"added", "removed"},
                 reopened: SUBSET Issues]
    /\ call \in [at: 0..Timeout, answer: {"none", "page", "429", "error"}]

\* What the pages of a query add up to: if nothing stopped matching while
\* they were read, every issue that matched at first; if nothing started to
\* match, no issue twice and none that did not match at first; so if Jira did
\* not change, its answer exactly, whatever sizes the pages had, empty ones too,
\* and however often one was asked for.
PagesAddUp ==
    [][ Len(fetch'.periods) > Len(fetch.periods) =>
          LET found == Last(fetch'.periods)
          IN  /\ "removed" \notin seen'.kinds => Range(seen'.first) \subseteq Range(found)
              /\ "added" \notin seen'.kinds =>
                   /\ \A m, n \in DOMAIN found : m # n => found[m] # found[n]
                   /\ Range(found) \subseteq Range(seen'.first)
              /\ seen'.kinds = {} => found = seen'.first ]_vars

\* An issue counted as closed and as in progress has been reopened, or edited
\* after it was resolved, during the fetch: one that is resolved meanwhile may
\* be missed, and is never counted twice.
CountedOnce ==
    fetch.pc = "done" =>
        \A m, n \in 1..Periods :
            QueryOf(n) = InProgress /\ QueryOf(m) # InProgress =>
              Range(fetch.periods[m]) \cap Range(fetch.periods[n]) \subseteq seen.reopened

\* Jira is left alone for the back-off after a 429, the same however many came
\* before it, and for the delay before each call at an offset above 0: after a
\* page, and on top of the back-off after a 429.  It is not at offset 0, where an
\* empty page is followed by the next call at once, and one query by the next.
JiraIsLeftAlone ==
    [][ Query =>
          /\ call.answer = "429" =>
               clock - call.at >= Backoff + (IF fetch.startAt > 0 THEN Delay ELSE 0)
          /\ call.answer = "page" /\ fetch.startAt > 0 => clock - call.at >= Delay ]_vars

\* A fetch ends, however often Jira answers 429, or an empty page short of its
\* own total, after which the fetch asks the same again: its timeout ends it, and
\* so the refresh it is part of does not stay running.
FetchEnds == <>Ended

-----------------------------------------------------------------------------
(* What the repository's documents say and the code does not do.           *)

\* sprints.go: the active and closed sprints of a board are retrieved.
SprintsAreFound ==
    fetch.pc \in {"calling", "done"} => Range(fetch.sprintIDs) = Sprints
=============================================================================
