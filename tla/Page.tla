--------------------------------- MODULE Page ---------------------------------
(***************************************************************************)
(* The web page (frontend/index.html): loadData, refreshData and           *)
(* pollRefresh are asynchronous, and their requests cross in the network.  *)
(* The filter bar and the Retry button are drawn by render only when       *)
(* nothing is loading; the refresh button is outside what render draws.    *)
(*                                                                         *)
(* The service is the abstract one of RefreshLifecycle, which the server   *)
(* implements, with other clients that refresh it too.  A request is       *)
(* handled when it arrives, and its answer arrives later; either may be    *)
(* lost, which the page sees as a network error.                           *)
(***************************************************************************)
EXTENDS Naturals, Sequences, FiniteSets

CONSTANTS Teams, SetTypes,
          Filters,      \* what the filter bar may be set to
          NoFilter,     \* all its fields empty
          MaxClicks,    \* bounds the clicks on Refresh Data
          UserLoads,    \* after more loads than these the user asks for none
          MaxRuns       \* bounds the refreshes of other clients

ASSUME PageAssumption ==
    /\ NoFilter \in Filters
    /\ MaxClicks \in Nat /\ UserLoads \in Nat /\ MaxRuns \in Nat

VARIABLES status, run, published, data,  \* the service
          page,   \* the state object and the refresh button
          chain,  \* per click, where refreshData and pollRefresh are
          load    \* the calls of loadData, where each is

serviceVars == <<status, run, published, data>>

vars == <<serviceVars, page, chain, load>>

Service == INSTANCE RefreshLifecycle

Clicks == 1..MaxClicks

HasData == \E t \in Teams, s \in SetTypes : data[t][s] # {}

InFlight == {l \in DOMAIN load : load[l].pc # "done"}

\* The clicks whose refresh is followed.
Active == {k \in Clicks : chain[k].pc \notin {"none", "done"}}

\* by says who calls loadData, overlaps whether another call is in flight.
Asked(by, filters, overlaps) ==
    [pc |-> "asked", by |-> by, filters |-> filters, overlaps |-> overlaps,
     run |-> 0, over |-> FALSE, ok |-> FALSE]

\* loadData up to its fetch: it asks with the filters of now.
LoadData(by, filters, button) ==
    /\ page' = [page EXCEPT !.loading = TRUE, !.error = FALSE, !.filters = filters,
                            !.button = button]
    /\ load' = Append(load, Asked(by, filters, InFlight # {}))

\* The page has just called loadData.
Init ==
    /\ Service!Init
    /\ page = [button |-> TRUE, loading |-> TRUE, error |-> FALSE, filters |-> NoFilter,
               shown |-> {}]
    /\ chain = [k \in Clicks |-> [pc |-> "none", run |-> 0, seen |-> ""]]
    /\ load = <<Asked("page", NoFilter, FALSE)>>

-----------------------------------------------------------------------------
(* loadData.                                                               *)

\* GET /api/scorecard: without data it is an error.
HandleLoad(l) ==
    /\ load[l].pc = "asked"
    /\ load' = [load EXCEPT ![l] = [@ EXCEPT !.pc = "answered", !.ok = HasData, !.run = run,
                                             !.over = status # "running"]]
    /\ UNCHANGED <<serviceVars, page, chain>>

Done(l) == [load EXCEPT ![l] = [@ EXCEPT !.pc = "done", !.run = 0, !.over = FALSE, !.ok = FALSE]]

\* A good answer leaves an error that another answer has set.
ReceiveLoad(l) ==
    /\ load[l].pc = "answered"
    /\ page' = [page EXCEPT !.loading = FALSE,
                            !.shown = IF load[l].ok THEN {l} ELSE @,
                            !.error = IF load[l].ok THEN @ ELSE TRUE]
    /\ load' = Done(l)
    /\ UNCHANGED <<serviceVars, chain>>

LoseLoad(l) ==
    /\ load[l].pc \in {"asked", "answered"}
    /\ page' = [page EXCEPT !.loading = FALSE, !.error = TRUE]
    /\ load' = Done(l)
    /\ UNCHANGED <<serviceVars, chain>>

-----------------------------------------------------------------------------
(* What the user can do with what is drawn.                                *)

MayAsk == Len(load) <= UserLoads

\* Faulty variant: the filter bar is not taken away while something loads.
FilterBarStays == ~page.error

\* render: the filter bar is drawn above the data.
FilterBar == ~page.loading /\ ~page.error /\ page.shown # {}

ApplyFilters(filters) ==
    /\ FilterBar /\ MayAsk
    /\ LoadData("user", filters, page.button)
    /\ UNCHANGED <<serviceVars, chain>>

\* The button is drawn when the bar has filters.
ClearFilters ==
    /\ FilterBar /\ MayAsk
    /\ page.filters # NoFilter
    /\ LoadData("user", NoFilter, page.button)
    /\ UNCHANGED <<serviceVars, chain>>

Retry ==
    /\ ~page.loading /\ page.error /\ MayAsk
    /\ LoadData("user", page.filters, page.button)
    /\ UNCHANGED <<serviceVars, chain>>

RefreshData(k) ==
    /\ page.button
    /\ chain[k].pc = "none" /\ \A j \in 1..(k - 1) : chain[j].pc # "none"
    /\ page' = [page EXCEPT !.button = FALSE]
    /\ chain' = [chain EXCEPT ![k].pc = "posted"]
    /\ UNCHANGED <<serviceVars, load>>

-----------------------------------------------------------------------------
(* refreshData after its fetch, and pollRefresh.                           *)

Goto(k, pc) == chain' = [chain EXCEPT ![k] = [@ EXCEPT !.pc = pc, !.seen = ""]]

HandlePost(k) ==
    /\ chain[k].pc = "posted"
    /\ \/ Service!Start /\ chain' = [chain EXCEPT ![k].pc = "accepted", ![k].run = run + 1]
       \/ status = "running" /\ Goto(k, "refused") /\ UNCHANGED serviceVars
    /\ UNCHANGED <<page, load>>

\* Faulty variant: the button is there again as soon as the refresh runs.
ReceiveAcceptedEarly(k) ==
    /\ chain[k].pc = "accepted"
    /\ Goto(k, "polling")
    /\ page' = [page EXCEPT !.button = TRUE]
    /\ UNCHANGED <<serviceVars, load>>

ReceiveAccepted(k) ==
    /\ chain[k].pc = "accepted"
    /\ Goto(k, "polling")
    /\ UNCHANGED <<serviceVars, page, load>>

\* The button is enabled again; nothing is loaded.
GiveUp(k) ==
    /\ page' = [page EXCEPT !.button = TRUE]
    /\ Goto(k, "done")
    /\ UNCHANGED <<serviceVars, load>>

\* Faulty variant: an answer that is not ok is followed like a good one.
ReceiveRefusedAsOk(k) ==
    chain[k].pc = "refused" /\ Goto(k, "polling") /\ UNCHANGED <<serviceVars, page, load>>

ReceiveRefused(k) == chain[k].pc = "refused" /\ GiveUp(k)

LosePost(k) == chain[k].pc \in {"posted", "accepted", "refused"} /\ GiveUp(k)

HandlePoll(k) ==
    /\ chain[k].pc = "polling"
    /\ chain' = [chain EXCEPT ![k].pc = "told", ![k].seen = status]
    /\ UNCHANGED <<serviceVars, page, load>>

\* Faulty variant: the first status is taken for the last.
ReceivePollOnce(k) ==
    /\ chain[k].pc = "told"
    /\ Goto(k, "done") /\ LoadData("refresh", page.filters, TRUE)
    /\ UNCHANGED serviceVars

\* Whatever the refresh has ended with, the scorecard is loaded.
ReceivePoll(k) ==
    /\ chain[k].pc = "told"
    /\ \/ chain[k].seen = "running" /\ Goto(k, "waiting") /\ UNCHANGED <<page, load>>
       \/ /\ chain[k].seen # "running"
          /\ Goto(k, "done") /\ LoadData("refresh", page.filters, TRUE)
    /\ UNCHANGED serviceVars

\* The two seconds are over.
PollAgain(k) ==
    /\ chain[k].pc = "waiting"
    /\ Goto(k, "polling")
    /\ UNCHANGED <<serviceVars, page, load>>

\* Faulty variant: an error of the poll is not caught.
LosePollUncaught(k) ==
    /\ chain[k].pc \in {"polling", "told"}
    /\ Goto(k, "done")
    /\ UNCHANGED <<serviceVars, page, load>>

LosePoll(k) == chain[k].pc \in {"polling", "told"} /\ GiveUp(k)

-----------------------------------------------------------------------------
LoadStep(l) == HandleLoad(l) \/ ReceiveLoad(l) \/ LoseLoad(l)

ChainStep(k) ==
    \/ HandlePost(k) \/ ReceiveAccepted(k) \/ ReceiveRefused(k) \/ LosePost(k)
    \/ HandlePoll(k) \/ ReceivePoll(k) \/ PollAgain(k) \/ LosePoll(k)

UserStep ==
    \/ \E f \in Filters : ApplyFilters(f)
    \/ ClearFilters
    \/ Retry
    \/ \E k \in Clicks : RefreshData(k)

\* The refreshes go on by themselves, and other clients start some.
ServiceStep ==
    /\ \/ run < MaxRuns /\ Service!Start
       \/ Service!Publish \/ Service!Complete \/ Service!Fail
    /\ UNCHANGED <<page, chain, load>>

\* A page nobody touches, with nothing under way.
Quiet == InFlight = {} /\ Active = {} /\ UNCHANGED vars

Next ==
    \/ \E l \in DOMAIN load : LoadStep(l)
    \/ \E k \in Clicks : ChainStep(k)
    \/ UserStep
    \/ ServiceStep
    \/ Quiet

Spec == Init /\ [][Next]_vars

\* A fetch is answered or fails, a timer fires, and a refresh ends; the user
\* and the other clients need not do anything.
Fairness ==
    /\ \A l \in 1..(1 + MaxClicks + UserLoads) : WF_vars(l \in DOMAIN load /\ LoadStep(l))
    /\ \A k \in Clicks : WF_vars(ChainStep(k))
    /\ WF_vars((Service!Publish \/ Service!Complete \/ Service!Fail)
                 /\ UNCHANGED <<page, chain, load>>)

FairSpec == Spec /\ Fairness

-----------------------------------------------------------------------------
(* Properties.                                                             *)

\* Every variable holds a value of its type, and a status is read only by a
\* click whose refresh was accepted.
TypeOK ==
    /\ status \in {"idle", "running", "completed", "failed"} /\ run \in Nat
    /\ page \in [button: BOOLEAN, loading: BOOLEAN, error: BOOLEAN, filters: Filters,
                 shown: {{}} \cup {{l} : l \in DOMAIN load}]
    /\ chain \in [Clicks -> [pc: {"none", "posted", "accepted", "refused", "polling",
                                "told", "waiting", "done"},
                           run: 0..run,
                           seen: {"", "idle", "running", "completed", "failed"}]]
    /\ \A k \in Clicks : chain[k].pc \in {"polling", "told", "waiting"} => chain[k].run > 0
    /\ load \in Seq([pc: {"asked", "answered", "done"}, by: {"page", "user", "refresh"},
                     filters: Filters, overlaps: BOOLEAN, run: 0..run, over: BOOLEAN,
                     ok: BOOLEAN])
    /\ Len(load) <= 1 + MaxClicks + UserLoads

\* The button is enabled exactly while no refresh of the page is followed, and
\* two are never followed at once, whichever of the answers and timers of the
\* two functions comes or is lost; the spinner is shown only while something
\* loads.
OneRefreshFollowed ==
    /\ page.button <=> Active = {}
    /\ \A j, k \in Active : j = k
    /\ page.loading => InFlight # {}

\* A load that follows a refresh is answered by a service whose refresh, the
\* page's own, has ended, though others may have begun one since: the page
\* never shows as refreshed what was there before.
ReloadIsAfterRefresh ==
    \A l \in DOMAIN load :
        load[l].by = "refresh" /\ load[l].pc = "answered" =>
            \E k \in Clicks :
                /\ chain[k].pc = "done" /\ 0 < chain[k].run /\ chain[k].run <= load[l].run
                /\ load[l].run = chain[k].run => load[l].over

\* As long as no two loads overlap, what is drawn is the answer to the last
\* one, which was asked for with the filters in the bar, or its error; and
\* none do unless the page itself loads after a refresh.  Answers of
\* overlapping loads may arrive in either order, and the last that arrives wins.
ShownIsAsked ==
    /\ (\E l \in DOMAIN load : load[l].overlaps) => \E l \in DOMAIN load : load[l].by = "refresh"
    /\ ~page.loading /\ ~page.error /\ (\A l \in DOMAIN load : ~load[l].overlaps) =>
         /\ page.shown = {Len(load)}
         /\ load[Len(load)].filters = page.filters

\* The button and the data come back, whatever is lost on the way.
PageComesBack ==
    /\ ~page.button ~> page.button
    /\ page.loading ~> ~page.loading
=============================================================================
