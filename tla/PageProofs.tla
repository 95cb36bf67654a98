------------------------------ MODULE PageProofs ------------------------------
(***************************************************************************)
(* Theorems about Page, for any filters and any bounds on the clicks, the  *)
(* loads of the user and the refreshes of other clients.                   *)
(***************************************************************************)
EXTENDS Page, SequenceTheorems, FiniteSetTheorems, TLAPS

ChainPC == {"none", "posted", "accepted", "refused", "polling", "told", "waiting", "done"}

Statuses == {"idle", "running", "completed", "failed"}

Chain == [pc: ChainPC, run: Nat, seen: {""} \cup Statuses]

Load == [pc: {"asked", "answered", "done"}, by: {"page", "user", "refresh"},
         filters: Filters, overlaps: BOOLEAN, run: Nat, over: BOOLEAN, ok: BOOLEAN]

PageFields == [button: BOOLEAN, loading: BOOLEAN, error: BOOLEAN, filters: Filters,
               shown: SUBSET Nat]

-----------------------------------------------------------------------------
(* Types.  The bounds that relate one variable to another are stated apart.*)

Kinds ==
    /\ status \in Statuses /\ run \in Nat
    /\ page \in PageFields
    /\ chain \in [Clicks -> Chain]
    /\ load \in Seq(Load)

Bounds ==
    /\ page.shown \in {{}} \cup {{l} : l \in DOMAIN load}
    /\ \A k \in Clicks : chain[k].run <= run
    /\ \A k \in Clicks : chain[k].pc \in {"accepted", "polling", "told", "waiting"} => chain[k].run > 0
    /\ \A l \in DOMAIN load : load[l].run <= run

\* What an element of load is.
LEMMA LoadType ==
    ASSUME Kinds
    PROVE  /\ DOMAIN load = 1..Len(load) /\ Len(load) \in Nat
           /\ \A l \in DOMAIN load : load[l] \in Load
BY LenProperties, ElementOfSeq DEF Kinds

\* A call of loadData that goes on stays where it is, the others as they are.
LEMMA LoadGoesOn ==
    ASSUME Kinds, NEW l \in DOMAIN load, NEW next \in Load, load' = [load EXCEPT ![l] = next]
    PROVE  /\ load' \in Seq(Load) /\ Len(load') = Len(load) /\ DOMAIN load' = DOMAIN load
           /\ load'[l] = next
           /\ \A m \in DOMAIN load : m # l => load'[m] = load[m]
<1>1. load \in Seq(Load) /\ l \in 1..Len(load)
  BY LoadType DEF Kinds
<1>2. load' \in Seq(Load) /\ Len(load') = Len(load)
  BY <1>1, ExceptSeq
<1>3. \A j \in 1..Len(load) : load'[j] = IF j = l THEN next ELSE load[j]
  BY <1>1, ExceptSeq
<1>4. DOMAIN load' = 1..Len(load) /\ DOMAIN load = 1..Len(load)
  BY <1>1, <1>2, LenProperties
<1> QED BY <1>1, <1>2, <1>3, <1>4

\* A new call is the last.
LEMMA LoadAppended ==
    ASSUME Kinds, NEW new \in Load, load' = Append(load, new)
    PROVE  /\ load' \in Seq(Load) /\ Len(load') = Len(load) + 1
           /\ DOMAIN load' = DOMAIN load \cup {Len(load')}
           /\ Len(load') \notin DOMAIN load
           /\ load'[Len(load')] = new
           /\ \A m \in DOMAIN load : load'[m] = load[m]
<1>1. load \in Seq(Load) /\ DOMAIN load = 1..Len(load) /\ Len(load) \in Nat
  BY LoadType DEF Kinds
<1>2. load' \in Seq(Load) /\ Len(load') = Len(load) + 1
  BY <1>1
<1>3. DOMAIN load' = 1..(Len(load) + 1)
  BY <1>2, LenProperties
<1>4. /\ load'[Len(load) + 1] = new
      /\ \A m \in 1..Len(load) : load'[m] = load[m]
  BY <1>1
<1> QED BY <1>1, <1>2, <1>3, <1>4

\* loadData appends a call that asks, and shows the spinner.
LEMMA LoadDataType ==
    ASSUME Kinds, NEW by \in {"page", "user", "refresh"}, NEW filters \in Filters,
           NEW button \in BOOLEAN, LoadData(by, filters, button)
    PROVE  /\ page' \in PageFields
           /\ page'.button = button /\ page'.loading /\ ~page'.error
           /\ page'.filters = filters /\ page'.shown = page.shown
           /\ Asked(by, filters, InFlight # {}) \in Load
           /\ load' = Append(load, Asked(by, filters, InFlight # {}))
<1>1. page' = [page EXCEPT !.loading = TRUE, !.error = FALSE, !.filters = filters,
                           !.button = button]
  BY DEF LoadData
<1>2. page \in PageFields
  BY DEF Kinds
<1>3. page' \in PageFields
  BY <1>1, <1>2 DEF PageFields
<1>4. page'.button = button /\ page'.loading = TRUE /\ page'.error = FALSE
  BY <1>1, <1>2 DEF PageFields
<1>5. page'.filters = filters /\ page'.shown = page.shown
  BY <1>1, <1>2 DEF PageFields
<1>6. (InFlight # {}) \in BOOLEAN
  OBVIOUS
<1>7. Asked(by, filters, InFlight # {}) \in Load
  BY <1>6 DEF Asked, Load
<1> QED BY <1>3, <1>4, <1>5, <1>7 DEF LoadData

\* What a step of a call of loadData does.
LEMMA HandleLoadEffect ==
    ASSUME Kinds, NEW l \in DOMAIN load, HandleLoad(l)
    PROVE  \E next \in Load :
             /\ load' = [load EXCEPT ![l] = next]
             /\ load[l].pc = "asked" /\ next.pc = "answered"
             /\ next.by = load[l].by /\ next.filters = load[l].filters
             /\ next.overlaps = load[l].overlaps
             /\ next.run = run /\ next.over = (status # "running")
<1> DEFINE next == [load[l] EXCEPT !.pc = "answered", !.ok = HasData, !.run = run,
                                   !.over = status # "running"]
<1>1. load[l] \in Load /\ run \in Nat
  BY LoadType DEF Kinds
<1>2. HasData \in BOOLEAN /\ (status # "running") \in BOOLEAN
  BY DEF HasData
<1>3. next \in Load
  BY <1>1, <1>2 DEF Load
<1>4. next.pc = "answered" /\ next.run = run /\ next.over = (status # "running")
  BY <1>1 DEF Load
<1>5. next.by = load[l].by /\ next.filters = load[l].filters
  BY <1>1 DEF Load
<1>6. next.overlaps = load[l].overlaps
  BY <1>1 DEF Load
<1>7. load' = [load EXCEPT ![l] = next] /\ load[l].pc = "asked"
  BY DEF HandleLoad
<1> QED BY <1>3, <1>4, <1>5, <1>6, <1>7

LEMMA ReturnLoadEffect ==
    ASSUME Kinds, NEW l \in DOMAIN load, ReceiveLoad(l) \/ LoseLoad(l)
    PROVE  /\ \E next \in Load :
                /\ load' = [load EXCEPT ![l] = next]
                /\ load[l].pc # "done" /\ next.pc = "done"
                /\ next.by = load[l].by /\ next.filters = load[l].filters
                /\ next.overlaps = load[l].overlaps /\ next.run = 0
           /\ page' \in PageFields
           /\ page'.button = page.button /\ page'.filters = page.filters /\ ~page'.loading
           /\ \/ page'.shown = {l}
              \/ page'.shown = page.shown /\ page'.error
<1> DEFINE next == [load[l] EXCEPT !.pc = "done", !.run = 0, !.over = FALSE, !.ok = FALSE]
<1>1. load[l] \in Load /\ page \in PageFields /\ l \in Nat
  BY LoadType DEF Kinds
<1>2. next \in Load
  BY <1>1 DEF Load
<1>3. next.pc = "done" /\ next.run = 0
  BY <1>1 DEF Load
<1>4. next.by = load[l].by /\ next.filters = load[l].filters
  BY <1>1 DEF Load
<1>5. next.overlaps = load[l].overlaps
  BY <1>1 DEF Load
<1>6. load' = [load EXCEPT ![l] = next] /\ load[l].pc # "done"
  BY DEF ReceiveLoad, LoseLoad, Done
<1>7. CASE ReceiveLoad(l) /\ load[l].ok
  <2>1. page' = [page EXCEPT !.loading = FALSE, !.shown = {l}, !.error = page.error]
    BY <1>7 DEF ReceiveLoad
  <2> QED BY <1>1, <1>2, <1>3, <1>4, <1>5, <1>6, <2>1 DEF PageFields
<1>8. CASE ReceiveLoad(l) /\ ~load[l].ok
  <2>1. page' = [page EXCEPT !.loading = FALSE, !.shown = page.shown, !.error = TRUE]
    BY <1>8 DEF ReceiveLoad
  <2> QED BY <1>1, <1>2, <1>3, <1>4, <1>5, <1>6, <2>1 DEF PageFields
<1>9. CASE LoseLoad(l)
  <2>1. page' = [page EXCEPT !.loading = FALSE, !.error = TRUE]
    BY <1>9 DEF LoseLoad
  <2> QED BY <1>1, <1>2, <1>3, <1>4, <1>5, <1>6, <2>1 DEF PageFields
<1> QED BY <1>7, <1>8, <1>9

\* What the user does: a load when none is shown to be under way, or a click.
LEMMA UserEffect ==
    ASSUME Kinds, UserStep
    PROVE  /\ UNCHANGED serviceVars
           /\ \/ /\ \E f \in Filters : LoadData("user", f, page.button)
                 /\ MayAsk /\ ~page.loading /\ chain' = chain
              \/ \E k \in Clicks : RefreshData(k)
<1>1. page.filters \in Filters /\ NoFilter \in Filters
  BY PageAssumption DEF Kinds, PageFields
<1> QED BY <1>1 DEF UserStep, ApplyFilters, ClearFilters, Retry, FilterBar, RefreshData

\* A click that moves on.
LEMMA ChainMoves ==
    ASSUME Kinds, NEW k \in Clicks, NEW next \in Chain, chain' = [chain EXCEPT ![k] = next]
    PROVE  /\ chain' \in [Clicks -> Chain] /\ chain'[k] = next
           /\ \A j \in Clicks : j # k => chain'[j] = chain[j]
BY DEF Kinds

LEMMA GotoEffect ==
    ASSUME Kinds, NEW k \in Clicks, NEW pc \in ChainPC, Goto(k, pc)
    PROVE  /\ chain' \in [Clicks -> Chain]
           /\ chain'[k].pc = pc /\ chain'[k].run = chain[k].run /\ chain'[k].seen = ""
           /\ \A j \in Clicks : j # k => chain'[j] = chain[j]
<1> DEFINE next == [chain[k] EXCEPT !.pc = pc, !.seen = ""]
<1>1. chain[k] \in Chain
  BY DEF Kinds
<1>2. next \in Chain /\ next.pc = pc /\ next.run = chain[k].run /\ next.seen = ""
  BY <1>1 DEF Chain
<1>3. chain' = [chain EXCEPT ![k] = next]
  BY DEF Goto
<1> HIDE DEF next
<1> QED BY <1>2, <1>3, ChainMoves

LEMMA ClickEffect ==
    ASSUME Kinds, NEW k \in Clicks, RefreshData(k)
    PROVE  /\ page.button /\ chain[k].pc = "none"
           /\ page' = [page EXCEPT !.button = FALSE] /\ page' \in PageFields
           /\ chain' \in [Clicks -> Chain]
           /\ chain'[k].pc = "posted" /\ chain'[k].run = chain[k].run
           /\ \A j \in Clicks : j # k => chain'[j] = chain[j]
<1> DEFINE next == [chain[k] EXCEPT !.pc = "posted"]
<1>1. chain[k] \in Chain /\ page \in PageFields
  BY DEF Kinds
<1>2. next \in Chain /\ next.pc = "posted" /\ next.run = chain[k].run
  BY <1>1 DEF Chain, ChainPC
<1>3. chain' = [chain EXCEPT ![k] = next]
  BY <1>1 DEF RefreshData
<1> HIDE DEF next
<1>4. page' \in PageFields
  BY <1>1 DEF RefreshData, PageFields
<1> QED BY <1>2, <1>3, <1>4, ChainMoves DEF RefreshData

LEMMA AcceptEffect ==
    ASSUME Kinds, NEW k \in Clicks, chain' = [chain EXCEPT ![k].pc = "accepted",
                                                           ![k].run = run + 1]
    PROVE  /\ chain' \in [Clicks -> Chain]
           /\ chain'[k].pc = "accepted" /\ chain'[k].run = run + 1
           /\ \A j \in Clicks : j # k => chain'[j] = chain[j]
<1> DEFINE next == [chain[k] EXCEPT !.pc = "accepted", !.run = run + 1]
<1>1. chain[k] \in Chain /\ run + 1 \in Nat
  BY DEF Kinds
<1>2. next \in Chain /\ next.pc = "accepted" /\ next.run = run + 1
  BY <1>1 DEF Chain, ChainPC
<1>3. chain' = [chain EXCEPT ![k] = next]
  BY <1>1 DEF Kinds
<1> HIDE DEF next
<1> QED BY <1>2, <1>3, ChainMoves

LEMMA PollEffect ==
    ASSUME Kinds, NEW k \in Clicks, HandlePoll(k)
    PROVE  /\ chain' \in [Clicks -> Chain]
           /\ chain'[k].pc = "told" /\ chain'[k].run = chain[k].run /\ chain'[k].seen = status
           /\ \A j \in Clicks : j # k => chain'[j] = chain[j]
<1> DEFINE next == [chain[k] EXCEPT !.pc = "told", !.seen = status]
<1>1. chain[k] \in Chain /\ status \in Statuses
  BY DEF Kinds
<1>2. next \in Chain /\ next.pc = "told" /\ next.run = chain[k].run /\ next.seen = status
  BY <1>1 DEF Chain, ChainPC
<1>3. chain' = [chain EXCEPT ![k] = next]
  BY <1>1 DEF HandlePoll, Kinds
<1> HIDE DEF next
<1> QED BY <1>2, <1>3, ChainMoves

\* What the steps of the service do.
LEMMA ServiceEffect ==
    ASSUME Kinds
    PROVE  /\ Service!Start => /\ status # "running" /\ status' = "running"
                              /\ run' = run + 1 /\ run' \in Nat
           /\ Service!Publish \/ Service!Complete \/ Service!Fail =>
                /\ status = "running" /\ status' \in Statuses /\ run' = run
BY DEF Service!Start, Service!Publish, Service!Complete, Service!Fail, Kinds, Statuses

-----------------------------------------------------------------------------
(* The invariant.                                                          *)

\* The button is enabled while nothing is followed, and one refresh is at most.
Button ==
    /\ page.button <=> Active = {}
    /\ \A j, k \in Active : j = k

\* The click's own refresh has ended; a later one may be running.
Over(k) ==
    /\ chain[k].pc = "done" /\ 0 < chain[k].run
    /\ run = chain[k].run => status # "running"

\* A status on its way to the page that is not running was true when it was
\* read, and an ended refresh does not start again.
Told ==
    \A k \in Clicks :
        chain[k].pc = "told" /\ chain[k].seen # "running" /\ run = chain[k].run
          => status # "running"

\* The refresh a load follows is over, from the moment the page asks.
Reloads ==
    /\ \A l \in DOMAIN load :
         load[l].by = "refresh" /\ load[l].pc = "asked" => \E k \in Clicks : Over(k)
    /\ ReloadIsAfterRefresh

NoneOverlaps == \A l \in DOMAIN load : ~load[l].overlaps

\* As long as no loads overlap, at most the last is in flight, and the spinner
\* hides what asks for another.
Drawn ==
    /\ page.loading => InFlight # {}
    /\ Len(load) \in DOMAIN load /\ load[Len(load)].filters = page.filters
    /\ ~NoneOverlaps => \E l \in DOMAIN load : load[l].by = "refresh"
    /\ NoneOverlaps =>
         /\ InFlight \subseteq {Len(load)}
         /\ InFlight # {} => page.loading
         /\ ~page.loading /\ ~page.error => page.shown = {Len(load)}

Ended == {k \in Clicks : chain[k].pc = "done"}

\* The user asks for no load after UserLoads others; a click's refresh for one.
Counts == Len(load) <= 1 + UserLoads + Cardinality(Ended)

Inv == Kinds /\ Bounds /\ Button /\ Told /\ Reloads /\ Drawn /\ Counts

LEMMA InitInv == Init => Inv
<1> SUFFICES ASSUME Init PROVE Inv
  OBVIOUS
<1> DEFINE first == Asked("page", NoFilter, FALSE)
<1>1. first \in Load /\ first.pc = "asked" /\ first.by = "page" /\ ~first.overlaps
      /\ first.filters = NoFilter /\ first.run = 0
  BY PageAssumption DEF Asked, Load
<1>2. load = <<first>>
  BY DEF Init
<1> HIDE DEF first
<1>3. load \in Seq(Load) /\ Len(load) = 1 /\ load[1] = first
  BY <1>1, <1>2
<1>4. DOMAIN load = {1}
  BY <1>3, LenProperties
<1>5. page \in PageFields /\ page.button /\ page.loading /\ page.filters = NoFilter
      /\ page.shown = {}
  BY PageAssumption DEF Init, PageFields
<1>6. \A k \in Clicks : chain[k] \in Chain /\ chain[k].pc = "none" /\ chain[k].run = 0
  BY DEF Init, Chain, ChainPC
<1>7. chain \in [Clicks -> Chain]
  BY <1>6 DEF Init
<1>8. status = "idle" /\ run = 0
  BY DEF Init, Service!Init
<1>9. Kinds
  BY <1>3, <1>5, <1>7, <1>8 DEF Kinds, Statuses
<1>10. Bounds
  BY <1>1, <1>3, <1>4, <1>5, <1>6, <1>8 DEF Bounds
<1>11. Button
  BY <1>5, <1>6 DEF Button, Active
<1>12. Told /\ Reloads
  BY <1>1, <1>3, <1>4, <1>6 DEF Told, Reloads, ReloadIsAfterRefresh
<1>13. InFlight = {1}
  BY <1>1, <1>3, <1>4 DEF InFlight
<1>14. Drawn
  BY <1>1, <1>3, <1>4, <1>5, <1>13 DEF Drawn, NoneOverlaps
<1>15. Counts
  <2>1. Len(load) = 1 /\ Ended = {}
    BY <1>6 DEF Init, Ended
  <2>2. Cardinality({}) = 0
    BY FS_EmptySet
  <2> QED BY <2>1, <2>2, PageAssumption DEF Counts
<1> QED BY <1>9, <1>10, <1>11, <1>12, <1>14, <1>15 DEF Inv

-----------------------------------------------------------------------------
(* The button.                                                             *)

LEMMA ButtonStays ==
    ASSUME Inv, NEW k \in Clicks, chain[k].pc \notin {"none", "done"},
           chain'[k].pc \notin {"none", "done"},
           \A j \in Clicks : j # k => chain'[j] = chain[j],
           page'.button = page.button
    PROVE  Button'
<1>1. Active' = Active
  BY DEF Active
<1> QED BY <1>1 DEF Inv, Button

LEMMA ButtonBack ==
    ASSUME Inv, NEW k \in Clicks, chain[k].pc \notin {"none", "done"},
           chain'[k].pc = "done",
           \A j \in Clicks : j # k => chain'[j] = chain[j],
           page'.button
    PROVE  Button'
<1>1. k \in Active
  BY DEF Active
<1>2. \A j \in Active : j = k
  BY <1>1 DEF Inv, Button
<1>3. Active' = {}
  BY <1>2 DEF Active
<1> QED BY <1>3 DEF Button

-----------------------------------------------------------------------------
(* What follows a refresh.                                                 *)

\* A step that leaves the service, and no call that asks or answers, keeps
\* what is known of the refreshes.
LEMMA RefreshesStay ==
    ASSUME Inv, UNCHANGED <<status, run>>,
           \A k \in Clicks : /\ chain[k].pc = "done" => chain'[k] = chain[k]
                             /\ chain'[k].pc = "told" => chain'[k] = chain[k]
                                                       \/ chain'[k].seen = status,
           \A l \in DOMAIN load' :
               load'[l].by = "refresh" /\ load'[l].pc \in {"asked", "answered"}
                 => l \in DOMAIN load /\ load'[l] = load[l]
    PROVE  Told' /\ Reloads'
<1>1. \A k \in Clicks : Over(k) => Over(k)'
  BY DEF Over
<1>2. Told'
  BY DEF Inv, Told
<1>3. ASSUME NEW l \in DOMAIN load', load'[l].by = "refresh", load'[l].pc = "asked"
      PROVE  \E k \in Clicks : Over(k)'
  BY <1>1, <1>3 DEF Inv, Reloads
<1>4. ReloadIsAfterRefresh'
  BY DEF Inv, Reloads, ReloadIsAfterRefresh
<1> QED BY <1>2, <1>3, <1>4 DEF Reloads

\* A refresh that starts or ends is not one that is over.
LEMMA RefreshesOver ==
    ASSUME Inv, \/ status # "running" /\ run' = run + 1
                \/ status = "running" /\ run' = run,
           \A k \in Clicks : /\ chain[k].pc = "done" => chain'[k] = chain[k]
                             /\ chain'[k].pc = "told" => chain'[k] = chain[k],
           load' = load
    PROVE  Told' /\ Reloads'
<1>1. \A k \in Clicks : chain[k].run \in Nat /\ chain[k].run <= run /\ run \in Nat
  BY DEF Inv, Kinds, Bounds, Chain
<1>2. \A k \in Clicks : Over(k) => Over(k)'
  BY <1>1 DEF Over
<1>3. Told'
  BY <1>1 DEF Inv, Told
<1>4. ASSUME NEW l \in DOMAIN load', load'[l].by = "refresh", load'[l].pc = "asked"
      PROVE  \E k \in Clicks : Over(k)'
  BY <1>2, <1>4 DEF Inv, Reloads
<1>5. ReloadIsAfterRefresh'
  BY DEF Inv, Reloads, ReloadIsAfterRefresh
<1> QED BY <1>3, <1>4, <1>5 DEF Reloads

-----------------------------------------------------------------------------
(* What is drawn.                                                          *)

\* loadData draws nothing new; nobody calls it while a load is shown to be in
\* flight but the page itself, after a refresh.
LEMMA LoadDataDrawn ==
    ASSUME Inv, NEW by \in {"user", "refresh"}, NEW filters \in Filters,
           NEW button \in BOOLEAN, LoadData(by, filters, button),
           by = "refresh" \/ ~page.loading
    PROVE  Drawn'
<1> DEFINE new == Asked(by, filters, InFlight # {})
<1>1. Kinds
  BY DEF Inv
<1>2. page'.loading /\ page'.filters = filters /\ new \in Load /\ load' = Append(load, new)
  BY <1>1, LoadDataType
<1>3. /\ DOMAIN load' = DOMAIN load \cup {Len(load')} /\ Len(load') \notin DOMAIN load
      /\ load'[Len(load')] = new
      /\ \A m \in DOMAIN load : load'[m] = load[m]
  BY <1>1, <1>2, LoadAppended
<1>4. /\ new.by = by /\ new.filters = filters /\ new.pc = "asked"
      /\ new.overlaps <=> InFlight # {}
  BY DEF Asked
<1> HIDE DEF new
<1>5. InFlight' = InFlight \cup {Len(load')}
  BY <1>3, <1>4 DEF InFlight
<1>6. NoneOverlaps' => NoneOverlaps /\ InFlight = {}
  BY <1>3, <1>4 DEF NoneOverlaps
<1>7. ASSUME ~NoneOverlaps' PROVE \E l \in DOMAIN load' : load'[l].by = "refresh"
  <2>1. CASE by = "refresh"
    BY <1>3, <1>4, <2>1
  <2>2. CASE ~NoneOverlaps
    BY <1>3, <2>2 DEF Inv, Drawn
  <2>3. CASE NoneOverlaps /\ ~page.loading
    <3>1. InFlight = {}
      BY <2>3 DEF Inv, Drawn
    <3>2. NoneOverlaps'
      BY <1>3, <1>4, <2>3, <3>1 DEF NoneOverlaps
    <3> QED BY <1>7, <3>2
  <2> QED BY <2>1, <2>2, <2>3
<1>8. InFlight' # {} /\ Len(load') \in DOMAIN load' /\ load'[Len(load')].filters = page'.filters
  BY <1>2, <1>3, <1>4, <1>5
<1>9. NoneOverlaps' => InFlight' \subseteq {Len(load')}
  BY <1>5, <1>6
<1> QED BY <1>2, <1>7, <1>8, <1>9 DEF Drawn

\* The answer to a call that is handled is still on its way.
LEMMA HandleLoadDrawn ==
    ASSUME Inv, NEW l \in DOMAIN load, HandleLoad(l) PROVE Drawn'
<1>1. PICK next \in Load :
        /\ load' = [load EXCEPT ![l] = next]
        /\ load[l].pc = "asked" /\ next.pc = "answered"
        /\ next.by = load[l].by /\ next.filters = load[l].filters
        /\ next.overlaps = load[l].overlaps
  BY HandleLoadEffect DEF Inv
<1>2. /\ Len(load') = Len(load) /\ DOMAIN load' = DOMAIN load /\ load'[l] = next
      /\ \A m \in DOMAIN load : m # l => load'[m] = load[m]
  BY <1>1, LoadGoesOn DEF Inv
<1>3. page' = page
  BY DEF HandleLoad
<1>4. InFlight' = InFlight
  BY <1>1, <1>2 DEF InFlight
<1>5. \A m \in DOMAIN load : /\ load'[m].by = load[m].by
                             /\ load'[m].filters = load[m].filters
                             /\ load'[m].overlaps = load[m].overlaps
  BY <1>1, <1>2
<1>6. NoneOverlaps' <=> NoneOverlaps
  BY <1>2, <1>5 DEF NoneOverlaps
<1> QED BY <1>2, <1>3, <1>4, <1>5, <1>6 DEF Inv, Drawn

\* A call that returns hides the spinner; if none overlapped it was the last.
LEMMA ReturnLoadDrawn ==
    ASSUME Inv, NEW l \in DOMAIN load, ReceiveLoad(l) \/ LoseLoad(l) PROVE Drawn'
<1>1. /\ page'.filters = page.filters /\ ~page'.loading
      /\ \/ page'.shown = {l}
         \/ page'.shown = page.shown /\ page'.error
  BY ReturnLoadEffect DEF Inv
<1>2. PICK next \in Load :
        /\ load' = [load EXCEPT ![l] = next]
        /\ load[l].pc # "done" /\ next.pc = "done"
        /\ next.by = load[l].by /\ next.filters = load[l].filters
        /\ next.overlaps = load[l].overlaps
  BY ReturnLoadEffect DEF Inv
<1>3. /\ Len(load') = Len(load) /\ DOMAIN load' = DOMAIN load /\ load'[l] = next
      /\ \A m \in DOMAIN load : m # l => load'[m] = load[m]
  BY <1>2, LoadGoesOn DEF Inv
<1>4. InFlight' = InFlight \ {l} /\ l \in InFlight
  BY <1>2, <1>3 DEF InFlight
<1>5. \A m \in DOMAIN load : /\ load'[m].by = load[m].by
                             /\ load'[m].filters = load[m].filters
                             /\ load'[m].overlaps = load[m].overlaps
  BY <1>2, <1>3
<1>6. NoneOverlaps' <=> NoneOverlaps
  BY <1>3, <1>5 DEF NoneOverlaps
<1>7. NoneOverlaps => l = Len(load) /\ InFlight' = {}
  BY <1>4 DEF Inv, Drawn
<1> QED BY <1>1, <1>3, <1>5, <1>6, <1>7 DEF Inv, Drawn

-----------------------------------------------------------------------------
(* How many loads there are.                                               *)

LEMMA Finite ==
    ASSUME Kinds
    PROVE  /\ IsFiniteSet(Ended) /\ Cardinality(Ended) \in Nat
           /\ Cardinality(Ended) <= MaxClicks
<1>1. IsFiniteSet(Clicks) /\ Cardinality(Clicks) = MaxClicks
  BY FS_Interval, PageAssumption DEF Clicks
<1>2. Ended \in SUBSET Clicks
  BY DEF Ended
<1>3. IsFiniteSet(Ended) /\ Cardinality(Ended) <= MaxClicks
  BY <1>1, <1>2, FS_Subset
<1> QED BY <1>3, FS_CardinalityType

LEMMA CountBound == Kinds /\ Counts => Len(load) <= 1 + MaxClicks + UserLoads
BY Finite, LoadType, PageAssumption DEF Counts

-----------------------------------------------------------------------------
(* Every step keeps the invariant.                                         *)

LEMMA HandleLoadInv == ASSUME Inv, NEW l \in DOMAIN load, HandleLoad(l) PROVE Inv'
<1>1. PICK next \in Load :
        /\ load' = [load EXCEPT ![l] = next]
        /\ load[l].pc = "asked" /\ next.pc = "answered"
        /\ next.by = load[l].by /\ next.filters = load[l].filters
        /\ next.overlaps = load[l].overlaps
        /\ next.run = run /\ next.over = (status # "running")
  BY HandleLoadEffect DEF Inv
<1>2. /\ load' \in Seq(Load) /\ DOMAIN load' = DOMAIN load /\ load'[l] = next
      /\ \A m \in DOMAIN load : m # l => load'[m] = load[m]
  BY <1>1, LoadGoesOn DEF Inv
<1>3. UNCHANGED <<status, run, published, data, page, chain>>
  BY DEF HandleLoad, serviceVars
<1>4. Kinds'
  BY <1>2, <1>3 DEF Inv, Kinds
<1>5. Bounds'
  BY <1>1, <1>2, <1>3 DEF Inv, Bounds, Kinds
<1>6. Button'
  BY <1>3 DEF Inv, Button, Active
<1>7. Told'
  BY <1>3 DEF Inv, Told
<1>8. Reloads'
  <2>1. \A k \in Clicks : Over(k)' <=> Over(k)
    BY <1>3 DEF Over
  <2>2. ASSUME NEW m \in DOMAIN load', load'[m].by = "refresh", load'[m].pc = "asked"
        PROVE  \E k \in Clicks : Over(k)'
    BY <1>1, <1>2, <2>1, <2>2 DEF Inv, Reloads
  <2>3. ASSUME NEW m \in DOMAIN load', load'[m].by = "refresh", load'[m].pc = "answered"
        PROVE  \E k \in Clicks :
                 /\ chain'[k].pc = "done" /\ 0 < chain'[k].run /\ chain'[k].run <= load'[m].run
                 /\ load'[m].run = chain'[k].run => load'[m].over
    <3>1. CASE m = l
      <4>1. PICK k \in Clicks : Over(k)
        BY <1>1, <1>2, <2>3, <3>1 DEF Inv, Reloads
      <4>2. chain[k].run <= run
        BY DEF Inv, Bounds
      <4> QED BY <1>1, <1>2, <1>3, <3>1, <4>1, <4>2 DEF Over
    <3>2. CASE m # l
      BY <1>2, <1>3, <2>3, <3>2 DEF Inv, Reloads, ReloadIsAfterRefresh
    <3> QED BY <3>1, <3>2
  <2> QED BY <2>2, <2>3 DEF Reloads, ReloadIsAfterRefresh
<1>9. Counts'
  <2>1. Ended' = Ended
    BY <1>1, <1>2, <1>3 DEF Ended
  <2>2. Len(load') = Len(load)
    BY <1>1, LoadGoesOn DEF Inv
  <2> QED BY <2>1, <2>2 DEF Inv, Counts
<1> QED BY <1>4, <1>5, <1>6, <1>7, <1>8, <1>9, HandleLoadDrawn DEF Inv

LEMMA ReturnLoadInv ==
    ASSUME Inv, NEW l \in DOMAIN load, ReceiveLoad(l) \/ LoseLoad(l) PROVE Inv'
<1>1. /\ page' \in PageFields /\ page'.button = page.button
      /\ page'.shown = {l} \/ page'.shown = page.shown
  BY ReturnLoadEffect DEF Inv
<1>2. PICK next \in Load :
        /\ load' = [load EXCEPT ![l] = next]
        /\ next.pc = "done" /\ next.by = load[l].by /\ next.run = 0
  BY ReturnLoadEffect DEF Inv
<1>3. /\ load' \in Seq(Load) /\ DOMAIN load' = DOMAIN load /\ load'[l] = next
      /\ \A m \in DOMAIN load : m # l => load'[m] = load[m]
  BY <1>2, LoadGoesOn DEF Inv
<1>4. UNCHANGED <<status, run, published, data, chain>>
  BY DEF ReceiveLoad, LoseLoad, serviceVars
<1>5. Kinds'
  BY <1>1, <1>3, <1>4 DEF Inv, Kinds
<1>6. Bounds'
  BY <1>1, <1>2, <1>3, <1>4 DEF Inv, Bounds, Kinds
<1>7. Button'
  BY <1>1, <1>4 DEF Inv, Button, Active
<1>8. Told' /\ Reloads'
  BY <1>2, <1>3, <1>4, RefreshesStay
<1>9. Counts'
  <2>1. Ended' = Ended
    BY <1>2, <1>3, <1>4 DEF Ended
  <2>2. Len(load') = Len(load)
    BY <1>2, LoadGoesOn DEF Inv
  <2> QED BY <2>1, <2>2 DEF Inv, Counts
<1> QED BY <1>5, <1>6, <1>7, <1>8, <1>9, ReturnLoadDrawn DEF Inv

LEMMA UserLoadInv ==
    ASSUME Inv, NEW filters \in Filters, LoadData("user", filters, page.button),
           MayAsk, ~page.loading, UNCHANGED <<serviceVars, chain>>
    PROVE  Inv'
<1> DEFINE new == Asked("user", filters, InFlight # {})
<1>1. Kinds /\ page.button \in BOOLEAN /\ "user" \in {"user", "refresh"}
  BY DEF Inv, Kinds, PageFields
<1>2. /\ page' \in PageFields /\ page'.button = page.button /\ page'.shown = page.shown
      /\ new \in Load /\ load' = Append(load, new)
  BY <1>1, LoadDataType
<1>3. /\ load' \in Seq(Load) /\ DOMAIN load' = DOMAIN load \cup {Len(load')}
      /\ load'[Len(load')] = new
      /\ \A m \in DOMAIN load : load'[m] = load[m]
  BY <1>1, <1>2, LoadAppended
<1>4. new.by = "user" /\ new.run = 0
  BY DEF Asked
<1> HIDE DEF new
<1>5. UNCHANGED <<status, run, published, data, chain>>
  BY DEF serviceVars
<1>6. Kinds'
  BY <1>2, <1>3, <1>5 DEF Inv, Kinds
<1>7. Bounds'
  BY <1>2, <1>3, <1>4, <1>5 DEF Inv, Bounds, Kinds
<1>8. Button'
  BY <1>2, <1>5 DEF Inv, Button, Active
<1>9. Told' /\ Reloads'
  BY <1>3, <1>4, <1>5, RefreshesStay
<1>10. Drawn'
  BY <1>1, LoadDataDrawn
<1>11. Counts'
  <2>1. Ended' = Ended
    BY <1>5 DEF Ended
  <2>2. Len(load) <= UserLoads /\ Len(load') = Len(load) + 1 /\ Len(load) \in Nat
    BY <1>1, <1>2, LoadAppended, LoadType DEF MayAsk
  <2> QED BY <1>1, <2>1, <2>2, Finite, PageAssumption DEF Inv, Counts
<1> QED BY <1>6, <1>7, <1>8, <1>9, <1>10, <1>11 DEF Inv

\* A step that changes no load draws what was drawn.
LEMMA SameLoads ==
    ASSUME Inv, load' = load, page'.loading = page.loading, page'.error = page.error,
           page'.filters = page.filters, page'.shown = page.shown
    PROVE  Drawn'
BY DEF Inv, Drawn, NoneOverlaps, InFlight

\* Clicks only come to an end.
LEMMA SameCounts ==
    ASSUME Inv, Kinds', load' = load, \A k \in Clicks : chain[k].pc = "done" => chain'[k].pc = "done"
    PROVE  Counts'
<1>1. Ended \in SUBSET Ended'
  BY DEF Ended
<1>2. IsFiniteSet(Ended') /\ Cardinality(Ended') \in Nat
  <2>1. IsFiniteSet(Clicks)
    BY FS_Interval, PageAssumption DEF Clicks
  <2>2. Ended' \in SUBSET Clicks
    BY DEF Ended
  <2> QED BY <2>1, <2>2, FS_Subset, FS_CardinalityType
<1>3. Cardinality(Ended) <= Cardinality(Ended')
  BY <1>1, <1>2, FS_Subset
<1>4. Cardinality(Ended) \in Nat /\ Len(load) \in Nat
  BY Finite, LoadType DEF Inv
<1> QED BY <1>2, <1>3, <1>4, PageAssumption DEF Inv, Counts

LEMMA RefreshDataInv ==
    ASSUME Inv, NEW k \in Clicks, RefreshData(k), UNCHANGED serviceVars PROVE Inv'
<1>1. /\ page.button /\ chain[k].pc = "none"
      /\ page' = [page EXCEPT !.button = FALSE] /\ page' \in PageFields
      /\ chain' \in [Clicks -> Chain]
      /\ chain'[k].pc = "posted" /\ chain'[k].run = chain[k].run
      /\ \A j \in Clicks : j # k => chain'[j] = chain[j]
  BY ClickEffect DEF Inv
<1>2. UNCHANGED <<status, run, published, data, load>>
  BY DEF RefreshData, serviceVars
<1>3. /\ page'.button = FALSE
      /\ page'.loading = page.loading /\ page'.error = page.error
      /\ page'.filters = page.filters /\ page'.shown = page.shown
  BY <1>1 DEF Inv, Kinds, PageFields
<1>4. Kinds'
  BY <1>1, <1>2 DEF Inv, Kinds
<1>5. Bounds'
  BY <1>1, <1>2, <1>3 DEF Inv, Bounds
<1>6. Active' = {k}
  BY <1>1 DEF Inv, Button, Active
<1>7. Button'
  BY <1>3, <1>6 DEF Button
<1>8. Told' /\ Reloads'
  BY <1>1, <1>2, RefreshesStay
<1> QED BY <1>1, <1>2, <1>3, <1>4, <1>5, <1>7, <1>8, SameLoads, SameCounts DEF Inv

\* A click that waits for the network or the timer changes nothing else.
LEMMA MoveInv ==
    ASSUME Inv, NEW k \in Clicks, NEW pc \in ChainPC,
           chain[k].pc \notin {"none", "done"}, pc \notin {"none", "done"},
           pc \in {"accepted", "polling", "told", "waiting"} => chain[k].run > 0,
           chain' \in [Clicks -> Chain],
           chain'[k].pc = pc, chain'[k].run = chain[k].run,
           pc = "told" => chain'[k].seen = status,
           \A j \in Clicks : j # k => chain'[j] = chain[j],
           UNCHANGED <<serviceVars, page, load>>
    PROVE  Inv'
<1>1. UNCHANGED <<status, run, published, data>>
  BY DEF serviceVars
<1>2. Kinds'
  BY <1>1 DEF Inv, Kinds
<1>3. Bounds'
  BY <1>1 DEF Inv, Bounds
<1>4. Button'
  BY ButtonStays
<1>5. Told' /\ Reloads'
  BY <1>1, RefreshesStay
<1> QED BY <1>1, <1>2, <1>3, <1>4, <1>5, SameLoads, SameCounts DEF Inv

LEMMA GiveUpInv ==
    ASSUME Inv, NEW k \in Clicks, chain[k].pc \notin {"none", "done"}, GiveUp(k) PROVE Inv'
<1>1. /\ chain' \in [Clicks -> Chain]
      /\ chain'[k].pc = "done" /\ chain'[k].run = chain[k].run
      /\ \A j \in Clicks : j # k => chain'[j] = chain[j]
  BY GotoEffect DEF GiveUp, ChainPC, Inv
<1>2. UNCHANGED <<status, run, published, data, load>>
  BY DEF GiveUp, serviceVars
<1>3. /\ page' \in PageFields /\ page'.button = TRUE
      /\ page'.loading = page.loading /\ page'.error = page.error
      /\ page'.filters = page.filters /\ page'.shown = page.shown
  BY DEF GiveUp, Inv, Kinds, PageFields
<1>4. Kinds'
  BY <1>1, <1>2, <1>3 DEF Inv, Kinds
<1>5. Bounds'
  BY <1>1, <1>2, <1>3 DEF Inv, Bounds
<1>6. Button'
  BY <1>1, <1>3, ButtonBack
<1>7. Told' /\ Reloads'
  BY <1>1, <1>2, RefreshesStay
<1> QED BY <1>1, <1>2, <1>3, <1>4, <1>5, <1>6, <1>7, SameLoads, SameCounts DEF Inv

\* The refresh is over, and a load follows it.
LEMMA ReloadInv ==
    ASSUME Inv, NEW k \in Clicks, chain[k].pc = "told", chain[k].seen # "running",
           Goto(k, "done"), LoadData("refresh", page.filters, TRUE), UNCHANGED serviceVars
    PROVE  Inv'
<1> DEFINE new == Asked("refresh", page.filters, InFlight # {})
<1>1. Kinds /\ page.filters \in Filters /\ "refresh" \in {"user", "refresh"}
      /\ "done" \in ChainPC
  BY DEF Inv, Kinds, PageFields, ChainPC
<1>2. /\ page' \in PageFields /\ page'.button /\ page'.shown = page.shown
      /\ new \in Load /\ load' = Append(load, new)
  BY <1>1, LoadDataType
<1>3. /\ load' \in Seq(Load) /\ DOMAIN load' = DOMAIN load \cup {Len(load')}
      /\ load'[Len(load')] = new
      /\ \A m \in DOMAIN load : load'[m] = load[m]
  BY <1>1, <1>2, LoadAppended
<1>4. new.by = "refresh" /\ new.run = 0 /\ new.pc = "asked"
  BY DEF Asked
<1> HIDE DEF new
<1>5. /\ chain' \in [Clicks -> Chain]
      /\ chain'[k].pc = "done" /\ chain'[k].run = chain[k].run
      /\ \A j \in Clicks : j # k => chain'[j] = chain[j]
  BY <1>1, GotoEffect
<1>6. UNCHANGED <<status, run, published, data>>
  BY DEF serviceVars
<1>7. Kinds'
  BY <1>2, <1>3, <1>5, <1>6 DEF Inv, Kinds
<1>8. Bounds'
  <2>1. page'.shown \in {{}} \cup {{l} : l \in DOMAIN load'}
    BY <1>2, <1>3 DEF Inv, Bounds
  <2>2. \A j \in Clicks : chain'[j].run <= run'
    BY <1>5, <1>6 DEF Inv, Bounds
  <2>3. \A j \in Clicks : chain'[j].pc \in {"accepted", "polling", "told", "waiting"} => chain'[j].run > 0
    BY <1>5 DEF Inv, Bounds
  <2>4. \A l \in DOMAIN load' : load'[l].run <= run'
    <3>1. run' = run /\ 0 <= run
      BY <1>6 DEF Inv, Kinds
    <3>2. \A l \in DOMAIN load : load[l].run <= run
      BY DEF Inv, Bounds
    <3> QED BY <1>3, <1>4, <3>1, <3>2
  <2> QED BY <2>1, <2>2, <2>3, <2>4 DEF Bounds
<1>9. Button'
  BY <1>2, <1>5, ButtonBack
<1>10. Over(k)'
  BY <1>5, <1>6 DEF Over, Inv, Told, Bounds
<1>11. Told'
  BY <1>5, <1>6 DEF Inv, Told
<1>12. Reloads'
  <2>1. ASSUME NEW l \in DOMAIN load', load'[l].by = "refresh", load'[l].pc = "answered"
        PROVE  \E j \in Clicks :
                 /\ chain'[j].pc = "done" /\ 0 < chain'[j].run /\ chain'[j].run <= load'[l].run
                 /\ load'[l].run = chain'[j].run => load'[l].over
    <3>1. l \in DOMAIN load /\ load'[l] = load[l]
      BY <1>3, <1>4, <2>1
    <3>2. PICK j \in Clicks :
                 /\ chain[j].pc = "done" /\ 0 < chain[j].run /\ chain[j].run <= load[l].run
                 /\ load[l].run = chain[j].run => load[l].over
      BY <2>1, <3>1 DEF Inv, Reloads, ReloadIsAfterRefresh
    <3>3. chain'[j] = chain[j]
      BY <1>5, <3>2
    <3> QED BY <3>1, <3>2, <3>3
  <2> QED BY <1>10, <2>1 DEF Reloads, ReloadIsAfterRefresh
<1>13. Drawn'
  BY <1>1, LoadDataDrawn
<1>14. Counts'
  <2>1. Len(load') = Len(load) + 1 /\ Len(load) \in Nat
    BY <1>1, <1>2, LoadAppended, LoadType
  <2>2. Ended' = Ended \cup {k} /\ k \notin Ended
    BY <1>5 DEF Ended
  <2>3. IsFiniteSet(Ended) /\ Cardinality(Ended) \in Nat
    BY <1>1, Finite
  <2>4. Cardinality(Ended') = Cardinality(Ended) + 1
    BY <2>2, <2>3, FS_AddElement
  <2> QED BY <2>1, <2>3, <2>4, PageAssumption DEF Inv, Counts
<1> QED BY <1>7, <1>8, <1>9, <1>11, <1>12, <1>13, <1>14 DEF Inv

\* The service starts a refresh for a click.
LEMMA AcceptedInv ==
    ASSUME Inv, NEW k \in Clicks, chain[k].pc = "posted", Service!Start,
           chain' = [chain EXCEPT ![k].pc = "accepted", ![k].run = run + 1],
           UNCHANGED <<page, load>>
    PROVE  Inv'
<1>1. /\ chain' \in [Clicks -> Chain]
      /\ chain'[k].pc = "accepted" /\ chain'[k].run = run + 1
      /\ \A j \in Clicks : j # k => chain'[j] = chain[j]
  BY AcceptEffect DEF Inv
<1>2. /\ status # "running" /\ status' = "running" /\ run' = run + 1
      /\ run \in Nat /\ run' \in Nat
  BY ServiceEffect DEF Inv, Kinds
<1>3. Kinds'
  BY <1>1, <1>2 DEF Inv, Kinds, Statuses
<1>4. Bounds'
  <2>1. \A j \in Clicks : chain[j].run \in Nat /\ chain[j].run <= run
    BY DEF Inv, Kinds, Bounds, Chain
  <2>2. \A l \in DOMAIN load : load[l].run \in Nat /\ load[l].run <= run
    BY LoadType DEF Inv, Bounds, Load
  <2>3. \A j \in Clicks : chain'[j].run <= run'
    BY <1>1, <1>2, <2>1
  <2>5. chain'[k].run > 0
    BY <1>1, <1>2
  <2>4. \A l \in DOMAIN load : load[l].run <= run'
    BY <1>2, <2>2
  <2> QED BY <1>1, <2>3, <2>4, <2>5 DEF Inv, Bounds
<1>5. Button'
  BY <1>1, ButtonStays
<1>6. Told' /\ Reloads'
  BY <1>1, <1>2, RefreshesOver
<1> QED BY <1>1, <1>3, <1>4, <1>5, <1>6, SameLoads, SameCounts DEF Inv

LEMMA ServiceInv == ASSUME Inv, ServiceStep PROVE Inv'
<1>1. UNCHANGED <<page, chain, load>>
  BY DEF ServiceStep
<1>2. /\ run \in Nat /\ run' \in Nat /\ status' \in Statuses
      /\ \/ status # "running" /\ run' = run + 1
         \/ status = "running" /\ run' = run
  BY ServiceEffect DEF ServiceStep, Inv, Kinds, Statuses
<1>3. Kinds'
  BY <1>1, <1>2 DEF Inv, Kinds
<1>4. Bounds'
  <2>1. \A j \in Clicks : chain[j].run \in Nat /\ chain[j].run <= run
    BY DEF Inv, Kinds, Bounds, Chain
  <2>2. \A l \in DOMAIN load : load[l].run \in Nat /\ load[l].run <= run
    BY LoadType DEF Inv, Bounds, Load
  <2> QED BY <1>1, <1>2, <2>1, <2>2 DEF Inv, Bounds
<1>5. Button'
  BY <1>1 DEF Inv, Button, Active
<1>6. Told' /\ Reloads'
  BY <1>1, <1>2, RefreshesOver
<1> QED BY <1>1, <1>3, <1>4, <1>5, <1>6, SameLoads, SameCounts DEF Inv

LEMMA ChainInv == ASSUME Inv, NEW k \in Clicks, ChainStep(k) PROVE Inv'
<1>1. chain[k].pc \in {"accepted", "polling", "told", "waiting"} => chain[k].run > 0
  BY DEF Inv, Bounds
<1>2. CASE HandlePost(k)
  <2>1. CASE Service!Start /\ chain' = [chain EXCEPT ![k].pc = "accepted", ![k].run = run + 1]
    BY <1>2, <2>1, AcceptedInv DEF HandlePost
  <2>2. CASE Goto(k, "refused") /\ UNCHANGED serviceVars
    BY <1>2, <2>2, GotoEffect, MoveInv DEF HandlePost, ChainPC, Inv
  <2> QED BY <1>2, <2>1, <2>2 DEF HandlePost
<1>3. CASE ReceiveAccepted(k)
  BY <1>1, <1>3, GotoEffect, MoveInv DEF ReceiveAccepted, ChainPC, Inv
<1>4. CASE ReceiveRefused(k) \/ LosePost(k) \/ LosePoll(k)
  BY <1>4, GiveUpInv DEF ReceiveRefused, LosePost, LosePoll
<1>5. CASE HandlePoll(k)
  BY <1>1, <1>5, PollEffect, MoveInv DEF HandlePoll, ChainPC, Inv
<1>6. CASE ReceivePoll(k)
  <2>1. CASE chain[k].seen = "running"
    BY <1>1, <1>6, <2>1, GotoEffect, MoveInv DEF ReceivePoll, ChainPC, Inv
  <2>2. CASE chain[k].seen # "running"
    BY <1>6, <2>2, ReloadInv DEF ReceivePoll
  <2> QED BY <2>1, <2>2
<1>7. CASE PollAgain(k)
  BY <1>1, <1>7, GotoEffect, MoveInv DEF PollAgain, ChainPC, Inv
<1> QED BY <1>2, <1>3, <1>4, <1>5, <1>6, <1>7 DEF ChainStep

LEMMA NextInv == Inv /\ [Next]_vars => Inv'
<1> SUFFICES ASSUME Inv, [Next]_vars PROVE Inv'
  OBVIOUS
<1>1. ASSUME NEW l \in DOMAIN load, LoadStep(l) PROVE Inv'
  BY <1>1, HandleLoadInv, ReturnLoadInv DEF LoadStep
<1>2. ASSUME NEW k \in Clicks, ChainStep(k) PROVE Inv'
  BY <1>2, ChainInv
<1>3. CASE UserStep
  BY <1>3, UserEffect, UserLoadInv, RefreshDataInv DEF Inv
<1>4. CASE ServiceStep
  BY <1>4, ServiceInv
<1>5. CASE UNCHANGED vars
  <2>1. UNCHANGED <<status, run, page, chain, load>>
    BY <1>5 DEF vars, serviceVars
  <2>2. Kinds' /\ Bounds'
    BY <2>1 DEF Inv, Kinds, Bounds
  <2>3. Button' /\ Told' /\ Reloads'
    BY <2>1, RefreshesStay DEF Inv, Button, Active
  <2> QED BY <2>1, <2>2, <2>3, SameLoads, SameCounts DEF Inv
<1> QED BY <1>1, <1>2, <1>3, <1>4, <1>5 DEF Next, Quiet

LEMMA Invariance == Spec => []Inv
BY InitInv, NextInv, PTL DEF Spec

\* The page's state always has its type; the page never has more calls of
\* loadData than the first, the user's and one for each click.
THEOREM TypeCorrect == Spec => []TypeOK
<1>1. Inv => TypeOK
  <2> SUFFICES ASSUME Inv PROVE TypeOK
    OBVIOUS
  <2>1. Kinds /\ Bounds /\ run \in Nat
    BY DEF Inv, Kinds
  <2>2. page \in [button: BOOLEAN, loading: BOOLEAN, error: BOOLEAN, filters: Filters,
                  shown: {{}} \cup {{l} : l \in DOMAIN load}]
    BY <2>1 DEF Kinds, Bounds, PageFields
  <2>3. chain \in [Clicks -> [pc: ChainPC, run: 0..run, seen: {""} \cup Statuses]]
    <3>0. \A k \in Clicks : chain[k] \in Chain /\ chain[k].run <= run
      BY <2>1 DEF Kinds, Bounds
    <3>1. ASSUME NEW k \in Clicks PROVE chain[k] \in Chain /\ chain[k].run \in 0..run
      <4>1. chain[k].run \in Nat /\ chain[k].run <= run
        BY <3>0 DEF Chain
      <4> QED BY <2>1, <3>0, <4>1
    <3>2. \A k \in Clicks : chain[k] \in [pc: ChainPC, run: 0..run, seen: {""} \cup Statuses]
      BY <3>1 DEF Chain
    <3> QED BY <2>1, <3>2 DEF Kinds
  <2>4. load \in Seq([pc: {"asked", "answered", "done"}, by: {"page", "user", "refresh"},
                      filters: Filters, overlaps: BOOLEAN, run: 0..run, over: BOOLEAN,
                      ok: BOOLEAN])
    <3> DEFINE L == [pc: {"asked", "answered", "done"}, by: {"page", "user", "refresh"},
                     filters: Filters, overlaps: BOOLEAN, run: 0..run, over: BOOLEAN,
                     ok: BOOLEAN]
    <3>1. \A l \in DOMAIN load : load[l] \in Load /\ load[l].run \in 0..run
      BY <2>1, LoadType DEF Bounds, Load
    <3>2. \A l \in DOMAIN load : load[l] \in L
      BY <3>1 DEF Load
    <3>3. load \in [1..Len(load) -> L] /\ Len(load) \in Nat
      BY <2>1, <3>2, LenProperties DEF Kinds
    <3> HIDE DEF L
    <3>4. load \in Seq(L)
      BY <3>3, SeqDef
    <3> QED BY <3>4 DEF L
  <2>5. Len(load) <= 1 + MaxClicks + UserLoads
    BY CountBound DEF Inv
  <2> QED BY <2>1, <2>2, <2>3, <2>4, <2>5 DEF TypeOK, Kinds, Bounds, ChainPC, Statuses
<1> QED BY <1>1, Invariance, PTL

\* The button is enabled exactly while no refresh is followed, and never two
\* are, in whatever order answers, timers and errors come.
THEOREM OneFollowed == Spec => []OneRefreshFollowed
<1>1. Inv => OneRefreshFollowed
  BY DEF Inv, Button, Drawn, OneRefreshFollowed
<1> QED BY <1>1, Invariance, PTL

\* What is loaded after a refresh is from after that refresh, whatever other
\* clients do to the service.
THEOREM ReloadAfterRefresh == Spec => []ReloadIsAfterRefresh
BY Invariance, PTL DEF Inv, Reloads

\* Without overlapping loads, and only the page's own overlap, what is drawn
\* is what was asked for last.
THEOREM AskedIsShown == Spec => []ShownIsAsked
<1>1. Inv => ShownIsAsked
  BY DEF Inv, Drawn, NoneOverlaps, ShownIsAsked
<1> QED BY <1>1, Invariance, PTL
=============================================================================
