----------------------------- MODULE FetchProofs -----------------------------
(***************************************************************************)
(* Theorems about Fetch, for any issues, boards, sizes of pages, delays,   *)
(* timeout and changes in Jira.                                            *)
(***************************************************************************)
EXTENDS Fetch, FiniteSetTheorems, SequenceTheorems, TLAPS

-----------------------------------------------------------------------------
(* The places of a query's hits in its answer.                             *)

Position(hits, m) == Cardinality(Upto(hits, m))

\* Positions are those of an enumeration in Jira's order.
LEMMA Positions ==
    ASSUME NEW hits \in SUBSET Nat, IsFiniteSet(hits)
    PROVE  /\ Cardinality(hits) \in Nat
           /\ \A m \in hits : Position(hits, m) \in 1..Cardinality(hits)
           /\ \A m \in Nat : Position(hits, m) \in 0..Cardinality(hits)
           /\ \A m, k \in hits : m < k => Position(hits, m) < Position(hits, k)
<1>1. \A m \in Nat : IsFiniteSet(Upto(hits, m)) /\ Upto(hits, m) \in SUBSET hits
  BY FS_Subset DEF Upto
<1>2. Cardinality(hits) \in Nat /\ \A m \in Nat : Position(hits, m) \in 0..Cardinality(hits)
  BY <1>1, FS_Subset, FS_CardinalityType DEF Position
<1>3. ASSUME NEW m \in hits PROVE Position(hits, m) # 0
  <2>1. m \in Upto(hits, m)
    BY DEF Upto
  <2> QED BY <1>1, <2>1, FS_EmptySet DEF Position
<1>4. ASSUME NEW m \in hits, NEW k \in hits, m < k
      PROVE  Position(hits, m) < Position(hits, k)
  <2>0. m \in Nat /\ k \in Nat /\ \A x \in hits : x \in Nat
    OBVIOUS
  <2>1. \A x \in Upto(hits, m) : x \in Upto(hits, k)
    <3> SUFFICES ASSUME NEW x \in hits, x <= m PROVE x <= k
      BY DEF Upto
    <3> QED BY <1>4, <2>0
  <2>2. k \in Upto(hits, k) /\ k \notin Upto(hits, m)
    BY <1>4, <2>0 DEF Upto
  <2>3. Position(hits, m) <= Position(hits, k) /\ Position(hits, m) # Position(hits, k)
    BY <1>1, <2>1, <2>2, FS_Subset DEF Position
  <2> QED BY <1>2, <2>3
<1> QED BY <1>2, <1>3, <1>4

\* Every number up to the number of hits is a position.
LEMMA PositionsReached ==
    ASSUME NEW hits \in SUBSET Nat, IsFiniteSet(hits), NEW n \in 1..Cardinality(hits)
    PROVE  \E m \in hits : Position(hits, m) = n
<1> DEFINE to == 1..Cardinality(hits)
           position == [m \in hits |-> Position(hits, m)]
<1>1. Cardinality(hits) \in Nat
  BY Positions
<1>2. position \in [hits -> to]
  BY Positions
<1>3. ASSUME NEW m \in hits, NEW k \in hits, position[m] = position[k] PROVE m = k
  <2>1. ~(m < k) /\ ~(k < m)
    BY <1>3, Positions
  <2> QED BY <2>1
<1>4. position \in Injection(hits, to)
  BY <1>2, <1>3 DEF Injection, IsInjective
<1>5. IsFiniteSet(to) /\ Cardinality(to) = Cardinality(hits)
  BY <1>1, FS_Interval
<1>6. position \in Surjection(hits, to)
  BY <1>4, <1>5, FS_Injection
<1> QED BY <1>6 DEF Surjection

\* A place comes no later when there are fewer hits.
LEMMA FewerHits ==
    ASSUME NEW hits \in SUBSET Nat, IsFiniteSet(hits), NEW fewer \in SUBSET hits, NEW m \in Nat
    PROVE  Position(fewer, m) <= Position(hits, m)
<1>1. Upto(hits, m) \in SUBSET hits /\ Upto(fewer, m) \in SUBSET Upto(hits, m)
  BY DEF Upto
<1> QED BY <1>1, FS_Subset DEF Position

-----------------------------------------------------------------------------
(* What a query matches.                                                   *)

LEMMA OrderIsSeq ==
    /\ Order \in Seq(Issues) /\ DOMAIN Order = 1..Len(Order) /\ Len(Order) \in Nat
    /\ \A m \in DOMAIN Order : m \in Nat /\ Order[m] \in Issues
    /\ \A m, n \in DOMAIN Order : Order[m] = Order[n] => m = n
    /\ \A i \in Issues : \E m \in DOMAIN Order : Order[m] = i
<1>1. Order \in Seq(Issues)
  BY FetchAssumption DEF Issues
<1>2. \A m, n \in DOMAIN Order : Order[m] = Order[n] => m = n
  BY FetchAssumption
<1>3. \A i \in Issues : \E m \in DOMAIN Order : Order[m] = i
  BY DEF Issues, Range
<1> QED BY <1>1, <1>2, <1>3

LEMMA PlacesAreFinite ==
    ASSUME NEW places \in SUBSET DOMAIN Order
    PROVE  places \in SUBSET Nat /\ IsFiniteSet(places)
<1>1. places \subseteq 1..Len(Order) /\ Len(Order) \in Nat
  BY OrderIsSeq
<1>2. IsFiniteSet(1..Len(Order))
  BY <1>1, FS_Interval
<1>3. IsFiniteSet(places)
  BY <1>1, <1>2, FS_Subset
<1> QED BY <1>1, <1>3, OrderIsSeq

LEMMA HitsAreFinite == Hits \in SUBSET Nat /\ IsFiniteSet(Hits) /\ Hits \subseteq DOMAIN Order
<1>1. Hits \in SUBSET DOMAIN Order
  BY DEF Hits
<1> QED BY <1>1, PlacesAreFinite

\* The answer lists the hits by their positions.
LEMMA Matching ==
    /\ matching \in Seq(Issues) /\ Len(matching) = Cardinality(Hits) /\ Len(matching) \in Nat
    /\ \A m \in Hits : matching[Position(Hits, m)] = Order[m]
    /\ \A n \in 1..Len(matching) :
         \E m \in Hits : Position(Hits, m) = n /\ matching[n] = Order[m]
<1> DEFINE size == Cardinality(Hits)
           at(n) == CHOOSE m \in Hits : Cardinality(Upto(Hits, m)) = n
<1>1. size \in Nat
  BY HitsAreFinite, Positions
<1>2. matching = [n \in 1..size |-> Order[at(n)]]
  BY DEF matching
<1>3. ASSUME NEW n \in 1..size
      PROVE  at(n) \in Hits /\ Position(Hits, at(n)) = n
  <2>1. \E m \in Hits : Cardinality(Upto(Hits, m)) = n
    BY HitsAreFinite, PositionsReached DEF Position
  <2> QED BY <2>1 DEF Position
<1> HIDE DEF at
<1>4. \A n \in 1..size : matching[n] = Order[at(n)] /\ Order[at(n)] \in Issues
  BY <1>2, <1>3, HitsAreFinite, OrderIsSeq
<1>5. matching \in [1..size -> Issues]
  BY <1>2, <1>4
<1>6. matching \in Seq(Issues) /\ Len(matching) = size
  BY <1>1, <1>5
<1>7. ASSUME NEW m \in Hits PROVE matching[Position(Hits, m)] = Order[m]
  <2>1. Position(Hits, m) \in 1..size
    BY HitsAreFinite, Positions
  <2>2. at(Position(Hits, m)) = m
    <3> DEFINE k == at(Position(Hits, m))
    <3>1. k \in Hits /\ Position(Hits, k) = Position(Hits, m)
      BY <1>3, <2>1
    <3> HIDE DEF k
    <3>2. k \in Nat /\ m \in Nat /\ Position(Hits, m) \in Int
      BY <2>1, <3>1, HitsAreFinite
    <3>3. k < m => FALSE
      BY <3>1, <3>2, HitsAreFinite, Positions
    <3>4. m < k => FALSE
      BY <3>1, <3>2, HitsAreFinite, Positions
    <3> QED BY <3>2, <3>3, <3>4 DEF k
  <2> QED BY <1>4, <2>1, <2>2
<1> QED BY <1>1, <1>3, <1>4, <1>6, <1>7

\* It lists each issue that matches, and once.
LEMMA MatchingIsAnswer ==
    /\ Range(matching) = {Order[m] : m \in Hits}
    /\ \A i \in Range(matching) : i \in Issues /\ place[i] = Asked
    /\ \A n, k \in 1..Len(matching) : matching[n] = matching[k] => n = k
<1>1. \A m \in Hits : Position(Hits, m) \in 1..Len(matching)
  BY HitsAreFinite, Positions, Matching
<1>2. DOMAIN matching = 1..Len(matching)
  BY Matching
<1>3. Range(matching) = {Order[m] : m \in Hits}
  BY <1>1, <1>2, Matching DEF Range
<1>4. \A m \in Hits : Order[m] \in Issues /\ place[Order[m]] = Asked
  BY OrderIsSeq DEF Hits
<1>5. ASSUME NEW n \in 1..Len(matching), NEW k \in 1..Len(matching), matching[n] = matching[k]
      PROVE  n = k
  <2>1. PICK m \in Hits : Position(Hits, m) = n /\ matching[n] = Order[m]
    BY Matching
  <2>2. PICK l \in Hits : Position(Hits, l) = k /\ matching[k] = Order[l]
    BY Matching
  <2> QED BY <1>5, <2>1, <2>2, OrderIsSeq, HitsAreFinite
<1> QED BY <1>3, <1>4, <1>5

-----------------------------------------------------------------------------
(* Types.                                                                  *)

FetchRecord ==
    [pc: {"discovering", "calling", "pausing", "backingOff", "done", "failed"},
     board: 1..(Len(BoardSprints) + 1), sprintIDs: Seq(Sprints),
     startAt: Nat, allIssues: Seq(Issues), wake: Nat, periods: Seq(Seq(Issues))]

TypeInv ==
    /\ TypeOK
    /\ Len(fetch.periods) <= Periods
    /\ fetch.pc = "discovering" => fetch.board <= Len(BoardSprints)

LEMMA Types ==
    ASSUME TypeInv
    PROVE  /\ fetch \in FetchRecord
           /\ fetch.pc \in {"discovering", "calling", "pausing", "backingOff", "done", "failed"}
           /\ fetch.startAt \in Nat /\ fetch.wake \in Nat
           /\ fetch.allIssues \in Seq(Issues) /\ Len(fetch.allIssues) \in Nat
           /\ DOMAIN fetch.allIssues = 1..Len(fetch.allIssues)
           /\ fetch.periods \in Seq(Seq(Issues)) /\ Len(fetch.periods) \in Nat
           /\ DOMAIN fetch.periods = 1..Len(fetch.periods)
           /\ Periods \in Nat /\ Timeout \in Nat /\ Delay \in Nat /\ MinBackoff \in Nat
           /\ clock \in Nat /\ clock <= Timeout /\ changes \in Nat
           /\ place \in [Issues -> 0..Periods]
           /\ seen.first \in Seq(Issues) /\ seen.kinds \subseteq {"added", "removed"}
           /\ DOMAIN seen.first = 1..Len(seen.first) /\ Len(seen.first) \in Nat
           /\ seen.reopened \subseteq Issues
           /\ call.at \in Nat /\ call.at <= Timeout
           /\ fetch.pc = "done" <=> Len(fetch.periods) = Periods
  BY FetchAssumption DEF TypeInv, TypeOK, FetchRecord

LEMMA InitTypes == Init => TypeInv
<1> SUFFICES ASSUME Init PROVE TypeInv
  OBVIOUS
<1>1. /\ Periods \in Nat \ {0} /\ Timeout \in Nat /\ MaxChanges \in Nat
      /\ place \in [Issues -> 0..Periods]
  BY FetchAssumption DEF Init, Issues
<1>2. BoardSprints \in Seq(Range(BoardSprints)) /\ Len(BoardSprints) \in Nat
  BY FetchAssumption
<1>3. BoardSprints # <<>> => Len(BoardSprints) >= 1
  BY <1>2
<1>4. fetch \in FetchRecord
  BY <1>2 DEF Init, FetchRecord
<1>5. Len(fetch.periods) = 0
  BY DEF Init
<1>6. fetch.pc # "done"
  BY DEF Init
<1>7. fetch.pc = "discovering" => fetch.board <= Len(BoardSprints)
  BY <1>2, <1>3 DEF Init
<1>8. seen \in [first: Seq(Issues), kinds: SUBSET {"added", "removed"},
                 reopened: SUBSET Issues]
  BY DEF Init
<1>9. call \in [at: 0..Timeout, answer: {"none", "page", "429", "error"}]
  BY <1>1 DEF Init
<1>10. clock \in 0..Timeout /\ changes \in 0..MaxChanges
  BY <1>1 DEF Init
<1> QED BY <1>1, <1>4, <1>5, <1>6, <1>7, <1>8, <1>9, <1>10 DEF TypeInv, TypeOK, FetchRecord

-----------------------------------------------------------------------------
(* The steps, field by field.                                              *)

\* A page is the next part of the answer, which may be none of it.
LEMMA PageFacts ==
    ASSUME TypeInv, NEW page \in Pages(matching)
    PROVE  /\ page \in Seq(Issues) /\ Len(page) \in Nat
           /\ \A n \in 1..Len(page) : /\ page[n] = matching[fetch.startAt + n]
                                      /\ fetch.startAt + n \in 1..Len(matching)
<1>1. fetch.startAt \in Nat /\ MaxResults \in Nat \ {0}
  BY Types, FetchAssumption
<1>2. matching \in Seq(Issues) /\ Len(matching) \in Nat
  BY Matching
<1>3. PICK n \in 0..MaxResults :
        page = SubSeq(matching, fetch.startAt + 1,
                      IF fetch.startAt + n < Len(matching) THEN fetch.startAt + n
                                                           ELSE Len(matching))
  BY DEF Pages
<1> DEFINE from == fetch.startAt + 1
           to == IF fetch.startAt + n < Len(matching) THEN fetch.startAt + n ELSE Len(matching)
<1>4. from \in Nat /\ to \in Nat /\ to <= Len(matching) /\ from >= 1
  BY <1>1, <1>2
<1>5. \A k \in from..to : matching[k] \in Issues
  BY <1>2, <1>4
<1> HIDE DEF to, from
<1>7. page = SubSeq(matching, from, to)
  BY <1>3 DEF from, to
<1>8. /\ SubSeq(matching, from, to) \in Seq(Issues)
      /\ Len(SubSeq(matching, from, to)) = IF from <= to THEN to - from + 1 ELSE 0
      /\ \A k \in 1..(to - from + 1) : SubSeq(matching, from, to)[k] = matching[from + k - 1]
  BY <1>4, <1>5, SubSeqProperties
<1>9. page \in Seq(Issues) /\ Len(page) = IF from <= to THEN to - from + 1 ELSE 0
  BY <1>7, <1>8
<1>10. ASSUME NEW k \in 1..Len(page)
       PROVE  page[k] = matching[fetch.startAt + k] /\ fetch.startAt + k \in 1..Len(matching)
  <2>1. k \in 1..(to - from + 1) /\ k \in Nat
    BY <1>4, <1>9
  <2>2. from + k - 1 = fetch.startAt + k
    BY <1>1, <2>1 DEF from
  <2>3. fetch.startAt + k <= to
    BY <1>1, <1>4, <2>1 DEF from
  <2>4. page[k] = matching[from + k - 1]
    BY <1>7, <1>8, <2>1
  <2> QED BY <1>1, <1>2, <1>4, <2>1, <2>2, <2>3, <2>4
<1>11. Len(page) \in Nat
  BY <1>4, <1>9
<1> QED BY <1>9, <1>10, <1>11

CompleteEffect(all) ==
    /\ Len(all) >= Len(matching)
    /\ fetch' \in FetchRecord
    /\ fetch'.periods = Append(fetch.periods, all)
    /\ fetch'.allIssues = <<>> /\ fetch'.startAt = 0
    /\ fetch'.pc = IF Len(fetch.periods) + 1 = Periods THEN "done" ELSE "calling"

\* The top of the loop: a pause at an offset above 0 if there is a delay at all.
LoopEffect ==
    \/ fetch'.startAt > 0 /\ fetch'.pc = "pausing" /\ fetch'.wake = clock + Delay
    \/ (fetch'.startAt > 0 => Delay = 0) /\ fetch'.pc = "calling"

LEMMA LoopIsRecord ==
    ASSUME TypeInv, NEW f \in FetchRecord, fetch' = LoopAgain(f)
    PROVE  /\ fetch' \in FetchRecord /\ fetch'.periods = f.periods
           /\ fetch'.allIssues = f.allIssues /\ fetch'.startAt = f.startAt
           /\ LoopEffect
<1>0. f.startAt \in Nat
  BY DEF FetchRecord
<1>1. Delay \in Nat /\ clock + Delay \in Nat
  BY Types
<1>2. CASE f.startAt > 0 /\ Delay > 0
  <2>1. fetch' = [f EXCEPT !.pc = "pausing", !.wake = clock + Delay]
    BY <1>2 DEF LoopAgain
  <2>2. /\ fetch' \in FetchRecord /\ fetch'.periods = f.periods
        /\ fetch'.allIssues = f.allIssues /\ fetch'.startAt = f.startAt
        /\ fetch'.pc = "pausing" /\ fetch'.wake = clock + Delay
    BY <1>1, <2>1 DEF FetchRecord
  <2> QED BY <1>0, <1>1, <1>2, <2>2 DEF LoopEffect
<1>3. CASE ~(f.startAt > 0 /\ Delay > 0)
  <2> DEFINE off == 0
  <2>1. fetch' = [f EXCEPT !.pc = "calling", !.wake = off] /\ off \in Nat
    BY <1>3 DEF LoopAgain
  <2> HIDE DEF off
  <2>2. /\ fetch' \in FetchRecord /\ fetch'.periods = f.periods
        /\ fetch'.allIssues = f.allIssues /\ fetch'.startAt = f.startAt
        /\ fetch'.pc = "calling"
    BY <2>1 DEF FetchRecord
  <2> QED BY <1>0, <1>1, <1>3, <2>2 DEF LoopEffect
<1> QED BY <1>2, <1>3

NextPageEffect(page, all) ==
    /\ Len(all) < Len(matching)
    /\ fetch' \in FetchRecord
    /\ fetch'.periods = fetch.periods
    /\ fetch'.allIssues = all /\ fetch'.startAt = fetch.startAt + Len(page)
    /\ LoopEffect

\* The offset is the number of issues read.
Offset == fetch.startAt = Len(fetch.allIssues)

LEMMA ReceiveEffect ==
    ASSUME TypeInv, Offset, ReceivePage
    PROVE  /\ fetch.pc = "calling" /\ ~Expired
           /\ UNCHANGED <<clock, place, changes>> /\ call' = [at |-> clock, answer |-> "page"]
           /\ seen' = IF fetch.startAt = 0 THEN [seen EXCEPT !.first = matching, !.kinds = {}]
                                           ELSE seen
           /\ \E page \in Pages(matching), all \in Seq(Issues) :
                /\ all = fetch.allIssues \o page /\ Len(all) = fetch.startAt + Len(page)
                /\ CompleteEffect(all) \/ NextPageEffect(page, all)
<1>1. PICK page \in Pages(matching) :
        IF Len(fetch.allIssues \o page) >= Len(matching)
        THEN CompleteQuery(fetch.allIssues \o page)
        ELSE NextPage(page, fetch.allIssues \o page)
  BY DEF ReceivePage
<1> DEFINE all == fetch.allIssues \o page
<1>2. page \in Seq(Issues) /\ Len(page) \in Nat
  BY PageFacts
<1>3. all \in Seq(Issues) /\ Len(all) = fetch.startAt + Len(page)
  BY <1>2, Types DEF Offset
<1>4. Len(matching) \in Nat
  BY Matching
<1> HIDE DEF all
<1>5. fetch \in FetchRecord /\ Len(fetch.periods) \in Nat /\ fetch.startAt \in Nat
      /\ clock + Delay \in Nat /\ fetch.periods \in Seq(Seq(Issues))
  BY Types
<1>6. ASSUME Len(all) >= Len(matching) PROVE CompleteEffect(all)
  <2>1. CompleteQuery(all)
    BY <1>1, <1>6 DEF all
  <2> DEFINE done == Append(fetch.periods, all)
             none == <<>>
             pc == IF Len(fetch.periods) + 1 = Periods THEN "done" ELSE "calling"
  <2>2. fetch' = [fetch EXCEPT !.periods = done, !.allIssues = none, !.startAt = 0, !.pc = pc]
    BY <2>1 DEF CompleteQuery
  <2>3. done \in Seq(Seq(Issues)) /\ none \in Seq(Issues) /\ pc \in {"done", "calling"}
    BY <1>3, <1>5
  <2> HIDE DEF done, pc, none
  <2>4. fetch' \in FetchRecord /\ fetch'.periods = done /\ fetch'.allIssues = none
        /\ fetch'.startAt = 0 /\ fetch'.pc = pc
    BY <1>5, <2>2, <2>3 DEF FetchRecord
  <2>5. CompleteEffect(all)
    BY <1>6, <2>4 DEF CompleteEffect, done, pc, none
  <2> QED BY <2>5
<1>7. ASSUME Len(all) < Len(matching) PROVE NextPageEffect(page, all)
  <2>1. NextPage(page, all)
    BY <1>1, <1>3, <1>2, <1>4, <1>5, <1>7 DEF all
  <2> DEFINE at == fetch.startAt + Len(page)
             f == [fetch EXCEPT !.allIssues = all, !.startAt = at]
  <2>2. fetch' = LoopAgain(f)
    BY <2>1 DEF NextPage
  <2>3. at \in Nat
    BY <1>2, <1>5
  <2> HIDE DEF at
  <2>4. f \in FetchRecord /\ f.periods = fetch.periods /\ f.allIssues = all /\ f.startAt = at
    BY <1>3, <1>5, <2>3 DEF FetchRecord
  <2> HIDE DEF f
  <2>5. fetch' \in FetchRecord /\ fetch'.periods = fetch.periods /\ fetch'.allIssues = all
        /\ fetch'.startAt = at /\ LoopEffect
    BY <2>2, <2>4, LoopIsRecord
  <2>6. NextPageEffect(page, all)
    BY <1>7, <2>5 DEF NextPageEffect, at
  <2> QED BY <2>6
<1>8. CompleteEffect(all) \/ NextPageEffect(page, all)
  BY <1>2, <1>3, <1>4, <1>5, <1>6, <1>7
<1>9. \E p \in Pages(matching), a \in Seq(Issues) :
        /\ a = fetch.allIssues \o p /\ Len(a) = fetch.startAt + Len(p)
        /\ CompleteEffect(a) \/ NextPageEffect(p, a)
  BY <1>3, <1>8 DEF all
<1> QED BY <1>9 DEF ReceivePage, Called

\* What has been read stays as it is.
SameRead ==
    /\ fetch' \in FetchRecord
    /\ fetch'.periods = fetch.periods /\ fetch'.allIssues = fetch.allIssues
    /\ fetch'.startAt = fetch.startAt

LEMMA TurnEffect ==
    ASSUME TypeInv, NEW pc \in {"calling", "pausing", "backingOff", "failed"}, NEW wake \in Nat,
           fetch' = [fetch EXCEPT !.pc = pc, !.wake = wake]
    PROVE  SameRead /\ fetch'.pc = pc /\ fetch'.wake = wake
  BY Types DEF FetchRecord, SameRead

LEMMA TurnPcEffect ==
    ASSUME TypeInv, NEW pc \in {"calling", "pausing", "backingOff", "failed"},
           fetch' = [fetch EXCEPT !.pc = pc]
    PROVE  SameRead /\ fetch'.pc = pc /\ fetch'.wake = fetch.wake
  BY Types DEF FetchRecord, SameRead

LEMMA DiscoverEffect ==
    ASSUME TypeInv, DiscoverSprintIDs
    PROVE  /\ SameRead /\ UNCHANGED <<clock, place, changes, seen, call>>
           /\ fetch.pc = "discovering" /\ fetch'.pc \in {"discovering", "calling"}
           /\ fetch'.pc = "discovering" => fetch'.board <= Len(BoardSprints)
<1> DEFINE b == fetch.board
           found == FetchBoardSprints(b)
           ids == fetch.sprintIDs \o found
           pc == IF b = Len(BoardSprints) THEN "calling" ELSE "discovering"
<1>1. /\ fetch \in FetchRecord /\ fetch.pc = "discovering"
      /\ b \in 1..Len(BoardSprints) /\ Len(BoardSprints) \in Nat
  <2>1. BoardSprints \in Seq(Range(BoardSprints))
    BY FetchAssumption
  <2> QED BY <2>1, Types DEF TypeInv, DiscoverSprintIDs, FetchRecord
<1>2. found \in Seq(Sprints)
  <2> DEFINE sprints == BoardSprints[b]
             to == IF Len(sprints) < SprintPage THEN Len(sprints) ELSE SprintPage
  <2>1. b \in DOMAIN BoardSprints
    BY <1>1, FetchAssumption
  <2>2. sprints \in Seq(Range(sprints)) /\ Range(sprints) \subseteq Sprints
    BY <2>1, FetchAssumption DEF Sprints
  <2>3. Len(sprints) \in Nat /\ to \in Nat /\ to <= Len(sprints)
    BY <2>2, FetchAssumption
  <2>4. \A k \in 1..to : sprints[k] \in Sprints
    BY <2>2, <2>3
  <2> HIDE DEF to
  <2>5. SubSeq(sprints, 1, to) \in Seq(Sprints)
    BY <2>3, <2>4, SubSeqProperties
  <2> QED BY <2>5 DEF FetchBoardSprints, to
<1>3. ids \in Seq(Sprints)
  BY <1>1, <1>2 DEF FetchRecord
<1>4. fetch' = [fetch EXCEPT !.sprintIDs = ids, !.board = b + 1, !.pc = pc]
  BY <1>1 DEF DiscoverSprintIDs
<1>5. pc \in {"calling", "discovering"} /\ b + 1 \in 1..(Len(BoardSprints) + 1)
      /\ (pc = "discovering" => b + 1 <= Len(BoardSprints))
  BY <1>1
<1>6. fetch.pc = "discovering" /\ UNCHANGED <<clock, place, changes, seen, call>>
  BY DEF DiscoverSprintIDs
<1> HIDE DEF ids, pc, b
<1>7. fetch' \in FetchRecord /\ fetch'.pc = pc /\ fetch'.board = b + 1
      /\ fetch'.periods = fetch.periods /\ fetch'.allIssues = fetch.allIssues
      /\ fetch'.startAt = fetch.startAt
  BY <1>1, <1>3, <1>4, <1>5 DEF FetchRecord
<1> QED BY <1>5, <1>6, <1>7 DEF SameRead

\* A step of the fetch other than an answered page.
Turn ==
    /\ SameRead /\ UNCHANGED <<clock, place, changes, seen>>
    /\ fetch'.pc = "discovering" => fetch'.board <= Len(BoardSprints)
    /\ fetch.pc \notin {"done", "failed"} /\ fetch'.pc # "done"

LEMMA BackoffNat == Backoff \in Nat
  BY FetchAssumption DEF Backoff

LEMMA RateLimitEffect ==
    ASSUME TypeInv, ReceiveRateLimit
    PROVE  /\ Turn /\ fetch.pc = "calling" /\ fetch'.pc = "backingOff"
           /\ fetch'.wake = clock + Backoff /\ call' = [at |-> clock, answer |-> "429"]
<1>1. clock + Backoff \in Nat
  BY BackoffNat, Types
<1>2. fetch' = [fetch EXCEPT !.pc = "backingOff", !.wake = clock + Backoff]
  BY DEF ReceiveRateLimit
<1>3. SameRead /\ fetch'.pc = "backingOff" /\ fetch'.wake = clock + Backoff
  BY <1>1, <1>2, TurnEffect
<1>4. /\ UNCHANGED <<clock, place, changes, seen>> /\ fetch.pc = "calling"
      /\ call' = [at |-> clock, answer |-> "429"]
  BY DEF ReceiveRateLimit, Called
<1> QED BY <1>3, <1>4 DEF Turn

LEMMA FailEffect == ASSUME TypeInv, Fail PROVE SameRead /\ fetch'.pc = "failed"
  BY TurnPcEffect DEF Fail

LEMMA ErrorEffect ==
    ASSUME TypeInv, FailDiscovery \/ ReceiveError
    PROVE  /\ Turn /\ fetch.pc \in {"discovering", "calling"} /\ fetch'.pc = "failed"
           /\ call' = call \/ call' = [at |-> clock, answer |-> "error"]
<1>1. Fail /\ UNCHANGED <<clock, place, changes, seen>> /\ fetch.pc \in {"discovering", "calling"}
  BY DEF FailDiscovery, ReceiveError
<1>2. call' = call \/ call' = [at |-> clock, answer |-> "error"]
  BY DEF FailDiscovery, ReceiveError, Called
<1> QED BY <1>1, <1>2, FailEffect DEF Turn

LEMMA EndPauseEffect ==
    ASSUME TypeInv, EndPause
    PROVE  /\ Turn /\ fetch.pc = "pausing" /\ UNCHANGED call
           /\ \/ clock >= fetch.wake /\ fetch'.pc = "calling"
              \/ fetch'.pc = "failed"
<1>1. /\ UNCHANGED <<clock, place, changes, seen, call>> /\ fetch.pc = "pausing"
      /\ \/ clock >= fetch.wake /\ fetch' = [fetch EXCEPT !.pc = "calling", !.wake = 0]
         \/ Fail
  BY DEF EndPause
<1>2. SameRead /\ (\/ clock >= fetch.wake /\ fetch'.pc = "calling"
                  \/ fetch'.pc = "failed")
  BY <1>1, TurnEffect, FailEffect
<1> QED BY <1>1, <1>2 DEF Turn

LEMMA EndBackoffEffect ==
    ASSUME TypeInv, EndBackoff
    PROVE  /\ Turn /\ fetch.pc = "backingOff" /\ UNCHANGED call
           /\ \/ clock >= fetch.wake /\ LoopEffect
              \/ fetch'.pc = "failed"
<1>1. UNCHANGED <<clock, place, changes, seen, call>> /\ fetch.pc = "backingOff"
  BY DEF EndBackoff
<1>2. \/ clock >= fetch.wake /\ fetch' = LoopAgain(fetch)
      \/ Fail
  BY DEF EndBackoff
<1>3. CASE clock >= fetch.wake /\ fetch' = LoopAgain(fetch)
  <2>1. fetch \in FetchRecord
    BY Types
  <2>2. SameRead /\ LoopEffect
    BY <1>3, <2>1, LoopIsRecord DEF SameRead
  <2>3. fetch'.pc \in {"pausing", "calling"}
    BY <2>2 DEF LoopEffect
  <2> QED BY <1>1, <1>3, <2>2, <2>3 DEF Turn
<1>4. CASE Fail
  BY <1>1, <1>4, FailEffect DEF Turn
<1> QED BY <1>2, <1>3, <1>4

LEMMA StepCases ==
    ASSUME TypeInv, [Next]_vars
    PROVE  \/ ReceivePage
           \/ /\ Turn
              /\ \/ call' = call
                 \/ call'.at = clock /\ call' \in [at: {clock}, answer: {"429", "error"}]
           \/ Tick
           \/ JiraChanges
           \/ UNCHANGED vars
<1>1. CASE DiscoverSprintIDs
  BY <1>1, DiscoverEffect DEF Turn
<1>2. CASE FailDiscovery \/ ReceiveError
  BY <1>2, ErrorEffect
<1>3. CASE ReceiveRateLimit
  BY <1>3, RateLimitEffect
<1>4. CASE EndPause \/ EndBackoff
  BY <1>4, EndPauseEffect, EndBackoffEffect
<1> QED BY <1>1, <1>2, <1>3, <1>4 DEF Next, Step, Query, Finished

\* What a move does to the current query, and what it reopens.
LEMMA MoveEffect ==
    ASSUME TypeInv, NEW i \in Issues, NEW to \in 0..Periods, Move(i, to)
    PROVE  /\ UNCHANGED <<fetch, clock, call>> /\ fetch.pc \notin {"done", "failed"}
           /\ place' \in [Issues -> 0..Periods] /\ place'[i] = to
           /\ \A j \in Issues : j # i => place'[j] = place[j]
           /\ changes > 0 /\ changes' = changes - 1
           /\ seen' \in [first: Seq(Issues), kinds: SUBSET {"added", "removed"},
                          reopened: SUBSET Issues]
           /\ seen'.first = seen.first
           /\ seen.kinds \subseteq seen'.kinds /\ seen.reopened \subseteq seen'.reopened
           /\ place[i] = Asked => "removed" \in seen'.kinds
           /\ to = Asked => "added" \in seen'.kinds
           /\ place[i] \notin {0, InProgress} => i \in seen'.reopened
<1> DEFINE kinds == seen.kinds \cup (IF place[i] = Asked THEN {"removed"} ELSE {})
                               \cup (IF to = Asked THEN {"added"} ELSE {})
           reopened == seen.reopened \cup (IF place[i] \notin {0, InProgress} THEN {i} ELSE {})
<1>1. seen' = [seen EXCEPT !.kinds = kinds, !.reopened = reopened]
  BY DEF Move
<1>2. seen \in [first: Seq(Issues), kinds: SUBSET {"added", "removed"},
                 reopened: SUBSET Issues]
  BY DEF TypeInv, TypeOK
<1>3. kinds \subseteq {"added", "removed"} /\ reopened \subseteq Issues
  BY <1>2
<1>4. /\ seen.kinds \subseteq kinds /\ seen.reopened \subseteq reopened
      /\ place[i] = Asked => "removed" \in kinds
      /\ to = Asked => "added" \in kinds
      /\ place[i] \notin {0, InProgress} => i \in reopened
  OBVIOUS
<1> HIDE DEF kinds, reopened
<1>5. /\ seen' \in [first: Seq(Issues), kinds: SUBSET {"added", "removed"},
                     reopened: SUBSET Issues]
      /\ seen'.first = seen.first /\ seen'.kinds = kinds /\ seen'.reopened = reopened
  BY <1>1, <1>2, <1>3
<1>6. /\ UNCHANGED <<fetch, clock, call>> /\ fetch.pc \notin {"done", "failed"}
      /\ changes > 0 /\ changes' = changes - 1
      /\ place' = [place EXCEPT ![i] = to]
  BY DEF Move, Ended
<1>7. /\ place' \in [Issues -> 0..Periods] /\ place'[i] = to
      /\ \A j \in Issues : j # i => place'[j] = place[j]
  BY <1>6, Types
<1> QED BY <1>4, <1>5, <1>6, <1>7

LEMMA TypesStay == ASSUME TypeInv, Offset, [Next]_vars PROVE TypeInv' /\ Offset'
<1>1. /\ Periods \in Nat /\ Len(fetch.periods) \in Nat /\ Len(fetch.periods) <= Periods
      /\ fetch.pc = "done" <=> Len(fetch.periods) = Periods
      /\ fetch.periods \in Seq(Seq(Issues)) /\ clock \in 0..Timeout
  BY Types DEF TypeInv, TypeOK
<1>2. CASE ReceivePage
  <2>1. PICK page \in Pages(matching), all \in Seq(Issues) :
          /\ Len(all) = fetch.startAt + Len(page)
          /\ CompleteEffect(all) \/ NextPageEffect(page, all)
    BY <1>2, ReceiveEffect
  <2>2. /\ fetch.pc = "calling"
        /\ UNCHANGED <<clock, place, changes>> /\ call' = [at |-> clock, answer |-> "page"]
        /\ seen' = IF fetch.startAt = 0 THEN [seen EXCEPT !.first = matching, !.kinds = {}]
                                        ELSE seen
    BY <1>2, ReceiveEffect
  <2>3. seen' \in [first: Seq(Issues), kinds: SUBSET {"added", "removed"},
                   reopened: SUBSET Issues]
    BY <2>2, Matching DEF TypeInv, TypeOK
  <2>4. call' \in [at: 0..Timeout, answer: {"none", "page", "429", "error"}]
    BY <1>1, <2>2
  <2>5. CASE CompleteEffect(all)
    <3>1. Len(fetch'.periods) = Len(fetch.periods) + 1
      BY <1>1, <2>5 DEF CompleteEffect
    <3>2. fetch'.pc = "done" <=> Len(fetch'.periods) = Periods
      BY <3>1, <2>5 DEF CompleteEffect
    <3>3. Len(fetch'.periods) <= Periods /\ fetch'.pc # "discovering"
      BY <1>1, <2>2, <2>5, <3>1 DEF CompleteEffect
    <3>4. Offset'
      BY <2>5 DEF CompleteEffect, Offset
    <3> QED BY <2>2, <2>3, <2>4, <2>5, <3>2, <3>3, <3>4
            DEF TypeInv, TypeOK, CompleteEffect, FetchRecord
  <2>6. CASE NextPageEffect(page, all)
    <3>1. Offset'
      BY <2>1, <2>6 DEF NextPageEffect, Offset
    <3>2. fetch'.pc \in {"pausing", "calling"} /\ Len(fetch'.periods) # Periods
      BY <1>1, <2>2, <2>6 DEF NextPageEffect, LoopEffect
    <3> QED BY <2>2, <2>3, <2>4, <2>6, <3>1, <3>2
            DEF TypeInv, TypeOK, NextPageEffect, FetchRecord
  <2> QED BY <2>1, <2>5, <2>6
<1>3. CASE /\ Turn
           /\ \/ call' = call
              \/ call'.at = clock /\ call' \in [at: {clock}, answer: {"429", "error"}]
  <2>1. call' \in [at: 0..Timeout, answer: {"none", "page", "429", "error"}]
    BY <1>1, <1>3 DEF TypeInv, TypeOK
  <2> QED BY <1>1, <1>3, <2>1 DEF Turn, SameRead, TypeInv, TypeOK, FetchRecord, Offset
<1>4. CASE Tick
  <2>1. clock' \in 0..Timeout
    BY <1>1, <1>4, Types DEF Tick, Expired
  <2> QED BY <1>4, <2>1 DEF Tick, TypeInv, TypeOK, Offset
<1>5. CASE JiraChanges
  <2>1. PICK i \in Issues, to \in 0..Periods : Move(i, to)
    BY <1>5 DEF JiraChanges
  <2>2. changes' \in 0..MaxChanges
    <3>1. changes \in 0..MaxChanges /\ MaxChanges \in Nat
      BY FetchAssumption DEF TypeInv, TypeOK
    <3>2. changes > 0 /\ changes' = changes - 1
      BY <2>1, MoveEffect
    <3> QED BY <3>1, <3>2
  <2> QED BY <2>1, <2>2, MoveEffect DEF TypeInv, TypeOK, Offset
<1>6. CASE UNCHANGED vars
  BY <1>6 DEF vars, TypeInv, TypeOK, Offset
<1> QED BY <1>2, <1>3, <1>4, <1>5, <1>6, StepCases

\* The type of the variables, for any issues, boards and bounds: the offset
\* counts the issues read, and a fetch is done when it has all its periods.
THEOREM TypeCorrect == Spec => []TypeOK
<1>1. Init => TypeInv /\ Offset
  BY InitTypes DEF Init, Offset
<1>2. TypeInv /\ Offset /\ [Next]_vars => TypeInv' /\ Offset'
  BY TypesStay
<1>3. TypeInv => TypeOK
  BY DEF TypeInv
<1> QED BY <1>1, <1>2, <1>3, PTL DEF Spec

LEMMA TypesAlways == Spec => [](TypeInv /\ Offset)
<1>1. Init => TypeInv /\ Offset
  BY InitTypes DEF Init, Offset
<1>2. TypeInv /\ Offset /\ [Next]_vars => TypeInv' /\ Offset'
  BY TypesStay
<1> QED BY <1>1, <1>2, PTL DEF Spec

-----------------------------------------------------------------------------
(* The pauses between queries.                                             *)

\* How long each place of the fetch has been, or will be, away from Jira.
Pauses ==
    /\ call.at <= clock
    /\ fetch.pc = "discovering" => call.answer = "none"
    /\ call.answer = "429" =>
         /\ fetch.pc = "backingOff" => fetch.wake >= call.at + Backoff
         /\ fetch.pc = "pausing" => fetch.wake >= call.at + Backoff + Delay
         /\ fetch.pc = "calling" =>
              clock >= call.at + Backoff + (IF fetch.startAt > 0 THEN Delay ELSE 0)
    /\ call.answer = "page" =>
         /\ fetch.pc = "pausing" => fetch.wake >= call.at + Delay
         /\ fetch.pc = "calling" /\ fetch.startAt > 0 => clock >= call.at + Delay
         /\ fetch.pc # "backingOff"

LEMMA InitPauses == Init => Pauses
  BY DEF Init, Pauses

LEMMA PausesStay == ASSUME TypeInv, Offset, Pauses, [Next]_vars PROVE Pauses'
<1>1. /\ Delay \in Nat /\ Backoff \in Nat /\ clock \in Nat /\ call.at \in Nat
      /\ fetch.wake \in Nat /\ fetch.startAt \in Nat
  BY Types, BackoffNat
<1>2. CASE ReceivePage
  <2>1. PICK page \in Pages(matching), all \in Seq(Issues) :
          /\ Len(all) = fetch.startAt + Len(page)
          /\ CompleteEffect(all) \/ NextPageEffect(page, all)
    BY <1>2, ReceiveEffect
  <2>2. clock' = clock /\ call'.at = clock /\ call'.answer = "page"
    BY <1>2, ReceiveEffect
  <2>3. CASE CompleteEffect(all)
    BY <1>1, <2>2, <2>3 DEF CompleteEffect, Pauses
  <2>4. CASE NextPageEffect(page, all)
    BY <1>1, <2>2, <2>4 DEF NextPageEffect, LoopEffect, Pauses
  <2> QED BY <2>1, <2>3, <2>4
<1>3. CASE DiscoverSprintIDs
  BY <1>3, DiscoverEffect DEF Pauses, SameRead
<1>4. CASE FailDiscovery \/ ReceiveError
  BY <1>1, <1>4, ErrorEffect DEF Pauses, Turn, SameRead
<1>5. CASE ReceiveRateLimit
  BY <1>1, <1>5, RateLimitEffect DEF Pauses, Turn, SameRead
<1>6. CASE EndPause
  <2>1. /\ Turn /\ fetch.pc = "pausing" /\ UNCHANGED call
        /\ \/ clock >= fetch.wake /\ fetch'.pc = "calling"
           \/ fetch'.pc = "failed"
    BY <1>6, EndPauseEffect
  <2>2. clock' = clock /\ fetch'.startAt = fetch.startAt
    BY <2>1 DEF Turn, SameRead
  <2>3. CASE clock >= fetch.wake /\ fetch'.pc = "calling"
    BY <1>1, <2>1, <2>2, <2>3 DEF Pauses
  <2>4. CASE fetch'.pc = "failed"
    BY <2>1, <2>2, <2>4 DEF Pauses
  <2> QED BY <2>1, <2>3, <2>4
<1>7. CASE EndBackoff
  <2>1. /\ Turn /\ fetch.pc = "backingOff" /\ UNCHANGED call
        /\ \/ clock >= fetch.wake /\ LoopEffect
           \/ fetch'.pc = "failed"
    BY <1>7, EndBackoffEffect
  <2>2. clock' = clock /\ fetch'.startAt = fetch.startAt
    BY <2>1 DEF Turn, SameRead
  <2>3. CASE clock >= fetch.wake /\ LoopEffect
    <3>1. call.answer = "429" => clock >= call.at + Backoff
      BY <1>1, <2>1, <2>3 DEF Pauses
    <3>2. call.answer # "page"
      BY <2>1 DEF Pauses
    <3> QED BY <1>1, <2>1, <2>2, <2>3, <3>1, <3>2 DEF Pauses, LoopEffect
  <2>4. CASE fetch'.pc = "failed"
    BY <2>1, <2>2, <2>4 DEF Pauses
  <2> QED BY <2>1, <2>3, <2>4
<1>8. CASE Tick
  <2>1. clock' = clock + 1 /\ UNCHANGED <<fetch, call>>
    BY <1>8 DEF Tick
  <2> QED BY <1>1, <2>1 DEF Pauses
<1>9. CASE JiraChanges
  <2>1. UNCHANGED <<fetch, clock, call>>
    BY <1>9 DEF JiraChanges, Move
  <2> QED BY <2>1 DEF Pauses, Backoff
<1>10. CASE UNCHANGED vars
  BY <1>10 DEF vars, Pauses, Backoff
<1> QED BY <1>2, <1>3, <1>4, <1>5, <1>6, <1>7, <1>8, <1>9, <1>10 DEF Next, Step, Query, Finished

\* Whatever pages, 429s and back-offs lie between two calls, Jira has been left
\* alone for the back-off after a 429, and for the configured delay before each
\* call at an offset above 0.  Nothing is claimed at offset 0, where the code asks
\* again at once after an empty page and after the query before.
THEOREM LeftAlone == Spec => JiraIsLeftAlone
<1> DEFINE Waited ==
      Query =>
          /\ call.answer = "429" =>
               clock - call.at >= Backoff + (IF fetch.startAt > 0 THEN Delay ELSE 0)
          /\ call.answer = "page" /\ fetch.startAt > 0 => clock - call.at >= Delay
<1>1. TypeInv /\ Pauses => Waited
  <2> SUFFICES ASSUME TypeInv, Pauses, Query PROVE
          /\ call.answer = "429" =>
               clock - call.at >= Backoff + (IF fetch.startAt > 0 THEN Delay ELSE 0)
          /\ call.answer = "page" /\ fetch.startAt > 0 => clock - call.at >= Delay
    OBVIOUS
  <2>1. fetch.pc = "calling"
    BY DEF Query, ReceivePage, ReceiveRateLimit, ReceiveError
  <2>2. /\ Delay \in Nat /\ Backoff \in Nat /\ clock \in Nat /\ call.at \in Nat
    BY Types, BackoffNat
  <2> QED BY <2>1, <2>2 DEF Pauses
<1>2. Init => Pauses
  BY InitPauses
<1>3. TypeInv /\ Offset /\ Pauses /\ [Next]_vars => Pauses'
  BY PausesStay
<1>4. [][Waited]_vars => JiraIsLeftAlone
  BY DEF JiraIsLeftAlone
<1> QED BY <1>1, <1>2, <1>3, <1>4, TypesAlways, PTL DEF Spec

-----------------------------------------------------------------------------
(* Issues in closed periods and in progress.                               *)

\* An issue that was read as closed still is, or has been reopened.
ClosedOrReopened(i) == place[i] \notin {0, InProgress} \/ i \in seen.reopened

Counted ==
    /\ \A m \in DOMAIN fetch.periods : \A i \in Range(fetch.periods[m]) :
         m # InProgress => ClosedOrReopened(i)
    /\ Len(fetch.periods) + 1 # InProgress =>
         \A i \in Range(fetch.allIssues) : ClosedOrReopened(i)
    /\ Len(fetch.periods) + 1 = InProgress =>
         \A m \in DOMAIN fetch.periods :
            Range(fetch.allIssues) \cap Range(fetch.periods[m]) \subseteq seen.reopened
    /\ Len(fetch.periods) = InProgress =>
         \A m \in 1..Periods :
            m # InProgress =>
              Range(fetch.periods[m]) \cap Range(fetch.periods[InProgress]) \subseteq seen.reopened

\* What is read is what matches.
LEMMA ReadFacts ==
    ASSUME TypeInv, NEW page \in Pages(matching), NEW all, all = fetch.allIssues \o page
    PROVE  \A i \in Range(all) : i \in Range(fetch.allIssues) \/ place[i] = Asked
<1>1. page \in Seq(Issues) /\ fetch.allIssues \in Seq(Issues)
  BY PageFacts, Types
<1>2. Range(all) = Range(fetch.allIssues) \cup Range(page)
  BY <1>1, RangeConcatenation
<1>3. ASSUME NEW i \in Range(page) PROVE place[i] = Asked
  <2>1. PICK n \in 1..Len(page) : i = page[n]
    BY <1>1, RangeEquality
  <2>2. i = matching[fetch.startAt + n] /\ fetch.startAt + n \in 1..Len(matching)
    BY <2>1, PageFacts
  <2>3. i \in Range(matching)
    BY <2>2, Matching, RangeEquality
  <2> QED BY <2>3, MatchingIsAnswer
<1> QED BY <1>2, <1>3

LEMMA AppendedPeriod ==
    ASSUME TypeInv, NEW all \in Seq(Issues), CompleteEffect(all)
    PROVE  /\ Len(fetch'.periods) = Len(fetch.periods) + 1
           /\ DOMAIN fetch'.periods = 1..(Len(fetch.periods) + 1)
           /\ \A m \in DOMAIN fetch.periods : fetch'.periods[m] = fetch.periods[m]
           /\ fetch'.periods[Len(fetch.periods) + 1] = all
           /\ Range(fetch'.allIssues) = {}
<1>1. fetch.periods \in Seq(Seq(Issues))
  BY Types
<1>2. Range(fetch'.allIssues) = {}
  BY DEF CompleteEffect, Range
<1> QED BY <1>1, <1>2 DEF CompleteEffect

LEMMA InitCounted == Init => Counted
<1> SUFFICES ASSUME Init PROVE Counted
  OBVIOUS
<1>1. fetch.periods = <<>> /\ fetch.allIssues = <<>>
  BY DEF Init
<1>2. DOMAIN fetch.periods = {} /\ Range(fetch.allIssues) = {} /\ Len(fetch.periods) = 0
  BY <1>1 DEF Range
<1> QED BY <1>2, FetchAssumption DEF Counted, InProgress

LEMMA CountedUnchanged ==
    ASSUME Counted, fetch'.periods = fetch.periods, fetch'.allIssues = fetch.allIssues,
           place' = place, seen'.reopened = seen.reopened
    PROVE  Counted'
  BY DEF Counted, ClosedOrReopened, InProgress

LEMMA ReceiveCounted == ASSUME TypeInv, Offset, Counted, ReceivePage PROVE Counted'
<1>1. PICK page \in Pages(matching), all \in Seq(Issues) :
        /\ all = fetch.allIssues \o page
        /\ CompleteEffect(all) \/ NextPageEffect(page, all)
  BY ReceiveEffect
<1>2. place' = place /\ fetch.pc = "calling"
  BY ReceiveEffect
<1>3. seen'.reopened = seen.reopened
  <2>1. seen \in [first: Seq(Issues), kinds: SUBSET {"added", "removed"},
                   reopened: SUBSET Issues]
    BY DEF TypeInv, TypeOK
  <2>2. seen' = IF fetch.startAt = 0 THEN [seen EXCEPT !.first = matching, !.kinds = {}]
                                     ELSE seen
    BY ReceiveEffect
  <2> QED BY <2>1, <2>2
<1>4. \A i \in Range(all) : i \in Range(fetch.allIssues) \/ place[i] = Asked
  BY <1>1, ReadFacts
<1>5. /\ Periods \in Nat /\ Len(fetch.periods) \in Nat /\ Len(fetch.periods) < Periods
      /\ DOMAIN fetch.periods = 1..Len(fetch.periods) /\ Asked = Len(fetch.periods) + 1
  BY <1>2, Types DEF TypeInv, Asked, QueryOf
<1>6. Len(fetch.periods) + 1 # InProgress => \A i \in Range(all) : ClosedOrReopened(i)
  BY <1>4, <1>5 DEF Counted, ClosedOrReopened
<1>7. Len(fetch.periods) + 1 = InProgress =>
        \A m \in DOMAIN fetch.periods : Range(all) \cap Range(fetch.periods[m]) \subseteq seen.reopened
  <2> SUFFICES ASSUME Len(fetch.periods) + 1 = InProgress, NEW m \in DOMAIN fetch.periods,
                      NEW i, i \in Range(all), i \in Range(fetch.periods[m])
               PROVE  i \in seen.reopened
    OBVIOUS
  <2>1. ClosedOrReopened(i)
    BY <1>5 DEF Counted, InProgress
  <2> QED BY <1>4, <1>5, <2>1 DEF Counted, ClosedOrReopened
<1>8. CASE CompleteEffect(all)
  <2>1. /\ Len(fetch'.periods) = Len(fetch.periods) + 1
        /\ DOMAIN fetch'.periods = 1..(Len(fetch.periods) + 1)
        /\ \A m \in DOMAIN fetch.periods : fetch'.periods[m] = fetch.periods[m]
        /\ fetch'.periods[Len(fetch.periods) + 1] = all
        /\ Range(fetch'.allIssues) = {}
    BY <1>8, AppendedPeriod
  <2>2. ASSUME NEW m \in DOMAIN fetch'.periods, NEW i \in Range(fetch'.periods[m]),
               m # InProgress
        PROVE  ClosedOrReopened(i)
    <3>1. CASE m \in DOMAIN fetch.periods
      BY <2>1, <2>2, <3>1 DEF Counted
    <3>2. CASE m = Len(fetch.periods) + 1
      BY <1>6, <2>1, <2>2, <3>2
    <3> QED BY <1>5, <2>1, <3>1, <3>2
  <2>3. ASSUME Len(fetch'.periods) = InProgress, NEW m \in 1..Periods, m # InProgress
        PROVE  Range(fetch'.periods[m]) \cap Range(fetch'.periods[InProgress])
                 \subseteq seen.reopened
    <3>1. Len(fetch.periods) + 1 = InProgress /\ m \in DOMAIN fetch.periods
      BY <1>5, <2>1, <2>3 DEF InProgress
    <3> QED BY <1>7, <2>1, <3>1
  <2>4. \A i : ClosedOrReopened(i)' <=> ClosedOrReopened(i)
    BY <1>2, <1>3 DEF ClosedOrReopened, InProgress
  <2> QED BY <1>3, <2>1, <2>2, <2>3, <2>4 DEF Counted, InProgress
<1>9. CASE NextPageEffect(page, all)
  <2>1. fetch'.periods = fetch.periods /\ fetch'.allIssues = all
    BY <1>9 DEF NextPageEffect
  <2>2. \A i : ClosedOrReopened(i)' <=> ClosedOrReopened(i)
    BY <1>2, <1>3 DEF ClosedOrReopened, InProgress
  <2> QED BY <1>3, <1>6, <1>7, <2>1, <2>2 DEF Counted, InProgress
<1> QED BY <1>1, <1>8, <1>9

LEMMA CountedStays == ASSUME TypeInv, Offset, Counted, [Next]_vars PROVE Counted'
<1>1. CASE ReceivePage
  BY <1>1, ReceiveCounted
<1>2. CASE Turn
  BY <1>2, CountedUnchanged DEF Turn, SameRead
<1>3. CASE Tick \/ UNCHANGED vars
  BY <1>3, CountedUnchanged DEF Tick, vars
<1>4. CASE JiraChanges
  <2>1. PICK i \in Issues, to \in 0..Periods : Move(i, to)
    BY <1>4 DEF JiraChanges
  <2>2. /\ UNCHANGED fetch /\ seen.reopened \subseteq seen'.reopened
        /\ \A j \in Issues : j # i => place'[j] = place[j]
        /\ place[i] \notin {0, InProgress} => i \in seen'.reopened
    BY <2>1, MoveEffect
  <2>3. ASSUME NEW j \in Issues, ClosedOrReopened(j) PROVE ClosedOrReopened(j)'
    BY <2>2, <2>3 DEF ClosedOrReopened, InProgress
  <2>4. /\ Range(fetch.allIssues) \subseteq Issues
        /\ \A m \in DOMAIN fetch.periods : Range(fetch.periods[m]) \subseteq Issues
    <3>1. ASSUME NEW m \in DOMAIN fetch.periods PROVE Range(fetch.periods[m]) \subseteq Issues
      <4>1. fetch.periods[m] \in Seq(Issues)
        BY Types
      <4> QED BY <4>1, RangeOfSeq
    <3>2. Range(fetch.allIssues) \subseteq Issues
      BY Types, RangeOfSeq
    <3> QED BY <3>1, <3>2
  <2> QED BY <2>2, <2>3, <2>4 DEF Counted, InProgress
<1> QED BY <1>1, <1>2, <1>3, <1>4, StepCases

\* However issues change between and within the queries of a fetch, one is
\* counted as closed and as in progress only if it was reopened or edited.
THEOREM CountedAtMostOnce == Spec => []CountedOnce
<1>1. TypeInv /\ Counted => CountedOnce
  <2> SUFFICES ASSUME TypeInv, Counted, fetch.pc = "done", NEW m \in 1..Periods,
                      NEW n \in 1..Periods, QueryOf(n) = InProgress, QueryOf(m) # InProgress
               PROVE  Range(fetch.periods[m]) \cap Range(fetch.periods[n]) \subseteq seen.reopened
    BY DEF CountedOnce
  <2>1. Len(fetch.periods) = InProgress /\ n = InProgress /\ m # InProgress
    BY Types DEF QueryOf, InProgress
  <2> QED BY <2>1 DEF Counted
<1>2. Init => Counted
  BY InitCounted
<1>3. TypeInv /\ Offset /\ Counted /\ [Next]_vars => Counted'
  BY CountedStays
<1> QED BY <1>1, <1>2, <1>3, TypesAlways, PTL DEF Spec

-----------------------------------------------------------------------------
(* What the pages add up to.                                               *)

\* Each issue that matched at first is among those read, or still comes.
NoneLost(first, all) ==
    \A i \in Range(first) :
        i \in Range(all) \/ \E m \in Hits : Order[m] = i /\ Position(Hits, m) > Len(all)

\* No issue was read twice, and none that was read comes again.
NoneTwice(first, all) ==
    /\ \A k, l \in DOMAIN all : k # l => all[k] # all[l]
    /\ Range(all) \subseteq Range(first)
    /\ \A m \in Hits : Order[m] \in Range(first)
    /\ \A m \in Hits : Order[m] \in Range(all) => Position(Hits, m) <= Len(all)

\* What was read is the beginning of the answer.
Exact(first, all) ==
    first = matching /\ Len(all) <= Len(first) /\ \A k \in 1..Len(all) : all[k] = first[k]

Adds(first, kinds, all) ==
    /\ "removed" \notin kinds => NoneLost(first, all)
    /\ "added" \notin kinds => NoneTwice(first, all)
    /\ kinds = {} => Exact(first, all)

Reading == fetch.startAt > 0 => Adds(seen.first, seen.kinds, fetch.allIssues)

\* Before the first page of a query.
LEMMA NothingRead == Adds(matching, {}, <<>>)
<1>1. DOMAIN <<>> = {} /\ Range(<<>>) = {} /\ Len(<<>>) = 0
  BY DEF Range
<1>2. Range(matching) = {Order[m] : m \in Hits}
  BY MatchingIsAnswer
<1>3. \A m \in Hits : Position(Hits, m) > 0
  BY HitsAreFinite, Positions
<1>4. NoneLost(matching, <<>>)
  BY <1>1, <1>2, <1>3 DEF NoneLost
<1>5. NoneTwice(matching, <<>>)
  BY <1>1, <1>2 DEF NoneTwice
<1>6. Exact(matching, <<>>)
  BY <1>1, Matching DEF Exact
<1> QED BY <1>4, <1>5, <1>6 DEF Adds

\* A page is read from the right place, whatever has changed meanwhile.
LEMMA PageAdds ==
    ASSUME TypeInv, Offset, NEW page \in Pages(matching), NEW first, NEW kinds,
           NEW all \in Seq(Issues), all = fetch.allIssues \o page,
           Adds(first, kinds, fetch.allIssues)
    PROVE  Adds(first, kinds, all)
<1> DEFINE read == fetch.allIssues
           at == fetch.startAt
<1>1. /\ read \in Seq(Issues) /\ page \in Seq(Issues) /\ at \in Nat /\ Len(page) \in Nat
      /\ Len(read) = at
      /\ \A n \in 1..Len(page) : page[n] = matching[at + n] /\ at + n \in 1..Len(matching)
  BY PageFacts, Types DEF Offset
<1> HIDE DEF read, at
<1>2. all = read \o page
  BY DEF read
<1>3. /\ Len(all) = at + Len(page) /\ DOMAIN all = 1..(at + Len(page))
      /\ \A k \in 1..at : all[k] = read[k]
  <2>1. Len(read \o page) = Len(read) + Len(page)
    BY <1>1, ConcatProperties
  <2>2. \A k \in 1..(at + Len(page)) :
          (read \o page)[k] = IF k <= at THEN read[k] ELSE page[k - at]
    BY <1>1, ConcatProperties
  <2>3. all \in Seq(Issues) /\ Len(all) = at + Len(page)
    BY <1>1, <1>2, <2>1
  <2> QED BY <1>1, <1>2, <2>2, <2>3
<1>4. ASSUME NEW k \in (at + 1)..(at + Len(page))
      PROVE  all[k] = matching[k] /\ k \in 1..Len(matching)
  <2>1. k - at \in 1..Len(page) /\ at + (k - at) = k
    BY <1>1
  <2>2. all[k] = page[k - at]
    BY <1>1, <1>2, <2>1
  <2> QED BY <1>1, <2>1, <2>2
<1>5. Range(all) = Range(read) \cup Range(page) /\ DOMAIN read = 1..at
  BY <1>1, <1>2, RangeConcatenation
<1>6. \A m \in Hits : /\ Position(Hits, m) \in 1..Len(matching)
                       /\ matching[Position(Hits, m)] = Order[m]
  BY Matching, HitsAreFinite, Positions
<1>7. ASSUME NEW i \in Range(all) PROVE \/ i \in Range(read)
                                        \/ \E m \in Hits : /\ Order[m] = i
                                                            /\ Position(Hits, m) \in (at + 1)..Len(all)
  <2>1. PICK k \in 1..(at + Len(page)) : i = all[k]
    BY <1>3 DEF Range
  <2>2. CASE k <= at
    <3>1. k \in 1..at
      BY <1>1, <2>1, <2>2
    <3>2. i = read[k] /\ k \in DOMAIN read
      BY <1>3, <1>5, <2>1, <3>1
    <3> QED BY <3>2 DEF Range
  <2>3. CASE k > at
    <3>1. k \in (at + 1)..(at + Len(page))
      BY <1>1, <2>3
    <3>2. all[k] = matching[k] /\ k \in 1..Len(matching)
      BY <1>4, <3>1
    <3>3. PICK m \in Hits : Position(Hits, m) = k /\ matching[k] = Order[m]
      BY <3>2, Matching
    <3> QED BY <1>3, <2>1, <3>1, <3>2, <3>3
  <2> QED BY <1>1, <2>2, <2>3
<1>8. NoneLost(first, read) => NoneLost(first, all)
  <2> SUFFICES ASSUME NEW i, i \in Range(read) \/
                        \E m \in Hits : Order[m] = i /\ Position(Hits, m) > at
               PROVE  i \in Range(all) \/
                        \E m \in Hits : Order[m] = i /\ Position(Hits, m) > Len(all)
    BY <1>1 DEF NoneLost
  <2>1. CASE i \in Range(read)
    BY <1>5, <2>1
  <2>2. ASSUME NEW m \in Hits, Order[m] = i, Position(Hits, m) > at,
               ~(Position(Hits, m) > Len(all))
        PROVE  i \in Range(all)
    <3> DEFINE k == Position(Hits, m)
    <3>1. k \in Nat /\ matching[k] = i
      BY <1>6, <2>2
    <3>4. k > at /\ ~(k > Len(all))
      BY <2>2
    <3> HIDE DEF k
    <3>2. k \in (at + 1)..(at + Len(page))
      BY <1>1, <1>3, <3>4, <3>1
    <3>3. all[k] = i /\ k \in DOMAIN all
      BY <1>1, <1>3, <1>4, <3>1, <3>2
    <3> QED BY <3>3 DEF Range
  <2> QED BY <2>1, <2>2
<1>9. NoneTwice(first, read) => NoneTwice(first, all)
  <2> SUFFICES ASSUME NoneTwice(first, read) PROVE NoneTwice(first, all)
    OBVIOUS
  <2>1. ASSUME NEW k \in DOMAIN all, NEW l \in DOMAIN all, k < l PROVE all[k] # all[l]
    <3>1. CASE l <= at
      BY <1>1, <1>3, <1>5, <2>1, <3>1 DEF NoneTwice
    <3>2. CASE l > at
      <4>1. l \in (at + 1)..(at + Len(page))
        BY <1>1, <1>3, <3>2
      <4>2. all[l] = matching[l] /\ l \in 1..Len(matching)
        BY <1>4, <4>1
      <4>3. PICK m \in Hits : Position(Hits, m) = l /\ matching[l] = Order[m]
        BY <4>2, Matching
      <4>4. CASE k <= at
        <5>1. all[k] \in Range(read)
          BY <1>1, <1>3, <1>5, <4>4 DEF Range
        <5>2. Order[m] \notin Range(read)
          BY <1>1, <3>2, <4>3 DEF NoneTwice
        <5> QED BY <4>2, <4>3, <5>1, <5>2
      <4>5. CASE k > at
        <5>1. k \in (at + 1)..(at + Len(page))
          BY <1>1, <1>3, <4>5
        <5>2. all[k] = matching[k] /\ k \in 1..Len(matching)
          BY <1>4, <5>1
        <5> QED BY <2>1, <4>2, <5>2, MatchingIsAnswer
      <4> QED BY <1>1, <1>3, <4>4, <4>5
    <3> QED BY <1>1, <1>3, <3>1, <3>2
  <2>2. \A k, l \in DOMAIN all : k # l => all[k] # all[l]
    <3> SUFFICES ASSUME NEW k \in DOMAIN all, NEW l \in DOMAIN all, k # l
                 PROVE  all[k] # all[l]
      OBVIOUS
    <3>1. k < l \/ l < k
      BY <1>1, <1>3
    <3> QED BY <2>1, <3>1
  <2>3. Range(all) \subseteq Range(first)
    BY <1>7 DEF NoneTwice
  <2>4. ASSUME NEW m \in Hits, Order[m] \in Range(all) PROVE Position(Hits, m) <= Len(all)
    <3>1. CASE Order[m] \in Range(read)
      BY <1>1, <1>3, <1>6, <3>1 DEF NoneTwice
    <3>2. ASSUME NEW l \in Hits, Order[l] = Order[m], Position(Hits, l) \in (at + 1)..Len(all)
          PROVE  Position(Hits, m) <= Len(all)
      <4>1. l = m
        BY <3>2, OrderIsSeq, HitsAreFinite
      <4> QED BY <1>1, <1>3, <3>2, <4>1
    <3> QED BY <1>7, <2>4, <3>1, <3>2
  <2> QED BY <2>2, <2>3, <2>4 DEF NoneTwice
<1>10. Exact(first, read) => Exact(first, all)
  <2> SUFFICES ASSUME Exact(first, read) PROVE Exact(first, all)
    OBVIOUS
  <2>1. first = matching /\ at <= Len(first) /\ Len(first) \in Nat
    BY <1>1, Matching DEF Exact
  <2>2. Len(all) <= Len(first)
    <3>1. CASE Len(page) = 0
      BY <1>1, <1>3, <2>1, <3>1
    <3>2. CASE Len(page) > 0
      <4>1. at + Len(page) \in (at + 1)..(at + Len(page))
        BY <1>1, <3>2
      <4> QED BY <1>3, <1>4, <2>1, <4>1
    <3> QED BY <1>1, <3>1, <3>2
  <2>3. ASSUME NEW k \in 1..Len(all) PROVE all[k] = first[k]
    <3>1. CASE k <= at
      BY <1>1, <1>3, <3>1 DEF Exact
    <3>2. CASE k > at
      <4>1. k \in (at + 1)..(at + Len(page))
        BY <1>1, <1>3, <3>2
      <4> QED BY <1>4, <2>1, <4>1
    <3> QED BY <1>1, <1>3, <3>1, <3>2
  <2> QED BY <2>1, <2>2, <2>3 DEF Exact
<1> QED BY <1>8, <1>9, <1>10 DEF Adds, read

\* What the step that reads a page adds to, and what the record of the query is.
LEMMA ReceiveAdds ==
    ASSUME TypeInv, Offset, Reading, ReceivePage
    PROVE  \E page \in Pages(matching), all \in Seq(Issues) :
             /\ Len(all) = fetch.startAt + Len(page)
             /\ CompleteEffect(all) \/ NextPageEffect(page, all)
             /\ Adds(seen'.first, seen'.kinds, all)
<1>1. PICK page \in Pages(matching), all \in Seq(Issues) :
        /\ all = fetch.allIssues \o page /\ Len(all) = fetch.startAt + Len(page)
        /\ CompleteEffect(all) \/ NextPageEffect(page, all)
  BY ReceiveEffect
<1>2. seen' = IF fetch.startAt = 0 THEN [seen EXCEPT !.first = matching, !.kinds = {}]
                                   ELSE seen
  BY ReceiveEffect
<1>3. Adds(seen'.first, seen'.kinds, fetch.allIssues)
  <2>1. CASE fetch.startAt = 0
    <3>1. seen'.first = matching /\ seen'.kinds = {}
      BY <1>2, <2>1 DEF TypeInv, TypeOK
    <3>2. fetch.allIssues = <<>>
      BY <2>1, Types, EmptySeq DEF Offset
    <3> QED BY <3>1, <3>2, NothingRead
  <2>2. CASE fetch.startAt # 0
    BY <1>2, <2>2, Types DEF Reading
  <2> QED BY <2>1, <2>2
<1>4. Adds(seen'.first, seen'.kinds, all)
  BY <1>1, <1>3, PageAdds
<1> QED BY <1>1, <1>4

\* A move can only bring forward what still matches when it adds no hit, and
\* only put it back when it removes none.
LEMMA MoveAdds ==
    ASSUME TypeInv, Offset, Reading, JiraChanges
    PROVE  Reading'
<1>1. PICK i \in Issues, to \in 0..Periods : Move(i, to)
  BY DEF JiraChanges
<1>2. /\ UNCHANGED fetch /\ seen'.first = seen.first /\ seen.kinds \subseteq seen'.kinds
      /\ place'[i] = to /\ \A j \in Issues : j # i => place'[j] = place[j]
      /\ place[i] = Asked => "removed" \in seen'.kinds
      /\ to = Asked => "added" \in seen'.kinds
  BY <1>1, MoveEffect
<1>3. Asked' = Asked
  BY <1>2 DEF Asked, QueryOf
<1>4. Hits' \in SUBSET Nat /\ IsFiniteSet(Hits') /\ Hits' \in SUBSET DOMAIN Order
  <2>1. Hits' \in SUBSET DOMAIN Order
    BY DEF Hits
  <2> QED BY <2>1, PlacesAreFinite
<1>5. "removed" \notin seen'.kinds => Hits \subseteq Hits'
  <2> SUFFICES ASSUME "removed" \notin seen'.kinds, NEW m \in Hits PROVE m \in Hits'
    OBVIOUS
  <2>1. m \in DOMAIN Order /\ place[Order[m]] = Asked /\ Order[m] \in Issues
    BY OrderIsSeq DEF Hits
  <2>2. place'[Order[m]] = Asked
    BY <1>2, <2>1
  <2> QED BY <1>3, <2>1, <2>2 DEF Hits
<1>6. "added" \notin seen'.kinds => Hits' \subseteq Hits
  <2> SUFFICES ASSUME "added" \notin seen'.kinds, NEW m \in Hits' PROVE m \in Hits
    OBVIOUS
  <2>1. m \in DOMAIN Order /\ place'[Order[m]] = Asked /\ Order[m] \in Issues
    BY <1>3, OrderIsSeq DEF Hits
  <2>2. place[Order[m]] = Asked
    BY <1>2, <2>1
  <2> QED BY <2>1, <2>2 DEF Hits
<1>7. \A hits \in SUBSET Nat : \A fewer \in SUBSET hits : \A m \in Nat :
        IsFiniteSet(hits) => Position(fewer, m) <= Position(hits, m)
  BY FewerHits
<1>8. \A m \in Hits : Position(Hits, m) \in Nat /\ m \in Nat
  BY HitsAreFinite, Positions
<1>9. \A m \in Hits' : Position(Hits', m) \in Nat /\ m \in Nat
  BY <1>4, Positions
<1> SUFFICES ASSUME fetch.startAt > 0 PROVE Adds(seen.first, seen.kinds, fetch.allIssues)'
  BY <1>2 DEF Reading
<1> DEFINE all == fetch.allIssues
           first == seen.first
<1>10. all' = all /\ first' = first /\ Len(all) \in Nat
  BY <1>2, Types
<1>11. Adds(first, seen.kinds, all)
  BY DEF Reading
<1> HIDE DEF all, first
<1>12. ASSUME "removed" \notin seen'.kinds PROVE NoneLost(first, all)'
  <2>1. NoneLost(first, all) /\ Hits \subseteq Hits'
    BY <1>2, <1>5, <1>11, <1>12 DEF Adds
  <2>2. \A m \in Hits : Position(Hits, m) <= Position(Hits', m)
    BY <1>4, <1>7, <1>8, <2>1
  <2>3. \A m \in Hits : Position(Hits, m) > Len(all) => Position(Hits', m) > Len(all)
    BY <1>8, <1>9, <1>10, <2>1, <2>2
  <2> QED BY <1>10, <2>1, <2>3 DEF NoneLost, Position
<1>13. ASSUME "added" \notin seen'.kinds PROVE NoneTwice(first, all)'
  <2>1. NoneTwice(first, all) /\ Hits' \subseteq Hits
    BY <1>2, <1>6, <1>11, <1>13 DEF Adds
  <2>2. \A m \in Hits' : Position(Hits', m) <= Position(Hits, m)
    BY <1>7, <1>9, <2>1, HitsAreFinite
  <2>3. \A m \in Hits' : Position(Hits, m) <= Len(all) => Position(Hits', m) <= Len(all)
    BY <1>8, <1>9, <1>10, <2>1, <2>2
  <2> QED BY <1>10, <2>1, <2>3 DEF NoneTwice, Position
<1>14. ASSUME seen'.kinds = {} PROVE Exact(first, all)'
  <2>1. Exact(first, all) /\ Hits' = Hits
    BY <1>2, <1>5, <1>6, <1>11, <1>14 DEF Adds
  <2>2. matching' = matching
    BY <2>1 DEF matching
  <2> QED BY <1>10, <2>1, <2>2 DEF Exact
<1> QED BY <1>2, <1>12, <1>13, <1>14 DEF Adds, all, first

\* The query and what it matches are the same as long as no period is completed
\* and no issue moves.
LEMMA SameHits ==
    ASSUME place' = place, fetch'.periods = fetch.periods
    PROVE  Hits' = Hits /\ matching' = matching
<1>1. Asked' = Asked
  BY DEF Asked, QueryOf
<1>2. Hits' = Hits
  BY <1>1 DEF Hits
<1> QED BY <1>2 DEF matching

LEMMA SameAdds ==
    ASSUME Reading, place' = place, fetch'.periods = fetch.periods,
           fetch'.startAt = fetch.startAt, fetch'.allIssues = fetch.allIssues, seen' = seen
    PROVE  Reading'
<1>1. Hits' = Hits /\ matching' = matching
  BY SameHits
<1> QED BY <1>1 DEF Reading, Adds, NoneLost, NoneTwice, Exact, Position

LEMMA ReadingStays == ASSUME TypeInv, Offset, Reading, [Next]_vars PROVE Reading'
<1>1. CASE ReceivePage
  <2>1. PICK page \in Pages(matching), all \in Seq(Issues) :
          /\ CompleteEffect(all) \/ NextPageEffect(page, all)
          /\ Adds(seen'.first, seen'.kinds, all)
    BY <1>1, ReceiveAdds
  <2>2. CASE CompleteEffect(all)
    BY <2>2 DEF CompleteEffect, Reading
  <2>3. CASE NextPageEffect(page, all)
    <3>1. place' = place /\ fetch'.periods = fetch.periods /\ fetch'.allIssues = all
      BY <1>1, <2>3, ReceiveEffect DEF NextPageEffect
    <3>2. Hits' = Hits /\ matching' = matching
      BY <3>1, SameHits
    <3> QED BY <2>1, <3>1, <3>2 DEF Reading, Adds, NoneLost, NoneTwice, Exact, Position
  <2> QED BY <2>1, <2>2, <2>3
<1>2. CASE Turn
  BY <1>2, SameAdds DEF Turn, SameRead
<1>3. CASE Tick \/ UNCHANGED vars
  BY <1>3, SameAdds DEF Tick, vars
<1>4. CASE JiraChanges
  BY <1>4, MoveAdds
<1> QED BY <1>1, <1>2, <1>3, <1>4, StepCases

\* A query is complete when as much has been read as now matches, so nothing
\* that matches is beyond what was read.
LEMMA CompletedPeriod ==
    ASSUME TypeInv, Offset, Reading, [Next]_vars, Len(fetch'.periods) > Len(fetch.periods)
    PROVE  \E all \in Seq(Issues) :
             /\ fetch'.periods = Append(fetch.periods, all)
             /\ Len(all) >= Len(matching)
             /\ Adds(seen'.first, seen'.kinds, all)
<1>1. Len(fetch.periods) \in Nat
  BY Types
<1>2. CASE ReceivePage
  <2>1. PICK page \in Pages(matching), all \in Seq(Issues) :
          /\ CompleteEffect(all) \/ NextPageEffect(page, all)
          /\ Adds(seen'.first, seen'.kinds, all)
    BY <1>2, ReceiveAdds
  <2>2. ~NextPageEffect(page, all)
    BY <1>1 DEF NextPageEffect
  <2> QED BY <2>1, <2>2 DEF CompleteEffect
<1>3. fetch'.periods # fetch.periods
  BY <1>1
<1>4. ~Turn
  BY <1>3 DEF Turn, SameRead
<1>5. ~Tick /\ ~JiraChanges /\ ~UNCHANGED vars
  BY <1>3 DEF Tick, JiraChanges, Move, vars
<1> QED BY <1>2, <1>4, <1>5, StepCases

\* Whatever sizes the pages have, however often one is asked for again, and
\* however issues start and stop matching while they are read: what the pages
\* of a query add up to is what PagesAddUp says.
THEOREM PagesAreRight == Spec => PagesAddUp
<1> DEFINE AddUp ==
      Len(fetch'.periods) > Len(fetch.periods) =>
          LET found == Last(fetch'.periods)
          IN  /\ "removed" \notin seen'.kinds => Range(seen'.first) \subseteq Range(found)
              /\ "added" \notin seen'.kinds =>
                   /\ \A m, n \in DOMAIN found : m # n => found[m] # found[n]
                   /\ Range(found) \subseteq Range(seen'.first)
              /\ seen'.kinds = {} => found = seen'.first
<1>1. TypeInv /\ Offset /\ Reading /\ [Next]_vars => AddUp
  <2> SUFFICES ASSUME TypeInv, Offset, Reading, [Next]_vars,
                      Len(fetch'.periods) > Len(fetch.periods)
               PROVE  LET found == Last(fetch'.periods)
                      IN  /\ "removed" \notin seen'.kinds =>
                               Range(seen'.first) \subseteq Range(found)
                          /\ "added" \notin seen'.kinds =>
                               /\ \A m, n \in DOMAIN found : m # n => found[m] # found[n]
                               /\ Range(found) \subseteq Range(seen'.first)
                          /\ seen'.kinds = {} => found = seen'.first
    OBVIOUS
  <2>1. PICK all \in Seq(Issues) :
          /\ fetch'.periods = Append(fetch.periods, all)
          /\ Len(all) >= Len(matching)
          /\ Adds(seen'.first, seen'.kinds, all)
    BY CompletedPeriod
  <2>2. Last(fetch'.periods) = all
    <3>1. fetch.periods \in Seq(Seq(Issues))
      BY Types
    <3> QED BY <2>1, <3>1 DEF Last
  <2>3. Len(matching) \in Nat /\ Len(all) \in Nat /\ matching \in Seq(Issues)
    BY Matching
  <2>4. \A m \in Hits : ~(Position(Hits, m) > Len(all))
    <3>1. \A m \in Hits : Position(Hits, m) \in 1..Len(matching)
      BY Matching, HitsAreFinite, Positions
    <3> QED BY <2>1, <2>3, <3>1
  <2>5. "removed" \notin seen'.kinds => Range(seen'.first) \subseteq Range(all)
    BY <2>1, <2>4 DEF Adds, NoneLost
  <2>6. "added" \notin seen'.kinds =>
          /\ \A m, n \in DOMAIN all : m # n => all[m] # all[n]
          /\ Range(all) \subseteq Range(seen'.first)
    BY <2>1 DEF Adds, NoneTwice
  <2>7. seen'.kinds = {} => all = seen'.first
    <3> SUFFICES ASSUME seen'.kinds = {} PROVE all = seen'.first
      OBVIOUS
    <3>1. /\ seen'.first = matching /\ Len(all) <= Len(matching)
          /\ \A k \in 1..Len(all) : all[k] = matching[k]
      BY <2>1 DEF Adds, Exact
    <3>2. Len(all) = Len(matching)
      BY <2>1, <2>3, <3>1
    <3> QED BY <2>3, <3>1, <3>2, SeqEqual
  <2> QED BY <2>2, <2>5, <2>6, <2>7
<1>2. Init => Reading
  BY DEF Init, Reading
<1>3. TypeInv /\ Offset /\ Reading /\ [Next]_vars => Reading'
  BY ReadingStays
<1>4. [][AddUp]_vars => PagesAddUp
  BY DEF PagesAddUp
<1> QED BY <1>1, <1>2, <1>3, <1>4, TypesAlways, PTL DEF Spec
=============================================================================
