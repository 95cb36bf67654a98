------------------------------ MODULE CliProofs ------------------------------
(***************************************************************************)
(* Theorems about the command line, for every shape of the hierarchy, every *)
(* resource map, command and sample of issues: an accepted resource map has *)
(* one meaning for every path, an exit code says what went wrong, a run     *)
(* counts the issues of the two sprints as it should, and what it prints    *)
(* is what the server answers.                                              *)
(***************************************************************************)
EXTENDS Cli, FiniteSetTheorems, TLAPS

-----------------------------------------------------------------------------
(* Resolution in a map that Validate accepts.                              *)

\* The entries that Resolve takes into account for a path.
Matches(rm, path) ==
    CASE Len(path) = 1 -> resolveBare(rm, path[1])
      [] Len(path) = 2 -> resolveTwoPart(rm, path[1], path[2])
      [] Len(path) = 3 -> resolveThreePart(rm, path[1], path[2], path[3])
      [] OTHER -> {}

\* An identifier belongs to one entry, and is no reserved word.
LEMMA UniqueIdentifier ==
    ASSUME NEW rm, Validate(rm), NEW d \in Entries, NEW e \in Entries
    PROVE  /\ rm.id[d] = rm.id[e] => d = e
           /\ rm.id[e] \notin reservedWords
BY DEF Validate, validateIdentifier

LEMMA EntriesAreLevels ==
    /\ OrgEntries \subseteq Entries /\ AllPillars \subseteq Entries /\ AllTeams \subseteq Entries
    /\ \A o \in OrgEntries : PillarEntries[o] \subseteq AllPillars
    /\ \A p \in AllPillars : TeamEntries[p] \subseteq AllTeams
    /\ \A x \in AllPillars : \E o \in OrgEntries : x \in PillarEntries[o]
    /\ \A x \in AllTeams : \E p \in AllPillars : x \in TeamEntries[p]
BY DEF Entries, AllPillars, AllTeams

\* A path matches the entries it is a path to, at each of its three lengths.
LEMMA MatchesOfOne ==
    ASSUME NEW rm, NEW a, NEW x \in Entries
    PROVE  x \in resolveBare(rm, a) <=> <<a>> \in PathsTo(rm, x)
BY DEF resolveBare, PathsTo

LEMMA MatchesOfTwo ==
    ASSUME NEW rm, NEW a, NEW b, NEW x \in Entries
    PROVE  x \in resolveTwoPart(rm, a, b) <=> <<a, b>> \in PathsTo(rm, x)
BY EntriesAreLevels DEF resolveTwoPart, PathsTo

LEMMA MatchesOfThree ==
    ASSUME NEW rm, NEW a, NEW b, NEW c, NEW x \in Entries
    PROVE  x \in resolveThreePart(rm, a, b, c) <=> <<a, b, c>> \in PathsTo(rm, x)
BY EntriesAreLevels DEF resolveThreePart, PathsTo

\* PathsTo has no other paths.
LEMMA PathLength ==
    ASSUME NEW rm, NEW x, NEW path \in PathsTo(rm, x)
    PROVE  Len(path) \in 1..3 /\ path[Len(path)] = rm.id[x]
BY DEF PathsTo

LEMMA MatchesArePaths ==
    ASSUME NEW rm, NEW path \in Seq(STRING)
    PROVE  /\ Matches(rm, path) \subseteq Entries
           /\ \A x \in Entries : x \in Matches(rm, path) <=> path \in PathsTo(rm, x)
<1>1. CASE Len(path) = 1
  <2>1. path = <<path[1]>>
    BY <1>1
  <2>2. Matches(rm, path) = resolveBare(rm, path[1])
    BY <1>1 DEF Matches
  <2> QED BY <2>1, <2>2, MatchesOfOne DEF resolveBare
<1>2. CASE Len(path) = 2
  <2>1. path = <<path[1], path[2]>>
    BY <1>2
  <2>2. Matches(rm, path) = resolveTwoPart(rm, path[1], path[2])
    BY <1>2 DEF Matches
  <2>3. resolveTwoPart(rm, path[1], path[2]) \subseteq Entries
    BY EntriesAreLevels DEF resolveTwoPart
  <2> QED BY <2>1, <2>2, <2>3, MatchesOfTwo
<1>3. CASE Len(path) = 3
  <2>1. path = <<path[1], path[2], path[3]>>
    BY <1>3
  <2>2. Matches(rm, path) = resolveThreePart(rm, path[1], path[2], path[3])
    BY <1>3 DEF Matches
  <2>3. resolveThreePart(rm, path[1], path[2], path[3]) \subseteq Entries
    BY EntriesAreLevels DEF resolveThreePart
  <2> QED BY <2>1, <2>2, <2>3, MatchesOfThree
<1>4. CASE Len(path) \notin 1..3
  <2>1. Matches(rm, path) = {}
    BY <1>4 DEF Matches
  <2> QED BY <1>4, <2>1, PathLength
<1> QED BY <1>1, <1>2, <1>3, <1>4

\* One match is what Resolve answers with, and no match is not found.
LEMMA OneMatch ==
    ASSUME NEW e PROVE selectMatch({e}) = Resolved(e) /\ firstMatch({e}) = Resolved(e)
<1>1. (CHOOSE x \in {e} : TRUE) = e
  OBVIOUS
<1> QED BY <1>1 DEF selectMatch, firstMatch

LEMMA NoMatch == selectMatch({}) = NotFound /\ firstMatch({}) = NotFound
BY DEF selectMatch, firstMatch

LEMMA ErrorFields ==
    ASSUME NEW r
    PROVE  /\ \A e : r = Resolved(e) => r.error = "" /\ r.entity = e
           /\ r \in {NotFound, TooLong} => r.error # ""
<1>1. ASSUME NEW e, r = Resolved(e) PROVE r.error = ""
  BY <1>1 DEF Resolved
<1>2. ASSUME NEW e, r = Resolved(e) PROVE r.entity = e
  BY <1>2 DEF Resolved
<1>3. ASSUME r = NotFound PROVE r.error # ""
  BY <1>3 DEF NotFound
<1>4. ASSUME r = TooLong PROVE r.error # ""
  BY <1>4 DEF TooLong
<1> QED BY <1>1, <1>2, <1>3, <1>4

LEMMA MatchesDecide ==
    ASSUME NEW matches
    PROVE  /\ \A e : matches = {e} => /\ selectMatch(matches) = Resolved(e)
                                     /\ firstMatch(matches) = Resolved(e)
           /\ matches = {} => selectMatch(matches) = NotFound /\ firstMatch(matches) = NotFound
<1>1. ASSUME NEW e, matches = {e}
      PROVE  selectMatch(matches) = Resolved(e) /\ firstMatch(matches) = Resolved(e)
  BY <1>1, OneMatch, Zenon
<1>2. ASSUME matches = {}
      PROVE  selectMatch(matches) = NotFound /\ firstMatch(matches) = NotFound
  BY <1>2, NoMatch, Zenon
<1> QED BY <1>1, <1>2

LEMMA ResolveByMatches ==
    ASSUME NEW rm, NEW path \in Seq(STRING)
    PROVE  /\ \A e : Matches(rm, path) = {e} => Resolve(rm, path) = Resolved(e)
           /\ Matches(rm, path) = {} => Resolve(rm, path) \in {NotFound, TooLong}
           /\ Matches(rm, path) = {} /\ Len(path) \in 1..3 => Resolve(rm, path) = NotFound
           /\ Len(path) \notin 1..3 => Resolve(rm, path) = TooLong
<1>1. Len(path) \in Nat
  OBVIOUS
<1>2. CASE Len(path) \in {1, 2}
  <2>1. Resolve(rm, path) = selectMatch(Matches(rm, path))
    BY <1>2 DEF Matches, Resolve
  <2> QED BY <1>2, <2>1, MatchesDecide
<1>3. CASE Len(path) = 3
  <2>1. Resolve(rm, path) = firstMatch(Matches(rm, path))
    BY <1>3 DEF Matches, Resolve
  <2> QED BY <1>3, <2>1, MatchesDecide
<1>4. CASE Len(path) \notin 1..3
  <2>1. Matches(rm, path) = {} /\ Resolve(rm, path) = TooLong
    BY <1>1, <1>4 DEF Matches, Resolve
  <2> QED BY <1>4, <2>1
<1> QED BY <1>1, <1>2, <1>3, <1>4

\* In an accepted map a path that leads to an entity finds it, and another
\* path finds none: Validate and Resolve fit together.
LEMMA ValidMapResolves ==
    ASSUME NEW rm, Validate(rm), NEW path \in Seq(STRING)
    PROVE  /\ \A e \in Entries : path \in PathsTo(rm, e) => Resolve(rm, path) = Resolved(e)
           /\ (\A e \in Entries : path \notin PathsTo(rm, e)) =>
                /\ Resolve(rm, path) \in {NotFound, TooLong}
                /\ Len(path) \in 1..3 => Resolve(rm, path) = NotFound
           /\ Len(path) \notin 1..3 => Resolve(rm, path) = TooLong
<1>1. ASSUME NEW e \in Entries, path \in PathsTo(rm, e)
      PROVE  Resolve(rm, path) = Resolved(e)
  <2>1. e \in Matches(rm, path)
    BY <1>1, MatchesArePaths
  <2>2. \A x \in Matches(rm, path) : x = e
    <3> SUFFICES ASSUME NEW x \in Matches(rm, path) PROVE x = e
      OBVIOUS
    <3>1. x \in Entries /\ path \in PathsTo(rm, x)
      BY MatchesArePaths
    <3>2. rm.id[x] = rm.id[e]
      BY <1>1, <3>1, PathLength
    <3> QED BY <3>1, <3>2, UniqueIdentifier
  <2>3. Matches(rm, path) = {e}
    BY <2>1, <2>2
  <2> QED BY <2>3, ResolveByMatches
<1>2. (\A e \in Entries : path \notin PathsTo(rm, e)) => Matches(rm, path) = {}
  BY MatchesArePaths
<1> QED BY <1>1, <1>2, ResolveByMatches

\* A subcommand's name is the name of no entity.
LEMMA NoSubcommand ==
    ASSUME NEW rm, Validate(rm), NEW c, NEW e \in Entries, c.path \in PathsTo(rm, e)
    PROVE  ~IsSubcommand(c)
<1>1. c.path[Len(c.path)] = rm.id[e] /\ rm.id[e] \notin reservedWords
  BY PathLength, UniqueIdentifier
<1> QED BY <1>1 DEF IsSubcommand, Subcommands, reservedWords

-----------------------------------------------------------------------------
(* The invariant.                                                          *)

\* A process has the fields of a process.
Frame(p) ==
    p = [pc |-> p.pc, entity |-> p.entity, todo |-> p.todo, fetched |-> p.fetched,
         count |-> p.count, code |-> p.code, output |-> p.output]

PCs == {"dispatch", "elsewhere", "loading", "resolving", "checking", "starting",
        "fetching", "applied", "printing", "exited"}

\* The places after the file is accepted, and after the argument is resolved.
AfterLoad == {"resolving", "checking", "starting", "fetching", "applied", "printing"}

AfterResolve == AfterLoad \ {"resolving"}

Named == \E e \in Entries : cmd.path \in PathsTo(file, e)

ExitInv(pc, code, status) ==
    /\ code = 2 <=> pc = "exited" /\ Loaded /\ ~RefreshesAll /\ ~Named /\ Len(cmd.path) <= 3
    /\ pc = "exited" /\ code = 0 =>
         Loaded /\ status = "completed" /\ (RefreshesAll \/ Named)

StoreInv(pc, status) ==
    /\ status = "running" => pc \in {"fetching", "applied"}
    /\ pc = "printing" => status = "completed"

\* The store's state has the fields of a state.
StateFrame(s) ==
    s = [status |-> s.status, startedAt |-> s.startedAt, finished |-> s.finished,
         error |-> s.error, issueCount |-> s.issueCount]

\* The fields of the process and of the store are kept apart so that each step
\* of the proof has to look only at those that the step changes.
Inv ==
    /\ cmd \in Commands
    /\ Frame(proc) /\ StateFrame(state)
    /\ proc.pc \in PCs /\ proc.code \in {0, 1, 2}
    /\ proc.pc # "exited" => proc.code = 0
    /\ proc.entity \subseteq Entries /\ proc.todo \subseteq AllTeams
    /\ proc.pc \in AfterLoad => Loaded
    /\ proc.pc = "resolving" => ~RefreshesAll
    /\ proc.pc \in AfterResolve => RefreshesAll \/ Named
    /\ Present(proc.fetched) # {} => Loaded
    /\ Present(teams) # {} => proc.pc \in {"applied", "printing", "exited"}
    /\ proc.output # {} <=> proc.pc = "exited" /\ proc.code = 0
    /\ ExitInv(proc.pc, proc.code, state.status)
    /\ StoreInv(proc.pc, state.status)

LEMMA GotoFields ==
    ASSUME Frame(proc), NEW pc, Goto(pc)
    PROVE  /\ proc' = [pc |-> pc, entity |-> proc.entity, todo |-> proc.todo,
                       fetched |-> proc.fetched, count |-> proc.count,
                       code |-> proc.code, output |-> proc.output]
           /\ Frame(proc)'
BY DEF Frame, Goto

LEMMA ExitFields ==
    ASSUME Frame(proc), NEW code, Exit(code)
    PROVE  /\ proc' = [pc |-> "exited", entity |-> proc.entity, todo |-> proc.todo,
                       fetched |-> proc.fetched, count |-> proc.count,
                       code |-> code, output |-> proc.output]
           /\ Frame(proc)'
BY DEF Frame, Exit

\* The file, the command and so what the file says do not change.
LEMMA InputsStay ==
    ASSUME file' = file, cmd' = cmd
    PROVE  Loaded' = Loaded /\ Named' = Named /\ RefreshesAll' = RefreshesAll
BY DEF Loaded, Named, RefreshesAll

\* The store's methods, as far as the status and the stored teams go.
LEMMA StartFields ==
    ASSUME StateFrame(state), StartRefresh
    PROVE  StateFrame(state)' /\ state'.status = "running" /\ teams' = teams
BY DEF StartRefresh, StateFrame

LEMMA SwapFields ==
    ASSUME StateFrame(state), NEW data, NEW count, SwapData(data, count)
    PROVE  StateFrame(state)' /\ state'.status = state.status
BY DEF SwapData, StateFrame

LEMMA CompleteFields ==
    ASSUME StateFrame(state), NEW count, CompleteRefresh(count)
    PROVE  StateFrame(state)' /\ state'.status = "completed" /\ teams' = teams
BY DEF CompleteRefresh, StateFrame

LEMMA FailFields ==
    ASSUME StateFrame(state), FailRefresh
    PROVE  StateFrame(state)' /\ state'.status = "failed" /\ teams' = teams
BY DEF FailRefresh, StateFrame

LEMMA InitInv == Init => Inv
<1> SUFFICES ASSUME Init PROVE Inv
  OBVIOUS
<1>1. Frame(proc) /\ StateFrame(state)
  BY DEF Init, StoreInit, Frame, StateFrame
<1>2. /\ proc.pc = "dispatch" /\ proc.code = 0 /\ proc.entity = {} /\ proc.todo = {}
      /\ proc.fetched = NoTeams /\ proc.output = {} /\ teams = NoTeams
      /\ state.status = "idle" /\ cmd \in Commands
  BY DEF Init, StoreInit
<1>3. Present(NoTeams) = {}
  BY DEF Present, NoTeams
<1> QED BY <1>1, <1>2, <1>3 DEF Inv, PCs, AfterLoad, AfterResolve, ExitInv, StoreInv

LEMMA DispatchInv == Inv /\ Dispatch => Inv'
<1> SUFFICES ASSUME Inv, Dispatch PROVE Inv'
  OBVIOUS
<1> DEFINE next == IF IsSubcommand(cmd) /\ ~RefreshesAll THEN "elsewhere" ELSE "loading"
<1>1. next \in {"elsewhere", "loading"}
  OBVIOUS
<1>2. /\ Frame(proc)' /\ proc'.pc = next /\ proc'.entity = proc.entity /\ proc'.todo = proc.todo
      /\ proc'.fetched = proc.fetched /\ proc'.code = proc.code /\ proc'.output = proc.output
  BY GotoFields DEF Dispatch, Inv
<1>3. state' = state /\ teams' = teams /\ file' = file /\ cmd' = cmd
  BY DEF Dispatch, storeVars
<1> HIDE DEF next
<1> QED BY <1>1, <1>2, <1>3, InputsStay
        DEF Inv, Dispatch, PCs, AfterLoad, AfterResolve, ExitInv, StoreInv, StateFrame, Present

LEMMA LoadConfigInv == Inv /\ LoadConfig => Inv'
<1> SUFFICES ASSUME Inv, LoadConfig PROVE Inv'
  OBVIOUS
<1>1. /\ state' = state /\ teams' = teams /\ file' = file /\ cmd' = cmd
      /\ proc.pc = "loading" /\ proc.code = 0 /\ proc.output = {}
  BY DEF LoadConfig, storeVars, Inv
<1>2. CASE ~Loaded
  <2>1. Exit(1)
    BY <1>2 DEF LoadConfig, Loaded
  <2>2. /\ Frame(proc)' /\ proc'.pc = "exited" /\ proc'.entity = proc.entity
        /\ proc'.todo = proc.todo /\ proc'.fetched = proc.fetched
        /\ proc'.code = 1 /\ proc'.output = {}
    BY <1>1, <2>1, ExitFields DEF Inv
  <2> QED BY <1>1, <1>2, <2>2, InputsStay
          DEF Inv, PCs, AfterLoad, AfterResolve, ExitInv, StoreInv, StateFrame, Present
<1>3. CASE Loaded /\ RefreshesAll
  <2>1. proc' = [proc EXCEPT !.pc = "checking", !.todo = AllTeams]
    BY <1>3 DEF LoadConfig, Loaded
  <2>2. /\ Frame(proc)' /\ proc'.pc = "checking" /\ proc'.entity = proc.entity
        /\ proc'.todo = AllTeams /\ proc'.fetched = proc.fetched
        /\ proc'.code = 0 /\ proc'.output = {}
    BY <1>1, <2>1 DEF Inv, Frame
  <2> QED BY <1>1, <1>3, <2>2, InputsStay
          DEF Inv, PCs, AfterLoad, AfterResolve, ExitInv, StoreInv, StateFrame, Present
<1>4. CASE Loaded /\ ~RefreshesAll
  <2>1. Goto("resolving")
    BY <1>4 DEF LoadConfig, Loaded
  <2>2. /\ Frame(proc)' /\ proc'.pc = "resolving" /\ proc'.entity = proc.entity
        /\ proc'.todo = proc.todo /\ proc'.fetched = proc.fetched
        /\ proc'.code = 0 /\ proc'.output = {}
    BY <1>1, <2>1, GotoFields DEF Inv
  <2> QED BY <1>1, <1>4, <2>2, InputsStay
          DEF Inv, PCs, AfterLoad, AfterResolve, ExitInv, StoreInv, StateFrame, Present
<1> QED BY <1>2, <1>3, <1>4

\* Code 2 is left with exactly when the name or path leads nowhere.
LEMMA ResolveIdentifierInv == Inv /\ ResolveIdentifier => Inv'
<1> SUFFICES ASSUME Inv, ResolveIdentifier PROVE Inv'
  OBVIOUS
<1>1. /\ state' = state /\ teams' = teams /\ file' = file /\ cmd' = cmd
      /\ proc.pc = "resolving" /\ proc.code = 0 /\ proc.output = {}
      /\ Loaded /\ ~RefreshesAll
  BY DEF ResolveIdentifier, storeVars, Inv, AfterLoad
<1>2. cmd.path \in Seq(STRING) /\ Len(cmd.path) > 0 /\ Validate(file)
  BY <1>1, CommandsAssumption DEF Inv, Loaded
<1>3. CASE Named
  <2>1. PICK e \in Entries : cmd.path \in PathsTo(file, e)
    BY <1>3 DEF Named
  <2>2. Resolve(file, cmd.path) = Resolved(e)
    BY <1>2, <2>1, ValidMapResolves
  <2>3. EntityTeams(e) \subseteq AllTeams
    BY <2>1, EntriesAreLevels DEF EntityTeams, Entries
  <2>4. proc' = [proc EXCEPT !.pc = "checking", !.entity = {e}, !.todo = EntityTeams(e)]
    <3> DEFINE resolved == Resolve(file, cmd.path)
    <3>1. resolved.error = "" /\ resolved.entity = e
      BY <2>2, ErrorFields
    <3>2. IF resolved.error = ""
          THEN proc' = [proc EXCEPT !.pc = "checking", !.entity = {resolved.entity},
                                    !.todo = EntityTeams(resolved.entity)]
          ELSE Exit(IF resolved = NotFound THEN 2 ELSE 1)
      BY DEF ResolveIdentifier
    <3> HIDE DEF resolved
    <3> QED BY <3>1, <3>2
  <2>5. /\ Frame(proc)' /\ proc'.pc = "checking" /\ proc'.entity = {e}
        /\ proc'.todo = EntityTeams(e) /\ proc'.fetched = proc.fetched
        /\ proc'.code = 0 /\ proc'.output = {}
    BY <1>1, <2>4 DEF Inv, Frame
  <2> QED BY <1>1, <1>3, <2>1, <2>3, <2>5, InputsStay
          DEF Inv, PCs, AfterLoad, AfterResolve, ExitInv, StoreInv, StateFrame, Present
<1>4. CASE ~Named
  <2> DEFINE code == IF Resolve(file, cmd.path) = NotFound THEN 2 ELSE 1
  <2>1. Resolve(file, cmd.path) \in {NotFound, TooLong}
    BY <1>2, <1>4, ValidMapResolves DEF Named
  <2>2. Exit(code)
    <3> DEFINE resolved == Resolve(file, cmd.path)
    <3>1. resolved.error # ""
      BY <2>1, ErrorFields
    <3>2. IF resolved.error = ""
          THEN proc' = [proc EXCEPT !.pc = "checking", !.entity = {resolved.entity},
                                    !.todo = EntityTeams(resolved.entity)]
          ELSE Exit(IF resolved = NotFound THEN 2 ELSE 1)
      BY DEF ResolveIdentifier
    <3> HIDE DEF resolved
    <3>3. Exit(IF resolved = NotFound THEN 2 ELSE 1)
      BY <3>1, <3>2
    <3> QED BY <3>3 DEF resolved
  <2>3. code \in {1, 2} /\ (code = 2 <=> Len(cmd.path) <= 3)
    <3>1. Len(cmd.path) \in 1..3 <=> Len(cmd.path) <= 3
      <4>1. Len(cmd.path) \in Nat
        BY <1>2
      <4>2. \A n \in Nat : n > 0 => (n \in 1..3 <=> n <= 3)
        OBVIOUS
      <4> QED BY <1>2, <4>1, <4>2
    <3>2. Len(cmd.path) \in 1..3 => Resolve(file, cmd.path) = NotFound
      BY <1>2, <1>4, ValidMapResolves DEF Named
    <3>3. Len(cmd.path) \notin 1..3 => Resolve(file, cmd.path) = TooLong
      BY <1>2, ValidMapResolves
    <3>4. NotFound # TooLong
      BY DEF NotFound, TooLong
    <3> QED BY <3>1, <3>2, <3>3, <3>4
  <2> HIDE DEF code
  <2>4. /\ Frame(proc)' /\ proc'.pc = "exited" /\ proc'.entity = proc.entity
        /\ proc'.todo = proc.todo /\ proc'.fetched = proc.fetched
        /\ proc'.code = code /\ proc'.output = {}
    BY <1>1, <2>2, ExitFields DEF Inv
  <2> QED BY <1>1, <1>4, <2>3, <2>4, InputsStay
          DEF Inv, PCs, AfterLoad, AfterResolve, ExitInv, StoreInv, StateFrame, Present
<1> QED BY <1>3, <1>4

LEMMA CheckFlagsInv == Inv /\ CheckFlags => Inv'
<1> SUFFICES ASSUME Inv, CheckFlags PROVE Inv'
  OBVIOUS
<1>1. /\ state' = state /\ teams' = teams /\ file' = file /\ cmd' = cmd
      /\ proc.pc = "checking" /\ proc.code = 0 /\ proc.output = {}
      /\ Loaded /\ (RefreshesAll \/ Named)
  BY DEF CheckFlags, storeVars, Inv, AfterLoad, AfterResolve
<1>2. \E pc \in {"starting", "exited"} : \E code \in {0, 1} :
        /\ Frame(proc)' /\ proc'.pc = pc /\ proc'.entity = proc.entity
        /\ proc'.todo = proc.todo /\ proc'.fetched = proc.fetched
        /\ proc'.code = code /\ proc'.output = {} /\ (code = 1 <=> pc = "exited")
  <2>1. CASE FlagsAreGood
    BY <1>1, <2>1, GotoFields DEF CheckFlags, Inv
  <2>2. CASE ~FlagsAreGood
    BY <1>1, <2>2, ExitFields DEF CheckFlags, Inv
  <2> QED BY <2>1, <2>2
<1> QED BY <1>1, <1>2, InputsStay
        DEF Inv, PCs, AfterLoad, AfterResolve, ExitInv, StoreInv, StateFrame, Present

\* StartRefresh always succeeds: the process has only this one refresh.
LEMMA StartFetchingInv == Inv /\ StartFetching => Inv'
<1> SUFFICES ASSUME Inv, StartFetching PROVE Inv'
  OBVIOUS
<1>1. /\ StateFrame(state)' /\ state'.status = "running" /\ teams' = teams
      /\ file' = file /\ cmd' = cmd
      /\ proc.pc = "starting" /\ proc.code = 0 /\ proc.output = {}
  BY StartFields DEF StartFetching, Inv
<1>2. /\ Frame(proc)' /\ proc'.pc = "fetching" /\ proc'.entity = proc.entity
      /\ proc'.todo = proc.todo /\ proc'.fetched = proc.fetched
      /\ proc'.code = 0 /\ proc'.output = {}
  BY <1>1, GotoFields DEF StartFetching, Inv
<1> QED BY <1>1, <1>2, InputsStay
        DEF Inv, PCs, AfterLoad, AfterResolve, ExitInv, StoreInv, Present

LEMMA FetchTeamInv == ASSUME Inv, NEW t \in proc.todo, FetchTeam(t) PROVE Inv'
<1>1. /\ state' = state /\ teams' = teams /\ file' = file /\ cmd' = cmd
      /\ proc.pc = "fetching" /\ proc.code = 0 /\ proc.output = {} /\ Loaded
  BY DEF FetchTeam, storeVars, Inv, AfterLoad
<1>2. PICK data : proc' = [proc EXCEPT !.todo = @ \ {t},
                             !.fetched[file.id[t]] = data,
                             !.count = @ \cup ({file.id[t]} \X data.periods)]
  BY DEF FetchTeam
<1>3. \E fetched, count :
        proc' = [proc EXCEPT !.todo = @ \ {t}, !.fetched = fetched, !.count = count]
  BY <1>2
<1>4. /\ Frame(proc)' /\ proc'.pc = "fetching" /\ proc'.entity = proc.entity
      /\ proc'.todo = proc.todo \ {t} /\ proc'.code = 0 /\ proc'.output = {}
  BY <1>1, <1>3 DEF Inv, Frame
<1> QED BY <1>1, <1>4, InputsStay
        DEF Inv, PCs, AfterLoad, AfterResolve, ExitInv, StoreInv, StateFrame, Present

LEMMA FailTeamFetchInv == Inv /\ FailTeamFetch => Inv'
<1> SUFFICES ASSUME Inv, FailTeamFetch PROVE Inv'
  OBVIOUS
<1>1. /\ StateFrame(state)' /\ state'.status = "failed" /\ teams' = teams
      /\ file' = file /\ cmd' = cmd
      /\ proc.pc = "fetching" /\ proc.code = 0 /\ proc.output = {} /\ Loaded
  BY FailFields DEF FailTeamFetch, Inv, AfterLoad
<1>2. /\ Frame(proc)' /\ proc'.pc = "exited" /\ proc'.entity = proc.entity
      /\ proc'.todo = proc.todo /\ proc'.fetched = proc.fetched
      /\ proc'.code = 1 /\ proc'.output = {}
  BY <1>1, ExitFields DEF FailTeamFetch, Inv
<1> QED BY <1>1, <1>2, InputsStay
        DEF Inv, PCs, AfterLoad, AfterResolve, ExitInv, StoreInv, Present

LEMMA ApplyDataInv == Inv /\ ApplyData => Inv'
<1> SUFFICES ASSUME Inv, ApplyData PROVE Inv'
  OBVIOUS
<1>1. /\ StateFrame(state)' /\ state'.status = state.status /\ file' = file /\ cmd' = cmd
      /\ proc.pc = "fetching" /\ proc.code = 0 /\ proc.output = {}
  BY SwapFields DEF ApplyData, Inv
<1>2. /\ Frame(proc)' /\ proc'.pc = "applied" /\ proc'.entity = proc.entity
      /\ proc'.todo = proc.todo /\ proc'.fetched = proc.fetched
      /\ proc'.code = 0 /\ proc'.output = {}
  BY <1>1, GotoFields DEF ApplyData, Inv
<1> QED BY <1>1, <1>2, InputsStay
        DEF Inv, PCs, AfterLoad, AfterResolve, ExitInv, StoreInv, Present

LEMMA FinishRefreshInv == Inv /\ FinishRefresh => Inv'
<1> SUFFICES ASSUME Inv, FinishRefresh PROVE Inv'
  OBVIOUS
<1>1. /\ StateFrame(state)' /\ state'.status = "completed" /\ teams' = teams
      /\ file' = file /\ cmd' = cmd
      /\ proc.pc = "applied" /\ proc.code = 0 /\ proc.output = {}
  BY CompleteFields DEF FinishRefresh, Inv
<1>2. /\ Frame(proc)' /\ proc'.pc = "printing" /\ proc'.entity = proc.entity
      /\ proc'.todo = proc.todo /\ proc'.fetched = proc.fetched
      /\ proc'.code = 0 /\ proc'.output = {}
  BY <1>1, GotoFields DEF FinishRefresh, Inv
<1> QED BY <1>1, <1>2, InputsStay
        DEF Inv, PCs, AfterLoad, AfterResolve, ExitInv, StoreInv, Present

\* What is printed is one thing, or nothing and then the code says so.
LEMMA PrintingInv == Inv /\ (RenderEntity \/ PrintCount) => Inv'
<1> SUFFICES ASSUME Inv, RenderEntity \/ PrintCount PROVE Inv'
  OBVIOUS
<1>1. /\ state' = state /\ teams' = teams /\ file' = file /\ cmd' = cmd
      /\ proc.pc = "printing" /\ proc.code = 0 /\ proc.output = {}
      /\ Loaded /\ (RefreshesAll \/ Named) /\ state.status = "completed"
  BY DEF RenderEntity, PrintCount, storeVars, Inv, AfterLoad, AfterResolve, StoreInv
<1>2. \/ Exit(1)
      \/ \E x : proc' = [proc EXCEPT !.pc = "exited", !.output = {x}]
  BY DEF RenderEntity, PrintCount
<1>3. /\ Frame(proc)' /\ proc'.pc = "exited" /\ proc'.entity = proc.entity
      /\ proc'.todo = proc.todo /\ proc'.fetched = proc.fetched
      /\ proc'.code \in {0, 1} /\ (proc'.output # {} <=> proc'.code = 0)
  <2>1. CASE Exit(1)
    BY <1>1, <2>1, ExitFields DEF Inv
  <2>2. CASE \E x : proc' = [proc EXCEPT !.pc = "exited", !.output = {x}]
    BY <1>1, <2>2 DEF Inv, Frame
  <2> QED BY <1>2, <2>1, <2>2
<1> QED BY <1>1, <1>3, InputsStay
        DEF Inv, PCs, AfterLoad, AfterResolve, ExitInv, StoreInv, StateFrame, Present

LEMMA StutterInv == Inv /\ UNCHANGED vars => Inv'
<1> SUFFICES ASSUME Inv, UNCHANGED vars PROVE Inv'
  OBVIOUS
<1>1. state' = state /\ teams' = teams /\ file' = file /\ cmd' = cmd /\ proc' = proc
  BY DEF vars, storeVars, cliVars
<1> QED BY <1>1, InputsStay DEF Inv, Frame, StateFrame, ExitInv, StoreInv, Present

LEMMA Invariance == Spec => []Inv
<1>1. Inv /\ [Next]_vars => Inv'
  BY DispatchInv, LoadConfigInv, ResolveIdentifierInv, CheckFlagsInv, StartFetchingInv,
     FetchTeamInv, FailTeamFetchInv, ApplyDataInv, FinishRefreshInv, PrintingInv, StutterInv
     DEF Next, Finished
<1> QED BY InitInv, <1>1, PTL DEF Spec

-----------------------------------------------------------------------------
(* The periods of a team.                                                  *)

\* An issue of the type is added.
AddType(type, period) == CategorizeAndAdd(period, type)

Counting == INSTANCE Sums WITH Elements <- Period, Base <- 0, Add <- AddType

LEMMA Finite ==
    ASSUME NEW S, IsFiniteSet(S) PROVE Counting!IsFiniteSet(S)
BY DEF IsFiniteSet, Counting!IsFiniteSet

LEMMA CountingFold ==
    \A b, f, S : Counting!SumFrom(b, f, S) =
                   FoldFunctionOnSet(LAMBDA type, period : CategorizeAndAdd(period, type), b, f, S)
BY DEF Counting!SumFrom, Counting!FoldFunctionOnSet, FoldFunctionOnSet,
       Counting!MapThenFoldSet, MapThenFoldSet, AddType

\* An issue that is added changes the counters of its period, and its total by one.
LEMMA AddedType ==
    ASSUME NEW p \in Period, NEW type
    PROVE  /\ AddType(type, p) \in Period
           /\ AddType(type, p).setType = p.setType
           /\ AddType(type, p).window = p.window
           /\ AddType(type, p).total = p.total + 1
<1> DEFINE known == mapActivityTypeToCategory(type) # ""
           counter == IF known THEN mapActivityTypeToCategory(type) ELSE "uncategorized"
           issues == [p.issues EXCEPT ![type] = @ + 1]
           total == p.total + 1
           categorized == IF known THEN p.categorized + 1 ELSE p.categorized
           distribution == [p.distribution EXCEPT ![counter] = @ + 1]
<1>1. AddType(type, p) =
        [p EXCEPT !.issues = issues, !.total = total,
                  !.categorized = categorized, !.distribution = distribution]
  BY DEF AddType, CategorizeAndAdd
<1>2. /\ p = [setType |-> p.setType, window |-> p.window, issues |-> p.issues,
              total |-> p.total, categorized |-> p.categorized, distribution |-> p.distribution]
      /\ p.setType \in SetTypes /\ p.window \in TimeWindow
      /\ p.issues \in [ActivityTypes -> Nat] /\ p.distribution \in [Counters -> Nat]
      /\ p.total \in Nat /\ p.categorized \in Nat
  BY DEF Period, ActivityDistribution
<1> HIDE DEF known, counter
<1>3. total \in Nat /\ categorized \in Nat
  BY <1>2
<1>4. ASSUME NEW D, NEW f \in [D -> Nat], NEW x
      PROVE  [f EXCEPT ![x] = @ + 1] \in [D -> Nat]
  <2>1. \A y \in D : [f EXCEPT ![x] = @ + 1][y] \in Nat
    OBVIOUS
  <2> QED BY <2>1
<1>5. issues \in [ActivityTypes -> Nat] /\ distribution \in [Counters -> Nat]
  BY <1>2, <1>4
<1> HIDE DEF issues, total, categorized, distribution
<1>6. AddType(type, p) =
        [setType |-> p.setType, window |-> p.window, issues |-> issues, total |-> total,
         categorized |-> categorized, distribution |-> distribution]
  BY <1>1, <1>2
<1>7. AddType(type, p) \in Period
  BY <1>2, <1>3, <1>5, <1>6 DEF Period, ActivityDistribution
<1> QED BY <1>6, <1>7 DEF total

\* A period has as many issues as its query found, whatever their types are.
LEMMA CountedTotal ==
    ASSUME NEW p, p.setType \in SetTypes, p.window \in TimeWindow,
           NEW found, IsFiniteSet(found), NEW fieldID0
    PROVE  /\ CountedPeriod(p, found, fieldID0) \in Period
           /\ CountedPeriod(p, found, fieldID0).setType = p.setType
           /\ CountedPeriod(p, found, fieldID0).window = p.window
           /\ CountedPeriod(p, found, fieldID0).total = Cardinality(found)
<1> DEFINE f == [i \in found |-> ExtractActivityType(i.fields, fieldID0)]
           empty == EmptyPeriod(p)
           After(T) == Counting!SumFrom(empty, f, T)
           Good(T) == /\ After(T) \in Period
                      /\ After(T).setType = p.setType /\ After(T).window = p.window
                      /\ After(T).total = Cardinality(T)
           Bad == {T \in SUBSET found : ~Good(T)}
<1>1. CountedPeriod(p, found, fieldID0) = After(found)
  BY CountingFold DEF CountedPeriod, FoldFunction
<1>2. /\ empty \in Period /\ empty.setType = p.setType /\ empty.window = p.window
      /\ empty.total = 0
  BY DEF EmptyPeriod, Period, NoIssues, ActivityDistribution
<1> HIDE DEF f, empty
<1>3. ASSUME NEW T \in SUBSET found
      PROVE  /\ IsFiniteSet(T)
             /\ T = {} => After(T) = empty
             /\ T # {} => \E x \in T : After(T) = AddType(f[x], After(T \ {x}))
  <2>1. IsFiniteSet(T) /\ Counting!IsFiniteSet(T)
    BY FS_Subset, Finite
  <2> QED BY <2>1, Counting!SumFromStep
<1> SUFFICES ASSUME Bad # {} PROVE FALSE
  BY <1>1
<1>4. PICK T \in Bad : \A U \in Bad : U \subseteq T => U = T
  <2>1. Bad \in SUBSET SUBSET found
    OBVIOUS
  <2> HIDE DEF Bad
  <2> QED BY <2>1, Counting!Smallest, Finite
<1>5. T \in SUBSET found /\ ~Good(T)
  OBVIOUS
<1>6. T # {}
  <2>1. T = {} => Good(T)
    BY <1>2, <1>3, FS_EmptySet
  <2> QED BY <1>5, <2>1
<1>7. PICK x \in T : After(T) = AddType(f[x], After(T \ {x}))
  BY <1>3, <1>5, <1>6
<1>8. Good(T \ {x})
  <2>1. T \ {x} \in SUBSET found /\ T \ {x} \subseteq T /\ T \ {x} # T
    BY <1>5
  <2>2. T \ {x} \notin Bad
    <3> HIDE DEF Bad
    <3> QED BY <1>4, <2>1
  <2> HIDE DEF Good
  <2> QED BY <2>1, <2>2
<1>9. Cardinality(T) = Cardinality(T \ {x}) + 1
  <2>1. IsFiniteSet(T)
    BY <1>3, <1>5
  <2>2. Cardinality(T \ {x}) = Cardinality(T) - 1 /\ Cardinality(T) \in Nat
    BY <2>1, FS_RemoveElement, FS_CardinalityType
  <2> QED BY <2>2
<1> DEFINE before == After(T \ {x})
<1>10. before \in Period /\ before.total = Cardinality(T \ {x})
       /\ before.setType = p.setType /\ before.window = p.window
  BY <1>8
<1> HIDE DEF before
<1>11. Good(T)
  BY <1>7, <1>9, <1>10, AddedType DEF before
<1> QED BY <1>5, <1>11

\* What a run fetches for a team.
TeamFetched(t) ==
    FetchTeamData(file, file.ownership[t], fieldID, Cadences, SetTypes, Today, jira)

\* The sprints of a team's boards.
SprintIDs(o) == IF o.method = "sprint_board" THEN discoverSprintIDs(o.boards) ELSE {}

\* The issues a team's query for a period finds.
FoundFor(t, p) ==
    IF p.setType = "closed"
    THEN BuildClosedJQL(file.ownership[t], file.scoredIssueTypes, p.window,
                        SprintIDs(file.ownership[t]), jira)
    ELSE BuildInProgressJQL(file.ownership[t], file.scoredIssueTypes,
                            file.inProgressStatuses, SprintIDs(file.ownership[t]), jira)

LEMMA FetchedIs ==
    ASSUME NEW t
    PROVE  TeamFetched(t) =
             [periods |-> {CountedPeriod(p, FoundFor(t, p), fieldID) :
                             p \in FetchedPeriods(Cadences, SetTypes, Today, 0)}]
BY DEF TeamFetched, FetchTeamData, FoundFor, SprintIDs

\* The flags of a run that fetches are good, and its issues those of a sample.
Given == jira \in JiraSamples /\ cmd.since \in Int \cup {NoDate}

LEMMA CadenceTypes ==
    ASSUME Given
    PROVE  \A c \in Cadences : c.window \in TimeWindow
<1>1. CASE cmd.since # NoDate
  BY <1>1, TodayAssumption DEF Given, Cadences, TimeWindow
<1>2. CASE cmd.since = NoDate
  <2>1. \A a \in Int, b \in Nat \ {0} : (a \div b) * b \in Int
    OBVIOUS
  <2>2. SprintStart(Today) \in Int /\ SprintDays \in Int
    BY <2>1, TodayAssumption, SprintAssumption DEF SprintStart
  <2>3. \A c \in Cadences : c.window \in {PreviousSprint(Today), CurrentSprint(Today)}
    BY <1>2 DEF Cadences, CalculateCadences
  <2>4. PreviousSprint(Today) \in TimeWindow /\ CurrentSprint(Today) \in TimeWindow
    BY <2>2 DEF PreviousSprint, CurrentSprint, TimeWindow
  <2> QED BY <2>3, <2>4
<1> QED BY <1>1, <1>2

LEMMA PeriodTypes ==
    ASSUME Given, NEW p \in FetchedPeriods(Cadences, SetTypes, Today, 0)
    PROVE  p.setType \in SetTypes /\ p.window \in TimeWindow
<1>1. CASE \E c \in Cadences : p = ClosedPeriod(c, 0)
  <2>1. PICK c \in Cadences : p = ClosedPeriod(c, 0)
    BY <1>1
  <2>2. p.setType = "closed" /\ p.window = c.window
    BY <2>1 DEF ClosedPeriod
  <2> QED BY <2>2, CadenceTypes DEF SetTypes
<1>2. CASE p = InProgressPeriod(Today, 0)
  <2>1. p.setType = "in_progress" /\ p.window = [since |-> Today, until |-> Today]
    BY <1>2 DEF InProgressPeriod
  <2> QED BY <2>1, TodayAssumption DEF SetTypes, TimeWindow
<1> QED BY <1>1, <1>2 DEF FetchedPeriods

LEMMA FoundFinite ==
    ASSUME Given, NEW t, NEW p PROVE FoundFor(t, p) \subseteq jira /\ IsFiniteSet(FoundFor(t, p))
<1>1. FoundFor(t, p) \subseteq jira
  BY DEF FoundFor, BuildClosedJQL, BuildInProgressJQL
<1> QED BY <1>1, SamplesAssumption, FS_Subset DEF Given

\* What is fetched is data, and so is not taken for a team without.
LEMMA FetchedType ==
    ASSUME Given, NEW t
    PROVE  /\ TeamFetched(t).periods \subseteq Period
           /\ TeamFetched(t) # Absent
<1>1. \A p \in FetchedPeriods(Cadences, SetTypes, Today, 0) :
        CountedPeriod(p, FoundFor(t, p), fieldID) \in Period
  BY PeriodTypes, FoundFinite, CountedTotal
<1> DEFINE ps == {CountedPeriod(p, FoundFor(t, p), fieldID) :
                    p \in FetchedPeriods(Cadences, SetTypes, Today, 0)}
<1>2. ps \subseteq Period
  BY <1>1
<1>3. TeamFetched(t) = [periods |-> ps]
  BY FetchedIs
<1> HIDE DEF ps
<1>4. TeamFetched(t).periods = ps /\ TeamFetched(t) \in [periods: SUBSET Period]
  BY <1>2, <1>3
<1> QED BY <1>2, <1>4, IdentifiersAssumption

-----------------------------------------------------------------------------
(* The issues of the two sprints.                                          *)

Numbers == INSTANCE Sums WITH Elements <- Nat, Base <- 0, Add <- +

LEMMA SumOfTwo ==
    ASSUME NEW a, NEW b, a # b, NEW f, DOMAIN f = {a, b}, f[a] \in Nat, f[b] \in Nat
    PROVE  SumFunction(f) = f[a] + f[b]
<1>1. Numbers!Monoid
  BY DEF Numbers!Monoid
<1>2. SumFunction(f) = Numbers!Sum(f, {a, b})
  BY DEF SumFunction, SumFunctionOnSet, FoldFunctionOnSet, MapThenFoldSet, Numbers!Sum,
         Numbers!SumFrom, Numbers!FoldFunctionOnSet, Numbers!MapThenFoldSet
<1>3. Numbers!IsFiniteSet({a, b})
  <2>1. IsFiniteSet({a, b})
    <3>1. IsFiniteSet({a}) /\ IsFiniteSet({b}) /\ {a, b} = {a} \cup {b}
      BY FS_Singleton
    <3> QED BY <3>1, FS_Union
  <2> QED BY <2>1 DEF IsFiniteSet, Numbers!IsFiniteSet
<1>4. Numbers!Sum(f, {a, b}) = f[a] + Numbers!Sum(f, {a, b} \ {a})
  BY <1>1, <1>3, Numbers!SumFirst
<1>5. Numbers!Sum(f, {b}) = f[b]
  BY <1>1, Numbers!SumOfOne
<1>6. {a, b} \ {a} = {b}
  OBVIOUS
<1> QED BY <1>2, <1>4, <1>5, <1>6

\* The clause of an ownership that is accepted says whose an issue is.
LEMMA ClauseIsOwnership ==
    ASSUME NEW o, validateOwnership(o), NEW i, NEW rest \in BOOLEAN
    PROVE  buildOwnershipClause(o, SprintIDs(o), i, rest) <=> IsTheirs(o, i) /\ rest
<1>1. CASE o.method = "component"
  BY <1>1 DEF buildOwnershipClause, IsTheirs
<1>2. CASE o.method = "team_field"
  BY <1>2 DEF buildOwnershipClause, IsTheirs
<1>3. CASE o.method = "jql"
  <2>1. i.project \in {o.jql[n] : n \in DOMAIN o.jql}
          <=> \E n \in DOMAIN o.jql : i.project = o.jql[n]
    OBVIOUS
  <2> QED BY <1>3, <2>1 DEF buildOwnershipClause, IsTheirs
<1>4. CASE o.method = "sprint_board"
  <2>1. i.sprints \cap SprintIDs(o) # {} <=> \E b \in o.boards : i.sprints \cap BoardSprints[b] # {}
    BY <1>4 DEF SprintIDs, discoverSprintIDs
  <2> QED BY <1>4, <2>1 DEF buildOwnershipClause, IsTheirs
<1> QED BY <1>1, <1>2, <1>3, <1>4 DEF validateOwnership

\* An issue that a team's closed query counts, but for the dates.
CountsFor(t, i) ==
    /\ i \in jira /\ IsTheirs(file.ownership[t], i)
    /\ i.type \in file.scoredIssueTypes /\ i.status \in DoneStatuses

LEMMA ClosedFound ==
    ASSUME NEW t \in AllTeams, Validate(file), NEW p, p.setType = "closed"
    PROVE  \A i : i \in FoundFor(t, p) <=>
             CountsFor(t, i) /\ 2 * p.window.since <= i.resolved /\ i.resolved <= 2 * p.window.until
<1> TAKE i
<1> DEFINE o == file.ownership[t]
           dates == 2 * p.window.since <= i.resolved /\ i.resolved <= 2 * p.window.until
           rest == /\ i.type \in file.scoredIssueTypes
                   /\ i.status \in DoneStatuses
                   /\ dates
<1>1. validateOwnership(o)
  BY DEF Validate
<1>2. i \in FoundFor(t, p) <=> i \in jira /\ buildOwnershipClause(o, SprintIDs(o), i, rest)
  BY DEF FoundFor, BuildClosedJQL
<1>3. rest \in BOOLEAN
  OBVIOUS
<1> HIDE DEF rest
<1>4. buildOwnershipClause(o, SprintIDs(o), i, rest) <=> IsTheirs(o, i) /\ rest
  BY <1>1, <1>3, ClauseIsOwnership
<1> QED BY <1>2, <1>4 DEF rest, CountsFor

\* Every issue of the two sprints is found, and both find those alone that were
\* resolved at the midnight between them.
LEMMA SprintsSplit ==
    ASSUME Given, NEW t \in AllTeams, Validate(file), NEW p, NEW q,
           p.setType = "closed", q.setType = "closed",
           p.window = PreviousSprint(Today), q.window = CurrentSprint(Today),
           NEW i
    PROVE  /\ i \in FoundFor(t, p) \cup FoundFor(t, q) <=>
                /\ CountsFor(t, i)
                /\ 2 * PreviousSprint(Today).since <= i.resolved
                /\ i.resolved <= 2 * CurrentSprint(Today).until
           /\ i \in FoundFor(t, p) \cap FoundFor(t, q) <=>
                CountsFor(t, i) /\ i.resolved = 2 * CurrentSprint(Today).since
<1>1. CountsFor(t, i) => i.resolved \in Int
  BY SamplesAssumption DEF Given, CountsFor
<1> DEFINE s == SprintStart(Today)
<1>2. s \in Int /\ SprintDays \in Int /\ SprintDays > 0
  <2>1. \A a \in Int, b \in Nat \ {0} : (a \div b) * b \in Int
    OBVIOUS
  <2> QED BY <2>1, TodayAssumption, SprintAssumption DEF SprintStart
<1> HIDE DEF s
<1>3. /\ PreviousSprint(Today) = [since |-> s - SprintDays, until |-> s]
      /\ CurrentSprint(Today) = [since |-> s, until |-> s + SprintDays]
  BY DEF PreviousSprint, CurrentSprint, s
<1>4. /\ PreviousSprint(Today).since = s - SprintDays /\ PreviousSprint(Today).until = s
      /\ CurrentSprint(Today).since = s /\ CurrentSprint(Today).until = s + SprintDays
  BY <1>3
<1>5. /\ i \in FoundFor(t, p) <=>
           CountsFor(t, i) /\ 2 * (s - SprintDays) <= i.resolved /\ i.resolved <= 2 * s
      /\ i \in FoundFor(t, q) <=>
           CountsFor(t, i) /\ 2 * s <= i.resolved /\ i.resolved <= 2 * (s + SprintDays)
  BY <1>4, ClosedFound
<1> DEFINE r == i.resolved
<1> HIDE DEF r
<1>6. ASSUME CountsFor(t, i), r \in Int
      PROVE  /\ (\/ 2 * (s - SprintDays) <= r /\ r <= 2 * s
                 \/ 2 * s <= r /\ r <= 2 * (s + SprintDays))
                  <=> 2 * (s - SprintDays) <= r /\ r <= 2 * (s + SprintDays)
             /\ (2 * (s - SprintDays) <= r /\ r <= 2 * s) /\ (2 * s <= r /\ r <= 2 * (s + SprintDays))
                  <=> r = 2 * s
  BY <1>2, <1>6
<1> QED BY <1>1, <1>4, <1>5, <1>6 DEF r

LEMMA ClosedTotal ==
    ASSUME Given, cmd.since = NoDate, NEW t \in AllTeams, Validate(file)
    PROVE  LET expected == {i \in jira : /\ IsTheirs(file.ownership[t], i)
                                        /\ i.type \in file.scoredIssueTypes
                                        /\ i.status \in DoneStatuses
                                        /\ 2 * PreviousSprint(Today).since <= i.resolved
                                        /\ i.resolved <= 2 * CurrentSprint(Today).until}
               twice == {i \in expected : i.resolved = 2 * CurrentSprint(Today).since}
           IN  TotalOf({x \in TeamFetched(t).periods : x.setType = "closed"})
                 = Cardinality(expected) + Cardinality(twice)
<1> DEFINE cp == [window |-> PreviousSprint(Today), current |-> FALSE]
           cq == [window |-> CurrentSprint(Today), current |-> TRUE]
           p == ClosedPeriod(cp, 0)
           q == ClosedPeriod(cq, 0)
           r == InProgressPeriod(Today, 0)
           Counted(x) == CountedPeriod(x, FoundFor(t, x), fieldID)
           expected == {i \in jira : /\ IsTheirs(file.ownership[t], i)
                                     /\ i.type \in file.scoredIssueTypes
                                     /\ i.status \in DoneStatuses
                                     /\ 2 * PreviousSprint(Today).since <= i.resolved
                                     /\ i.resolved <= 2 * CurrentSprint(Today).until}
           twice == {i \in expected : i.resolved = 2 * CurrentSprint(Today).since}
<1>1. /\ p.setType = "closed" /\ p.window = PreviousSprint(Today)
      /\ q.setType = "closed" /\ q.window = CurrentSprint(Today)
      /\ r.setType = "in_progress"
  BY DEF ClosedPeriod, InProgressPeriod
<1>2. Cadences = {cp, cq}
  BY DEF Cadences, CalculateCadences
<1>3. FetchedPeriods(Cadences, SetTypes, Today, 0) = {p, q, r}
  BY <1>2 DEF FetchedPeriods, SetTypes
<1> HIDE DEF p, q, r
<1>4. ASSUME NEW x \in {p, q, r}
      PROVE  /\ Counted(x).setType = x.setType /\ Counted(x).window = x.window
             /\ Counted(x).total = Cardinality(FoundFor(t, x))
             /\ Counted(x).total \in Nat
  <2>1. x.setType \in SetTypes /\ x.window \in TimeWindow /\ IsFiniteSet(FoundFor(t, x))
    BY <1>3, PeriodTypes, FoundFinite
  <2> QED BY <2>1, CountedTotal, FS_CardinalityType
<1>5. TeamFetched(t).periods = {Counted(p), Counted(q), Counted(r)}
  <2>1. TeamFetched(t).periods = {Counted(x) : x \in {p, q, r}}
    BY <1>3, FetchedIs
  <2> HIDE DEF Counted
  <2> QED BY <2>1
<1> DEFINE a == Counted(p)
           b == Counted(q)
           c == Counted(r)
<1>6. /\ a.setType = "closed" /\ a.window = PreviousSprint(Today)
      /\ b.setType = "closed" /\ b.window = CurrentSprint(Today)
      /\ c.setType = "in_progress"
      /\ a.total = Cardinality(FoundFor(t, p)) /\ b.total = Cardinality(FoundFor(t, q))
      /\ a.total \in Nat /\ b.total \in Nat
  BY <1>1, <1>4
<1> HIDE DEF a, b, c
<1>7. {x \in TeamFetched(t).periods : x.setType = "closed"} = {a, b}
  BY <1>5, <1>6 DEF a, b, c
<1>8. a # b
  <2>1. PreviousSprint(Today).since # CurrentSprint(Today).since
    <3>1. \A m \in Int, n \in Nat \ {0} : (m \div n) * n \in Int
      OBVIOUS
    <3>2. SprintStart(Today) \in Int
      BY <3>1, TodayAssumption, SprintAssumption DEF SprintStart
    <3> QED BY <3>2, SprintAssumption DEF PreviousSprint, CurrentSprint
  <2> QED BY <1>6, <2>1
<1>9. TotalOf({a, b}) = Cardinality(FoundFor(t, p)) + Cardinality(FoundFor(t, q))
  <2> DEFINE f == [x \in {a, b} |-> x.total]
  <2>1. DOMAIN f = {a, b} /\ f[a] = a.total /\ f[b] = b.total
    OBVIOUS
  <2>2. TotalOf({a, b}) = SumFunction(f)
    BY DEF TotalOf
  <2> HIDE DEF f
  <2>3. f[a] \in Nat /\ f[b] \in Nat
    BY <1>6, <2>1
  <2>4. SumFunction(f) = f[a] + f[b]
    BY <1>8, <2>1, <2>3, SumOfTwo, Zenon
  <2> QED BY <1>6, <2>1, <2>2, <2>4
<1>10. expected = FoundFor(t, p) \cup FoundFor(t, q)
  <2>1. \A i : i \in FoundFor(t, p) \cup FoundFor(t, q) <=>
                /\ CountsFor(t, i)
                /\ 2 * PreviousSprint(Today).since <= i.resolved
                /\ i.resolved <= 2 * CurrentSprint(Today).until
    BY <1>1, SprintsSplit
  <2> QED BY <2>1 DEF CountsFor
<1>11. twice = FoundFor(t, p) \cap FoundFor(t, q)
  <2>1. \A i : i \in FoundFor(t, p) \cap FoundFor(t, q) <=>
                CountsFor(t, i) /\ i.resolved = 2 * CurrentSprint(Today).since
    BY <1>1, SprintsSplit
  <2>2. \A i \in expected : CountsFor(t, i)
    BY DEF CountsFor
  <2>3. FoundFor(t, p) \cap FoundFor(t, q) \subseteq expected
    BY <1>10
  <2> HIDE DEF expected
  <2> QED BY <2>1, <2>2, <2>3
<1>12. Cardinality(FoundFor(t, p)) + Cardinality(FoundFor(t, q))
         = Cardinality(expected) + Cardinality(twice)
  <2>1. IsFiniteSet(FoundFor(t, p)) /\ IsFiniteSet(FoundFor(t, q))
    BY FoundFinite
  <2>2. Cardinality(FoundFor(t, p) \cup FoundFor(t, q)) =
          Cardinality(FoundFor(t, p)) + Cardinality(FoundFor(t, q))
            - Cardinality(FoundFor(t, p) \cap FoundFor(t, q))
    BY <2>1, FS_Union
  <2>3. /\ Cardinality(FoundFor(t, p)) \in Nat /\ Cardinality(FoundFor(t, q)) \in Nat
        /\ Cardinality(FoundFor(t, p) \cap FoundFor(t, q)) \in Nat
    <3>1. IsFiniteSet(FoundFor(t, p) \cap FoundFor(t, q))
      BY <2>1, FS_Intersection
    <3> QED BY <2>1, <3>1, FS_CardinalityType
  <2> HIDE DEF expected, twice
  <2> QED BY <1>10, <1>11, <2>2, <2>3
<1> QED BY <1>7, <1>9, <1>12

-----------------------------------------------------------------------------
(* The rows of a scorecard.  Each entry has one, and it depends on the     *)
(* data of its own teams alone.                                            *)

TeamRow(data, t) ==
    ComputeTeamScore(file.id[t], FilterPeriods(TeamPeriods(data, file.id[t]), cmd.filter))

PillarRow(data, p) == ComputePillarScore(file.id[p], {TeamRow(data, t) : t \in TeamEntries[p]})

OrgRow(data, o) == ComputeOrgScore(file.id[o], {PillarRow(data, p) : p \in PillarEntries[o]})

RowOf(data, e) ==
    IF e \in OrgEntries THEN OrgRow(data, e)
    ELSE IF e \in AllPillars THEN PillarRow(data, e) ELSE TeamRow(data, e)

LEMMA RowParts ==
    ASSUME NEW data, NEW e
    PROVE  /\ OrgRow(data, e).identifier = file.id[e]
           /\ OrgRow(data, e).pillars = {PillarRow(data, p) : p \in PillarEntries[e]}
           /\ PillarRow(data, e).identifier = file.id[e]
           /\ PillarRow(data, e).teams = {TeamRow(data, t) : t \in TeamEntries[e]}
           /\ TeamRow(data, e).identifier = file.id[e]
           /\ RowOf(data, e).identifier = file.id[e]
<1>1. TeamRow(data, e).identifier = file.id[e]
  BY DEF TeamRow, ComputeTeamScore
<1>2. \A ts : /\ ComputePillarScore(file.id[e], ts).identifier = file.id[e]
              /\ ComputePillarScore(file.id[e], ts).teams = ts
  BY DEF ComputePillarScore
<1>3. \A ps : /\ ComputeOrgScore(file.id[e], ps).identifier = file.id[e]
              /\ ComputeOrgScore(file.id[e], ps).pillars = ps
  BY DEF ComputeOrgScore
<1> QED BY <1>1, <1>2, <1>3 DEF PillarRow, OrgRow, RowOf

\* In an accepted file the configuration of the scores is the file's tree.
LEMMA ConfigIsTree ==
    ASSUME Validate(file)
    PROVE  /\ TheConfig.orgs = {file.id[o] : o \in OrgEntries}
           /\ \A o \in OrgEntries :
                TheConfig.pillarsOf[file.id[o]] = {file.id[p] : p \in PillarEntries[o]}
           /\ \A p \in AllPillars :
                TheConfig.teamsOf[file.id[p]] = {file.id[t] : t \in TeamEntries[p]}
<1> DEFINE pillarsOf == [x \in {file.id[o] : o \in OrgEntries} |->
              {file.id[p] : p \in UNION {PillarEntries[o] : o \in {u \in OrgEntries : file.id[u] = x}}}]
           teamsOf == [x \in {file.id[p] : p \in AllPillars} |->
              {file.id[t] : t \in UNION {TeamEntries[p] : p \in {u \in AllPillars : file.id[u] = x}}}]
<1>1. /\ TheConfig.orgs = {file.id[o] : o \in OrgEntries}
      /\ TheConfig.pillarsOf = pillarsOf /\ TheConfig.teamsOf = teamsOf
  BY DEF TheConfig
<1>2. ASSUME NEW o \in OrgEntries
      PROVE  pillarsOf[file.id[o]] = {file.id[p] : p \in PillarEntries[o]}
  <2>1. {u \in OrgEntries : file.id[u] = file.id[o]} = {o}
    BY UniqueIdentifier, EntriesAreLevels
  <2>2. UNION {PillarEntries[u] : u \in {o}} = PillarEntries[o]
    OBVIOUS
  <2>3. pillarsOf[file.id[o]] =
          {file.id[p] : p \in UNION {PillarEntries[u] : u \in {v \in OrgEntries : file.id[v] = file.id[o]}}}
    OBVIOUS
  <2> HIDE DEF pillarsOf
  <2> QED BY <2>1, <2>2, <2>3
<1>3. ASSUME NEW p \in AllPillars
      PROVE  teamsOf[file.id[p]] = {file.id[t] : t \in TeamEntries[p]}
  <2>1. {u \in AllPillars : file.id[u] = file.id[p]} = {p}
    BY UniqueIdentifier, EntriesAreLevels
  <2>2. UNION {TeamEntries[u] : u \in {p}} = TeamEntries[p]
    OBVIOUS
  <2>3. teamsOf[file.id[p]] =
          {file.id[t] : t \in UNION {TeamEntries[u] : u \in {v \in AllPillars : file.id[v] = file.id[p]}}}
    OBVIOUS
  <2> HIDE DEF teamsOf
  <2> QED BY <2>1, <2>2, <2>3
<1> HIDE DEF pillarsOf, teamsOf
<1> QED BY <1>1, <1>2, <1>3

LEMMA ScorecardRows ==
    ASSUME Validate(file), NEW data
    PROVE  ComputeFullScorecard(TheConfig, data, cmd.filter) = {OrgRow(data, o) : o \in OrgEntries}
<1> DEFINE Team(x) == ComputeTeamScore(x, FilterPeriods(TeamPeriods(data, x), cmd.filter))
           Pillar(x) == ComputePillarScore(x, {Team(y) : y \in TheConfig.teamsOf[x]})
           Org(x) == ComputeOrgScore(x, {Pillar(y) : y \in TheConfig.pillarsOf[x]})
<1>1. ComputeFullScorecard(TheConfig, data, cmd.filter) = {Org(x) : x \in TheConfig.orgs}
  BY DEF ComputeFullScorecard
<1>2. \A t : Team(file.id[t]) = TeamRow(data, t)
  BY DEF TeamRow
<1> HIDE DEF Team
<1>3. ASSUME NEW p \in AllPillars PROVE Pillar(file.id[p]) = PillarRow(data, p)
  <2>1. {Team(y) : y \in TheConfig.teamsOf[file.id[p]]} = {TeamRow(data, t) : t \in TeamEntries[p]}
    <3>1. TheConfig.teamsOf[file.id[p]] = {file.id[t] : t \in TeamEntries[p]}
      BY ConfigIsTree
    <3> QED BY <1>2, <3>1
  <2> QED BY <2>1 DEF PillarRow
<1> HIDE DEF Pillar
<1>4. ASSUME NEW o \in OrgEntries PROVE Org(file.id[o]) = OrgRow(data, o)
  <2>1. {Pillar(y) : y \in TheConfig.pillarsOf[file.id[o]]}
          = {PillarRow(data, p) : p \in PillarEntries[o]}
    <3>1. TheConfig.pillarsOf[file.id[o]] = {file.id[p] : p \in PillarEntries[o]}
      BY ConfigIsTree
    <3>2. PillarEntries[o] \subseteq AllPillars
      BY EntriesAreLevels
    <3> QED BY <1>3, <3>1, <3>2
  <2> QED BY <2>1 DEF OrgRow
<1> HIDE DEF Org
<1>5. TheConfig.orgs = {file.id[o] : o \in OrgEntries}
  BY ConfigIsTree
<1> QED BY <1>1, <1>4, <1>5

\* The entities an entry is below.
LEMMA Above ==
    ASSUME NEW e \in Entries
    PROVE  /\ OrgOf(e) \in OrgEntries
           /\ e \in OrgEntries => OrgOf(e) = e
           /\ e \in AllPillars => e \in PillarEntries[OrgOf(e)]
           /\ e \in AllTeams => /\ PillarOf(e) \in PillarEntries[OrgOf(e)]
                                /\ e \in TeamEntries[PillarOf(e)]
<1> DEFINE Below(o) ==
             e = o \/ e \in PillarEntries[o] \/ \E p \in PillarEntries[o] : e \in TeamEntries[p]
           o == OrgOf(e)
<1>1. \E u \in OrgEntries : Below(u)
  <2>1. CASE e \in OrgEntries
    BY <2>1
  <2>2. CASE e \in AllPillars
    BY <2>2, EntriesAreLevels
  <2>3. CASE e \in AllTeams
    BY <2>3, EntriesAreLevels
  <2> QED BY <2>1, <2>2, <2>3 DEF Entries
<1>2. o \in OrgEntries /\ Below(o)
  BY <1>1 DEF OrgOf
<1> HIDE DEF o
<1>3. /\ OrgEntries \cap AllPillars = {} /\ OrgEntries \cap AllTeams = {}
      /\ AllPillars \cap AllTeams = {}
      /\ PillarEntries[o] \subseteq AllPillars
      /\ \A p \in AllPillars : TeamEntries[p] \subseteq AllTeams
  BY <1>2, EntriesAssumption, EntriesAreLevels
<1>4. e \in OrgEntries => o = e
  BY <1>2, <1>3
<1>5. e \in AllPillars => e \in PillarEntries[o]
  BY <1>2, <1>3
<1>6. ASSUME e \in AllTeams PROVE PillarOf(e) \in PillarEntries[o] /\ e \in TeamEntries[PillarOf(e)]
  <2>1. PICK p \in PillarEntries[o] : e \in TeamEntries[p]
    BY <1>2, <1>3, <1>6
  <2>2. p \in AllPillars
    BY <1>3, <2>1
  <2> DEFINE u == PillarOf(e)
  <2>3. u \in AllPillars /\ (e = u \/ e \in TeamEntries[u])
    BY <2>1, <2>2 DEF PillarOf
  <2> HIDE DEF u
  <2>4. e \in TeamEntries[u]
    BY <1>3, <1>6, <2>3
  <2>5. u = p
    BY <2>1, <2>2, <2>3, <2>4, EntriesAssumption
  <2> QED BY <2>1, <2>5 DEF u
<1> QED BY <1>2, <1>4, <1>5, <1>6 DEF o

\* An entity's rows, as renderEntity looks for them, are its one row.
LEMMA EntityHasOneRow ==
    ASSUME Validate(file), NEW data, NEW e \in Entries
    PROVE  RowsOf({OrgRow(data, o) : o \in OrgEntries}, e) = {RowOf(data, e)}
<1> DEFINE orgs == {OrgRow(data, o) : o \in OrgEntries}
           above == OrgOf(e)
           org == {o \in orgs : o.identifier = file.id[above]}
           Pillars(id) == {p \in UNION {o.pillars : o \in org} : p.identifier = id}
           rows == {PillarRow(data, p) : p \in PillarEntries[above]}
<1>1. RowsOf(orgs, e) =
        CASE e \in OrgEntries -> org
          [] e \in AllPillars -> Pillars(file.id[e])
          [] OTHER -> {t \in UNION {p.teams : p \in Pillars(file.id[PillarOf(e)])} :
                          t.identifier = file.id[e]}
  BY DEF RowsOf
<1>2. /\ above \in OrgEntries /\ (e \in OrgEntries => above = e)
      /\ e \in AllPillars => e \in PillarEntries[above]
      /\ e \in AllTeams => /\ PillarOf(e) \in PillarEntries[above]
                           /\ e \in TeamEntries[PillarOf(e)]
  BY Above
<1>3. /\ OrgEntries \cap AllPillars = {} /\ OrgEntries \cap AllTeams = {}
      /\ AllPillars \cap AllTeams = {}
      /\ PillarEntries[above] \subseteq AllPillars
      /\ \A p \in AllPillars : TeamEntries[p] \subseteq AllTeams
      /\ OrgEntries \subseteq Entries /\ AllPillars \subseteq Entries /\ AllTeams \subseteq Entries
  BY <1>2, EntriesAssumption, EntriesAreLevels
<1> HIDE DEF above
<1>4. org = {OrgRow(data, above)}
  <2>1. \A o \in OrgEntries : OrgRow(data, o).identifier = file.id[o]
    BY RowParts
  <2>2. \A o \in OrgEntries : file.id[o] = file.id[above] => o = above
    BY <1>2, <1>3, UniqueIdentifier
  <2> QED BY <1>2, <2>1, <2>2
<1> HIDE DEF org
<1>5. UNION {o.pillars : o \in org} = rows
  <2>1. OrgRow(data, above).pillars = rows
    BY RowParts
  <2> HIDE DEF rows
  <2> QED BY <1>4, <2>1
<1>6. ASSUME NEW p \in PillarEntries[above] PROVE Pillars(file.id[p]) = {PillarRow(data, p)}
  <2>1. \A u \in PillarEntries[above] : PillarRow(data, u).identifier = file.id[u]
    BY RowParts
  <2>2. \A u \in PillarEntries[above] : file.id[u] = file.id[p] => u = p
    BY <1>3, UniqueIdentifier
  <2> QED BY <1>5, <2>1, <2>2
<1> HIDE DEF Pillars
<1>7. CASE e \in OrgEntries
  <2>1. e \notin AllPillars
    BY <1>3, <1>7
  <2> QED BY <1>1, <1>2, <1>4, <1>7, <2>1 DEF RowOf
<1>8. CASE e \in AllPillars
  <2>1. e \notin OrgEntries
    BY <1>3, <1>8
  <2> QED BY <1>1, <1>2, <1>6, <1>8, <2>1 DEF RowOf
<1>9. CASE e \in AllTeams
  <2> DEFINE p == PillarOf(e)
  <2>1. e \notin OrgEntries /\ e \notin AllPillars
    BY <1>3, <1>9
  <2>2. p \in PillarEntries[above] /\ e \in TeamEntries[p]
    BY <1>2, <1>9
  <2>3. RowsOf(orgs, e) = {t \in UNION {u.teams : u \in Pillars(file.id[p])} :
                              t.identifier = file.id[e]}
    BY <1>1, <2>1
  <2> HIDE DEF p
  <2>4. Pillars(file.id[p]) = {PillarRow(data, p)}
    BY <1>6, <2>2
  <2>5. UNION {u.teams : u \in {PillarRow(data, p)}} = {TeamRow(data, t) : t \in TeamEntries[p]}
    BY RowParts
  <2>6. \A t \in TeamEntries[p] : TeamRow(data, t).identifier = file.id[t]
    BY RowParts
  <2>7. \A t \in TeamEntries[p] : file.id[t] = file.id[e] => t = e
    BY <1>3, <2>2, UniqueIdentifier
  <2>8. {t \in {TeamRow(data, u) : u \in TeamEntries[p]} : t.identifier = file.id[e]}
          = {TeamRow(data, e)}
    BY <2>2, <2>6, <2>7
  <2> QED BY <2>1, <2>3, <2>4, <2>5, <2>8 DEF RowOf
<1> QED BY <1>7, <1>8, <1>9 DEF Entries

\* All rows of all levels.
LEMMA AllRows ==
    ASSUME Validate(file), NEW data
    PROVE  LET orgs == {OrgRow(data, o) : o \in OrgEntries}
               pillars == UNION {o.pillars : o \in orgs}
           IN  orgs \cup pillars \cup UNION {p.teams : p \in pillars}
                 = {RowOf(data, e) : e \in Entries}
<1> DEFINE orgs == {OrgRow(data, o) : o \in OrgEntries}
           pillars == UNION {o.pillars : o \in orgs}
           rows == {PillarRow(data, p) : p \in AllPillars}
           below == {TeamRow(data, t) : t \in AllTeams}
<1>1. pillars = rows
  <2>1. \A o \in OrgEntries :
          OrgRow(data, o).pillars = {PillarRow(data, p) : p \in PillarEntries[o]}
    BY RowParts
  <2> QED BY <2>1 DEF AllPillars
<1> HIDE DEF pillars
<1>2. UNION {p.teams : p \in rows} = below
  <2>1. \A p \in AllPillars : PillarRow(data, p).teams = {TeamRow(data, t) : t \in TeamEntries[p]}
    BY RowParts
  <2> QED BY <2>1 DEF AllTeams
<1> HIDE DEF rows, below
<1>3. orgs \cup rows \cup below = {RowOf(data, e) : e \in Entries}
  <2>1. /\ \A e \in OrgEntries : RowOf(data, e) = OrgRow(data, e)
        /\ \A e \in AllPillars : RowOf(data, e) = PillarRow(data, e)
        /\ \A e \in AllTeams : RowOf(data, e) = TeamRow(data, e)
    BY EntriesAssumption DEF RowOf
  <2> QED BY <2>1 DEF Entries, rows, below
<1> QED BY <1>1, <1>2, <1>3 DEF pillars

\* Data that has the same periods for an entity's teams gives it the same row.
LEMMA RowSame ==
    ASSUME NEW e \in Entries, NEW d, NEW f,
           \A t \in EntityTeams(e) : TeamPeriods(d, file.id[t]) = TeamPeriods(f, file.id[t])
    PROVE  RowOf(d, e) = RowOf(f, e)
<1>1. \A t \in EntityTeams(e) : TeamRow(d, t) = TeamRow(f, t)
  BY DEF TeamRow
<1>2. CASE e \in OrgEntries
  <2>1. EntityTeams(e) = UNION {TeamEntries[p] : p \in PillarEntries[e]}
    BY <1>2, EntriesAssumption DEF EntityTeams
  <2>2. ASSUME NEW p \in PillarEntries[e] PROVE PillarRow(d, p) = PillarRow(f, p)
    <3>1. {TeamRow(d, t) : t \in TeamEntries[p]} = {TeamRow(f, t) : t \in TeamEntries[p]}
      BY <1>1, <2>1
    <3> QED BY <3>1 DEF PillarRow
  <2>3. {PillarRow(d, p) : p \in PillarEntries[e]} = {PillarRow(f, p) : p \in PillarEntries[e]}
    BY <2>2
  <2> QED BY <1>2, <2>3 DEF RowOf, OrgRow
<1>3. CASE e \in AllPillars
  <2>1. e \notin OrgEntries
    BY <1>3, EntriesAssumption
  <2>2. EntityTeams(e) = TeamEntries[e]
    BY <1>3, <2>1 DEF EntityTeams
  <2>3. {TeamRow(d, t) : t \in TeamEntries[e]} = {TeamRow(f, t) : t \in TeamEntries[e]}
    BY <1>1, <2>2
  <2> QED BY <1>3, <2>1, <2>3 DEF RowOf, PillarRow
<1>4. CASE e \in AllTeams
  <2>1. e \notin OrgEntries /\ e \notin AllPillars
    BY <1>4, EntriesAssumption
  <2>2. EntityTeams(e) = {e}
    BY <2>1 DEF EntityTeams
  <2> QED BY <1>1, <2>1, <2>2 DEF RowOf
<1> QED BY <1>2, <1>3, <1>4 DEF Entries

-----------------------------------------------------------------------------
(* What a run has fetched.                                                 *)

\* The entity and the teams that the argument asks for.
AskedFor(entity) ==
    IF RefreshesAll THEN entity = {}
    ELSE \E e \in Entries : entity = {e} /\ cmd.path \in PathsTo(file, e)

Plan(entity) == IF RefreshesAll THEN AllTeams ELSE UNION {EntityTeams(e) : e \in entity}

\* Exactly the teams that are done have data, each its own.
Holds(fetched, count, done) ==
    /\ fetched = [x \in Teams |-> fetched[x]]
    /\ \A t \in done : fetched[file.id[t]] = TeamFetched(t)
    /\ \A x \in Teams : fetched[x] # Absent => \E t \in done : file.id[t] = x
    /\ count = UNION {{file.id[t]} \X TeamFetched(t).periods : t \in done}

Early == {"dispatch", "loading", "resolving"}

Late == {"checking", "starting", "fetching", "applied", "printing"}

GoodSince == cmd.since \in Int \cup {NoDate}

DataInv ==
    /\ jira \in JiraSamples
    /\ proc.pc \in Early => proc.entity = {} /\ Holds(proc.fetched, proc.count, {})
    /\ proc.pc \in Late =>
         /\ AskedFor(proc.entity) /\ proc.todo \subseteq Plan(proc.entity)
         /\ Holds(proc.fetched, proc.count, Plan(proc.entity) \ proc.todo)
    /\ proc.pc \in Late \ {"checking"} => GoodSince
    /\ proc.pc \in {"applied", "printing"} => proc.todo = {} /\ teams = proc.fetched
    /\ proc.pc = "printing" => state.issueCount = proc.count
    /\ \A x \in Present(teams) :
         GoodSince /\ \E t \in AllTeams : file.id[t] = x /\ teams[x] = TeamFetched(t)
    /\ CommandAgreesWithServer

LEMMA DataStays ==
    ASSUME file' = file, cmd' = cmd, jira' = jira
    PROVE  /\ \A t : TeamFetched(t)' = TeamFetched(t)
           /\ \A entity : Plan(entity)' = Plan(entity) /\ (AskedFor(entity)' <=> AskedFor(entity))
           /\ \A fetched, count, done : Holds(fetched, count, done)' <=> Holds(fetched, count, done)
           /\ ServerData' = ServerData /\ ServerRows' = ServerRows
           /\ RefreshesAll' = RefreshesAll /\ GoodSince' = GoodSince
<1>1. RefreshesAll' = RefreshesAll /\ GoodSince' = GoodSince
  BY DEF RefreshesAll, GoodSince
<1>2. fieldID' = fieldID /\ Cadences' = Cadences
  BY DEF fieldID, Cadences
<1>3. \A t : TeamFetched(t)' = TeamFetched(t)
  BY <1>2 DEF TeamFetched
<1>4. \A entity : Plan(entity)' = Plan(entity) /\ (AskedFor(entity)' <=> AskedFor(entity))
  BY <1>1 DEF Plan, AskedFor
<1>5. \A fetched, count, done : Holds(fetched, count, done)' <=> Holds(fetched, count, done)
  BY <1>3 DEF Holds
<1>6. ServerData' = ServerData
  BY <1>2 DEF ServerData, ServerScope
<1>7. TheConfig' = TheConfig
  BY DEF TheConfig
<1>8. ServerRows' = ServerRows
  BY <1>6, <1>7 DEF ServerRows
<1> QED BY <1>1, <1>3, <1>4, <1>5, <1>6, <1>8

\* A step that leaves what is fetched and stored alone.
LEMMA MoveData ==
    ASSUME DataInv, file' = file, cmd' = cmd, jira' = jira, teams' = teams,
           proc'.entity = proc.entity, proc'.todo = proc.todo,
           proc'.fetched = proc.fetched, proc'.count = proc.count, proc'.output = {},
           proc'.pc \in Early => proc.pc \in Early,
           proc'.pc \in Late => proc.pc \in Late,
           proc'.pc \in Late \ {"checking"} => GoodSince,
           proc'.pc \in {"applied", "printing"} => proc.pc \in {"applied", "printing"},
           proc'.pc = "printing" => state'.issueCount = proc.count
    PROVE  DataInv'
<1>1. CommandAgreesWithServer'
  BY DEF CommandAgreesWithServer
<1>2. \A x \in Present(teams)' :
        GoodSince' /\ \E t \in AllTeams : file.id[t]' = x /\ teams[x]' = TeamFetched(t)'
  BY DataStays DEF DataInv, Present
<1>3. proc'.pc \in Early => /\ proc'.entity = {}
                            /\ Holds(proc.fetched, proc.count, {})'
  BY DataStays DEF DataInv
<1> QED BY <1>1, <1>2, DataStays DEF DataInv

LEMMA InitData == Init => DataInv
<1> SUFFICES ASSUME Init PROVE DataInv
  OBVIOUS
<1>1. /\ jira \in JiraSamples /\ proc.pc = "dispatch" /\ proc.entity = {}
      /\ proc.fetched = NoTeams /\ proc.count = {} /\ proc.output = {} /\ teams = NoTeams
  BY DEF Init, StoreInit
<1>2. Present(NoTeams) = {}
  BY DEF Present, NoTeams
<1>3. Holds(NoTeams, {}, {})
  BY DEF Holds, NoTeams
<1>4. CommandAgreesWithServer
  BY <1>1 DEF CommandAgreesWithServer
<1> QED BY <1>1, <1>2, <1>3, <1>4 DEF DataInv, Early, Late

LEMMA DispatchData == Inv /\ DataInv /\ Dispatch => DataInv'
<1> SUFFICES ASSUME Inv, DataInv, Dispatch PROVE DataInv'
  OBVIOUS
<1> DEFINE next == IF IsSubcommand(cmd) /\ ~RefreshesAll THEN "elsewhere" ELSE "loading"
<1>1. next \in {"elsewhere", "loading"}
  OBVIOUS
<1>2. /\ proc'.pc = next /\ proc'.entity = proc.entity /\ proc'.todo = proc.todo
      /\ proc'.fetched = proc.fetched /\ proc'.count = proc.count /\ proc'.output = {}
      /\ proc.pc = "dispatch"
  BY GotoFields DEF Dispatch, Inv
<1>3. teams' = teams /\ file' = file /\ cmd' = cmd /\ jira' = jira
  BY DEF Dispatch, storeVars
<1> HIDE DEF next
<1> QED BY <1>1, <1>2, <1>3, MoveData DEF Early, Late

\* A step that says what is to be fetched.
LEMMA BeginFetching ==
    ASSUME DataInv, file' = file, cmd' = cmd, jira' = jira, teams' = teams,
           Holds(proc.fetched, proc.count, {}), proc'.fetched = proc.fetched,
           proc'.count = proc.count, proc'.output = {}, proc'.pc = "checking",
           AskedFor(proc'.entity), proc'.todo = Plan(proc'.entity)
    PROVE  DataInv'
<1>1. CommandAgreesWithServer'
  BY DEF CommandAgreesWithServer
<1>2. \A x \in Present(teams)' :
        GoodSince' /\ \E t \in AllTeams : file.id[t]' = x /\ teams[x]' = TeamFetched(t)'
  BY DataStays DEF DataInv, Present
<1>3. Plan(proc'.entity) \ Plan(proc'.entity) = {}
  OBVIOUS
<1>4. Holds(proc'.fetched, proc'.count, Plan(proc'.entity) \ proc'.todo)
  BY <1>3
<1>5. /\ AskedFor(proc.entity)' /\ proc'.todo = Plan(proc.entity)'
      /\ Holds(proc.fetched, proc.count, Plan(proc.entity) \ proc.todo)'
  BY <1>4, DataStays
<1> QED BY <1>1, <1>2, <1>5 DEF DataInv, Early, Late

LEMMA LoadConfigData == Inv /\ DataInv /\ LoadConfig => DataInv'
<1> SUFFICES ASSUME Inv, DataInv, LoadConfig PROVE DataInv'
  OBVIOUS
<1>1. /\ teams' = teams /\ file' = file /\ cmd' = cmd /\ jira' = jira
      /\ proc.pc = "loading" /\ proc.output = {} /\ proc.entity = {}
      /\ Holds(proc.fetched, proc.count, {})
  BY DEF LoadConfig, storeVars, Inv, DataInv, Early
<1>2. CASE ~Loaded
  <2>1. Exit(1)
    BY <1>2 DEF LoadConfig, Loaded
  <2>2. /\ proc'.pc = "exited" /\ proc'.entity = proc.entity /\ proc'.todo = proc.todo
        /\ proc'.fetched = proc.fetched /\ proc'.count = proc.count /\ proc'.output = {}
    BY <1>1, <2>1, ExitFields DEF Inv
  <2> QED BY <1>1, <2>2, MoveData DEF Early, Late
<1>3. CASE Loaded /\ ~RefreshesAll
  <2>1. Goto("resolving")
    BY <1>3 DEF LoadConfig, Loaded
  <2>2. /\ proc'.pc = "resolving" /\ proc'.entity = proc.entity /\ proc'.todo = proc.todo
        /\ proc'.fetched = proc.fetched /\ proc'.count = proc.count /\ proc'.output = {}
    BY <1>1, <2>1, GotoFields DEF Inv
  <2> QED BY <1>1, <2>2, MoveData DEF Early, Late
<1>4. CASE Loaded /\ RefreshesAll
  <2>1. proc' = [proc EXCEPT !.pc = "checking", !.todo = AllTeams]
    BY <1>4 DEF LoadConfig, Loaded
  <2>2. /\ proc'.pc = "checking" /\ proc'.entity = {} /\ proc'.todo = AllTeams
        /\ proc'.fetched = proc.fetched /\ proc'.count = proc.count /\ proc'.output = {}
    BY <1>1, <2>1 DEF Inv, Frame
  <2>3. AskedFor({}) /\ Plan({}) = AllTeams /\ AllTeams \ AllTeams = {}
    BY <1>4 DEF AskedFor, Plan
  <2> QED BY <1>1, <2>2, <2>3, BeginFetching
<1> QED BY <1>2, <1>3, <1>4

LEMMA ResolveIdentifierData == Inv /\ DataInv /\ ResolveIdentifier => DataInv'
<1> SUFFICES ASSUME Inv, DataInv, ResolveIdentifier PROVE DataInv'
  OBVIOUS
<1>1. /\ teams' = teams /\ file' = file /\ cmd' = cmd /\ jira' = jira
      /\ proc.pc = "resolving" /\ proc.output = {} /\ Loaded /\ ~RefreshesAll
      /\ Holds(proc.fetched, proc.count, {})
  BY DEF ResolveIdentifier, storeVars, Inv, AfterLoad, DataInv, Early
<1>2. cmd.path \in Seq(STRING) /\ Validate(file)
  BY <1>1, CommandsAssumption DEF Inv, Loaded
<1> DEFINE resolved == Resolve(file, cmd.path)
<1>3. IF resolved.error = ""
      THEN proc' = [proc EXCEPT !.pc = "checking", !.entity = {resolved.entity},
                                !.todo = EntityTeams(resolved.entity)]
      ELSE Exit(IF resolved = NotFound THEN 2 ELSE 1)
  BY DEF ResolveIdentifier
<1>4. CASE Named
  <2>1. PICK e \in Entries : cmd.path \in PathsTo(file, e)
    BY <1>4 DEF Named
  <2>2. resolved.error = "" /\ resolved.entity = e
    BY <1>2, <2>1, ValidMapResolves, ErrorFields
  <2> HIDE DEF resolved
  <2>3. proc' = [proc EXCEPT !.pc = "checking", !.entity = {e}, !.todo = EntityTeams(e)]
    BY <1>3, <2>2
  <2>4. /\ proc'.pc = "checking" /\ proc'.entity = {e} /\ proc'.todo = EntityTeams(e)
        /\ proc'.fetched = proc.fetched /\ proc'.count = proc.count /\ proc'.output = {}
    BY <1>1, <2>3 DEF Inv, Frame
  <2>5. AskedFor({e}) /\ Plan({e}) = EntityTeams(e)
    BY <1>1, <2>1 DEF AskedFor, Plan
  <2> QED BY <1>1, <2>4, <2>5, BeginFetching
<1>5. CASE ~Named
  <2>1. resolved.error # ""
    BY <1>2, <1>5, ValidMapResolves, ErrorFields DEF Named
  <2> HIDE DEF resolved
  <2>2. PICK code : Exit(code)
    BY <1>3, <2>1
  <2>3. /\ proc'.pc = "exited" /\ proc'.entity = proc.entity /\ proc'.todo = proc.todo
        /\ proc'.fetched = proc.fetched /\ proc'.count = proc.count /\ proc'.output = {}
    BY <1>1, <2>2, ExitFields DEF Inv
  <2> QED BY <1>1, <2>3, MoveData DEF Early, Late
<1> QED BY <1>4, <1>5

LEMMA CheckFlagsData == Inv /\ DataInv /\ CheckFlags => DataInv'
<1> SUFFICES ASSUME Inv, DataInv, CheckFlags PROVE DataInv'
  OBVIOUS
<1>1. /\ teams' = teams /\ file' = file /\ cmd' = cmd /\ jira' = jira
      /\ proc.pc = "checking" /\ proc.output = {}
  BY DEF CheckFlags, storeVars, Inv
<1>2. CASE FlagsAreGood
  <2>1. GoodSince
    BY <1>2, CommandsAssumption DEF FlagsAreGood, GoodSince, Inv
  <2>2. /\ proc'.pc = "starting" /\ proc'.entity = proc.entity /\ proc'.todo = proc.todo
        /\ proc'.fetched = proc.fetched /\ proc'.count = proc.count /\ proc'.output = {}
    BY <1>1, <1>2, GotoFields DEF CheckFlags, Inv
  <2> QED BY <1>1, <2>1, <2>2, MoveData DEF Early, Late
<1>3. CASE ~FlagsAreGood
  <2>1. /\ proc'.pc = "exited" /\ proc'.entity = proc.entity /\ proc'.todo = proc.todo
        /\ proc'.fetched = proc.fetched /\ proc'.count = proc.count /\ proc'.output = {}
    BY <1>1, <1>3, ExitFields DEF CheckFlags, Inv
  <2> QED BY <1>1, <2>1, MoveData DEF Early, Late
<1> QED BY <1>2, <1>3

LEMMA StartFetchingData == Inv /\ DataInv /\ StartFetching => DataInv'
<1> SUFFICES ASSUME Inv, DataInv, StartFetching PROVE DataInv'
  OBVIOUS
<1>1. /\ teams' = teams /\ file' = file /\ cmd' = cmd /\ jira' = jira
      /\ proc.pc = "starting" /\ proc.output = {} /\ GoodSince
  BY StartFields DEF StartFetching, Inv, DataInv, Late
<1>2. /\ proc'.pc = "fetching" /\ proc'.entity = proc.entity /\ proc'.todo = proc.todo
      /\ proc'.fetched = proc.fetched /\ proc'.count = proc.count /\ proc'.output = {}
  BY <1>1, GotoFields DEF StartFetching, Inv
<1> QED BY <1>1, <1>2, MoveData DEF Early, Late

LEMMA FailTeamFetchData == Inv /\ DataInv /\ FailTeamFetch => DataInv'
<1> SUFFICES ASSUME Inv, DataInv, FailTeamFetch PROVE DataInv'
  OBVIOUS
<1>1. /\ teams' = teams /\ file' = file /\ cmd' = cmd /\ jira' = jira
      /\ proc.pc = "fetching" /\ proc.output = {}
  BY FailFields DEF FailTeamFetch, Inv
<1>2. /\ proc'.pc = "exited" /\ proc'.entity = proc.entity /\ proc'.todo = proc.todo
      /\ proc'.fetched = proc.fetched /\ proc'.count = proc.count /\ proc'.output = {}
  BY <1>1, ExitFields DEF FailTeamFetch, Inv
<1> QED BY <1>1, <1>2, MoveData DEF Early, Late

LEMMA FinishRefreshData == Inv /\ DataInv /\ FinishRefresh => DataInv'
<1> SUFFICES ASSUME Inv, DataInv, FinishRefresh PROVE DataInv'
  OBVIOUS
<1>1. /\ teams' = teams /\ file' = file /\ cmd' = cmd /\ jira' = jira
      /\ proc.pc = "applied" /\ proc.output = {} /\ GoodSince
  BY CompleteFields DEF FinishRefresh, Inv, DataInv, Late
<1>2. state'.issueCount = proc.count
  BY DEF FinishRefresh, CompleteRefresh, Inv, StateFrame
<1>3. /\ proc'.pc = "printing" /\ proc'.entity = proc.entity /\ proc'.todo = proc.todo
      /\ proc'.fetched = proc.fetched /\ proc'.count = proc.count /\ proc'.output = {}
  BY <1>1, GotoFields DEF FinishRefresh, Inv
<1> QED BY <1>1, <1>2, <1>3, MoveData DEF Early, Late

LEMMA PlanIsTeams ==
    ASSUME NEW entity, AskedFor(entity) PROVE Plan(entity) \subseteq AllTeams
<1>1. \A e \in Entries : EntityTeams(e) \subseteq AllTeams
  BY EntriesAreLevels DEF EntityTeams, Entries
<1> QED BY <1>1 DEF AskedFor, Plan

\* A team's data goes where no other team's is, and is counted.
LEMMA FetchTeamStep == ASSUME Inv, DataInv, NEW t \in proc.todo, FetchTeam(t) PROVE DataInv'
<1>1. /\ teams' = teams /\ file' = file /\ cmd' = cmd /\ jira' = jira
      /\ proc.pc = "fetching" /\ proc.output = {} /\ Validate(file) /\ GoodSince
      /\ proc.todo \subseteq AllTeams /\ t \in AllTeams
  BY DEF FetchTeam, storeVars, Inv, AfterLoad, Loaded, DataInv, Late
<1> DEFINE done == Plan(proc.entity) \ proc.todo
           x == file.id[t]
           data == TeamFetched(t)
           fetched == [proc.fetched EXCEPT ![x] = data]
           count == proc.count \cup ({x} \X data.periods)
<1>2. /\ proc.todo \subseteq Plan(proc.entity) /\ AskedFor(proc.entity)
      /\ Holds(proc.fetched, proc.count, done)
  BY <1>1 DEF DataInv, Late
<1>3. proc' = [proc EXCEPT !.todo = @ \ {t}, !.fetched = fetched, !.count = count]
  BY DEF FetchTeam, TeamFetched
<1>4. x \in Teams
  BY <1>1, EntriesAreLevels, IdentifiersAssumption DEF Validate, validateIdentifier
<1>5. \A u \in done : file.id[u] # x
  <2>1. Plan(proc.entity) \subseteq AllTeams
    BY <1>2, PlanIsTeams
  <2>2. \A u \in AllTeams : file.id[u] = x => u = t
    BY <1>1, EntriesAreLevels, UniqueIdentifier
  <2> QED BY <2>1, <2>2
<1> HIDE DEF x, data
<1>6. Holds(fetched, count, done \cup {t})
  <2>1. fetched = [y \in Teams |-> fetched[y]] /\ fetched[x] = data
        /\ \A y \in Teams \ {x} : fetched[y] = proc.fetched[y]
    BY <1>2, <1>4 DEF Holds
  <2>2. \A u \in done : fetched[file.id[u]] = TeamFetched(u)
    <3> SUFFICES ASSUME NEW u \in done PROVE fetched[file.id[u]] = TeamFetched(u)
      OBVIOUS
    <3>1. file.id[u] \in Teams
      <4>1. u \in AllTeams
        BY <1>2, PlanIsTeams
      <4> QED BY <1>1, <4>1, EntriesAreLevels, IdentifiersAssumption DEF Validate, validateIdentifier
    <3>2. proc.fetched[file.id[u]] = TeamFetched(u)
      BY <1>2 DEF Holds
    <3> HIDE DEF done, fetched
    <3> QED BY <1>5, <2>1, <3>1, <3>2
  <2>3. \A y \in Teams : fetched[y] # Absent => \E u \in done \cup {t} : file.id[u] = y
    <3>1. \A y \in Teams : proc.fetched[y] # Absent => \E u \in done : file.id[u] = y
      BY <1>2 DEF Holds
    <3> HIDE DEF done, fetched
    <3> QED BY <2>1, <3>1 DEF x
  <2>4. count = UNION {{file.id[u]} \X TeamFetched(u).periods : u \in done \cup {t}}
    <3> DEFINE Counted(u) == {file.id[u]} \X TeamFetched(u).periods
    <3>1. proc.count = UNION {Counted(u) : u \in done}
      BY <1>2 DEF Holds
    <3>2. count = proc.count \cup Counted(t)
      BY DEF x, data
    <3> HIDE DEF Counted, count, done
    <3>3. count = UNION {Counted(u) : u \in done \cup {t}}
      BY <3>1, <3>2
    <3> QED BY <3>3 DEF Counted
  <2>5. fetched[file.id[t]] = TeamFetched(t)
    BY <2>1 DEF x, data
  <2> HIDE DEF done, fetched, count
  <2> QED BY <2>1, <2>2, <2>3, <2>4, <2>5 DEF Holds
<1>7. done \cup {t} = Plan(proc.entity) \ (proc.todo \ {t})
  BY <1>2
<1> HIDE DEF done, fetched, count
<1>8. /\ proc'.pc = "fetching" /\ proc'.entity = proc.entity /\ proc'.todo = proc.todo \ {t}
      /\ proc'.fetched = fetched /\ proc'.count = count /\ proc'.output = {}
  BY <1>1, <1>3 DEF Inv, Frame
<1>9. /\ AskedFor(proc'.entity) /\ proc'.todo \subseteq Plan(proc'.entity)
      /\ Holds(proc'.fetched, proc'.count, Plan(proc'.entity) \ proc'.todo)
  BY <1>2, <1>6, <1>7, <1>8
<1>10. CommandAgreesWithServer'
  BY <1>8 DEF CommandAgreesWithServer
<1>11. \A y \in Present(teams)' :
         GoodSince' /\ \E u \in AllTeams : file.id[u]' = y /\ teams[y]' = TeamFetched(u)'
  BY <1>1, DataStays DEF DataInv, Present
<1>12. /\ AskedFor(proc.entity)' /\ proc'.todo \subseteq Plan(proc.entity)'
       /\ Holds(proc.fetched, proc.count, Plan(proc.entity) \ proc.todo)'
       /\ GoodSince'
  BY <1>1, <1>9, DataStays
<1> QED BY <1>1, <1>8, <1>10, <1>11, <1>12 DEF DataInv, Early, Late

LEMMA ApplyDataData == Inv /\ DataInv /\ ApplyData => DataInv'
<1> SUFFICES ASSUME Inv, DataInv, ApplyData PROVE DataInv'
  OBVIOUS
<1>1. /\ teams' = proc.fetched /\ file' = file /\ cmd' = cmd /\ jira' = jira
      /\ proc.pc = "fetching" /\ proc.output = {} /\ proc.todo = {} /\ GoodSince
      /\ AskedFor(proc.entity) /\ Holds(proc.fetched, proc.count, Plan(proc.entity) \ proc.todo)
  BY DEF ApplyData, SwapData, Inv, DataInv, Late
<1>2. /\ proc'.pc = "applied" /\ proc'.entity = proc.entity /\ proc'.todo = proc.todo
      /\ proc'.fetched = proc.fetched /\ proc'.count = proc.count /\ proc'.output = {}
  BY <1>1, GotoFields DEF ApplyData, Inv
<1>3. \A x \in Present(proc.fetched) :
        \E t \in AllTeams : file.id[t] = x /\ proc.fetched[x] = TeamFetched(t)
  <2>1. Plan(proc.entity) \subseteq AllTeams
    BY <1>1, PlanIsTeams
  <2> QED BY <1>1, <2>1 DEF Holds, Present
<1>4. \A x \in Present(teams)' :
         GoodSince' /\ \E u \in AllTeams : file.id[u]' = x /\ teams[x]' = TeamFetched(u)'
  BY <1>1, <1>3, DataStays DEF Present
<1>5. /\ AskedFor(proc.entity)' /\ proc'.todo \subseteq Plan(proc.entity)'
      /\ Holds(proc.fetched, proc.count, Plan(proc.entity) \ proc.todo)'
      /\ GoodSince'
  BY <1>1, <1>2, DataStays
<1>6. CommandAgreesWithServer'
  BY <1>2 DEF CommandAgreesWithServer
<1> QED BY <1>1, <1>2, <1>4, <1>5, <1>6 DEF DataInv, Early, Late

\* The server that is asked for the same fetches the same for each team.
LEMMA ServerFetches ==
    ASSUME Validate(file), GoodSince
    PROVE  /\ ServerData = [x \in {file.id[t] : t \in AllTeams} |-> ServerData[x]]
           /\ \A t \in AllTeams : ServerData[file.id[t]] = TeamFetched(t).periods
<1>1. RefreshedTypes(ServerScope) = SetTypes
  BY DEF RefreshedTypes, ServerScope, Unscoped
<1>2. RefreshCadences(ServerScope, Today) = Cadences
  BY DEF RefreshCadences, HasDates, ScopedCadence, ServerScope, Unscoped, Cadences
<1> DEFINE Fetched(x) ==
        FetchTeamData(file, file.ownership[CHOOSE t \in AllTeams : file.id[t] = x], fieldID,
                      Cadences, SetTypes, Today, jira).periods
<1>3. ServerData = [x \in {file.id[t] : t \in AllTeams} |-> Fetched(x)]
  BY <1>1, <1>2 DEF ServerData
<1>4. ASSUME NEW t \in AllTeams PROVE Fetched(file.id[t]) = TeamFetched(t).periods
  <2>1. (CHOOSE u \in AllTeams : file.id[u] = file.id[t]) = t
    BY UniqueIdentifier, EntriesAreLevels
  <2> QED BY <2>1 DEF TeamFetched
<1> HIDE DEF Fetched
<1> QED BY <1>3, <1>4

\* What is stored when a run prints.
LEMMA StoredToPrint ==
    ASSUME Inv, DataInv, proc.pc = "printing"
    PROVE  /\ Validate(file) /\ GoodSince /\ AskedFor(proc.entity)
           /\ Plan(proc.entity) \subseteq AllTeams
           /\ \A t \in Plan(proc.entity) :
                /\ file.id[t] \in Present(teams)
                /\ teams[file.id[t]] = TeamFetched(t)
           /\ state.issueCount
                = UNION {{file.id[t]} \X TeamFetched(t).periods : t \in Plan(proc.entity)}
<1>1. /\ Validate(file) /\ GoodSince /\ AskedFor(proc.entity) /\ proc.todo = {}
      /\ teams = proc.fetched /\ state.issueCount = proc.count
      /\ Holds(proc.fetched, proc.count, Plan(proc.entity) \ proc.todo) /\ jira \in JiraSamples
  BY DEF Inv, DataInv, AfterLoad, Loaded, Late
<1>2. Plan(proc.entity) \subseteq AllTeams
  BY <1>1, PlanIsTeams
<1>3. ASSUME NEW t \in Plan(proc.entity)
      PROVE  file.id[t] \in Present(teams) /\ teams[file.id[t]] = TeamFetched(t)
  <2>1. teams[file.id[t]] = TeamFetched(t)
    BY <1>1 DEF Holds
  <2>2. file.id[t] \in Teams
    BY <1>1, <1>2, EntriesAreLevels, IdentifiersAssumption DEF Validate, validateIdentifier
  <2>3. TeamFetched(t) # Absent
    BY <1>1, FetchedType DEF Given, GoodSince
  <2> QED BY <2>1, <2>2, <2>3 DEF Present
<1>4. Plan(proc.entity) \ proc.todo = Plan(proc.entity)
  BY <1>1
<1>5. state.issueCount = UNION {{file.id[t]} \X TeamFetched(t).periods : t \in Plan(proc.entity)}
  BY <1>1, <1>4 DEF Holds
<1> QED BY <1>1, <1>2, <1>3, <1>5

\* A step that ends the run with an output that agrees.
LEMMA EndData ==
    ASSUME DataInv, file' = file, cmd' = cmd, jira' = jira, teams' = teams,
           proc'.pc = "exited", CommandAgreesWithServer'
    PROVE  DataInv'
<1>1. \A x \in Present(teams)' :
         GoodSince' /\ \E u \in AllTeams : file.id[u]' = x /\ teams[x]' = TeamFetched(u)'
  BY DataStays DEF DataInv, Present
<1> QED BY <1>1 DEF DataInv, Early, Late

LEMMA PrintCountData == Inv /\ DataInv /\ PrintCount => DataInv'
<1> SUFFICES ASSUME Inv, DataInv, PrintCount PROVE DataInv'
  OBVIOUS
<1>1. /\ teams' = teams /\ file' = file /\ cmd' = cmd /\ jira' = jira
      /\ proc.pc = "printing" /\ RefreshesAll
      /\ proc' = [proc EXCEPT !.pc = "exited", !.output = {state.issueCount}]
  BY DEF PrintCount, storeVars
<1>2. proc'.pc = "exited" /\ proc'.output = {state.issueCount}
  BY <1>1 DEF Inv, Frame
<1>3. state.issueCount = UNION {{x} \X ServerData[x] : x \in DOMAIN ServerData}
  <2>1. /\ DOMAIN ServerData = {file.id[t] : t \in AllTeams}
        /\ \A t \in AllTeams : ServerData[file.id[t]] = TeamFetched(t).periods
    <3>1. DOMAIN [x \in {file.id[t] : t \in AllTeams} |-> ServerData[x]]
            = {file.id[t] : t \in AllTeams}
      OBVIOUS
    <3>2. Validate(file) /\ GoodSince
      BY <1>1, StoredToPrint
    <3> QED BY <3>1, <3>2, ServerFetches
  <2>2. state.issueCount = UNION {{file.id[t]} \X TeamFetched(t).periods : t \in AllTeams}
    <3>1. Plan(proc.entity) = AllTeams
      BY <1>1 DEF Plan
    <3> QED BY <1>1, <3>1, StoredToPrint
  <2> DEFINE Counted(x) == {x} \X ServerData[x]
  <2>3. \A t \in AllTeams : Counted(file.id[t]) = {file.id[t]} \X TeamFetched(t).periods
    BY <2>1
  <2>4. state.issueCount = UNION {Counted(file.id[t]) : t \in AllTeams}
    BY <2>2, <2>3
  <2> HIDE DEF Counted
  <2>5. state.issueCount = UNION {Counted(x) : x \in DOMAIN ServerData}
    BY <2>1, <2>4
  <2> QED BY <2>5 DEF Counted
<1>4. CommandAgreesWithServer'
  BY <1>1, <1>2, <1>3, DataStays DEF CommandAgreesWithServer
<1> QED BY <1>1, <1>2, <1>4, EndData

\* The row a run prints is the server's for the name the argument ends with.
LEMMA RenderEntityData == Inv /\ DataInv /\ RenderEntity => DataInv'
<1> SUFFICES ASSUME Inv, DataInv, RenderEntity PROVE DataInv'
  OBVIOUS
<1> DEFINE data == PeriodsIn(teams)
           orgs == ComputeFullScorecard(TheConfig, data, cmd.filter)
           rows == UNION {RowsOf(orgs, e) : e \in proc.entity}
<1>1. /\ teams' = teams /\ file' = file /\ cmd' = cmd /\ jira' = jira
      /\ proc.pc = "printing" /\ ~RefreshesAll
      /\ IF rows = {} THEN Exit(1)
         ELSE proc' = [proc EXCEPT !.pc = "exited", !.output = {CHOOSE r \in rows : TRUE}]
  BY DEF RenderEntity, storeVars
<1>2. PICK e \in Entries : proc.entity = {e} /\ cmd.path \in PathsTo(file, e)
  BY <1>1, StoredToPrint DEF AskedFor
<1>3. Validate(file) /\ GoodSince
  BY <1>1, StoredToPrint
<1>4. rows = {RowOf(data, e)}
  <2>1. orgs = {OrgRow(data, o) : o \in OrgEntries}
    BY <1>3, ScorecardRows
  <2>2. RowsOf({OrgRow(data, o) : o \in OrgEntries}, e) = {RowOf(data, e)}
    BY <1>3, EntityHasOneRow
  <2>3. rows = RowsOf(orgs, e)
    BY <1>2
  <2> HIDE DEF data, orgs, rows
  <2> QED BY <2>1, <2>2, <2>3
<1>5. RowOf(data, e) = RowOf(ServerData, e)
  <2>1. ASSUME NEW t \in EntityTeams(e)
        PROVE  TeamPeriods(data, file.id[t]) = TeamPeriods(ServerData, file.id[t])
    <3>1. t \in Plan(proc.entity) /\ t \in AllTeams
      <4>1. t \in Plan(proc.entity)
        BY <1>1, <1>2 DEF Plan
      <4> QED BY <1>1, <4>1, StoredToPrint
    <3>2. file.id[t] \in Present(teams) /\ teams[file.id[t]] = TeamFetched(t)
      BY <1>1, <3>1, StoredToPrint
    <3>3. TeamPeriods(data, file.id[t]) = TeamFetched(t).periods
      BY <3>2 DEF TeamPeriods, PeriodsIn
    <3>4. file.id[t] \in DOMAIN ServerData /\ ServerData[file.id[t]] = TeamFetched(t).periods
      <4>1. DOMAIN [x \in {file.id[u] : u \in AllTeams} |-> ServerData[x]]
              = {file.id[u] : u \in AllTeams}
        OBVIOUS
      <4> QED BY <1>3, <3>1, <4>1, ServerFetches
    <3> QED BY <3>3, <3>4 DEF TeamPeriods
  <2> HIDE DEF data
  <2> QED BY <2>1, RowSame
<1>6. {r \in ServerRows : r.identifier = cmd.path[Len(cmd.path)]} = {RowOf(ServerData, e)}
  <2>1. ServerRows = {RowOf(ServerData, d) : d \in Entries}
    <3>1. ComputeFullScorecard(TheConfig, ServerData, cmd.filter)
            = {OrgRow(ServerData, o) : o \in OrgEntries}
      BY <1>3, ScorecardRows
    <3> QED BY <1>3, <3>1, AllRows DEF ServerRows
  <2>2. \A d \in Entries : RowOf(ServerData, d).identifier = file.id[d]
    BY RowParts
  <2>3. cmd.path[Len(cmd.path)] = file.id[e]
    BY <1>2, PathLength
  <2>4. \A d \in Entries : file.id[d] = file.id[e] => d = e
    BY <1>3, UniqueIdentifier
  <2> QED BY <2>1, <2>2, <2>3, <2>4
<1> HIDE DEF rows, data
<1>7. proc'.pc = "exited" /\ proc'.output = {RowOf(ServerData, e)}
  <2>1. (CHOOSE r \in rows : TRUE) = RowOf(data, e)
    BY <1>4
  <2>2. proc' = [proc EXCEPT !.pc = "exited", !.output = {RowOf(data, e)}]
    BY <1>1, <1>4, <2>1
  <2> QED BY <1>5, <2>2 DEF Inv, Frame
<1>8. proc'.output = {r \in ServerRows' : r.identifier = cmd'.path[Len(cmd'.path)]}
  BY <1>1, <1>6, <1>7, DataStays
<1>9. CommandAgreesWithServer'
  BY <1>1, <1>8, DataStays DEF CommandAgreesWithServer
<1> QED BY <1>1, <1>7, <1>9, EndData

LEMMA StutterData == DataInv /\ UNCHANGED vars => DataInv'
<1> SUFFICES ASSUME DataInv, UNCHANGED vars PROVE DataInv'
  OBVIOUS
<1>1. /\ state' = state /\ teams' = teams /\ file' = file /\ cmd' = cmd /\ jira' = jira
      /\ proc' = proc
  BY DEF vars, storeVars, cliVars
<1>2. \A x \in Present(teams)' :
         GoodSince' /\ \E u \in AllTeams : file.id[u]' = x /\ teams[x]' = TeamFetched(u)'
  BY <1>1, DataStays DEF DataInv, Present
<1>3. CommandAgreesWithServer'
  BY <1>1, DataStays DEF DataInv, CommandAgreesWithServer
<1>4. /\ proc'.pc \in Early => proc'.entity = {} /\ Holds(proc.fetched, proc.count, {})'
      /\ proc'.pc \in Late =>
           /\ AskedFor(proc.entity)' /\ proc'.todo \subseteq Plan(proc.entity)'
           /\ Holds(proc.fetched, proc.count, Plan(proc.entity) \ proc.todo)'
  BY <1>1, DataStays DEF DataInv
<1> QED BY <1>1, <1>2, <1>3, <1>4, DataStays DEF DataInv

LEMMA DataInvariance == Spec => []DataInv
<1>1. Inv /\ DataInv /\ [Next]_vars => DataInv'
  BY DispatchData, LoadConfigData, ResolveIdentifierData, CheckFlagsData, StartFetchingData,
     FetchTeamStep, FailTeamFetchData, ApplyDataData, FinishRefreshData, RenderEntityData,
     PrintCountData, StutterData
     DEF Next, Finished
<1> QED BY InitData, Invariance, <1>1, PTL DEF Spec

-----------------------------------------------------------------------------
(* The theorems.                                                           *)

\* Every variable of a run of the command holds a value of its type.
THEOREM TypeCorrect == Spec => []TypeOK
<1>1. Inv => TypeOK
  BY DEF Inv, TypeOK, PCs, StoreInv
<1> QED BY <1>1, Invariance, PTL

\* The resource maps that validation accepts have one entity for each name and
\* each path to it, whatever the hierarchy and the identifiers are.
THEOREM NamesAlwaysResolve == Spec => []NamesResolve
<1>1. Inv => NamesResolve
  <2> SUFFICES ASSUME Inv, Loaded PROVE NamesResolve
    BY DEF NamesResolve
  <2>1. cmd.path \in Seq(STRING) /\ Validate(file)
    BY CommandsAssumption DEF Inv, Loaded
  <2> QED BY <2>1, ValidMapResolves, NoSubcommand DEF NamesResolve
<1> QED BY <1>1, Invariance, PTL

\* A run's exit code tells a name that is not in the file from every other
\* failure, and success from both.
THEOREM ExitCodesAreRight == Spec => []ExitCodesTellWhy
<1>1. Inv => ExitCodesTellWhy
  BY DEF Inv, ExitCodesTellWhy, ExitInv, Named
<1> QED BY <1>1, Invariance, PTL

\* A run fetches the teams of one entity only and has --since for start_date, and
\* still prints what the server would answer after a refresh of every team.
THEOREM PrintsTheServers == Spec => []CommandAgreesWithServer
<1>1. DataInv => CommandAgreesWithServer
  BY DEF DataInv
<1> QED BY <1>1, DataInvariance, PTL

\* Over the two sprints every issue of a team is counted, and only those at the
\* midnight between them are counted in both.
THEOREM IssuesOnce == Spec => []IssuesCountedOnce
<1>1. DataInv => IssuesCountedOnce
  <2> SUFFICES ASSUME DataInv, NEW t \in AllTeams, cmd.since = NoDate, Loaded,
                      file.id[t] \in Present(teams)
               PROVE  LET expected == {i \in jira : /\ IsTheirs(file.ownership[t], i)
                                        /\ i.type \in file.scoredIssueTypes
                                        /\ i.status \in DoneStatuses
                                        /\ 2 * PreviousSprint(Today).since <= i.resolved
                                        /\ i.resolved <= 2 * CurrentSprint(Today).until}
                          twice == {i \in expected : i.resolved = 2 * CurrentSprint(Today).since}
                      IN  TotalOf(PeriodsOf(teams, file.id[t], "closed"))
                            = Cardinality(expected) + Cardinality(twice)
    BY DEF IssuesCountedOnce
  <2>1. Given /\ Validate(file)
    BY DEF DataInv, GoodSince, Given, Loaded
  <2>2. PICK u \in AllTeams : file.id[u] = file.id[t] /\ teams[file.id[t]] = TeamFetched(u)
    BY DEF DataInv
  <2>3. u = t
    BY <2>1, <2>2, UniqueIdentifier, EntriesAreLevels
  <2>4. PeriodsOf(teams, file.id[t], "closed")
          = {x \in TeamFetched(t).periods : x.setType = "closed"}
    BY <2>2, <2>3 DEF PeriodsOf, Present
  <2> QED BY <2>1, <2>4, ClosedTotal
<1> QED BY <1>1, DataInvariance, PTL
=============================================================================
