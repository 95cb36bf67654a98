----------------------------- MODULE ResourceMap -----------------------------
(***************************************************************************)
(* The configuration (pkg/config): what a resource map file says, which    *)
(* files are accepted (validation.go), and which entity a name or a path   *)
(* of names stands for (resolver.go, types.go).                            *)
(*                                                                         *)
(* An entry is a place in the file where an entity is written; rm.id says  *)
(* which identifier is written there, so two entries may have the same.    *)
(***************************************************************************)
EXTENDS Integers, Sequences, FiniteSets

CONSTANTS OrgEntries,     \* the organizations of the file
          PillarEntries,  \* per organization, its pillars
          TeamEntries,    \* per pillar, its teams
          WellFormed      \* the identifiers that match ^[a-z0-9-]+$

AllPillars == UNION {PillarEntries[o] : o \in OrgEntries}

AllTeams == UNION {TeamEntries[p] : p \in AllPillars}

Entries == OrgEntries \cup AllPillars \cup AllTeams

\* A tree: an entry is at one place of one level.
ASSUME EntriesAssumption ==
    /\ \A o, u \in OrgEntries : o # u => PillarEntries[o] \cap PillarEntries[u] = {}
    /\ \A p, u \in AllPillars : p # u => TeamEntries[p] \cap TeamEntries[u] = {}
    /\ OrgEntries \cap AllPillars = {} /\ OrgEntries \cap AllTeams = {}
    /\ AllPillars \cap AllTeams = {}

ASSUME WellFormedAssumption == "" \notin WellFormed

-----------------------------------------------------------------------------
(* Validation.                                                             *)

reservedWords == {"serve", "refresh-data", "version", "help"}

\* Faulty variant: an identifier must be unique within its level only.
validateIdentifierPerLevel(rm, e) ==
    /\ rm.id[e] \in WellFormed \ reservedWords
    /\ \A level \in {OrgEntries, AllPillars, AllTeams} :
         e \in level => \A d \in level \ {e} : rm.id[d] # rm.id[e]

\* Faulty variant: the reserved words are forgotten.
validateIdentifierReserved(rm, e) ==
    /\ rm.id[e] \in WellFormed
    /\ \A d \in Entries \ {e} : rm.id[d] # rm.id[e]

\* The identifiers seen before are those of every level.
validateIdentifier(rm, e) ==
    /\ rm.id[e] # ""
    /\ rm.id[e] \in WellFormed
    /\ rm.id[e] \notin reservedWords
    /\ \A d \in Entries \ {e} : rm.id[d] # rm.id[e]

validateOwnership(o) ==
    \/ o.method = "component" /\ o.project # "" /\ o.components # {}
    \/ o.method = "team_field" /\ o.project # "" /\ o.teamField # ""
    \/ o.method = "jql" /\ o.jql # <<>>
    \/ o.method = "sprint_board" /\ o.project # "" /\ o.boards # {}

Validate(rm) ==
    /\ rm.sprintDays > 0
    /\ rm.referenceDate = "date"
    /\ rm.inProgressStatuses # {}
    /\ \A e \in Entries : validateIdentifier(rm, e)
    /\ \A t \in AllTeams : validateOwnership(rm.ownership[t])

-----------------------------------------------------------------------------
(* Resolution.  A path is the sequence of the names between the slashes.   *)

NotFound == [error |-> "not found"]
Ambiguous == [error |-> "ambiguous"]
TooLong == [error |-> "too many segments"]
Resolved(e) == [error |-> "", entity |-> e]

resolveBare(rm, name) == {e \in Entries : rm.id[e] = name}

\* Either pillar/team or organization/pillar.
resolveTwoPart(rm, first, second) ==
    {t \in AllTeams : /\ rm.id[t] = second
                      /\ \E p \in AllPillars : t \in TeamEntries[p] /\ rm.id[p] = first}
      \cup
    {p \in AllPillars : /\ rm.id[p] = second
                        /\ \E o \in OrgEntries : p \in PillarEntries[o] /\ rm.id[o] = first}

resolveThreePart(rm, org, pillar, team) ==
    {t \in AllTeams :
        /\ rm.id[t] = team
        /\ \E o \in OrgEntries : \E p \in PillarEntries[o] :
             t \in TeamEntries[p] /\ rm.id[p] = pillar /\ rm.id[o] = org}

selectMatch(matches) ==
    IF matches = {} THEN NotFound
    ELSE IF \E e \in matches : matches = {e}
         THEN Resolved(CHOOSE e \in matches : TRUE)
         ELSE Ambiguous

\* The first in the file, of which a valid map has at most one.
firstMatch(matches) ==
    IF matches = {} THEN NotFound ELSE Resolved(CHOOSE e \in matches : TRUE)

Resolve(rm, path) ==
    CASE Len(path) = 1 -> selectMatch(resolveBare(rm, path[1]))
      [] Len(path) = 2 -> selectMatch(resolveTwoPart(rm, path[1], path[2]))
      [] Len(path) = 3 -> firstMatch(resolveThreePart(rm, path[1], path[2], path[3]))
      [] OTHER -> TooLong

\* Faulty variant: an organization has the teams of one pillar.
TeamsOfOnePillar(e) ==
    CASE e \in OrgEntries ->
           IF PillarEntries[e] = {} THEN {} ELSE TeamEntries[CHOOSE p \in PillarEntries[e] : TRUE]
      [] e \in AllPillars -> TeamEntries[e]
      [] OTHER -> {e}

\* ResolvedEntity.Teams.
EntityTeams(e) ==
    CASE e \in OrgEntries -> UNION {TeamEntries[p] : p \in PillarEntries[e]}
      [] e \in AllPillars -> TeamEntries[e]
      [] OTHER -> {e}

\* The entities a resolved one is below, as ResolvedEntity has them.
OrgOf(e) ==
    CHOOSE o \in OrgEntries :
        e = o \/ e \in PillarEntries[o] \/ \E p \in PillarEntries[o] : e \in TeamEntries[p]

PillarOf(e) == CHOOSE p \in AllPillars : e = p \/ e \in TeamEntries[p]

-----------------------------------------------------------------------------
(* What a reader of the file means by a path: some of the entities above   *)
(* an entity, without a gap, and the entity.                               *)

PathsTo(rm, e) ==
    {<<rm.id[e]>>}
      \cup {<<rm.id[o], rm.id[e]>> : o \in {u \in OrgEntries : e \in PillarEntries[u]}}
      \cup {<<rm.id[p], rm.id[e]>> : p \in {u \in AllPillars : e \in TeamEntries[u]}}
      \cup UNION {{<<rm.id[o], rm.id[p], rm.id[e]>> :
                      p \in {u \in PillarEntries[o] : e \in TeamEntries[u]}} :
                    o \in OrgEntries}
=============================================================================
