-------------------------------- MODULE MCCli --------------------------------
(* A small instance of Cli for TLC. *)
EXTENDS Cli

TwoOrgs == {"hcm", "sre"}

ThePillars == [o \in TwoOrgs |-> IF o = "hcm" THEN {"rosa", "aro"} ELSE {}]

TheTeams == [p \in {"rosa", "aro"} |-> IF p = "rosa" THEN {"aurora", "orion"} ELSE {"vega"}]

GoodNames == Entries \cup reservedWords \cup {"nova"}

-----------------------------------------------------------------------------
(* Resource maps: one in which all is well, and those that differ from it  *)
(* in one place.                                                           *)

None == [method |-> "", project |-> "", components |-> {}, teamField |-> "",
         jql |-> <<>>, boards |-> {}]

ByComponent == [None EXCEPT !.method = "component", !.project = "ROSA", !.components = {"api"}]
ByField == [None EXCEPT !.method = "team_field", !.project = "ROSA", !.teamField = "aurora"]
ByJQL == [None EXCEPT !.method = "jql", !.jql = <<"ARO", "OCM">>]
ByBoard == [None EXCEPT !.method = "sprint_board", !.project = "ROSA", !.boards = {7}]

GoodFile ==
    [ sprintDays |-> SprintDays, referenceDate |-> "date",
      inProgressStatuses |-> {"In Progress"}, scoredIssueTypes |-> {"Story", "Bug"},
      activityTypeField |-> "customfield_1",
      id |-> [e \in Entries |-> e],
      ownership |-> [t \in AllTeams |-> CASE t = "aurora" -> ByComponent
                                          [] t = "orion" -> ByBoard
                                          [] t = "vega" -> ByJQL] ]

Renamed == {[GoodFile EXCEPT !.id[e] = x] : e \in Entries, x \in GoodNames \cup {"", "Rosa_1"}}

Reowned ==
    {[GoodFile EXCEPT !.ownership["aurora"] = o] :
        o \in {None, ByField, [ByComponent EXCEPT !.project = ""],
               [ByComponent EXCEPT !.components = {}], [ByField EXCEPT !.teamField = ""],
               [ByJQL EXCEPT !.jql = <<>>], [ByBoard EXCEPT !.boards = {}]}}

TheFiles ==
    Renamed \cup Reowned \cup
    { [GoodFile EXCEPT !.sprintDays = 0], [GoodFile EXCEPT !.referenceDate = ""],
      [GoodFile EXCEPT !.referenceDate = "not a date"],
      [GoodFile EXCEPT !.inProgressStatuses = {}], [GoodFile EXCEPT !.activityTypeField = ""] }

-----------------------------------------------------------------------------
(* Commands.                                                               *)

Plain(path) == [path |-> path, filter |-> Unscoped, since |-> NoDate, jiraURL |-> TRUE,
                token |-> TRUE, field |-> ""]

Paths ==
    { <<n>> : n \in Entries \cup {"nova", "", "refresh-data", "version"} } \cup
    { <<"hcm", "rosa">>, <<"rosa", "aurora">>, <<"aro", "aurora">>, <<"hcm", "aurora">>,
      <<"sre", "rosa">>, <<"rosa", "">>, <<"hcm", "rosa", "aurora">>, <<"hcm", "aro", "vega">>,
      <<"sre", "rosa", "aurora">>, <<"hcm", "rosa", "aurora", "orion">> }

Flags(c) ==
    { [c EXCEPT !.filter = [Unscoped EXCEPT !.status = "closed"]],
      [c EXCEPT !.filter = [Unscoped EXCEPT !.end = -1]],
      [c EXCEPT !.filter = BadFilter], [c EXCEPT !.since = 0], [c EXCEPT !.since = -9],
      [c EXCEPT !.since = BadDate], [c EXCEPT !.jiraURL = FALSE], [c EXCEPT !.token = FALSE],
      [c EXCEPT !.field = "customfield_2"] }

TheCommands ==
    {Plain(path) : path \in Paths}
      \cup UNION {Flags(Plain(path)) : path \in {<<"hcm">>, <<"aurora">>, <<"nova">>, <<"refresh-data">>}}

-----------------------------------------------------------------------------
(* Issues: of one team each, one of a type that is not scored, one that    *)
(* nobody owns; resolved before, in, between and at the end of the sprints. *)

Field(form, value) == [form |-> form, value |-> value]

Custom(form, value) == [f \in {"customfield_1"} |-> Field(form, value)]

Issue(key, project, type, status, resolved, fields) ==
    [key |-> key, project |-> project, components |-> {"api"}, teamField |-> "aurora",
     sprints |-> {}, type |-> type, status |-> status, resolved |-> resolved, fields |-> fields]

InSprint(i, s) == [i EXCEPT !.components = {}, !.teamField = "", !.sprints = {s}]

ManyIssues ==
    { Issue(1, "ROSA", "Story", "Done", -5, Custom("object", "Customer Support")),
      Issue(2, "ROSA", "Bug", "Closed", 1, Custom("string", "Defect")),
      Issue(3, "ROSA", "Story", "In Progress", NoDate, Custom("number", 3)),
      InSprint(Issue(4, "ROSA", "Story", "Done", -1, Custom("object", "New Feature")), 71),
      InSprint(Issue(5, "ROSA", "Story", "Done", 1, Custom("object", "New Feature")), 81),
      Issue(9, "ROSA", "Story", "Done", 0, Custom("object", "New Feature")),
      Issue(6, "ARO", "Epic", "Done", -1, Custom("object", "New Feature")),
      Issue(7, "ARO", "Bug", "Done", -15, [f \in {} |-> Field("null", "")]),
      Issue(10, "OCM", "Story", "Done", 8, Custom("string", "New Feature")),
      Issue(8, "OCM", "Bug", "Done", 3, [f \in {"customfield_2"} |-> Field("string", "Defect")]) }

TheSamples == {{}, ManyIssues}

TheBoards == [b \in {7, 8} |-> IF b = 7 THEN {71, 72} ELSE {81}]

TheActivityTypes == {"Customer Support", "Defect", "New Feature", ""}

Identifiers == GoodNames
=============================================================================
