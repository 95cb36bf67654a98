------------------------------ MODULE MCPGServer ------------------------------
(* Small instances of PGServer for TLC. *)
EXTENDS PGServer, TLC

CONSTANTS t1, t2

Q(mode, start, status) ==
    [mode |-> mode, scope |-> [start |-> start, end |-> NoDate, status |-> status]]

BothTeams == {t1, t2}

OneConfig == {{t1, t2}}

\* A team is taken out of the configuration, or put in, between two processes.
TwoConfigs == {{t1, t2}, {t1}}

ScopeQueries == { Q("", NoDate, ""), Q("", NoDate, "in_progress"), Q("upsert", -3, "closed") }

ModeQueries == { Q("", NoDate, ""), Q("upsert", NoDate, "") }

PodSymmetry == Permutations(Pods) \cup Permutations(Reqs)
=============================================================================
