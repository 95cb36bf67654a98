------------------------------- MODULE MCServer -------------------------------
(* Small instances of Server for TLC. *)
EXTENDS Server, TLC

Q(mode, start, end, status) ==
    [mode |-> mode, start |-> start, end |-> end, status |-> status]

\* Without and with each mode, unscoped and for each status, dates that begin or
\* end early, and one that is refused.
TheQueries ==
    { Q("", NoDate, NoDate, ""),
      Q("replace", NoDate, NoDate, ""),
      Q("", NoDate, NoDate, "in_progress"),
      Q("upsert", NoDate, 1, "closed"),
      Q("", -3, NoDate, ""),
      Q("replace", NoDate, NoDate, "closed") }

Symmetry == Permutations(Teams) \cup Permutations(Reqs)
=============================================================================
