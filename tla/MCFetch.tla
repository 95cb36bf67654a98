------------------------------- MODULE MCFetch -------------------------------
(* Small instances of Fetch for TLC. *)
EXTENDS Fetch

FourIssues == <<"i1", "i2", "i3", "i4">>

\* The numbers of the places of the four issues.
Places(p1, p2, p3, p4) ==
    [i \in Issues |-> CASE i = "i1" -> p1 [] i = "i2" -> p2 [] i = "i3" -> p3 [] i = "i4" -> p4]

\* No issues; of either kind, what fits in a page and what takes two or three.
TheStarts == { Places(0, 0, 0, 0), Places(1, 1, 3, 2), Places(2, 2, 2, 3), Places(1, 3, 3, 3) }

\* Boards whose sprints fit in a response, and one whose sprints do not.
ShortBoards == << <<11, 12>>, <<21>> >>

LongBoard == << <<11, 12, 13>> >>
=============================================================================
