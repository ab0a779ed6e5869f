----------------------------- MODULE MCPublishing -----------------------------
(***************************************************************************)
(* A student publishes a project of two files with two requests at a time  *)
(* under a quota of one artifact. Ben and a teacher may review; the        *)
(* teacher shares two groups with the author and is asked twice when Ben   *)
(* is deactivated.                                                         *)
(***************************************************************************)
EXTENDS Publishing, TLC

CONSTANTS anna, ben, mrsM, class, team, page, script, t1, t2

MCByName == <<anna, ben, mrsM>>
MCMembersOf == [g \in Group |-> IF g = team THEN {anna, mrsM} ELSE {anna, ben, mrsM}]
MCScope == [u \in Author |-> Group]
MCLimit == [k \in {"share", "export"} |-> 1]
MCFirstProjects == {[f \in File |-> 1], [f \in File |-> IF f = page THEN 0 ELSE 1]}
MCSymmetry == Permutations(Thread)
=============================================================================
