------------------------------ MODULE MCAccounts ------------------------------
(***************************************************************************)
(* The demo accounts of bootstrap_application, in short, with one free     *)
(* name and the class, and two requests at a time.                         *)
(***************************************************************************)
EXTENDS Accounts, TLC

CONSTANTS admin, teacher, student, fresh, class, lab, t1, t2

MCSeedRole == [u \in Seed |-> IF u = admin THEN "admin" ELSE IF u = teacher THEN "teacher" ELSE "student"]
MCSeedMember == {<<student, class>>}
MCSeedProject == {[type |-> "group", owner |-> class, slug |-> lab]}
MCPerm == {"admin.manage", "workspace.personal", "workspace.group", "chat.use", "teacher.chat.moderate", "project.create"}
MCStudentDefault == {"workspace.personal", "workspace.group", "chat.use", "project.create"}
MCOverrides == {[k \in {"admin.manage"} |-> FALSE], [k \in {"admin.manage"} |-> TRUE],
                [k \in {"workspace.group"} |-> FALSE]}
MCSeedOverride == [k \in {"workspace.group", "chat.use"} |-> TRUE]
MCChatRoom == {<<"lounge">>, <<"project", CHOOSE p \in MCSeedProject : TRUE>>}
MCSymmetry == Permutations(Thread)
=============================================================================
