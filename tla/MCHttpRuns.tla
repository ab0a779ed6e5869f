------------------------------ MODULE MCHttpRuns ------------------------------
(***************************************************************************)
(* Five browser tabs: an administrator's, a teacher's, two of one student  *)
(* and one of another. The limits move below, at and above what the tabs   *)
(* can fill, through 0 and an unreadable value.                            *)
(***************************************************************************)
EXTENDS HttpRuns

CONSTANTS root, tess, anna, ben, adminTab, tessTab, annaTab1, annaTab2, benTab

MCRequest == {adminTab, tessTab, annaTab1, annaTab2, benTab}
MCOwner == {root, tess, anna, ben}
MCOwnerOf ==
  [r \in MCRequest |->
     CASE r = adminTab -> root
       [] r = tessTab -> tess
       [] r \in {annaTab1, annaTab2} -> anna
       [] r = benTab -> ben]
MCRoleOf ==
  [r \in MCRequest |->
     CASE r = adminTab -> "admin"
       [] r = tessTab -> "teacher"
       [] OTHER -> "student"]
MCSettingChoices ==
  [key \in SettingKey |->
     CASE key = "global" -> {2, 0, Unusable}
       [] key = "student" -> {1, 2, Unusable}
       [] OTHER -> {}]
=============================================================================
