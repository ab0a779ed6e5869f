----------------------------- MODULE MCCurriculum -----------------------------
(***************************************************************************)
(* A course of two modules and a final of two questions. A student with    *)
(* two tabs and a download, who is in a class, and an editor with four     *)
(* definitions: one with another second module, whose question has a       *)
(* correct answer that is no option, one whose final is worth too much to  *)
(* be added up and whose module is worth infinitely much, one with two     *)
(* modules of one id, and one without a final.                             *)
(***************************************************************************)
EXTENDS Curriculum, TLC

CONSTANTS dora, class, leftTab, rightTab, print, m1, m2, m3, yes, no, other

Question(id, type, correct, points) ==
  [id |-> id, type |-> type, options |-> {yes, no}, correct |-> correct, points |-> points]

Easy(id) == <<Question(id, "single", {yes}, 1)>>
BothQuestions == <<Question("f1", "text", {yes}, 0), Question("f2", "multi", {yes, no}, 1)>>
Module(id, ratio, questions) == [id |-> id, ratio |-> ratio, questions |-> questions]

MCFirstCourse ==
  [modules |-> <<Module(m1, 70, Easy("q1")), Module(m2, 0, Easy("q2"))>>,
   ratio |-> 50, final |-> BothQuestions]

MCRawCourses ==
  {[modules |-> <<Module(m1, 70, Easy("q1")),
                 Module(m3, 120, <<Question("q3", "multi", {yes, other}, 1)>>)>>,
    ratio |-> 50, final |-> BothQuestions],
   [modules |-> <<Module(m1, 70, <<Question("q1", "single", {yes}, Infinite)>>)>>,
    ratio |-> 50, final |-> <<Question("f1", "text", {yes}, 3), Question("f2", "multi", {yes}, 2)>>],
   [modules |-> <<Module(m1, 70, Easy("q1")), Module(m1, 70, Easy("q2"))>>,
    ratio |-> 50, final |-> BothQuestions],
   [modules |-> <<Module(m1, 70, Easy("q1"))>>, ratio |-> 50, final |-> <<>>]}

MCAnswer == {{yes}, {yes, no}}
MCGroupsOf == [l \in Learner |-> {class}]
MCFirstReleases == [scope \in {dora, class} |-> IF scope = class THEN "on" ELSE "none"]
MCTabs == Permutations(Tab)
MCHolderOf == [d \in Window |-> dora]
MCLearnerOf == [t \in Tab |-> dora]
=============================================================================
