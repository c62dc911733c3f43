--------------------------- MODULE MCSkillService ---------------------------
(* An instance of SkillService: two names that differ in case, one of them *)
(* with two objects, and a third name.                                     *)
EXTENDS SkillService

CONSTANTS research1, research2, Research, review

MCSkills == {research1, research2, Research, review}

MCNameOf(s) ==
  CASE s \in {research1, research2} -> "research"
    [] s = Research -> "Research"
    [] s = review -> "code_review"

MCLower(n) == IF n = "Research" THEN "research" ELSE n
=============================================================================
