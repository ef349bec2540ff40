---------------------------- MODULE MCSearchIndex ----------------------------
(***************************************************************************)
(* SearchIndex for TLC: two skills, and two profiles that are the inverse  *)
(* of each other in one of them only.                                      *)
(***************************************************************************)
EXTENDS SearchIndex

SkillSetsOfTwo ==
  {[offered |-> {"cooking"}, wanted |-> {"chess"}],
   [offered |-> {}, wanted |-> {"cooking"}]}

Edited ==
  {[languages |-> {"english"}, located |-> FALSE], [languages |-> {}, located |-> TRUE]}
=============================================================================
