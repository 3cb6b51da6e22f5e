---------------------------- MODULE MCCurricula ----------------------------
(* Two programs, two curricula, two courses with one run each, one external *)
(* key and two writers: enough for a cycle that two saves close, and for a  *)
(* key that two courses bring together in every way.                        *)
EXTENDS Curricula, TLC

MCSymmetry == Permutations(Program) \cup Permutations(Curriculum)
                \cup Permutations(Course) \cup Permutations(Run) \cup Permutations(Writer)
============================================================================
