----------------------- MODULE MCCourseRunLifecycle -----------------------
(* Instances of CourseRunLifecycle for TLC. *)
EXTENDS CourseRunLifecycle, TLC

CONSTANTS r1, r2

Symmetry == Permutations(Run)

\* The states TLC goes on from: two of the three (a run, the other run, the
\* course) have been changed since they were created, or one as soon as a request
\* came inside a command.
MCBound ==
  draft[r1].content + draft[r2].content + courseDraft <= IF fault = "torn" THEN 4 ELSE 5
===========================================================================
