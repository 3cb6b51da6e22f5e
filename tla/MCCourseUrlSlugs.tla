------------------------- MODULE MCCourseUrlSlugs -------------------------
(* Two courses with a run each and three slugs, one of them in the         *)
(* subdirectory format; the slugs of the runs are plain slugs that a course *)
(* may have as well.                                                       *)
EXTENDS CourseUrlSlugs

CONSTANTS c1, c2, r1, r2, s1, s2, s3

MCCourse       == {c1, c2}
MCRun          == {r1, r2}
MCSlug         == {s1, s2, s3}
MCCourseOf     == [r \in MCRun |-> IF r = r1 THEN c1 ELSE c2]
MCRunSlug      == [r \in MCRun |-> IF r = r1 THEN s3 ELSE s1]
MCSubdirectory == {s2}

\* The states TLC goes on from: one of the courses at most comes from Studio.
MCBound == loaded # Course
===========================================================================
