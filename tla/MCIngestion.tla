---------------------------- MODULE MCIngestion ----------------------------
(***************************************************************************)
(* Two variants of one product, with the same dates, and one bulk          *)
(* operation.  The variants differ in nothing, which makes them a symmetry *)
(* set.                                                                    *)
(***************************************************************************)
EXTENDS Ingestion, FiniteSets, TLC

CONSTANTS c1, v1, v2, s1, t1

MCCourse     == {c1}
MCVariant    == {v1, v2}
MCSchedule   == {s1}
MCCourseOf   == [v \in MCVariant |-> c1]
MCScheduleOf == [v \in MCVariant |-> s1]
MCTask       == {t1}
MCSymmetry   == Permutations(MCVariant)

\* The variants that rows and runs are about.
InUse == (loader.rows \cup {runs[k].variant : k \in DOMAIN runs}) \ {NoVariant}

\* The states TLC goes on from.  Two runs are followed without end, as long as no
\* bulk operation is uploaded.  With one they are followed until someone writes a
\* run a loader has in hand, and for one variant; what the request does until its
\* message is sent has nothing to do with the loader, which waits for it.  A third
\* run is followed until then too, or until the loader has given its run the
\* variant of the row or has given up.
MCBound ==
  LET bulk == \E t \in Task : task[t].message # "none" IN
  /\ bulk => Len(runs) <= 2 /\ Cardinality(InUse) <= 1 /\ touched = "no"
  /\ loader.at # "idle" => \A t \in Task : task[t].message \notin {"created", "saved"}
  /\ Len(runs) > 2 => HasRow /\ touched = "no"
===========================================================================
