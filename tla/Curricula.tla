------------------------------ MODULE Curricula ------------------------------
(***************************************************************************)
(* Programs, the curricula they consist of, and the external keys of the   *)
(* course runs in them (signals.py, models.py).                            *)
(*                                                                         *)
(* Nothing in the database keeps a program from containing itself, or two  *)
(* runs of a program from having one external key: receivers of pre_save   *)
(* look for that before each save.  A save is two steps here, the receiver *)
(* that finds nothing and the write, and others may write in between.      *)
(*                                                                         *)
(* A curriculum without id is like an empty one without program: no        *)
(* receiver refuses it.  Rows are the official ones, and Nowhere stands    *)
(* for a run that is not there yet.  Exclusions do not count in the code   *)
(* either.                                                                 *)
(***************************************************************************)
EXTENDS FiniteSets

CONSTANTS
  Program, NoProgram,
  Curriculum,
  Course, Nowhere,
  Run,
  ExternalKey, NoKey,
  Writer              \* requests that save one of these rows

ASSUME CurriculaAssumption ==
  /\ NoProgram \notin Program
  /\ Nowhere \notin Course
  /\ NoKey \notin ExternalKey

VARIABLES
  program,   \* Curriculum.program
  members,   \* the programs of a curriculum (CurriculumProgramMembership)
  courses,   \* the courses of a curriculum (CurriculumCourseMembership)
  course,    \* CourseRun.course
  key,       \* CourseRun.external_key
  pending,   \* what a writer is about to write, its check having passed
  fresh,     \* history: the writers since whose check nobody else has written
  raced      \* history: has a writer written that was not fresh?

graphVars == <<program, members>>
keyVars   == <<courses, course, key>>
vars      == <<graphVars, keyVars, pending, fresh, raced>>

Idle == [kind |-> "idle"]
Save == [kind: {"idle"}]
          \cup [kind: {"curriculum"}, curriculum: Curriculum, program: Program \cup {NoProgram}]
          \cup [kind: {"program"}, curriculum: Curriculum, program: Program]
          \cup [kind: {"course"}, curriculum: Curriculum, course: Course]
          \cup [kind: {"run"}, run: Run, course: Course, key: ExternalKey \cup {NoKey}]

TypeOK ==
  /\ program \in [Curriculum -> Program \cup {NoProgram}]
  /\ members \in [Curriculum -> SUBSET Program]
  /\ courses \in [Curriculum -> SUBSET Course]
  /\ course \in [Run -> Course \cup {Nowhere}]
  /\ key \in [Run -> ExternalKey \cup {NoKey}]
  /\ \A r \in Run : course[r] = Nowhere => key[r] = NoKey
  /\ pending \in [Writer -> Save]
  /\ fresh \subseteq {w \in Writer : pending[w].kind # "idle"}
  /\ raced \in {"yes", "no"}

Init ==
  /\ program = [c \in Curriculum |-> NoProgram]
  /\ members = [c \in Curriculum |-> {}]
  /\ courses = [c \in Curriculum |-> {}]
  /\ course = [r \in Run |-> Nowhere]
  /\ key = [r \in Run |-> NoKey]
  /\ pending = [w \in Writer |-> Idle]
  /\ fresh = {}
  /\ raced = "no"

---------------------------------------------------------------------------
(* The programs below a program.                                           *)

\* S has the programs of every curriculum whose program it has.
Closed(S)     == \A c \in Curriculum : program[c] \in S => members[c] \subseteq S
Children(p)   == UNION {members[c] : c \in {d \in Curriculum : program[d] = p}}

\* _find_in_programs visits ps and what is below, level by level, ...
Visits(ps, p) == \A S \in SUBSET Program : ps \subseteq S /\ Closed(S) => p \in S
\* ... without remembering where it has been: on a cycle it does not end.
OnCycle(p)    == Visits(Children(p), p)
Ends(ps)      == \A p \in Program : Visits(ps, p) => ~OnCycle(p)

Acyclic == \A p \in Program : ~OnCycle(p)

---------------------------------------------------------------------------
(* Runs with an external key.                                              *)

HasKey(r)       == key[r] # NoKey
CurriculaOf(k)  == {c \in Curriculum : k \in courses[c]}
\* The runs in a curriculum; in the curricula of a program; in those that are
\* looked at together with curriculum c, when its program is p.
RunsIn(c)       == {r \in Run : course[r] \in courses[c]}
RunsUnder(p)    == UNION {RunsIn(c) : c \in {d \in Curriculum : program[d] = p}}
RunsBeside(c, p) == IF p = NoProgram THEN RunsIn(c) ELSE RunsUnder(p)

\* check_curricula_and_related_programs_for_duplicate_external_key, for one
\* curriculum: none of the others has the key of one of rs.
NoDuplicate(rs, others) ==
  \A r \in rs, s \in others \ rs : HasKey(r) => key[s] # key[r]

---------------------------------------------------------------------------
(* The receivers of pre_save.                                              *)

\* check_curriculum_for_cycles and ensure_external_key_uniqueness__curriculum.
CurriculumPasses(c, p) ==
  /\ p # NoProgram => ~Visits(members[c], p) /\ Ends(members[c])
  /\ p = NoProgram \/ p # program[c] => NoDuplicate(RunsIn(c), RunsBeside(c, p))

\* Mutant: only the program itself is looked at, not what is below.
MemberPassesMutant(c, p) == program[c] # p

\* check_curriculum_program_membership_for_cycles.
MemberPasses(c, p) ==
  /\ program[c] # NoProgram => ~Visits({p}, program[c])
  /\ Ends({p})

\* Mutant: only the curriculum itself is looked at.
CoursePassesMutant(c, k) ==
  NoDuplicate({r \in Run : course[r] = k}, RunsIn(c))

\* ensure_external_key_uniqueness__curriculum_course_membership.
CoursePasses(c, k) ==
  NoDuplicate({r \in Run : course[r] = k}, RunsBeside(c, program[c]))

\* ensure_external_key_uniqueness__course_run: run r gets course k and key x.
Twin(r, x, others) == \E s \in others \ {r} : key[s] = x
RunPasses(r, k, x) ==
  \/ x = NoKey
  \/ x = key[r] /\ k = course[r]
  \/ IF CurriculaOf(k) = {}
     THEN ~Twin(r, x, {s \in Run : course[s] = k})
     ELSE \A c \in CurriculaOf(k) : ~Twin(r, x, RunsBeside(c, program[c]))

Passes(s) ==
  \/ s.kind = "curriculum" /\ CurriculumPasses(s.curriculum, s.program)
  \/ s.kind = "program" /\ MemberPasses(s.curriculum, s.program)
  \/ s.kind = "course" /\ CoursePasses(s.curriculum, s.course)
  \/ s.kind = "run" /\ RunPasses(s.run, s.course, s.key)

---------------------------------------------------------------------------
(* Writers.                                                                *)

\* The receivers of one save have run and found nothing.
Check(w, s) ==
  /\ pending[w] = Idle
  /\ Passes(s)
  /\ pending' = [pending EXCEPT ![w] = s]
  /\ fresh' = IF raced = "no" THEN fresh \cup {w} ELSE fresh
  /\ UNCHANGED <<graphVars, keyVars, raced>>

Written(w) ==
  /\ pending' = [pending EXCEPT ![w] = Idle]
  /\ fresh' = {}
  /\ raced' = IF w \in fresh THEN raced ELSE "yes"

\* The row of a curriculum is written.
WriteCurriculum(w) ==
  /\ pending[w].kind = "curriculum"
  /\ program' = [program EXCEPT ![pending[w].curriculum] = pending[w].program]
  /\ Written(w)
  /\ UNCHANGED <<members, keyVars>>

WriteMember(w) ==
  LET c == pending[w].curriculum IN
  /\ pending[w].kind = "program"
  /\ members' = [members EXCEPT ![c] = members[c] \cup {pending[w].program}]
  /\ Written(w)
  /\ UNCHANGED <<program, keyVars>>

WriteCourse(w) ==
  LET c == pending[w].curriculum IN
  /\ pending[w].kind = "course"
  /\ courses' = [courses EXCEPT ![c] = courses[c] \cup {pending[w].course}]
  /\ Written(w)
  /\ UNCHANGED <<graphVars, course, key>>

\* Mutant: the key of a run whose course is not known yet is written as well.
WriteRunMutant(w) ==
  /\ pending[w].kind = "run"
  /\ key' = [key EXCEPT ![pending[w].run] = pending[w].key]
  /\ Written(w)
  /\ UNCHANGED <<graphVars, courses, course>>

WriteRun(w) ==
  /\ pending[w].kind = "run"
  /\ course' = [course EXCEPT ![pending[w].run] = pending[w].course]
  /\ key' = [key EXCEPT ![pending[w].run] = pending[w].key]
  /\ Written(w)
  /\ UNCHANGED <<graphVars, courses>>

\* The request fails later on, or its worker dies.
GivesUp(w) ==
  /\ pending[w] # Idle
  /\ pending' = [pending EXCEPT ![w] = Idle]
  /\ fresh' = fresh \ {w}
  /\ UNCHANGED <<graphVars, keyVars, raced>>

\* Memberships are deleted without any check, also when a program or a
\* curriculum is (CASCADE).
DeleteMember(c, p) ==
  /\ p \in members[c]
  /\ members' = [members EXCEPT ![c] = members[c] \ {p}]
  /\ UNCHANGED <<program, keyVars, pending, fresh, raced>>

DeleteCourse(c, k) ==
  /\ k \in courses[c]
  /\ courses' = [courses EXCEPT ![c] = courses[c] \ {k}]
  /\ UNCHANGED <<graphVars, course, key, pending, fresh, raced>>

Next ==
  \/ \E w \in Writer :
       \/ \E s \in Save : Check(w, s)
       \/ WriteCurriculum(w) \/ WriteMember(w) \/ WriteCourse(w) \/ WriteRun(w)
       \/ GivesUp(w)
  \/ \E c \in Curriculum : \/ \E p \in Program : DeleteMember(c, p)
                           \/ \E k \in Course : DeleteCourse(c, k)

Spec == Init /\ [][Next]_vars

---------------------------------------------------------------------------
(* What the receivers are for.                                             *)

\* No program contains itself, however deep, unless two writers raced: the two
\* checks together close every way to build a cycle.
NoCircularPrograms == raced = "no" => Acyclic

\* Two runs that are looked at together: in one course, under one program, or in
\* one curriculum without program.
Together(r, s) ==
  \/ course[r] = course[s] /\ course[r] # Nowhere
  \/ \E c \in Curriculum : r \in RunsIn(c) /\ s \in RunsBeside(c, program[c])

\* "if a course is associated with a program through a Curriculum, the external
\* key is unique across all programs it is associated with", and within its
\* course anyway, unless two writers raced: the three receivers, each with early
\* returns of its own, leave no gap.
KeysAreUnique ==
  raced = "no" =>
    \A r, s \in Run : r # s /\ HasKey(r) /\ Together(r, s) => key[r] # key[s]
==============================================================================
