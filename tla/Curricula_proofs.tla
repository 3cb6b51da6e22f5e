-------------------------- MODULE Curricula_proofs --------------------------
(***************************************************************************)
(* Proofs about Curricula, for every set of programs, curricula, courses,  *)
(* runs, keys and writers.                                                 *)
(*                                                                         *)
(* That a program does not contain itself is shown with closed sets: a     *)
(* program p is not below ps when some closed set has ps and not p.        *)
(***************************************************************************)
EXTENDS Curricula, TLAPS

USE CurriculaAssumption

---------------------------------------------------------------------------
(* The inductive invariant.                                                *)

KeysUnique == \A r, s \in Run : r # s /\ HasKey(r) /\ Together(r, s) => key[r] # key[s]

\* Until somebody races, what the receivers found for a fresh writer still holds.
IInv ==
  /\ TypeOK
  /\ raced = "no" => /\ Acyclic
                     /\ KeysUnique
                     /\ \A w \in fresh : Passes(pending[w])

---------------------------------------------------------------------------
(* The kinds of saves.                                                     *)

LEMMA SaveKinds ==
  ASSUME NEW s \in Save
  PROVE  /\ s.kind \in {"idle", "curriculum", "program", "course", "run"}
         /\ s.kind = "curriculum" =>
              s.curriculum \in Curriculum /\ s.program \in Program \cup {NoProgram}
         /\ s.kind = "program" => s.curriculum \in Curriculum /\ s.program \in Program
         /\ s.kind = "course" => s.curriculum \in Curriculum /\ s.course \in Course
         /\ s.kind = "run" =>
              s.run \in Run /\ s.course \in Course /\ s.key \in ExternalKey \cup {NoKey}
<1>1. CASE s \in [kind: {"idle"}] BY <1>1
<1>2. CASE s \in [kind: {"curriculum"}, curriculum: Curriculum, program: Program \cup {NoProgram}]
  BY <1>2
<1>3. CASE s \in [kind: {"program"}, curriculum: Curriculum, program: Program] BY <1>3
<1>4. CASE s \in [kind: {"course"}, curriculum: Curriculum, course: Course] BY <1>4
<1>5. CASE s \in [kind: {"run"}, run: Run, course: Course, key: ExternalKey \cup {NoKey}]
  BY <1>5
<1> QED BY <1>1, <1>2, <1>3, <1>4, <1>5 DEF Save

---------------------------------------------------------------------------
(* Cycles.                                                                 *)

\* Without new edges nothing more is visited, and no cycle appears.
LEMMA FewerEdges ==
  ASSUME \A S \in SUBSET Program : Closed(S) => Closed(S)',
         \A p \in Program : Children(p)' \subseteq Children(p)
  PROVE  /\ \A ps, p : Visits(ps, p)' => Visits(ps, p)
         /\ \A p \in Program : OnCycle(p)' => OnCycle(p)
         /\ Acyclic => Acyclic'
<1>1. ASSUME NEW ps, NEW p, Visits(ps, p)' PROVE Visits(ps, p)
  BY <1>1 DEF Visits
<1>2. ASSUME NEW p \in Program, OnCycle(p)' PROVE OnCycle(p)
  BY <1>2 DEF OnCycle, Visits
<1> QED BY <1>1, <1>2 DEF Acyclic

\* New edges lead from p to ns.  If p is not below ns, they close no cycle.
LEMMA NewEdges ==
  ASSUME NEW p \in Program, NEW ns \in SUBSET Program, Acyclic, ~Visits(ns, p),
         \A T \in SUBSET Program : Closed(T) /\ (p \in T => ns \subseteq T) => Closed(T)',
         \A q \in Program : q # p => Children(q)' \subseteq Children(q),
         Children(p)' \subseteq Children(p) \cup ns,
         \A q \in Program, T \in SUBSET Program : q \in T /\ Closed(T) => Children(q) \subseteq T
  PROVE  Acyclic'
<1>1. PICK S \in SUBSET Program : ns \subseteq S /\ Closed(S) /\ p \notin S
  BY DEF Visits
<1>2. ASSUME NEW q \in Program PROVE ~OnCycle(q)'
  <2>1. PICK Q \in SUBSET Program : Children(q) \subseteq Q /\ Closed(Q) /\ q \notin Q
    BY DEF Acyclic, OnCycle, Visits
  <2>2. Closed(Q \cup S) /\ Closed(Q \cap S) BY <1>1, <2>1 DEF Closed
  <2>3. CASE q = p
    <3>1. Closed(Q \cup S)' BY <1>1, <2>1, <2>2, <2>3
    <3>2. Children(q)' \subseteq Q \cup S /\ q \notin Q \cup S BY <1>1, <2>1, <2>3
    <3> QED BY <3>1, <3>2 DEF OnCycle, Visits
  <2>4. CASE q # p /\ p \notin Q
    <3>1. Closed(Q)' BY <2>1, <2>4
    <3>2. Children(q)' \subseteq Q BY <2>1, <2>4
    <3> QED BY <2>1, <3>1, <3>2 DEF OnCycle, Visits
  <2>5. CASE q # p /\ p \in Q /\ q \notin S
    <3>1. Closed(Q \cup S)' BY <1>1, <2>1, <2>2
    <3>2. Children(q)' \subseteq Q \cup S /\ q \notin Q \cup S BY <2>1, <2>5
    <3> QED BY <3>1, <3>2 DEF OnCycle, Visits
  <2>6. CASE q # p /\ q \in S
    <3>1. Closed(Q \cap S)' BY <1>1, <2>1, <2>2
    <3>2. Children(q) \subseteq S BY <1>1, <2>6
    <3>3. Children(q)' \subseteq Q \cap S /\ q \notin Q \cap S BY <2>1, <2>6, <3>2
    <3> QED BY <3>1, <3>3 DEF OnCycle, Visits
  <2> QED BY <2>3, <2>4, <2>5, <2>6
<1> QED BY <1>2 DEF Acyclic

\* The children of a program are in every closed set that has the program.
LEMMA ChildrenInClosed ==
  ASSUME NEW q \in Program, NEW T \in SUBSET Program, q \in T, Closed(T)
  PROVE  Children(q) \subseteq T
BY DEF Children, Closed

LEMMA CurriculumKeepsAcyclic ==
  ASSUME TypeOK, Acyclic, NEW c \in Curriculum, NEW p \in Program \cup {NoProgram},
         CurriculumPasses(c, p), program' = [program EXCEPT ![c] = p], members' = members
  PROVE  Acyclic'
<1>1. /\ program' \in [Curriculum -> Program \cup {NoProgram}]
      /\ program'[c] = p /\ \A d \in Curriculum : d # c => program'[d] = program[d]
      /\ \A d \in Curriculum : members[d] \subseteq Program
  BY DEF TypeOK
<1>2. CASE p = NoProgram
  <2>1. ASSUME NEW S \in SUBSET Program, Closed(S) PROVE Closed(S)'
    BY <1>1, <1>2, <2>1 DEF Closed
  <2>2. ASSUME NEW q \in Program PROVE Children(q)' \subseteq Children(q)
    BY <1>1, <1>2 DEF Children
  <2> QED BY <2>1, <2>2, FewerEdges
<1>3. CASE p \in Program
  <2>1. ~Visits(members[c], p) BY <1>3 DEF CurriculumPasses
  <2>2. ASSUME NEW T \in SUBSET Program, Closed(T), p \in T => members[c] \subseteq T
        PROVE  Closed(T)'
    BY <1>1, <2>2 DEF Closed
  <2>3. ASSUME NEW q \in Program, q # p PROVE Children(q)' \subseteq Children(q)
    BY <1>1, <2>3 DEF Children
  <2>4. Children(p)' \subseteq Children(p) \cup members[c]
    BY <1>1 DEF Children
  <2>5. members[c] \in SUBSET Program BY <1>1
  <2> QED BY <1>3, <2>1, <2>2, <2>3, <2>4, <2>5, NewEdges, ChildrenInClosed
<1> QED BY <1>2, <1>3

LEMMA MemberKeepsAcyclic ==
  ASSUME TypeOK, Acyclic, NEW c \in Curriculum, NEW m \in Program, MemberPasses(c, m),
         members' = [members EXCEPT ![c] = members[c] \cup {m}], program' = program
  PROVE  Acyclic'
<1>0. PICK p \in Program \cup {NoProgram} : p = program[c] BY DEF TypeOK
<1>1. /\ members'[c] = members[c] \cup {m}
      /\ \A d \in Curriculum : d # c => members'[d] = members[d]
      /\ \A d \in Curriculum : members[d] \subseteq Program
  BY DEF TypeOK
<1>2. CASE p = NoProgram
  <2>1. ASSUME NEW S \in SUBSET Program, Closed(S) PROVE Closed(S)'
    BY <1>0, <1>1, <1>2, <2>1 DEF Closed
  <2>2. ASSUME NEW q \in Program PROVE Children(q)' \subseteq Children(q)
    BY <1>0, <1>1, <1>2 DEF Children
  <2> QED BY <2>1, <2>2, FewerEdges
<1>3. CASE p \in Program
  <2>1. ~Visits({m}, p) BY <1>0, <1>3 DEF MemberPasses
  <2>2. ASSUME NEW T \in SUBSET Program, Closed(T), p \in T => {m} \subseteq T
        PROVE  Closed(T)'
    BY <1>0, <1>1, <2>2 DEF Closed
  <2>3. ASSUME NEW q \in Program, q # p PROVE Children(q)' \subseteq Children(q)
    BY <1>0, <1>1, <2>3 DEF Children
  <2>4. Children(p)' \subseteq Children(p) \cup {m}
    BY <1>0, <1>1 DEF Children
  <2>5. {m} \in SUBSET Program OBVIOUS
  <2> QED BY <1>3, <2>1, <2>2, <2>3, <2>4, <2>5, NewEdges, ChildrenInClosed
<1> QED BY <1>2, <1>3

---------------------------------------------------------------------------
(* External keys.                                                          *)

\* A curriculum c with course k, and another look-up that reaches course m.
Linked(k, m) ==
  \E c, d \in Curriculum :
    /\ k \in courses[c] /\ m \in courses[d]
    /\ c = d \/ (program[c] = program[d] /\ program[c] # NoProgram)

LEMMA BesideIs ==
  ASSUME NEW c \in Curriculum, NEW p, NEW s \in Run
  PROVE  s \in RunsBeside(c, p) <=>
           IF p = NoProgram THEN course[s] \in courses[c]
           ELSE \E d \in Curriculum : program[d] = p /\ course[s] \in courses[d]
BY DEF RunsBeside, RunsUnder, RunsIn

\* Together in terms of courses only, in which r and s are alike.
LEMMA TogetherIs ==
  ASSUME TypeOK, NEW r \in Run, NEW s \in Run
  PROVE  /\ Together(r, s) <=> \/ course[r] = course[s] /\ course[r] # Nowhere
                               \/ Linked(course[r], course[s])
         /\ Linked(course[r], course[s]) => Linked(course[s], course[r])
<1>1. Linked(course[r], course[s]) => \E c \in Curriculum : r \in RunsIn(c) /\ s \in RunsBeside(c, program[c])
  BY BesideIs DEF Linked, RunsIn
<1>2. ASSUME NEW c \in Curriculum, r \in RunsIn(c), s \in RunsBeside(c, program[c])
      PROVE  Linked(course[r], course[s])
  BY <1>2, BesideIs DEF Linked, RunsIn
<1>3. Linked(course[r], course[s]) => Linked(course[s], course[r])
  BY DEF Linked
<1> QED BY <1>1, <1>2, <1>3 DEF Together

LEMMA TogetherThen ==
  ASSUME NEW r \in Run, NEW s \in Run, Together(r, s)'
  PROVE  (course[r] = course[s] /\ course[r] # Nowhere)' \/ Linked(course[r], course[s])'
<1>1. CASE (course[r] = course[s] /\ course[r] # Nowhere)' BY <1>1
<1>2. CASE (\E c \in Curriculum : r \in RunsIn(c) /\ s \in RunsBeside(c, program[c]))'
  <2>1. PICK c \in Curriculum : (r \in RunsIn(c) /\ s \in RunsBeside(c, program[c]))' BY <1>2
  <2>2. CASE (program[c] = NoProgram)'
    BY <2>1, <2>2 DEF Linked, RunsIn, RunsBeside
  <2>3. CASE (program[c] # NoProgram)'
    <3>1. PICK d \in Curriculum : (program[d] = program[c] /\ s \in RunsIn(d))'
      BY <2>1, <2>3 DEF RunsBeside, RunsUnder
    <3> QED BY <2>1, <2>3, <3>1 DEF Linked, RunsIn
  <2> QED BY <2>2, <2>3
<1> QED BY <1>1, <1>2 DEF Together

LEMMA CurriculumKeepsKeys ==
  ASSUME TypeOK, KeysUnique, NEW c \in Curriculum, NEW p \in Program \cup {NoProgram},
         CurriculumPasses(c, p), program' = [program EXCEPT ![c] = p], UNCHANGED keyVars
  PROVE  KeysUnique'
<1>0. /\ program'[c] = p /\ \A d \in Curriculum : d # c => program'[d] = program[d]
      /\ courses' = courses /\ course' = course /\ key' = key
  BY DEF TypeOK, keyVars
<1> SUFFICES ASSUME NEW r \in Run, NEW s \in Run, r # s, HasKey(r), Together(r, s)', key[r] = key[s]
             PROVE  FALSE
  BY <1>0 DEF KeysUnique, HasKey
<1>1. ~Together(r, s) BY DEF KeysUnique
<1>2. ~Linked(course[r], course[s]) /\ ~Linked(course[s], course[r]) BY <1>1, TogetherIs
<1>3. Linked(course[r], course[s])'
  BY <1>0, <1>1, TogetherThen, TogetherIs
<1>4. PICK d, e \in Curriculum :
        /\ course[r] \in courses[d] /\ course[s] \in courses[e]
        /\ d = e \/ (program'[d] = program'[e] /\ program'[d] # NoProgram)
  BY <1>0, <1>3 DEF Linked
<1>5. d # e /\ (d = c \/ e = c) /\ p # program[c] /\ p # NoProgram
  BY <1>0, <1>2, <1>4 DEF Linked
<1>6. NoDuplicate(RunsIn(c), RunsBeside(c, p)) BY <1>5 DEF CurriculumPasses
<1>7. HasKey(s) BY DEF HasKey
<1>8. CASE d = c
  <2>1. r \in RunsIn(c) BY <1>4, <1>8 DEF RunsIn
  <2>2. s \notin RunsIn(c) BY <1>2, <1>4, <1>8 DEF RunsIn, Linked
  <2>3. s \in RunsBeside(c, p) BY <1>0, <1>4, <1>5, <1>8, BesideIs
  <2> QED BY <1>6, <2>1, <2>2, <2>3 DEF NoDuplicate
<1>9. CASE e = c
  <2>1. s \in RunsIn(c) BY <1>4, <1>9 DEF RunsIn
  <2>2. r \notin RunsIn(c) BY <1>2, <1>4, <1>9 DEF RunsIn, Linked
  <2>3. r \in RunsBeside(c, p) BY <1>0, <1>4, <1>5, <1>9, BesideIs
  <2> QED BY <1>6, <1>7, <2>1, <2>2, <2>3 DEF NoDuplicate
<1> QED BY <1>5, <1>8, <1>9

LEMMA CourseKeepsKeys ==
  ASSUME TypeOK, KeysUnique, NEW c \in Curriculum, NEW k \in Course, CoursePasses(c, k),
         courses' = [courses EXCEPT ![c] = courses[c] \cup {k}],
         UNCHANGED <<program, course, key>>
  PROVE  KeysUnique'
<1>0. /\ courses'[c] = courses[c] \cup {k} /\ \A d \in Curriculum : d # c => courses'[d] = courses[d]
      /\ program' = program /\ course' = course /\ key' = key /\ k # Nowhere
  BY DEF TypeOK
<1> SUFFICES ASSUME NEW r \in Run, NEW s \in Run, r # s, HasKey(r), Together(r, s)', key[r] = key[s]
             PROVE  FALSE
  BY <1>0 DEF KeysUnique, HasKey
<1>1. ~Together(r, s) BY DEF KeysUnique
<1>2. (~Linked(course[r], course[s]) /\ course[r] # course[s]) \/ course[r] = Nowhere
  BY <1>1, TogetherIs
<1>3. Linked(course[r], course[s])' \/ (course[r] = course[s] /\ course[r] # Nowhere)
  BY <1>0, TogetherThen
<1>4. Linked(course[r], course[s])' /\ ~Linked(course[r], course[s]) /\ ~Linked(course[s], course[r])
  BY <1>1, <1>3, TogetherIs
<1>5. PICK d, e \in Curriculum :
        /\ course[r] \in courses'[d] /\ course[s] \in courses'[e]
        /\ d = e \/ (program[d] = program[e] /\ program[d] # NoProgram)
  BY <1>0, <1>4 DEF Linked
<1>6. NoDuplicate({q \in Run : course[q] = k}, RunsBeside(c, program[c])) BY DEF CoursePasses
<1>7. HasKey(s) BY DEF HasKey
<1>8. CASE d = c /\ course[r] = k
  <2>1. course[s] # k BY <1>0, <1>1, <1>8, TogetherIs
  <2>2. course[s] \in courses[e] BY <1>0, <1>5, <2>1
  <2>3. s \in RunsBeside(c, program[c]) BY <1>5, <1>8, <2>2, BesideIs
  <2> QED BY <1>6, <1>8, <2>1, <2>3 DEF NoDuplicate
<1>9. CASE e = c /\ course[s] = k
  <2>1. course[r] # k BY <1>0, <1>1, <1>9, TogetherIs
  <2>2. course[r] \in courses[d] BY <1>0, <1>5, <2>1
  <2>3. r \in RunsBeside(c, program[c]) BY <1>5, <1>9, <2>2, BesideIs
  <2> QED BY <1>6, <1>7, <1>9, <2>1, <2>3 DEF NoDuplicate
<1> QED BY <1>0, <1>4, <1>5, <1>8, <1>9 DEF Linked

LEMMA RunKeepsKeys ==
  ASSUME TypeOK, KeysUnique, NEW q \in Run, NEW k \in Course, NEW x \in ExternalKey \cup {NoKey},
         RunPasses(q, k, x), course' = [course EXCEPT ![q] = k], key' = [key EXCEPT ![q] = x],
         UNCHANGED <<program, courses>>
  PROVE  KeysUnique'
<1>0. /\ course'[q] = k /\ \A r \in Run : r # q => course'[r] = course[r]
      /\ key'[q] = x /\ \A r \in Run : r # q => key'[r] = key[r]
      /\ program' = program /\ courses' = courses /\ k # Nowhere
  BY DEF TypeOK
<1> SUFFICES ASSUME NEW r \in Run, NEW s \in Run, r # s, key'[r] # NoKey, Together(r, s)', key'[r] = key'[s]
             PROVE  FALSE
  BY DEF KeysUnique, HasKey
<1>1. (course'[r] = course'[s] /\ course'[r] # Nowhere) \/ Linked(course[r], course[s])'
  BY TogetherThen
<1>2. Linked(course[r], course[s])' =>
        Linked(course'[r], course'[s]) /\ Linked(course'[s], course'[r])
  BY <1>0 DEF Linked
<1>3. CASE (r # q /\ s # q) \/ (x = key[q] /\ k = course[q])
  <2>1. course'[r] = course[r] /\ course'[s] = course[s] /\ key'[r] = key[r] /\ key'[s] = key[s]
    BY <1>0, <1>3
  <2> QED BY <1>1, <1>2, <2>1, TogetherIs DEF KeysUnique, HasKey
<1>4. CASE (r = q \/ s = q) /\ ~(x = key[q] /\ k = course[q])
  <2>1. PICK o \in Run : o # q /\ {r, s} = {q, o} BY <1>4
  <2>2. key[o] = x /\ x # NoKey BY <1>0, <2>1
  <2>3. course[o] = k \/ Linked(k, course[o]) BY <1>0, <1>1, <1>2, <2>1
  <2>4. CASE CurriculaOf(k) = {}
    <3>1. ~Linked(k, course[o]) BY <2>4 DEF CurriculaOf, Linked
    <3> QED BY <1>4, <2>1, <2>2, <2>3, <2>4, <3>1 DEF RunPasses, Twin
  <2>5. CASE CurriculaOf(k) # {}
    <3>1. PICK c \in Curriculum : k \in courses[c] /\ o \in RunsBeside(c, program[c])
      <4>1. CASE course[o] = k BY <2>5, <4>1, BesideIs DEF CurriculaOf
      <4>2. CASE Linked(k, course[o]) BY <4>2, BesideIs DEF Linked
      <4> QED BY <2>3, <4>1, <4>2
    <3> QED BY <1>4, <2>1, <2>2, <2>5, <3>1 DEF RunPasses, Twin, CurriculaOf
  <2> QED BY <2>4, <2>5
<1> QED BY <1>3, <1>4

---------------------------------------------------------------------------
(* What a receiver found outlives what others do without a check.          *)

LEMMA PassesUnchanged ==
  ASSUME UNCHANGED <<graphVars, keyVars>>, NEW t, Passes(t)
  PROVE  Passes(t)'
BY DEF graphVars, keyVars, Passes, CurriculumPasses, MemberPasses, CoursePasses, RunPasses, Twin,
       NoDuplicate, RunsBeside, RunsUnder, RunsIn, CurriculaOf, HasKey, Ends, OnCycle, Visits,
       Children, Closed

LEMMA PassesDeleteMember ==
  ASSUME TypeOK, NEW c \in Curriculum, NEW p \in Program, DeleteMember(c, p), NEW t \in Save, Passes(t)
  PROVE  Passes(t)'
<1>1. /\ members'[c] = members[c] \ {p}
      /\ \A d \in Curriculum : members'[d] \subseteq members[d]
      /\ program' = program /\ courses' = courses /\ course' = course /\ key' = key
  BY DEF TypeOK, DeleteMember, keyVars
<1>2. ASSUME NEW S \in SUBSET Program, Closed(S) PROVE Closed(S)'
  BY <1>1, <1>2 DEF Closed
<1>3. ASSUME NEW q \in Program PROVE Children(q)' \subseteq Children(q)
  BY <1>1 DEF Children
<1>4. /\ \A ps, q : Visits(ps, q)' => Visits(ps, q)
      /\ \A q \in Program : OnCycle(q)' => OnCycle(q)
  BY <1>2, <1>3, FewerEdges
<1>5. CASE t.kind = "curriculum"
  <2>1. t.curriculum \in Curriculum BY <1>5, SaveKinds
  <2>2. CurriculumPasses(t.curriculum, t.program) BY <1>5 DEF Passes
  <2>3. /\ \A q : Visits(members[t.curriculum], q)' => Visits(members[t.curriculum], q)
        /\ Ends(members[t.curriculum]) => Ends(members[t.curriculum])'
    <3>1. ASSUME NEW q, Visits(members[t.curriculum], q)' PROVE Visits(members[t.curriculum], q)
      <4>1. ASSUME NEW S \in SUBSET Program, members[t.curriculum] \subseteq S, Closed(S)
            PROVE  q \in S
        <5>1. members'[t.curriculum] \subseteq S BY <1>1, <2>1, <4>1
        <5>2. Closed(S)' BY <1>2, <4>1
        <5> QED BY <3>1, <5>1, <5>2 DEF Visits
      <4> QED BY <4>1 DEF Visits
    <3> QED BY <1>4, <3>1 DEF Ends
  <2>4. NoDuplicate(RunsIn(t.curriculum), RunsBeside(t.curriculum, t.program))' =
          NoDuplicate(RunsIn(t.curriculum), RunsBeside(t.curriculum, t.program))
    BY <1>1 DEF NoDuplicate, RunsIn, RunsBeside, RunsUnder, HasKey
  <2>5. CurriculumPasses(t.curriculum, t.program)'
    BY <1>1, <2>2, <2>3, <2>4 DEF CurriculumPasses
  <2> QED BY <1>5, <2>5 DEF Passes
<1>6. CASE t.kind = "program"
  <2>1. MemberPasses(t.curriculum, t.program) BY <1>6 DEF Passes
  <2>2. MemberPasses(t.curriculum, t.program)'
    BY <1>1, <1>4, <2>1 DEF MemberPasses, Ends
  <2> QED BY <1>6, <2>2 DEF Passes
<1>7. CASE t.kind = "course"
  BY <1>1, <1>7 DEF Passes, CoursePasses, NoDuplicate, RunsBeside, RunsUnder, RunsIn, HasKey
<1>8. CASE t.kind = "run"
  BY <1>1, <1>8 DEF Passes, RunPasses, Twin, CurriculaOf, RunsBeside, RunsUnder, RunsIn
<1> QED BY <1>5, <1>6, <1>7, <1>8 DEF Passes

LEMMA PassesDeleteCourse ==
  ASSUME TypeOK, KeysUnique, NEW c \in Curriculum, NEW k \in Course, DeleteCourse(c, k),
         NEW t \in Save, Passes(t)
  PROVE  Passes(t)'
<1>1. /\ \A d \in Curriculum : courses'[d] \subseteq courses[d]
      /\ program' = program /\ members' = members /\ course' = course /\ key' = key
  BY DEF TypeOK, DeleteCourse, graphVars
<1>2. \A d \in Curriculum : RunsIn(d)' \subseteq RunsIn(d) BY <1>1 DEF RunsIn
<1>3. ASSUME NEW d \in Curriculum, NEW p PROVE RunsBeside(d, p)' \subseteq RunsBeside(d, p)
  BY <1>1, <1>2 DEF RunsBeside, RunsUnder
<1>4. CASE t.kind = "curriculum"
  <2> DEFINE d == t.curriculum
             p == t.program
  <2>1. d \in Curriculum BY <1>4, SaveKinds
  <2>2. CurriculumPasses(d, p) BY <1>4 DEF Passes
  <2>3. (\A q : Visits(members[d], q)' = Visits(members[d], q)) /\ Ends(members[d])' = Ends(members[d])
    BY <1>1 DEF Visits, Ends, Closed, OnCycle, Children
  <2>4. ASSUME NoDuplicate(RunsIn(d), RunsBeside(d, p)) PROVE NoDuplicate(RunsIn(d), RunsBeside(d, p))'
    <3> SUFFICES ASSUME NEW r \in RunsIn(d)', NEW s \in (RunsBeside(d, p) \ RunsIn(d))', HasKey(r),
                        key[s] = key[r]
                 PROVE  FALSE
      BY <1>1 DEF NoDuplicate, HasKey
    <3>1. r \in RunsIn(d) /\ s \in RunsBeside(d, p) /\ r # s BY <1>2, <1>3, <2>1
    <3>2. CASE s \in RunsIn(d)
      <4>1. s \in RunsBeside(d, program[d]) BY <2>1, <3>2, BesideIs DEF RunsIn
      <4>2. r \in Run /\ s \in Run BY <3>1, <3>2 DEF RunsIn
      <4> QED BY <2>1, <3>1, <4>1, <4>2 DEF KeysUnique, Together
    <3>3. CASE s \notin RunsIn(d) BY <2>4, <3>1, <3>3 DEF NoDuplicate
    <3> QED BY <3>2, <3>3
  <2>5. CurriculumPasses(d, p)' BY <1>1, <2>2, <2>3, <2>4 DEF CurriculumPasses
  <2> QED BY <1>4, <2>5 DEF Passes
<1>5. CASE t.kind = "program"
  BY <1>1, <1>5 DEF Passes, MemberPasses, Visits, Ends, Closed, OnCycle, Children
<1>6. CASE t.kind = "course"
  <2>1. t.curriculum \in Curriculum BY <1>6, SaveKinds
  <2>2. CoursePasses(t.curriculum, t.course) BY <1>6 DEF Passes
  <2>3. RunsBeside(t.curriculum, program[t.curriculum])' \subseteq RunsBeside(t.curriculum, program[t.curriculum])
    BY <1>1, <1>2, <2>1 DEF RunsBeside, RunsUnder
  <2>4. CoursePasses(t.curriculum, t.course)'
    BY <1>1, <2>2, <2>3 DEF CoursePasses, NoDuplicate, HasKey
  <2> QED BY <1>6, <2>4 DEF Passes
<1>7. CASE t.kind = "run"
  <2> DEFINE m == t.course
             x == t.key
  <2>1. RunPasses(t.run, m, x) BY <1>7 DEF Passes
  <2>2. CurriculaOf(m)' \subseteq CurriculaOf(m) BY <1>1 DEF CurriculaOf
  <2>3. \A d \in CurriculaOf(m)' : RunsBeside(d, program[d])' \subseteq RunsBeside(d, program[d])
    BY <1>1, <1>2 DEF CurriculaOf, RunsBeside, RunsUnder
  <2>4. CASE x = NoKey \/ (x = key[t.run] /\ m = course[t.run])
    BY <1>1, <1>7, <2>4 DEF Passes, RunPasses
  <2>5. CASE CurriculaOf(m)' # {} /\ \A d \in CurriculaOf(m) : ~Twin(t.run, x, RunsBeside(d, program[d]))
    <3>1. \A d \in CurriculaOf(m)' : ~Twin(t.run, x, RunsBeside(d, program[d]))'
      BY <1>1, <2>2, <2>3, <2>5 DEF Twin
    <3> QED BY <1>7, <2>5, <3>1 DEF Passes, RunPasses
  <2>6. CASE CurriculaOf(m)' = {} /\ ~Twin(t.run, x, {s \in Run : course[s] = m})
    BY <1>1, <1>7, <2>6 DEF Passes, RunPasses, Twin
  <2>7. ASSUME CurriculaOf(m) # {}, \A d \in CurriculaOf(m) : ~Twin(t.run, x, RunsBeside(d, program[d]))
        PROVE  ~Twin(t.run, x, {s \in Run : course[s] = m})
    <3>1. PICK d \in Curriculum : m \in courses[d] BY <2>7 DEF CurriculaOf
    <3>2. \A s \in Run : course[s] = m => s \in RunsBeside(d, program[d])
      BY <3>1, BesideIs
    <3> QED BY <2>7, <3>1, <3>2 DEF Twin, CurriculaOf
  <2> QED BY <2>1, <2>2, <2>4, <2>5, <2>6, <2>7 DEF RunPasses
<1> QED BY <1>4, <1>5, <1>6, <1>7 DEF Passes

---------------------------------------------------------------------------
(* The invariant.                                                          *)

LEMMA InitIInv ==
  ASSUME Init
  PROVE  IInv
<1>1. TypeOK BY DEF Init, TypeOK, Save, Idle
<1>2. \A p \in Program : Children(p) = {} BY DEF Init, Children
<1>3. Closed({}) BY DEF Init, Closed
<1>4. Acyclic BY <1>2, <1>3 DEF Acyclic, OnCycle, Visits
<1>5. KeysUnique BY DEF Init, KeysUnique, HasKey
<1> QED BY <1>1, <1>4, <1>5 DEF IInv, Init

LEMMA TypeStep ==
  ASSUME TypeOK, [Next]_vars
  PROVE  TypeOK'
<1> USE DEF TypeOK
<1>0. Idle \in Save BY DEF Idle, Save
<1>1. ASSUME NEW w \in Writer, NEW t \in Save, Check(w, t) PROVE TypeOK'
  <2>1. t.kind # "idle" BY <1>1 DEF Check, Passes
  <2>2. pending' \in [Writer -> Save] BY <1>1 DEF Check
  <2>3. fresh' \subseteq {v \in Writer : pending'[v].kind # "idle"} BY <1>1, <2>1 DEF Check
  <2> QED BY <1>1, <2>2, <2>3 DEF Check, graphVars, keyVars
<1>2. ASSUME NEW w \in Writer, WriteCurriculum(w) PROVE TypeOK'
  BY <1>0, <1>2, SaveKinds DEF WriteCurriculum, Written, keyVars
<1>3. ASSUME NEW w \in Writer, WriteMember(w) PROVE TypeOK'
  BY <1>0, <1>3, SaveKinds DEF WriteMember, Written, keyVars
<1>4. ASSUME NEW w \in Writer, WriteCourse(w) PROVE TypeOK'
  BY <1>0, <1>4, SaveKinds DEF WriteCourse, Written, graphVars
<1>5. ASSUME NEW w \in Writer, WriteRun(w) PROVE TypeOK'
  BY <1>0, <1>5, SaveKinds DEF WriteRun, Written, graphVars
<1>6. ASSUME NEW w \in Writer, GivesUp(w) PROVE TypeOK'
  BY <1>0, <1>6 DEF GivesUp, graphVars, keyVars
<1>7. ASSUME NEW c \in Curriculum, NEW p \in Program, DeleteMember(c, p) PROVE TypeOK'
  BY <1>7 DEF DeleteMember, keyVars
<1>8. ASSUME NEW c \in Curriculum, NEW k \in Course, DeleteCourse(c, k) PROVE TypeOK'
  BY <1>8 DEF DeleteCourse, graphVars
<1>9. CASE UNCHANGED vars BY <1>9 DEF vars, graphVars, keyVars
<1> QED BY <1>1, <1>2, <1>3, <1>4, <1>5, <1>6, <1>7, <1>8, <1>9 DEF Next

\* A step that leaves keys or programs alone.
LEMMA SameKeys ==
  ASSUME KeysUnique, UNCHANGED <<program, keyVars>>
  PROVE  KeysUnique'
BY DEF KeysUnique, HasKey, Together, RunsBeside, RunsUnder, RunsIn, keyVars

LEMMA SameGraph ==
  ASSUME Acyclic, UNCHANGED graphVars
  PROVE  Acyclic'
BY DEF Acyclic, OnCycle, Visits, Children, Closed, graphVars

LEMMA StepIInv ==
  ASSUME IInv, [Next]_vars
  PROVE  IInv'
<1>0. TypeOK' BY TypeStep DEF IInv
<1> SUFFICES ASSUME (raced = "no")'
             PROVE  (Acyclic /\ KeysUnique /\ \A w \in fresh : Passes(pending[w]))'
  BY <1>0 DEF IInv
<1>1. ASSUME NEW w \in Writer, NEW t \in Save, Check(w, t)
      PROVE  (Acyclic /\ KeysUnique /\ \A v \in fresh : Passes(pending[v]))'
  <2>1. UNCHANGED <<graphVars, keyVars>> /\ raced = "no" /\ fresh' = fresh \cup {w}
    BY <1>1 DEF Check
  <2>2. Acyclic' /\ KeysUnique' BY <2>1, SameKeys, SameGraph DEF IInv, graphVars
  <2>3. ASSUME NEW v \in fresh' PROVE Passes(pending[v])'
    <3>1. PICK u : u = pending'[v] OBVIOUS
    <3>2. Passes(u) BY <1>1, <2>1, <3>1 DEF Check, IInv, TypeOK
    <3>3. Passes(u)' BY <2>1, <3>2, PassesUnchanged
    <3> QED BY <3>1, <3>3 DEF Passes, CurriculumPasses, MemberPasses, CoursePasses, RunPasses
  <2> QED BY <2>2, <2>3
<1>2. ASSUME NEW w \in Writer, w \in fresh, raced = "no", WriteCurriculum(w) PROVE (Acyclic /\ KeysUnique)'
  <2>1. CurriculumPasses(pending[w].curriculum, pending[w].program) BY <1>2 DEF IInv, Passes, WriteCurriculum
  <2>2. /\ pending[w].curriculum \in Curriculum
        /\ pending[w].program \in Program \cup {NoProgram}
    BY <1>2, SaveKinds DEF IInv, TypeOK, WriteCurriculum
  <2> QED BY <1>2, <2>1, <2>2, CurriculumKeepsAcyclic, CurriculumKeepsKeys DEF IInv, WriteCurriculum
<1>3. ASSUME NEW w \in Writer, w \in fresh, raced = "no", WriteMember(w) PROVE (Acyclic /\ KeysUnique)'
  <2>1. MemberPasses(pending[w].curriculum, pending[w].program) BY <1>3 DEF IInv, Passes, WriteMember
  <2>2. pending[w].curriculum \in Curriculum /\ pending[w].program \in Program
    BY <1>3, SaveKinds DEF IInv, TypeOK, WriteMember
  <2>3. Acyclic' BY <1>3, <2>1, <2>2, MemberKeepsAcyclic DEF IInv, WriteMember
  <2>4. KeysUnique' BY <1>3, SameKeys DEF IInv, WriteMember
  <2> QED BY <2>3, <2>4
<1>4. ASSUME NEW w \in Writer, w \in fresh, raced = "no", WriteCourse(w) PROVE (Acyclic /\ KeysUnique)'
  <2>1. CoursePasses(pending[w].curriculum, pending[w].course) BY <1>4 DEF IInv, Passes, WriteCourse
  <2>2. pending[w].curriculum \in Curriculum /\ pending[w].course \in Course
    BY <1>4, SaveKinds DEF IInv, TypeOK, WriteCourse
  <2>3. KeysUnique' BY <1>4, <2>1, <2>2, CourseKeepsKeys DEF IInv, WriteCourse, graphVars
  <2>4. Acyclic' BY <1>4, SameGraph DEF IInv, WriteCourse
  <2> QED BY <2>3, <2>4
<1>5. ASSUME NEW w \in Writer, w \in fresh, raced = "no", WriteRun(w) PROVE (Acyclic /\ KeysUnique)'
  <2>1. RunPasses(pending[w].run, pending[w].course, pending[w].key) BY <1>5 DEF IInv, Passes, WriteRun
  <2>2. /\ pending[w].run \in Run /\ pending[w].course \in Course
        /\ pending[w].key \in ExternalKey \cup {NoKey}
    BY <1>5, SaveKinds DEF IInv, TypeOK, WriteRun
  <2>3. KeysUnique' BY <1>5, <2>1, <2>2, RunKeepsKeys DEF IInv, WriteRun, graphVars
  <2>4. Acyclic' BY <1>5, SameGraph DEF IInv, WriteRun
  <2> QED BY <2>3, <2>4
<1>6. ASSUME NEW w \in Writer, WriteCurriculum(w) \/ WriteMember(w) \/ WriteCourse(w) \/ WriteRun(w)
      PROVE  (Acyclic /\ KeysUnique /\ \A v \in fresh : Passes(pending[v]))'
  <2>1. Written(w) BY <1>6 DEF WriteCurriculum, WriteMember, WriteCourse, WriteRun
  <2>2. fresh' = {} /\ w \in fresh /\ raced = "no" BY <2>1 DEF Written
  <2> QED BY <1>2, <1>3, <1>4, <1>5, <1>6, <2>2
<1>7. ASSUME UNCHANGED <<graphVars, keyVars, raced>>,
             \A v \in fresh' : v \in fresh /\ pending'[v] = pending[v]
      PROVE  (Acyclic /\ KeysUnique /\ \A v \in fresh : Passes(pending[v]))'
  <2>1. raced = "no" BY <1>7
  <2>2. Acyclic' /\ KeysUnique' BY <1>7, <2>1, SameKeys, SameGraph DEF IInv, graphVars
  <2>3. ASSUME NEW v \in fresh' PROVE Passes(pending[v])'
    <3>1. PICK u : u = pending'[v] OBVIOUS
    <3>2. Passes(u) BY <1>7, <2>1, <3>1 DEF IInv
    <3>3. Passes(u)' BY <1>7, <3>2, PassesUnchanged
    <3> QED BY <3>1, <3>3 DEF Passes, CurriculumPasses, MemberPasses, CoursePasses, RunPasses
  <2> QED BY <2>2, <2>3
<1>8. ASSUME NEW w \in Writer, GivesUp(w)
      PROVE  (Acyclic /\ KeysUnique /\ \A v \in fresh : Passes(pending[v]))'
  BY <1>7, <1>8 DEF GivesUp, IInv, TypeOK
<1>9. ASSUME NEW c \in Curriculum, NEW p \in Program, DeleteMember(c, p)
      PROVE  (Acyclic /\ KeysUnique /\ \A v \in fresh : Passes(pending[v]))'
  <2>1. /\ UNCHANGED <<program, keyVars, pending, fresh>> /\ raced = "no"
        /\ \A d \in Curriculum : members'[d] \subseteq members[d]
    BY <1>9 DEF DeleteMember, IInv, TypeOK
  <2>2. KeysUnique' BY <2>1, SameKeys DEF IInv
  <2>3. ASSUME NEW S \in SUBSET Program, Closed(S) PROVE Closed(S)'
    BY <2>1, <2>3 DEF Closed
  <2>4. ASSUME NEW q \in Program PROVE Children(q)' \subseteq Children(q)
    BY <2>1 DEF Children
  <2>5. Acyclic' BY <2>1, <2>3, <2>4, FewerEdges DEF IInv
  <2>6. ASSUME NEW v \in fresh' PROVE Passes(pending[v])'
    <3>1. PICK u \in Save : u = pending[v] /\ u = pending'[v] BY <2>1 DEF IInv, TypeOK
    <3>2. Passes(u) BY <2>1, <3>1 DEF IInv
    <3>3. Passes(u)' BY <1>9, <3>2, PassesDeleteMember DEF IInv
    <3> QED BY <3>1, <3>3 DEF Passes, CurriculumPasses, MemberPasses, CoursePasses, RunPasses
  <2> QED BY <2>2, <2>5, <2>6
<1>10. ASSUME NEW c \in Curriculum, NEW k \in Course, DeleteCourse(c, k)
       PROVE  (Acyclic /\ KeysUnique /\ \A v \in fresh : Passes(pending[v]))'
  <2>1. /\ UNCHANGED <<graphVars, course, key, pending, fresh>> /\ raced = "no"
        /\ \A d \in Curriculum : courses'[d] \subseteq courses[d]
    BY <1>10 DEF DeleteCourse, IInv, TypeOK
  <2>2. Acyclic' BY <2>1, SameGraph DEF IInv
  <2>3. program' = program BY <2>1 DEF graphVars
  <2>4. ASSUME NEW r \in Run, NEW s \in Run, Together(r, s)' PROVE Together(r, s)
    <3>1. (course[r] = course[s] /\ course[r] # Nowhere) \/ Linked(course[r], course[s])'
      BY <2>1, <2>4, TogetherThen
    <3>2. Linked(course[r], course[s])' => Linked(course[r], course[s])
      BY <2>1, <2>3 DEF Linked
    <3> QED BY <3>1, <3>2, TogetherIs DEF IInv
  <2>5. KeysUnique' BY <2>1, <2>4 DEF IInv, KeysUnique, HasKey
  <2>6. ASSUME NEW v \in fresh' PROVE Passes(pending[v])'
    <3>1. PICK u \in Save : u = pending[v] /\ u = pending'[v] BY <2>1 DEF IInv, TypeOK
    <3>2. Passes(u) BY <2>1, <3>1 DEF IInv
    <3>3. Passes(u)' BY <1>10, <2>1, <3>2, PassesDeleteCourse DEF IInv
    <3> QED BY <3>1, <3>3 DEF Passes, CurriculumPasses, MemberPasses, CoursePasses, RunPasses
  <2> QED BY <2>2, <2>5, <2>6
<1>11. CASE UNCHANGED vars BY <1>7, <1>11 DEF vars
<1> QED BY <1>1, <1>6, <1>8, <1>9, <1>10, <1>11 DEF Next

LEMMA IInvInvariant == Spec => []IInv
<1>1. Init => IInv BY InitIInv
<1>2. IInv /\ [Next]_vars => IInv' BY StepIInv
<1> QED BY <1>1, <1>2, PTL DEF Spec

---------------------------------------------------------------------------
(* The theorems.                                                           *)

\* Curricula, memberships and runs keep their types, and a run that is not
\* there has no external key.
THEOREM CurriculaTypeCorrect == Spec => []TypeOK
<1>1. IInv => TypeOK BY DEF IInv
<1> QED BY <1>1, IInvInvariant, PTL

\* The two receivers that look for cycles keep every program from containing
\* itself, for as long as no two writers race.
THEOREM NoCircularProgramsThm == Spec => []NoCircularPrograms
<1>1. IInv => NoCircularPrograms BY DEF IInv, NoCircularPrograms
<1> QED BY <1>1, IInvInvariant, PTL

\* The three receivers that look for external keys keep them unique in a course
\* and in all curricula of a program, for as long as no two writers race.
THEOREM KeysAreUniqueThm == Spec => []KeysAreUnique
<1>1. IInv => KeysAreUnique BY DEF IInv, KeysAreUnique, KeysUnique
<1> QED BY <1>1, IInvInvariant, PTL


---------------------------------------------------------------------------
(* The receivers refuse nothing that is harmless.                           *)

\* A program is visited if it is one of ps or a child of one that is: the closed
\* sets of Visits say the same as the descent of _find_in_programs.
THEOREM VisitsUnfolds ==
  ASSUME TypeOK, NEW ps \in SUBSET Program, NEW p \in Program
  PROVE  Visits(ps, p) <=> \/ p \in ps
                           \/ \E q \in Program : Visits(ps, q) /\ p \in Children(q)
<1>1. ASSUME NEW q \in Program, Visits(ps, q), p \in Children(q) PROVE Visits(ps, p)
  BY <1>1, ChildrenInClosed DEF Visits
<1>2. ASSUME Visits(ps, p), p \notin ps,
             \A q \in Program : Visits(ps, q) => p \notin Children(q)
      PROVE  FALSE
  <2> DEFINE R == {q \in Program : Visits(ps, q)} \ {p}
  <2>1. ASSUME NEW c \in Curriculum, program[c] \in R PROVE members[c] \subseteq R
    <3>1. members[c] \subseteq Children(program[c]) BY DEF Children
    <3>2. ASSUME NEW m \in members[c] PROVE m \in Program /\ Visits(ps, m) /\ m # p
      <4>1. m \in Program BY DEF TypeOK
      <4>2. m # p BY <1>2, <2>1, <3>1
      <4>3. ASSUME NEW S \in SUBSET Program, ps \subseteq S, Closed(S) PROVE m \in S
        BY <2>1, <4>3 DEF Visits, Closed
      <4> QED BY <4>1, <4>2, <4>3 DEF Visits
    <3> QED BY <3>2
  <2>2. Closed(R) BY <2>1 DEF Closed
  <2>3. ps \subseteq R BY <1>2 DEF Visits
  <2> QED BY <1>2, <2>2, <2>3 DEF Visits
<1>3. p \in ps => Visits(ps, p) BY DEF Visits
<1> QED BY <1>1, <1>2, <1>3

\* A curriculum that is refused its program p would put p on a cycle.  What is
\* visited below its members does not lead through the program it has now, for
\* this would be a cycle already.
LEMMA CurriculumBuildsCycle ==
  ASSUME TypeOK, Acyclic, NEW c \in Curriculum, NEW p \in Program, Visits(members[c], p),
         program' = [program EXCEPT ![c] = p], members' = members
  PROVE  ~Acyclic'
<1>1. /\ program'[c] = p /\ \A d \in Curriculum : d # c => program'[d] = program[d]
      /\ \A d \in Curriculum : members[d] \subseteq Program
  BY DEF TypeOK
<1>2. members[c] \subseteq Children(p)' BY <1>1 DEF Children
<1>3. ASSUME NEW S \in SUBSET Program, Children(p)' \subseteq S, Closed(S)' PROVE p \in S
  <2>1. CASE program[c] = NoProgram
    <3>1. Closed(S) BY <1>1, <1>3, <2>1 DEF Closed
    <3> QED BY <1>2, <1>3, <3>1 DEF Visits
  <2>2. CASE program[c] \in Program
    <3>1. PICK Q \in SUBSET Program : Children(program[c]) \subseteq Q /\ Closed(Q) /\ program[c] \notin Q
      BY <2>2 DEF Acyclic, OnCycle, Visits
    <3>2. members[c] \subseteq S \cap Q BY <1>2, <1>3, <3>1 DEF Children
    <3>3. Closed(S \cap Q) BY <1>1, <1>3, <3>1 DEF Closed
    <3> QED BY <3>2, <3>3 DEF Visits
  <2> QED BY <2>1, <2>2 DEF TypeOK
<1> QED BY <1>3 DEF Acyclic, OnCycle, Visits

\* A member that is refused would put the program of the curriculum on a cycle.
LEMMA MemberBuildsCycle ==
  ASSUME TypeOK, NEW c \in Curriculum, NEW m \in Program, program[c] \in Program,
         Visits({m}, program[c]),
         members' = [members EXCEPT ![c] = members[c] \cup {m}], program' = program
  PROVE  ~Acyclic'
<1>1. /\ members'[c] = members[c] \cup {m}
      /\ \A d \in Curriculum : d # c => members'[d] = members[d]
  BY DEF TypeOK
<1>2. m \in Children(program[c])' BY <1>1 DEF Children
<1>3. ASSUME NEW S \in SUBSET Program, Children(program[c])' \subseteq S, Closed(S)'
      PROVE  program[c] \in S
  <2>1. Closed(S) BY <1>1, <1>3 DEF Closed
  <2> QED BY <1>2, <1>3, <2>1 DEF Visits
<1> QED BY <1>3 DEF Acyclic, OnCycle, Visits

\* A curriculum, a course of a curriculum or a run that is refused would bring two
\* runs with one key together.
LEMMA CurriculumBringsTogether ==
  ASSUME TypeOK, NEW c \in Curriculum, NEW p \in Program \cup {NoProgram},
         ~NoDuplicate(RunsIn(c), RunsBeside(c, p)),
         program' = [program EXCEPT ![c] = p], UNCHANGED keyVars
  PROVE  ~KeysUnique'
<1>1. /\ program'[c] = p /\ \A d \in Curriculum : d # c => program'[d] = program[d]
      /\ courses' = courses /\ course' = course /\ key' = key
  BY DEF TypeOK, keyVars
<1>2. PICK r \in RunsIn(c), s \in RunsBeside(c, p) \ RunsIn(c) : HasKey(r) /\ key[s] = key[r]
  BY DEF NoDuplicate
<1>3. r \in Run /\ s \in Run /\ r # s
  BY <1>2 DEF RunsIn, RunsBeside, RunsUnder
<1>4. p # NoProgram /\ \E d \in Curriculum : program[d] = p /\ s \in RunsIn(d)
  BY <1>2 DEF RunsBeside, RunsUnder
<1>5. PICK d \in Curriculum : program[d] = p /\ s \in RunsIn(d) BY <1>4
<1>6. (r \in RunsIn(c) /\ s \in RunsIn(d) /\ program[d] = p /\ program[c] = p)'
  BY <1>1, <1>2, <1>5 DEF RunsIn
<1>7. (s \in RunsBeside(c, program[c]))' BY <1>4, <1>6 DEF RunsBeside, RunsUnder
<1>8. Together(r, s)' BY <1>6, <1>7 DEF Together
<1> QED BY <1>1, <1>2, <1>3, <1>8 DEF KeysUnique, HasKey

LEMMA CourseBringsTogether ==
  ASSUME TypeOK, NEW c \in Curriculum, NEW k \in Course, ~CoursePasses(c, k),
         courses' = [courses EXCEPT ![c] = courses[c] \cup {k}],
         UNCHANGED <<program, course, key>>
  PROVE  ~KeysUnique'
<1>1. /\ courses'[c] = courses[c] \cup {k} /\ \A d \in Curriculum : courses[d] \subseteq courses'[d]
      /\ program' = program /\ course' = course /\ key' = key
  BY DEF TypeOK
<1>2. PICK r \in Run, s \in RunsBeside(c, program[c]) :
        course[r] = k /\ course[s] # k /\ s \in Run /\ HasKey(r) /\ key[s] = key[r]
  BY DEF CoursePasses, NoDuplicate, RunsBeside, RunsUnder, RunsIn
<1>3. (r \in RunsIn(c))' BY <1>1, <1>2 DEF RunsIn
<1>4. (s \in RunsBeside(c, program[c]))' BY <1>1, <1>2 DEF RunsBeside, RunsUnder, RunsIn
<1>5. Together(r, s)' BY <1>3, <1>4 DEF Together
<1> QED BY <1>1, <1>2, <1>5 DEF KeysUnique, HasKey

LEMMA RunBringsTogether ==
  ASSUME TypeOK, NEW q \in Run, NEW k \in Course, NEW x \in ExternalKey \cup {NoKey},
         ~RunPasses(q, k, x), course' = [course EXCEPT ![q] = k], key' = [key EXCEPT ![q] = x],
         UNCHANGED <<program, courses>>
  PROVE  ~KeysUnique'
<1>1. /\ course'[q] = k /\ \A r \in Run : r # q => course'[r] = course[r]
      /\ key'[q] = x /\ \A r \in Run : r # q => key'[r] = key[r]
      /\ program' = program /\ courses' = courses /\ k # Nowhere /\ x # NoKey
  BY DEF TypeOK, RunPasses
<1>2. CASE CurriculaOf(k) = {}
  <2>1. PICK s \in Run : s # q /\ course[s] = k /\ key[s] = x BY <1>2 DEF RunPasses, Twin
  <2>2. Together(q, s)' BY <1>1, <2>1 DEF Together
  <2> QED BY <1>1, <2>1, <2>2 DEF KeysUnique, HasKey
<1>3. CASE CurriculaOf(k) # {}
  <2>1. PICK c \in Curriculum : k \in courses[c] /\ Twin(q, x, RunsBeside(c, program[c]))
    BY <1>3 DEF RunPasses, CurriculaOf
  <2>2. PICK s \in RunsBeside(c, program[c]) : s # q /\ key[s] = x BY <2>1 DEF Twin
  <2>3. s \in Run BY <2>2 DEF RunsBeside, RunsUnder, RunsIn
  <2>4. (q \in RunsIn(c))' BY <1>1, <2>1 DEF RunsIn
  <2>5. (s \in RunsBeside(c, program[c]))'
    BY <1>1, <2>2, <2>3 DEF RunsBeside, RunsUnder, RunsIn
  <2>6. Together(q, s)' BY <2>4, <2>5 DEF Together
  <2> QED BY <1>1, <2>2, <2>3, <2>6 DEF KeysUnique, HasKey
<1> QED BY <1>2, <1>3

\* The row of save s is written, whatever the receivers say.
Writes(s) ==
  \/ /\ s.kind = "curriculum"
     /\ program' = [program EXCEPT ![s.curriculum] = s.program]
     /\ UNCHANGED <<members, keyVars>>
  \/ /\ s.kind = "program"
     /\ members' = [members EXCEPT ![s.curriculum] = members[s.curriculum] \cup {s.program}]
     /\ UNCHANGED <<program, keyVars>>
  \/ /\ s.kind = "course"
     /\ courses' = [courses EXCEPT ![s.curriculum] = courses[s.curriculum] \cup {s.course}]
     /\ UNCHANGED <<graphVars, course, key>>
  \/ /\ s.kind = "run"
     /\ course' = [course EXCEPT ![s.run] = s.course]
     /\ key' = [key EXCEPT ![s.run] = s.key]
     /\ UNCHANGED <<graphVars, courses>>

\* That is how the writers write.
LEMMA WritersWrite ==
  ASSUME NEW w \in Writer, WriteCurriculum(w) \/ WriteMember(w) \/ WriteCourse(w) \/ WriteRun(w)
  PROVE  Writes(pending[w])
BY DEF WriteCurriculum, WriteMember, WriteCourse, WriteRun, Writes

\* The receivers are exact: as long as the programs have no cycle and the keys are
\* unique, they let a save pass if and only if this is still so when its row is
\* written.  No early return lets a cycle or a duplicate in, and none of the four
\* receivers refuses a save that would do no harm, although that of the
\* curriculum looks at the programs as they are before the curriculum has moved.
THEOREM ReceiversAreExact ==
  ASSUME TypeOK, Acyclic, KeysUnique, NEW s \in Save, Writes(s)
  PROVE  Passes(s) <=> (Acyclic /\ KeysUnique)'
<1>1. CASE s.kind = "curriculum"
  <2>1. PICK c \in Curriculum, p \in Program \cup {NoProgram} :
          /\ c = s.curriculum /\ p = s.program
          /\ program' = [program EXCEPT ![c] = p] /\ members' = members /\ UNCHANGED keyVars
    BY <1>1, SaveKinds DEF Writes
  <2>2. Passes(s) <=> CurriculumPasses(c, p) BY <1>1, <2>1 DEF Passes
  <2>3. CurriculumPasses(c, p) => (Acyclic /\ KeysUnique)'
    BY <2>1, CurriculumKeepsAcyclic, CurriculumKeepsKeys
  <2>4. Acyclic => Ends(members[c]) BY DEF Acyclic, Ends
  <2>5. ~CurriculumPasses(c, p) => ~Acyclic' \/ ~KeysUnique'
    BY <2>1, <2>4, CurriculumBuildsCycle, CurriculumBringsTogether DEF CurriculumPasses
  <2> QED BY <2>2, <2>3, <2>5
<1>2. CASE s.kind = "program"
  <2>1. PICK c \in Curriculum, p \in Program :
          /\ c = s.curriculum /\ p = s.program /\ UNCHANGED keyVars
          /\ members' = [members EXCEPT ![c] = members[c] \cup {p}] /\ program' = program
    BY <1>2, SaveKinds DEF Writes
  <2>2. Passes(s) <=> MemberPasses(c, p) BY <1>2, <2>1 DEF Passes
  <2>3. MemberPasses(c, p) => Acyclic' BY <2>1, MemberKeepsAcyclic
  <2>4. KeysUnique' BY <2>1, SameKeys DEF keyVars
  <2>5. Acyclic => Ends({p}) BY DEF Acyclic, Ends
  <2>6. ~MemberPasses(c, p) => ~Acyclic'
    BY <2>1, <2>5, MemberBuildsCycle DEF MemberPasses, TypeOK
  <2> QED BY <2>2, <2>3, <2>4, <2>6
<1>3. CASE s.kind = "course"
  <2>1. PICK c \in Curriculum, k \in Course :
          /\ c = s.curriculum /\ k = s.course /\ UNCHANGED <<graphVars, course, key>>
          /\ courses' = [courses EXCEPT ![c] = courses[c] \cup {k}]
    BY <1>3, SaveKinds DEF Writes
  <2>2. Passes(s) <=> CoursePasses(c, k) BY <1>3, <2>1 DEF Passes
  <2>3. Acyclic' BY <2>1, SameGraph DEF graphVars
  <2>4. CoursePasses(c, k) => KeysUnique' BY <2>1, CourseKeepsKeys DEF graphVars
  <2>5. ~CoursePasses(c, k) => ~KeysUnique' BY <2>1, CourseBringsTogether DEF graphVars
  <2> QED BY <2>2, <2>3, <2>4, <2>5
<1>4. CASE s.kind = "run"
  <2>1. PICK r \in Run, k \in Course, x \in ExternalKey \cup {NoKey} :
          /\ r = s.run /\ k = s.course /\ x = s.key /\ UNCHANGED <<graphVars, courses>>
          /\ course' = [course EXCEPT ![r] = k] /\ key' = [key EXCEPT ![r] = x]
    BY <1>4, SaveKinds DEF Writes
  <2>2. Passes(s) <=> RunPasses(r, k, x) BY <1>4, <2>1 DEF Passes
  <2>3. Acyclic' BY <2>1, SameGraph DEF graphVars
  <2>4. RunPasses(r, k, x) => KeysUnique' BY <2>1, RunKeepsKeys DEF graphVars
  <2>5. ~RunPasses(r, k, x) => ~KeysUnique' BY <2>1, RunBringsTogether DEF graphVars
  <2> QED BY <2>2, <2>3, <2>4, <2>5
<1> QED BY <1>1, <1>2, <1>3, <1>4 DEF Writes
============================================================================
