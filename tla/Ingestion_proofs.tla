-------------------------- MODULE Ingestion_proofs --------------------------
(***************************************************************************)
(* Proofs about Ingestion, for every set of products, variants, schedules  *)
(* and bulk operations and for all bounds.                                 *)
(***************************************************************************)
EXTENDS Ingestion, SequenceTheorems, TLAPS

USE IngestionAssumption

---------------------------------------------------------------------------
(* The inductive invariant.                                                *)

\* Until a worker has taken the message the operation is Pending.
TaskInv ==
  \A t \in Task :
    /\ task[t].message # "taken" => task[t].status = "pending" /\ worker[t].at = "idle"
    /\ worker[t].at # "idle" => task[t].status = "processing"

\* Rows that have been taken up are accounted for.
RowInv ==
  /\ loader.todo \subseteq loader.rows
  /\ \A v \in loader.rows \ loader.todo : CourseOf[v] \in loader.listed

\* The run in hand is one of the row's product, and has the row's variant or none
\* as long as no editor gives out a variant.
HandInv ==
  /\ loader.at \in {"course", "run"} => runs[loader.run].course = CourseOf[loader.row]
  /\ handed = "no" =>
       /\ loader.at \in {"course", "run"} =>
            runs[loader.run].variant \in {NoVariant, loader.row}
       /\ loader.at = "made_run" =>
            \A k \in DOMAIN runs : IsNewest(k, RunsOf(CourseOf[loader.row])) =>
                                     runs[k].variant = NoVariant
       /\ loader.at = "made_course" =>
            \A k \in RunsOf(CourseOf[loader.row]) : runs[k].variant = NoVariant

\* After the PATCH the run has the fields of the row, and so has the loader's copy.
WrittenInv ==
  loader.inReview = "no" /\ touched = "no" =>
    /\ loader.at = "refresh" => runs[loader.run].content = "sheet"
    /\ loader.at = "review" => loader.content = "sheet"

\* What a loader is about to submit or to review has not gone live.
LiveInv ==
  touched = "no" =>
    /\ loader.at = "review" => runs[loader.run].status = "in_review"
    /\ \A t \in Task :
         worker[t].at \in {"found", "course", "patched"} /\ worker[t].unpublished = "yes" =>
           runs[worker[t].run].status \in {"unpublished", "in_review"}

\* A rerun is not looked at because it has just been made.
RerunInv ==
  \A t \in Task : worker[t].kind = "course_rerun" /\ worker[t].at \in {"found", "course", "patched"} =>
    worker[t].unpublished = "yes"

\* Every run with a variant belongs to the variant's course.
OwnInv ==
  \A k \in DOMAIN runs : runs[k].variant # NoVariant => runs[k].course = CourseOf[runs[k].variant]

\* Without the switch no run gets a variant.
NoVariants == \A k \in DOMAIN runs : runs[k].variant = NoVariant

\* With it, and as long as none is left behind, the loader is busy with the only
\* run that has no variant, and no run has the one of its row.
Alone ==
  /\ loader.at \notin {"made_course", "made_run", "course", "run"} =>
       \A k \in DOMAIN runs : runs[k].variant # NoVariant
  /\ \A j, k \in DOMAIN runs :
       runs[j].variant = NoVariant /\ runs[k].variant = NoVariant => j = k
  /\ loader.at \in {"course", "run"} =>
       \A k \in DOMAIN runs : k # loader.run => runs[k].variant # NoVariant
  /\ \/ loader.at \in {"made_course", "made_run"}
     \/ loader.at \in {"course", "run"} /\ runs[loader.run].variant = NoVariant
     => \A k \in DOMAIN runs : runs[k].variant # loader.row
  /\ \A j, k \in DOMAIN runs :
       j # k /\ runs[j].variant # NoVariant => runs[j].variant # runs[k].variant

DistinctInv ==
  stray = "no" =>
    /\ handed = "no"
    /\ OwnInv
    /\ ~VariantEditable => NoVariants
    /\ VariantEditable => Alone

IInv == /\ TypeOK /\ TaskInv /\ RowInv /\ HandInv /\ WrittenInv /\ LiveInv /\ RerunInv
        /\ DistinctInv

---------------------------------------------------------------------------
(* What the three ways to write the rows do.                               *)

\* The two origins.
LEMMA ContentLemma == "sheet" \in Content /\ "other" \in Content
BY DEF Content

\* Saving a run changes that run, and not its course.
LEMMA SaveLemma ==
  ASSUME runs \in Seq(Run), NEW k \in DOMAIN runs,
         NEW variant \in Variant \cup {NoVariant}, NEW schedule \in Schedule,
         NEW status \in Status, NEW content \in Content,
         Save(k, variant, schedule, status, content)
  PROVE  /\ runs' \in Seq(Run) /\ Len(runs') = Len(runs) /\ DOMAIN runs' = DOMAIN runs
         /\ runs'[k].course = runs[k].course /\ runs'[k].variant = variant
         /\ runs'[k].status = status /\ runs'[k].content = content
         /\ \A j \in DOMAIN runs : j # k => runs'[j] = runs[j]
<1> DEFINE row == [course |-> runs[k].course, variant |-> variant, schedule |-> schedule,
                   status |-> status, content |-> content]
<1>1. k \in 1..Len(runs) /\ runs[k] \in Run OBVIOUS
<1>2. row \in Run BY <1>1 DEF Run
<1>3. runs' = [runs EXCEPT ![k] = row] BY DEF Save
<1> HIDE DEF row
<1>4. /\ runs' \in Seq(Run) /\ Len(runs') = Len(runs) /\ DOMAIN runs' = DOMAIN runs
      /\ runs'[k] = row
      /\ \A j \in DOMAIN runs : j # k => runs'[j] = runs[j]
  BY <1>1, <1>2, <1>3
<1> QED BY <1>4 DEF row

\* A new run comes last.
LEMMA AddLemma ==
  ASSUME runs \in Seq(Run), NEW c \in Course, NEW s \in Schedule,
         NEW v \in Variant \cup {NoVariant}, Add(c, s, v)
  PROVE  /\ runs' \in Seq(Run) /\ Len(runs') = Len(runs) + 1 /\ Len(runs') <= MaxRuns
         /\ DOMAIN runs' = DOMAIN runs \cup {Len(runs) + 1}
         /\ \A j \in DOMAIN runs : j \in Nat /\ j < Len(runs) + 1
         /\ \A j \in DOMAIN runs : runs'[j] = runs[j]
         /\ runs'[Len(runs) + 1].course = c
         /\ runs'[Len(runs) + 1].variant = v
         /\ runs'[Len(runs) + 1].status = "unpublished"
<1> DEFINE row == [course |-> c, variant |-> v, schedule |-> s,
                   status |-> "unpublished", content |-> "other"]
<1>1. row \in Run BY DEF Run, Status, Content
<1>2. runs' = Append(runs, row) /\ Len(runs) < MaxRuns BY DEF Add
<1> HIDE DEF row
<1>3. /\ runs' \in Seq(Run) /\ Len(runs') = Len(runs) + 1 /\ Len(runs') <= MaxRuns
      /\ DOMAIN runs' = DOMAIN runs \cup {Len(runs) + 1}
      /\ \A j \in DOMAIN runs : j \in Nat /\ j < Len(runs) + 1
      /\ \A j \in DOMAIN runs : runs'[j] = runs[j]
      /\ runs'[Len(runs) + 1] = row
  BY <1>1, <1>2
<1> QED BY <1>3 DEF row

\* Saving a course changes at most the status of its Reviewed runs.
LEMMA SaveCourseLemma ==
  ASSUME runs \in Seq(Run), NEW c \in Course, NEW changed \in BOOLEAN, SaveCourse(c, changed)
  PROVE  /\ runs' \in Seq(Run) /\ Len(runs') = Len(runs) /\ DOMAIN runs' = DOMAIN runs
         /\ \A j \in DOMAIN runs :
              /\ runs'[j].course = runs[j].course
              /\ runs'[j].variant = runs[j].variant
              /\ runs'[j].content = runs[j].content
              /\ \/ runs'[j].status = runs[j].status
                 \/ runs[j].status = "reviewed" /\ runs'[j].status = "unpublished"
<1> DEFINE row(j) == IF runs[j].course = c /\ runs[j].status = "reviewed"
                     THEN [course |-> c, variant |-> runs[j].variant,
                           schedule |-> runs[j].schedule,
                           status |-> "unpublished", content |-> runs[j].content]
                     ELSE runs[j]
<1>1. CASE ~changed BY <1>1 DEF SaveCourse
<1>2. CASE changed
  <2>1. runs' = [j \in DOMAIN runs |-> row(j)] BY <1>2 DEF SaveCourse
  <2>2. ASSUME NEW j \in DOMAIN runs
        PROVE  /\ row(j) \in Run
               /\ row(j).course = runs[j].course /\ row(j).variant = runs[j].variant
               /\ row(j).content = runs[j].content
               /\ \/ row(j).status = runs[j].status
                  \/ runs[j].status = "reviewed" /\ row(j).status = "unpublished"
    <3>1. runs[j] \in Run OBVIOUS
    <3> QED BY <3>1 DEF Run, Status
  <2> HIDE DEF row
  <2>3. DOMAIN runs = 1..Len(runs) /\ Len(runs) \in Nat OBVIOUS
  <2>4. runs' \in [1..Len(runs) -> Run] BY <2>1, <2>2, <2>3
  <2>5. runs' \in Seq(Run) /\ Len(runs') = Len(runs) /\ DOMAIN runs' = DOMAIN runs
    BY <2>3, <2>4
  <2>6. \A j \in DOMAIN runs : runs'[j] = row(j) BY <2>1
  <2> QED BY <2>2, <2>5, <2>6
<1> QED BY <1>1, <1>2

---------------------------------------------------------------------------
(* The steps of editors.                                                   *)

\* Frame: the bulk operations are left alone.
LEMMA BulkFrame ==
  ASSUME IInv, UNCHANGED bulkVars
  PROVE  TaskInv' /\ RerunInv'
BY DEF IInv, TaskInv, RerunInv, bulkVars

\* The status a PATCH leaves is a status.
LEMMA StatusAfterPatchLemma ==
  ASSUME NEW status \in Status, NEW isDraft \in YesNo, NEW changed \in BOOLEAN
  PROVE  /\ StatusAfterPatch(status, isDraft, changed) \in Status
         /\ status = "published" => StatusAfterPatch(status, isDraft, changed) = "published"
         /\ status = "unpublished" =>
              StatusAfterPatch(status, isDraft, changed) \in {"unpublished", "in_review"}
BY DEF StatusAfterPatch, Status, YesNo

\* The loader stays where it is, or goes on with the row and the run it has, or
\* is done with them.
GoesOn ==
  \/ loader' = loader
  \/ /\ loader.at = "course" /\ loader'.at = "run"
     /\ loader'.row = loader.row /\ loader'.run = loader.run
  \/ loader.at \in {"refresh", "review"} /\ loader'.at \in {"review", "rows"}

\* Frame: no run changes its course or its variant.
LEMMA VariantFrame ==
  ASSUME IInv, DOMAIN runs' = DOMAIN runs, GoesOn, UNCHANGED <<stray, handed>>,
         \A j \in DOMAIN runs : /\ runs'[j].course = runs[j].course
                                /\ runs'[j].variant = runs[j].variant
  PROVE  HandInv' /\ DistinctInv'
<1>1. \A c : RunsOf(c)' = RunsOf(c) BY DEF RunsOf
<1>2. loader.at \in {"course", "run"} => loader.run \in DOMAIN runs
  BY DEF IInv, TypeOK
<1>3. HandInv'
  <2>1. /\ loader'.at \in {"course", "run"} =>
             runs'[loader'.run].course = CourseOf[loader'.row]
        /\ handed = "no" /\ loader'.at \in {"course", "run"} =>
             runs'[loader'.run].variant \in {NoVariant, loader'.row}
    BY <1>2 DEF IInv, HandInv, GoesOn
  <2>2. loader'.at \in {"made_run", "made_course"} => loader' = loader BY DEF GoesOn
  <2>3. handed = "no" /\ loader.at = "made_run" =>
          \A j \in DOMAIN runs : IsNewest(j, RunsOf(CourseOf[loader.row])) =>
                                   runs'[j].variant = NoVariant
    BY DEF IInv, HandInv
  <2>4. handed = "no" /\ loader.at = "made_course" =>
          \A j \in RunsOf(CourseOf[loader.row]) : runs'[j].variant = NoVariant
    BY DEF IInv, HandInv, RunsOf
  <2>5. loader' = loader => RunsOf(CourseOf[loader.row])' = RunsOf(CourseOf[loader.row])
    BY <1>1
  <2> QED BY <2>1, <2>2, <2>3, <2>4, <2>5 DEF HandInv, IsNewest
<1>4. DistinctInv'
  <2>1. OwnInv => OwnInv' BY DEF OwnInv
  <2>2. NoVariants => NoVariants' BY DEF NoVariants
  <2>3. Alone => Alone' BY <1>2 DEF Alone, GoesOn
  <2> QED BY <2>1, <2>2, <2>3 DEF IInv, DistinctInv
<1> QED BY <1>3, <1>4

\* A run is saved by somebody else than the loaders: those that have it in hand
\* are marked, and a variant that is given out is noted.
LEMMA ForeignSave ==
  ASSUME IInv, NEW k \in DOMAIN runs, NEW variant \in Variant \cup {NoVariant},
         NEW schedule \in Schedule, NEW status \in Status, NEW content \in Content,
         Save(k, variant, schedule, status, content),
         Touch(k), UNCHANGED <<product, loader, bulkVars>>,
         handed' \in YesNo, stray' \in YesNo,
         \/ variant = runs[k].variant /\ UNCHANGED <<stray, handed>>
         \/ stray' = "yes" /\ (HasRow => handed' = "yes")
  PROVE  IInv'
<1>3. /\ runs' \in Seq(Run) /\ Len(runs') = Len(runs) /\ DOMAIN runs' = DOMAIN runs
      /\ runs'[k].course = runs[k].course /\ runs'[k].variant = variant
      /\ \A j \in DOMAIN runs : j # k => runs'[j] = runs[j]
  BY SaveLemma DEF IInv, TypeOK
<1>5. touched' = "no" => /\ touched = "no" /\ ~HeldByCsv(k)
                         /\ \A t \in Task : ~HeldByBulk(t, k)
  BY DEF Touch, Touched
<1>6. TypeOK'
  <2>1. touched' \in YesNo BY DEF IInv, TypeOK, Touch, Touched, YesNo
  <2> QED BY <1>3, <2>1 DEF IInv, TypeOK, bulkVars
<1>7. RowInv' BY DEF IInv, RowInv
<1>8. HandInv' /\ DistinctInv'
  <2>1. CASE variant = runs[k].variant /\ UNCHANGED <<stray, handed>>
    <3>1. \A j \in DOMAIN runs : /\ runs'[j].course = runs[j].course
                                  /\ runs'[j].variant = runs[j].variant
      BY <2>1, <1>3
    <3> QED BY <2>1, <3>1, <1>3, VariantFrame DEF GoesOn
  <2>2. CASE stray' = "yes" /\ (HasRow => handed' = "yes")
    <3>1. DistinctInv' BY <2>2 DEF DistinctInv
    <3>2. loader.at \in {"course", "run"} => runs'[loader.run].course = CourseOf[loader.row]
      BY <1>3 DEF IInv, TypeOK, HandInv
    <3>3. handed' = "no" => loader.at \notin {"made_course", "made_run", "course", "run"}
      BY <2>2 DEF HasRow
    <3> QED BY <3>1, <3>2, <3>3 DEF HandInv
  <2> QED BY <2>1, <2>2
<1>9. WrittenInv' BY <1>3, <1>5 DEF IInv, TypeOK, WrittenInv, HeldByCsv
<1>10. LiveInv'
  <2> SUFFICES ASSUME touched' = "no" PROVE LiveInv' BY DEF LiveInv
  <2>1. loader.at = "review" => runs'[loader.run].status = "in_review"
    BY <1>3, <1>5 DEF IInv, TypeOK, LiveInv, HeldByCsv
  <2>2. ASSUME NEW t \in Task, worker[t].at \in {"found", "course", "patched"},
               worker[t].unpublished = "yes"
        PROVE  runs'[worker[t].run].status \in {"unpublished", "in_review"}
    BY <1>3, <1>5, <2>2 DEF IInv, TypeOK, LiveInv, HeldByBulk
  <2> QED BY <2>1, <2>2 DEF LiveInv, bulkVars
<1> QED BY <1>6, <1>7, <1>8, <1>9, <1>10, BulkFrame DEF IInv

LEMMA EditRunStep ==
  ASSUME IInv, NEW k \in Key, NEW isDraft \in YesNo, NEW changed \in BOOLEAN,
         NEW s \in Schedule, NEW v \in Variant \cup {NoVariant},
         EditRun(k, isDraft, changed, s, v)
  PROVE  IInv'
<1>1. k \in DOMAIN runs /\ runs[k] \in Run BY DEF EditRun, IInv, TypeOK
<1>2. StatusAfterPatch(runs[k].status, isDraft, changed) \in Status
  BY <1>1, StatusAfterPatchLemma DEF Run
<1>3. /\ handed' \in YesNo /\ stray' \in YesNo
      /\ \/ v = runs[k].variant /\ UNCHANGED <<stray, handed>>
         \/ stray' = "yes" /\ (HasRow => handed' = "yes")
  BY DEF EditRun, HandsOut, IInv, TypeOK, YesNo
<1> QED BY <1>1, <1>2, <1>3, ForeignSave, ContentLemma DEF EditRun

LEMMA MoveOnStep ==
  ASSUME IInv, NEW k \in Key, NEW from, NEW to \in Status, MoveOn(k, from, to)
  PROVE  IInv'
<1>1. k \in DOMAIN runs /\ runs[k] \in Run BY DEF MoveOn, IInv, TypeOK
<1>2. /\ runs[k].content \in Content /\ runs[k].variant \in Variant \cup {NoVariant}
      /\ runs[k].schedule \in Schedule
  BY <1>1 DEF Run
<1>3. UNCHANGED <<stray, handed>> /\ handed \in YesNo /\ stray \in YesNo
  BY DEF MoveOn, IInv, TypeOK
<1> QED BY <1>1, <1>2, <1>3, ForeignSave DEF MoveOn, SaveStatus

\* A run is created by somebody else than the loader.
LEMMA ForeignAdd ==
  ASSUME IInv, NEW c \in Course, NEW s \in Schedule,
         NEW v \in Variant \cup {NoVariant}, Add(c, s, v),
         UNCHANGED <<loader, touched>>, stray' = "yes",
         handed' = "no" => handed = "no" /\ (v = NoVariant \/ ~HasRow)
  PROVE  RowInv' /\ HandInv' /\ WrittenInv' /\ DistinctInv'
<1> DEFINE n == Len(runs) + 1
<1>1. /\ runs' \in Seq(Run) /\ Len(runs') = n /\ Len(runs') <= MaxRuns
      /\ DOMAIN runs' = DOMAIN runs \cup {n}
      /\ \A j \in DOMAIN runs : j \in Nat /\ j < n
      /\ \A j \in DOMAIN runs : runs'[j] = runs[j]
      /\ runs'[n].course = c /\ runs'[n].variant = v
      /\ runs'[n].status = "unpublished"
  BY AddLemma DEF IInv, TypeOK
<1> HIDE DEF n
<1>2. UNCHANGED <<loader, touched>> /\ stray' = "yes" OBVIOUS
<1>3. RowInv' BY <1>2 DEF IInv, RowInv
<1>4. WrittenInv' BY <1>1, <1>2 DEF IInv, TypeOK, WrittenInv
<1>5. HandInv'
  <2>1. /\ loader.at \in {"course", "run"} =>
             runs'[loader.run].course = CourseOf[loader.row]
        /\ handed' = "no" /\ loader.at \in {"course", "run"} =>
             runs'[loader.run].variant \in {NoVariant, loader.row}
    BY <1>1 DEF IInv, TypeOK, HandInv
  <2>2. ASSUME handed' = "no", loader.at = "made_run", NEW k \in DOMAIN runs',
               IsNewest(k, RunsOf(CourseOf[loader.row])')
        PROVE  runs'[k].variant = NoVariant
    <3>1. CASE k = n BY <3>1, <1>1, <2>2 DEF HasRow
    <3>2. CASE k # n
      <4>1. k \in DOMAIN runs BY <3>2, <1>1
      <4>2. /\ k \in RunsOf(CourseOf[loader.row])
            /\ \A j \in RunsOf(CourseOf[loader.row])' : j <= k
        BY <4>1, <1>1, <1>2, <2>2 DEF IsNewest, RunsOf
      <4>3. RunsOf(CourseOf[loader.row]) \subseteq RunsOf(CourseOf[loader.row])'
        BY <1>1, <1>2 DEF RunsOf
      <4>4. IsNewest(k, RunsOf(CourseOf[loader.row])) BY <4>2, <4>3 DEF IsNewest
      <4> QED BY <4>1, <4>4, <1>1, <2>2 DEF IInv, HandInv
    <3> QED BY <3>1, <3>2
  <2>3. handed' = "no" /\ loader.at = "made_course" =>
          \A k \in RunsOf(CourseOf[loader.row])' : runs'[k].variant = NoVariant
    <3> SUFFICES ASSUME handed' = "no", loader.at = "made_course",
                        NEW k \in RunsOf(CourseOf[loader.row])'
                 PROVE  runs'[k].variant = NoVariant
      OBVIOUS
    <3>1. k = n \/ k \in RunsOf(CourseOf[loader.row]) BY <1>1, <1>2 DEF RunsOf
    <3>2. k \in RunsOf(CourseOf[loader.row]) => k \in DOMAIN runs /\ runs[k].variant = NoVariant
      BY DEF IInv, HandInv, RunsOf
    <3> QED BY <3>1, <3>2, <1>1 DEF HasRow
  <2> QED BY <2>1, <2>2, <2>3, <1>2 DEF HandInv
<1>6. DistinctInv' BY <1>2 DEF DistinctInv
<1> QED BY <1>3, <1>4, <1>5, <1>6

LEMMA EditorCreatesRunStep ==
  ASSUME IInv, NEW c \in Course, NEW s \in Schedule, NEW v \in Variant \cup {NoVariant},
         EditorCreatesRun(c, s, v)
  PROVE  IInv'
<1>1. /\ runs' \in Seq(Run) /\ Len(runs') <= MaxRuns
      /\ DOMAIN runs \subseteq DOMAIN runs'
      /\ \A j \in DOMAIN runs : runs'[j] = runs[j]
  BY AddLemma DEF IInv, TypeOK, EditorCreatesRun
<1>2. /\ UNCHANGED <<product, loader, bulkVars, touched>> /\ stray' = "yes"
      /\ handed' \in YesNo
      /\ handed' = "no" => handed = "no" /\ (v = NoVariant \/ ~HasRow)
  BY DEF EditorCreatesRun, IInv, TypeOK, YesNo
<1>3. TypeOK' BY <1>1, <1>2 DEF IInv, TypeOK, bulkVars, YesNo
<1>4. LiveInv' BY <1>1, <1>2 DEF IInv, TypeOK, LiveInv, bulkVars
<1>5. RowInv' /\ HandInv' /\ WrittenInv' /\ DistinctInv'
  BY <1>2, ForeignAdd DEF EditorCreatesRun
<1> QED BY <1>2, <1>3, <1>4, <1>5, BulkFrame DEF IInv

LEMMA EditorStepLemma ==
  ASSUME IInv, EditorStep
  PROVE  IInv'
<1>1. ASSUME NEW k \in Key, NEW isDraft \in YesNo, NEW changed \in BOOLEAN,
             NEW s \in Schedule, NEW v \in Variant \cup {NoVariant},
             EditRun(k, isDraft, changed, s, v)
      PROVE  IInv'
  BY <1>1, EditRunStep
<1>2. ASSUME NEW k \in Key, MoveOn(k, "in_review", "reviewed") PROVE IInv'
  BY <1>2, MoveOnStep DEF Status
<1>3. ASSUME NEW k \in Key, MoveOn(k, "reviewed", "published") PROVE IInv'
  BY <1>3, MoveOnStep DEF Status
<1>4. ASSUME NEW c \in Course, NEW s \in Schedule, NEW v \in Variant \cup {NoVariant},
             EditorCreatesRun(c, s, v)
      PROVE  IInv'
  BY <1>4, EditorCreatesRunStep
<1> QED BY <1>1, <1>2, <1>3, <1>4 DEF EditorStep

---------------------------------------------------------------------------
(* The steps of the CSV loader.                                            *)

\* The loader leaves its row, without writing a run.
LEMMA LeavesRow ==
  ASSUME IInv, UNCHANGED <<runs, bulkVars, touched>>, loader' \in Loader,
         loader'.at \in {"idle", "rows", "refresh"},
         loader'.at = "refresh" => /\ loader'.inReview = "yes"
                                   /\ loader'.row \in Variant /\ loader'.run \in DOMAIN runs,
         product' \in [Course -> {"none", "published", "archived"}],
         RowInv', stray' \in YesNo, handed' \in YesNo,
         handed' = "no" \/ handed' = handed,
         stray' = "no" => /\ stray = "no"
                          /\ loader.at \notin {"made_course", "made_run"}
                          /\ loader.at \in {"course", "run"} =>
                               runs[loader.run].variant # NoVariant
  PROVE  IInv'
<1>1. TypeOK' BY DEF IInv, TypeOK, bulkVars
<1>2. HandInv' BY DEF HandInv
<1>3. WrittenInv' BY DEF WrittenInv
<1>4. LiveInv' BY DEF IInv, LiveInv, bulkVars
<1>5. DistinctInv'
  <2>1. OwnInv => OwnInv' BY DEF OwnInv
  <2>2. NoVariants => NoVariants' BY DEF NoVariants
  <2>3. Alone /\ stray' = "no" => Alone' BY DEF Alone
  <2> QED BY <2>1, <2>2, <2>3 DEF IInv, DistinctInv
<1> QED BY <1>1, <1>2, <1>3, <1>4, <1>5, BulkFrame DEF IInv

\* What a row that ends leaves behind.
LEMMA LeaveBehindLemma ==
  ASSUME IInv, LeaveBehind
  PROVE  /\ stray' \in YesNo /\ handed' = "no" /\ handed' \in YesNo
         /\ stray' = "no" => /\ stray = "no"
                             /\ loader.at \notin {"made_course", "made_run"}
                             /\ loader.at \in {"course", "run"} =>
                                  runs[loader.run].variant # NoVariant
BY DEF IInv, TypeOK, LeaveBehind, YesNo

LEMMA StartIngestStep ==
  ASSUME IInv, NEW rows \in SUBSET Variant, StartIngest(rows)
  PROVE  IInv'
<1>1. /\ loader' \in Loader /\ loader'.at = "rows" /\ loader'.todo = loader'.rows
      /\ loader.at = "idle" /\ UNCHANGED <<product, bulkVars, touched, stray, handed>>
  BY DEF StartIngest, Reading, NoRun, Loader, Phases, YesNo, Content
<1>2. ASSUME NEW j \in DOMAIN runs
      PROVE  /\ FromElsewhere(runs[j]) \in Run
             /\ FromElsewhere(runs[j]).course = runs[j].course
             /\ FromElsewhere(runs[j]).variant = runs[j].variant
             /\ FromElsewhere(runs[j]).status = runs[j].status
  <2>1. runs[j] \in Run BY DEF IInv, TypeOK
  <2> QED BY <2>1 DEF Run, FromElsewhere, Content
<1>3. runs' = [j \in DOMAIN runs |-> FromElsewhere(runs[j])] BY DEF StartIngest
<1>4. DOMAIN runs = 1..Len(runs) /\ Len(runs) \in Nat BY DEF IInv, TypeOK
<1>5. runs' \in [1..Len(runs) -> Run] BY <1>2, <1>3, <1>4
<1>6. runs' \in Seq(Run) /\ Len(runs') = Len(runs) /\ DOMAIN runs' = DOMAIN runs
  BY <1>4, <1>5
<1>7. \A j \in DOMAIN runs : /\ runs'[j].course = runs[j].course
                             /\ runs'[j].variant = runs[j].variant
                             /\ runs'[j].status = runs[j].status
  BY <1>2, <1>3
<1>8. TypeOK' BY <1>1, <1>6 DEF IInv, TypeOK, bulkVars
<1>9. RowInv' /\ HandInv' /\ WrittenInv' BY <1>1 DEF RowInv, HandInv, WrittenInv
<1>10. LiveInv' BY <1>1, <1>6, <1>7 DEF IInv, TypeOK, LiveInv, bulkVars
<1>11. DistinctInv'
  <2>1. OwnInv => OwnInv' BY <1>6, <1>7 DEF OwnInv
  <2>2. NoVariants => NoVariants' BY <1>6, <1>7 DEF NoVariants
  <2>3. Alone => Alone' BY <1>1, <1>6, <1>7 DEF Alone
  <2> QED BY <2>1, <2>2, <2>3, <1>1 DEF IInv, DistinctInv
<1> QED BY <1>1, <1>8, <1>9, <1>10, <1>11, BulkFrame DEF IInv

LEMMA SkipRowStep ==
  ASSUME IInv, NEW v \in Variant, SkipRow(v)
  PROVE  IInv'
<1>1. /\ loader' \in Loader /\ loader'.at = "rows" /\ loader'.rows = loader.rows
      /\ loader'.todo = loader.todo \ {v}
      /\ loader'.listed = loader.listed \cup {CourseOf[v]}
  BY DEF SkipRow, Loader, IInv, TypeOK
<1>2. RowInv' BY <1>1 DEF IInv, RowInv
<1> QED BY <1>1, <1>2, LeavesRow DEF SkipRow, rowVars, IInv, TypeOK

\* The record of the loader that has taken up row v.
LEMMA TakenLemma ==
  ASSUME IInv, NEW v \in Variant, NEW at \in Phases, NEW run \in Nat,
         NEW inReview \in YesNo, NEW isDraft \in YesNo,
         loader' = Taken(v, at, run, inReview, isDraft)
  PROVE  /\ loader' \in Loader /\ loader'.at = at /\ loader'.row = v /\ loader'.run = run
         /\ RowInv'
<1>1. /\ loader' \in Loader /\ loader'.at = at /\ loader'.row = v /\ loader'.run = run
      /\ loader'.rows = loader.rows /\ loader'.todo = loader.todo \ {v}
      /\ loader'.listed = loader.listed \cup {CourseOf[v]}
  BY DEF Taken, Loader, IInv, TypeOK
<1>2. RowInv' BY <1>1 DEF IInv, RowInv
<1> QED BY <1>1, <1>2

\* The loader takes a run of the row's product that has the row's variant, or
\* the run without variant it has just made.
LEMMA TakesRun ==
  ASSUME IInv, UNCHANGED <<rowVars, bulkVars, touched, stray, handed>>,
         NEW k \in DOMAIN runs, loader' \in Loader, RowInv',
         loader'.at = "course", loader'.run = k, loader'.row \in Variant,
         runs[k].course = CourseOf[loader'.row],
         handed = "no" => runs[k].variant \in {NoVariant, loader'.row},
         \/ loader.at = "rows"
         \/ /\ loader.at \in {"made_course", "made_run"} /\ loader'.row = loader.row
            /\ handed = "no" => runs[k].variant = NoVariant
  PROVE  IInv'
<1>1. TypeOK' BY DEF IInv, TypeOK, bulkVars, rowVars
<1>2. HandInv' BY DEF HandInv, rowVars
<1>3. WrittenInv' BY DEF WrittenInv
<1>4. LiveInv' BY DEF IInv, LiveInv, bulkVars, rowVars
<1>5. DistinctInv'
  <2>1. OwnInv => OwnInv' BY DEF OwnInv, rowVars
  <2>2. NoVariants => NoVariants' BY DEF NoVariants, rowVars
  <2>3. handed = "no" /\ Alone => Alone' BY DEF Alone, rowVars
  <2> QED BY <2>1, <2>2, <2>3 DEF IInv, DistinctInv
<1> QED BY <1>1, <1>2, <1>3, <1>4, <1>5, BulkFrame DEF IInv

LEMMA FindRunStep ==
  ASSUME IInv, NEW v \in Variant, NEW k \in Key, FindRun(v, k)
  PROVE  IInv'
<1>1. /\ k \in DOMAIN runs /\ runs[k].course = CourseOf[v]
      /\ runs[k].variant \in {NoVariant, v}
  BY DEF FindRun, IsNewest, Matching, RunsOf
<1>2. k \in Nat BY DEF Key, IInv, TypeOK
<1>3. InReview(k) \in YesNo /\ DraftFlag(CourseOf[v]) \in YesNo
  BY DEF InReview, DraftFlag, YesIf, YesNo
<1>4. /\ loader' = Taken(v, "course", k, InReview(k), DraftFlag(CourseOf[v]))
      /\ loader.at = "rows" /\ UNCHANGED <<rowVars, bulkVars, touched, stray, handed>>
  BY DEF FindRun
<1>5. /\ loader' \in Loader /\ loader'.at = "course" /\ loader'.row = v /\ loader'.run = k
      /\ RowInv'
  BY <1>2, <1>3, <1>4, TakenLemma DEF Phases
<1> QED BY <1>1, <1>4, <1>5, TakesRun

LEMMA TakeCreatedStep ==
  ASSUME IInv, NEW k \in Key, TakeCreated(k)
  PROVE  IInv'
<1>1. /\ k \in DOMAIN runs /\ runs[k].course = CourseOf[loader.row]
      /\ handed = "no" => runs[k].variant = NoVariant
      /\ loader.at \in {"made_course", "made_run"}
  BY DEF IInv, HandInv, TakeCreated, IsNewest, IsFirst, RunsOf
<1>2. k \in Nat BY DEF Key, IInv, TypeOK
<1>3. InReview(k) \in YesNo /\ DraftFlag(CourseOf[loader.row]) \in YesNo
  BY DEF InReview, DraftFlag, YesIf, YesNo
<1>4. /\ loader' \in Loader /\ loader'.at = "course" /\ loader'.run = k
      /\ loader'.row = loader.row /\ loader'.rows = loader.rows
      /\ loader'.todo = loader.todo /\ loader'.listed = loader.listed
  BY <1>2, <1>3 DEF IInv, TypeOK, TakeCreated, Loader, Phases
<1>5. RowInv' BY <1>4 DEF IInv, RowInv
<1>6. loader.row \in Variant BY <1>1 DEF IInv, TypeOK
<1> QED BY <1>1, <1>4, <1>5, <1>6, TakesRun DEF TakeCreated

LEMMA CreateRunStep ==
  ASSUME IInv, NEW v \in Variant, CreateRun(v)
  PROVE  IInv'
<1> DEFINE n == Len(runs) + 1
           c == CourseOf[v]
<1>1. c \in Course /\ ScheduleOf[v] \in Schedule OBVIOUS
<1>2. /\ runs' \in Seq(Run) /\ Len(runs') = n /\ Len(runs') <= MaxRuns
      /\ DOMAIN runs' = DOMAIN runs \cup {n}
      /\ \A j \in DOMAIN runs : j \in Nat /\ j < n
      /\ \A j \in DOMAIN runs : runs'[j] = runs[j]
      /\ runs'[n].course = c /\ runs'[n].variant = NoVariant
      /\ runs'[n].status = "unpublished"
  BY <1>1, AddLemma DEF IInv, TypeOK, CreateRun
<1>3. n \in Nat BY DEF IInv, TypeOK
<1> HIDE DEF n
<1>4. /\ UNCHANGED <<product, bulkVars, touched, stray, handed>>
      /\ loader.at = "rows" /\ Matching(v) = {}
      /\ loader' = Taken(v, IF RunsOf(c) = {} THEN "made_course" ELSE "made_run",
                         NoRun, "no", "no")
  BY DEF CreateRun
<1>5. /\ loader' \in Loader /\ loader'.row = v
      /\ loader'.at = IF RunsOf(c) = {} THEN "made_course" ELSE "made_run"
      /\ RowInv'
  BY <1>4, TakenLemma DEF Phases, NoRun, YesNo
<1>6. TypeOK' BY <1>2, <1>4, <1>5 DEF IInv, TypeOK, bulkVars
<1>7. HandInv'
  <2>1. n \in RunsOf(c)' BY <1>2 DEF RunsOf
  <2>2. ASSUME NEW k \in DOMAIN runs', IsNewest(k, RunsOf(c)') PROVE k = n
    BY <2>1, <2>2, <1>2, <1>3 DEF IsNewest
  <2>3. RunsOf(c) = {} => RunsOf(c)' \subseteq {n} BY <1>2 DEF RunsOf
  <2> QED BY <2>2, <2>3, <1>2, <1>5 DEF HandInv
<1>8. WrittenInv' BY <1>5 DEF WrittenInv
<1>9. LiveInv' BY <1>2, <1>4, <1>5 DEF IInv, TypeOK, LiveInv, bulkVars
<1>10. DistinctInv'
  <2>1. OwnInv => OwnInv' BY <1>2 DEF OwnInv
  <2>2. NoVariants => NoVariants' BY <1>2 DEF NoVariants
  <2>3. OwnInv => \A k \in DOMAIN runs : runs[k].variant # v
    BY <1>4 DEF OwnInv, Matching, RunsOf
  <2>4. v # NoVariant OBVIOUS
  <2>5. OwnInv /\ Alone => Alone' BY <2>3, <2>4, <1>2, <1>4, <1>5 DEF Alone
  <2> QED BY <2>1, <2>2, <2>5, <1>4 DEF IInv, DistinctInv
<1> QED BY <1>4, <1>5, <1>6, <1>7, <1>8, <1>9, <1>10, BulkFrame DEF IInv

\* The loader between two rows.
LEMMA NextRowLemma ==
  ASSUME IInv
  PROVE  /\ NextRow \in Loader /\ NextRow.at = "rows" /\ NextRow.rows = loader.rows
         /\ NextRow.todo = loader.todo /\ NextRow.listed = loader.listed
<1>1. /\ loader.rows \in SUBSET Variant
      /\ loader.todo \in SUBSET Variant /\ loader.listed \in SUBSET Course
  BY DEF IInv, TypeOK, Loader
<1> QED BY <1>1 DEF NextRow, Reading, NoRun, Loader, Phases, YesNo, Content

\* The loader when it has ended.
LEMMA EndedLemma ==
  ASSUME IInv, loader' = Reading("idle", {}, {}, {})
  PROVE  loader' \in Loader /\ loader'.at = "idle" /\ RowInv'
<1>1. /\ loader' \in Loader /\ loader'.at = "idle"
      /\ loader'.rows = {} /\ loader'.todo = {}
  BY DEF Reading, NoRun, Loader, Phases, YesNo, Content
<1> QED BY <1>1 DEF RowInv

LEMMA LeaveRunInReviewStep ==
  ASSUME IInv, LeaveRunInReview
  PROVE  IInv'
<1>1. /\ loader' \in Loader /\ loader'.at = "refresh" /\ loader'.inReview = "yes"
      /\ loader'.row = loader.row /\ loader'.run = loader.run
      /\ loader'.rows = loader.rows /\ loader'.todo = loader.todo
      /\ loader'.listed = loader.listed /\ loader.at = "run"
  BY DEF LeaveRunInReview, IInv, TypeOK, Loader, Phases
<1>2. RowInv' BY <1>1 DEF IInv, RowInv
<1>3. loader.row \in Variant /\ loader.run \in DOMAIN runs BY <1>1 DEF IInv, TypeOK
<1> QED BY <1>1, <1>2, <1>3, LeaveBehindLemma, LeavesRow
        DEF LeaveRunInReview, rowVars, IInv, TypeOK

LEMMA FailRowStep ==
  ASSUME IInv, FailRow
  PROVE  IInv'
<1>1. RowInv' BY NextRowLemma DEF FailRow, IInv, RowInv
<1> QED BY <1>1, NextRowLemma, LeaveBehindLemma, LeavesRow DEF FailRow, rowVars, IInv, TypeOK

LEMMA NothingToReviewStep ==
  ASSUME IInv, NothingToReview
  PROVE  IInv'
<1>1. RowInv' BY NextRowLemma DEF NothingToReview, IInv, RowInv
<1> QED BY <1>1, NextRowLemma, LeavesRow DEF NothingToReview, rowVars, IInv, TypeOK

LEMMA FinishIngestStep ==
  ASSUME IInv, FinishIngest
  PROVE  IInv'
<1>1. loader' \in Loader /\ loader'.at = "idle" /\ RowInv'
  BY EndedLemma DEF FinishIngest
<1>2. product' \in [Course -> {"none", "published", "archived"}]
  BY DEF FinishIngest, IInv, TypeOK
<1> QED BY <1>1, <1>2, LeavesRow DEF FinishIngest, IInv, TypeOK

LEMMA IngestDiesStep ==
  ASSUME IInv, IngestDies
  PROVE  IInv'
<1>1. loader' \in Loader /\ loader'.at = "idle" /\ RowInv'
  BY EndedLemma DEF IngestDies
<1> QED BY <1>1, LeaveBehindLemma, LeavesRow DEF IngestDies, rowVars, IInv, TypeOK

LEMMA UpdateCourseStep ==
  ASSUME IInv, NEW changed \in BOOLEAN, UpdateCourse(changed)
  PROVE  IInv'
<1> DEFINE c == CourseOf[loader.row]
<1>1. loader.at = "course" /\ loader.row \in Variant /\ c \in Course
  BY DEF UpdateCourse, IInv, TypeOK
<1>2. /\ runs' \in Seq(Run) /\ Len(runs') = Len(runs) /\ DOMAIN runs' = DOMAIN runs
      /\ \A j \in DOMAIN runs :
           /\ runs'[j].course = runs[j].course
           /\ runs'[j].variant = runs[j].variant
           /\ \/ runs'[j].status = runs[j].status
              \/ runs[j].status = "reviewed" /\ runs'[j].status = "unpublished"
  BY <1>1, SaveCourseLemma DEF UpdateCourse, IInv, TypeOK
<1>3. /\ loader' \in Loader /\ loader'.at = "run"
      /\ loader'.row = loader.row /\ loader'.run = loader.run
      /\ loader'.rows = loader.rows /\ loader'.todo = loader.todo
      /\ loader'.listed = loader.listed
  BY DEF UpdateCourse, IInv, TypeOK, Loader, Phases
<1>4. product' \in [Course -> {"none", "published", "archived"}]
  BY <1>1 DEF UpdateCourse, IInv, TypeOK
<1>5. UNCHANGED <<bulkVars, touched, stray, handed>> BY DEF UpdateCourse
<1>6. TypeOK' BY <1>1, <1>2, <1>3, <1>4, <1>5 DEF IInv, TypeOK, bulkVars
<1>7. RowInv' BY <1>3 DEF IInv, RowInv
<1>8. WrittenInv' BY <1>3 DEF WrittenInv
<1>9. LiveInv' BY <1>2, <1>3, <1>5 DEF IInv, TypeOK, LiveInv, bulkVars
<1>10. HandInv' /\ DistinctInv'
  <2>1. GoesOn BY <1>1, <1>3 DEF GoesOn
  <2> QED BY <2>1, <1>2, <1>5, VariantFrame
<1> QED BY <1>5, <1>6, <1>7, <1>8, <1>9, <1>10, BulkFrame DEF IInv

LEMMA UpdateRunStep ==
  ASSUME IInv, NEW changed \in BOOLEAN, UpdateRun(changed)
  PROVE  IInv'
<1> DEFINE k == loader.run
           v == IF VariantEditable THEN loader.row ELSE runs[k].variant
           status == StatusAfterPatch(runs[k].status, loader.isDraft, changed)
<1>1. /\ loader.at = "run" /\ loader.row \in Variant /\ k \in DOMAIN runs /\ runs[k] \in Run
      /\ loader.isDraft \in YesNo
  BY DEF UpdateRun, IInv, TypeOK, Loader
<1>2. /\ v \in Variant \cup {NoVariant} /\ ScheduleOf[loader.row] \in Schedule
      /\ status \in Status
  BY <1>1, StatusAfterPatchLemma DEF Run
<1>3. Save(k, v, ScheduleOf[loader.row], status, "sheet") BY DEF UpdateRun
<1> HIDE DEF v, status
<1>4. /\ runs' \in Seq(Run) /\ Len(runs') = Len(runs) /\ DOMAIN runs' = DOMAIN runs
      /\ runs'[k].course = runs[k].course /\ runs'[k].variant = v
      /\ runs'[k].content = "sheet"
      /\ \A j \in DOMAIN runs : j # k => runs'[j] = runs[j]
  BY <1>1, <1>2, <1>3, SaveLemma, ContentLemma DEF IInv, TypeOK
<1>5. /\ loader' \in Loader /\ loader'.at = "refresh"
      /\ loader'.row = loader.row /\ loader'.run = loader.run
      /\ loader'.rows = loader.rows /\ loader'.todo = loader.todo
      /\ loader'.listed = loader.listed
  BY DEF UpdateRun, IInv, TypeOK, Loader, Phases, YesNo
<1>6. UNCHANGED <<product, bulkVars, stray>> /\ handed' = "no" /\ Touch(k) BY DEF UpdateRun
<1>7. touched' \in YesNo /\ handed' \in YesNo
  BY <1>6 DEF IInv, TypeOK, Touch, Touched, YesNo
<1>8. touched' = "no" => touched = "no" /\ \A t \in Task : ~HeldByBulk(t, k)
  BY <1>6 DEF Touch, Touched
<1>9. TypeOK' BY <1>1, <1>4, <1>5, <1>6, <1>7 DEF IInv, TypeOK, bulkVars
<1>10. RowInv' BY <1>5 DEF IInv, RowInv
<1>11. HandInv' BY <1>5 DEF HandInv
<1>12. WrittenInv' BY <1>4, <1>5 DEF WrittenInv
<1>13. LiveInv'
  <2> SUFFICES ASSUME touched' = "no", NEW t \in Task,
                      worker[t].at \in {"found", "course", "patched"},
                      worker[t].unpublished = "yes"
               PROVE  runs'[worker[t].run].status \in {"unpublished", "in_review"}
    BY <1>5, <1>6 DEF LiveInv, bulkVars
  <2> QED BY <1>4, <1>8 DEF IInv, TypeOK, LiveInv, HeldByBulk
<1>14. DistinctInv'
  <2>1. /\ runs[k].course = CourseOf[loader.row]
        /\ stray = "no" => runs[k].variant \in {NoVariant, loader.row}
    BY <1>1 DEF IInv, HandInv, DistinctInv
  <2>2. v = runs[k].variant \/ v = loader.row BY DEF v
  <2>3. OwnInv => OwnInv' BY <1>4, <2>1, <2>2 DEF OwnInv
  <2>4. ~VariantEditable => v = runs[k].variant BY DEF v
  <2>5. VariantEditable => v = loader.row BY DEF v
  <2>6. NoVariants /\ v = runs[k].variant => NoVariants' BY <1>1, <1>4 DEF NoVariants
  <2>7. loader.row # NoVariant BY <1>1
  <2>8. stray = "no" /\ Alone /\ v = loader.row => Alone' BY <1>1, <1>4, <1>5, <2>1, <2>7 DEF Alone
  <2> QED BY <2>3, <2>4, <2>5, <2>6, <2>8, <1>6 DEF IInv, DistinctInv
<1> QED BY <1>6, <1>9, <1>10, <1>11, <1>12, <1>13, <1>14, BulkFrame DEF IInv

LEMMA PushToReviewStep ==
  ASSUME IInv, PushToReview
  PROVE  IInv'
<1> DEFINE k == loader.run
<1>1. /\ loader.at = "refresh" /\ loader.row \in Variant /\ k \in DOMAIN runs
      /\ runs[k] \in Run
  BY DEF PushToReview, IInv, TypeOK
<1>2. /\ runs[k].variant \in Variant \cup {NoVariant} /\ runs[k].schedule \in Schedule
      /\ runs[k].content \in Content /\ "in_review" \in Status
  BY <1>1 DEF Run, Status
<1>3. /\ runs' \in Seq(Run) /\ Len(runs') = Len(runs) /\ DOMAIN runs' = DOMAIN runs
      /\ runs'[k].course = runs[k].course /\ runs'[k].variant = runs[k].variant
      /\ runs'[k].status = "in_review"
      /\ \A j \in DOMAIN runs : j # k => runs'[j] = runs[j]
  BY <1>1, <1>2, SaveLemma DEF IInv, TypeOK, PushToReview, SaveStatus
<1>4. /\ loader' \in Loader /\ loader'.at = "review" /\ loader'.content = runs[k].content
      /\ loader'.row = loader.row /\ loader'.run = k
      /\ loader'.rows = loader.rows /\ loader'.todo = loader.todo
      /\ loader'.listed = loader.listed
      /\ loader'.inReview = loader.inReview
  BY <1>2 DEF PushToReview, IInv, TypeOK, Loader, Phases
<1>5. /\ UNCHANGED <<product, bulkVars, stray, handed>>
      /\ Touched(\E t \in Task : HeldByBulk(t, k))
  BY DEF PushToReview
<1>6. touched' \in YesNo /\ (touched' = "no" => touched = "no")
  BY <1>5 DEF IInv, TypeOK, Touched, YesNo
<1>7. TypeOK' BY <1>1, <1>3, <1>4, <1>5, <1>6 DEF IInv, TypeOK, bulkVars
<1>8. RowInv' BY <1>4 DEF IInv, RowInv
<1>9. WrittenInv' BY <1>1, <1>4, <1>6 DEF IInv, WrittenInv
<1>10. LiveInv'
  <2> SUFFICES ASSUME touched' = "no" PROVE LiveInv' BY DEF LiveInv
  <2>1. ASSUME NEW t \in Task, worker[t].at \in {"found", "course", "patched"},
               worker[t].unpublished = "yes"
        PROVE  runs'[worker[t].run].status \in {"unpublished", "in_review"}
    BY <1>3, <1>6, <2>1 DEF IInv, TypeOK, LiveInv
  <2> QED BY <2>1, <1>3, <1>4, <1>5 DEF LiveInv, bulkVars
<1>11. HandInv' /\ DistinctInv'
  <2>1. GoesOn BY <1>1, <1>4 DEF GoesOn
  <2>2. \A j \in DOMAIN runs : /\ runs'[j].course = runs[j].course
                               /\ runs'[j].variant = runs[j].variant
    BY <1>3
  <2> QED BY <2>1, <2>2, <1>3, <1>5, VariantFrame
<1> QED BY <1>5, <1>7, <1>8, <1>9, <1>10, <1>11, BulkFrame DEF IInv

LEMMA CompleteReviewStep ==
  ASSUME IInv, NEW status \in Status, CompleteReview(status)
  PROVE  IInv'
<1> DEFINE k == loader.run
<1>1. /\ loader.at = "review" /\ k \in DOMAIN runs /\ runs[k] \in Run
      /\ loader.content \in Content
  BY DEF CompleteReview, IInv, TypeOK, Loader
<1>2. runs[k].variant \in Variant \cup {NoVariant} /\ runs[k].schedule \in Schedule
  BY <1>1 DEF Run
<1>3. /\ runs' \in Seq(Run) /\ Len(runs') = Len(runs) /\ DOMAIN runs' = DOMAIN runs
      /\ runs'[k].course = runs[k].course /\ runs'[k].variant = runs[k].variant
      /\ \A j \in DOMAIN runs : j # k => runs'[j] = runs[j]
  BY <1>1, <1>2, SaveLemma DEF IInv, TypeOK, CompleteReview
<1>4. /\ loader' \in Loader /\ loader'.at = "rows"
      /\ loader'.rows = loader.rows /\ loader'.todo = loader.todo
      /\ loader'.listed = loader.listed
  BY NextRowLemma DEF CompleteReview
<1>5. /\ UNCHANGED <<product, bulkVars, stray, handed>>
      /\ Touched(\E t \in Task : HeldByBulk(t, k))
  BY DEF CompleteReview
<1>6. /\ touched' \in YesNo
      /\ touched' = "no" => touched = "no" /\ \A t \in Task : ~HeldByBulk(t, k)
  BY <1>5 DEF IInv, TypeOK, Touched, YesNo
<1>7. TypeOK' BY <1>1, <1>3, <1>4, <1>5, <1>6 DEF IInv, TypeOK, bulkVars
<1>8. RowInv' BY <1>4 DEF IInv, RowInv
<1>9. WrittenInv' BY <1>4 DEF WrittenInv
<1>10. LiveInv'
  <2> SUFFICES ASSUME touched' = "no", NEW t \in Task,
                      worker[t].at \in {"found", "course", "patched"},
                      worker[t].unpublished = "yes"
               PROVE  runs'[worker[t].run].status \in {"unpublished", "in_review"}
    BY <1>4, <1>5 DEF LiveInv, bulkVars
  <2> QED BY <1>3, <1>6 DEF IInv, TypeOK, LiveInv, HeldByBulk
<1>11. HandInv' /\ DistinctInv'
  <2>1. GoesOn BY <1>1, <1>4 DEF GoesOn
  <2>2. \A j \in DOMAIN runs : /\ runs'[j].course = runs[j].course
                               /\ runs'[j].variant = runs[j].variant
    BY <1>3
  <2> QED BY <2>1, <2>2, <1>3, <1>5, VariantFrame
<1> QED BY <1>5, <1>7, <1>8, <1>9, <1>10, <1>11, BulkFrame DEF IInv

LEMMA LoaderStepLemma ==
  ASSUME IInv, LoaderStep
  PROVE  IInv'
<1>1. ASSUME NEW rows \in SUBSET Variant, StartIngest(rows) PROVE IInv'
  BY <1>1, StartIngestStep
<1>2. ASSUME NEW v \in Variant, SkipRow(v) \/ CreateRun(v) PROVE IInv'
  BY <1>2, SkipRowStep, CreateRunStep
<1>3. ASSUME NEW v \in Variant, NEW k \in Key, FindRun(v, k) PROVE IInv'
  BY <1>3, FindRunStep
<1>4. ASSUME NEW k \in Key, TakeCreated(k) PROVE IInv'
  BY <1>4, TakeCreatedStep
<1>5. ASSUME NEW changed \in BOOLEAN, UpdateCourse(changed) \/ UpdateRun(changed) PROVE IInv'
  BY <1>5, UpdateCourseStep, UpdateRunStep
<1>6. ASSUME NEW status \in {"reviewed", "published"}, CompleteReview(status) PROVE IInv'
  BY <1>6, CompleteReviewStep DEF Status
<1> QED BY <1>1, <1>2, <1>3, <1>4, <1>5, <1>6, LeaveRunInReviewStep, FailRowStep,
           PushToReviewStep, NothingToReviewStep, FinishIngestStep, IngestDiesStep
        DEF LoaderStep

---------------------------------------------------------------------------
(* The steps of the bulk operations.                                       *)

\* Frame: neither the rows nor the loader are changed.
LEMMA RowFrame ==
  ASSUME IInv, UNCHANGED <<rowVars, loader, touched, stray, handed>>
  PROVE  /\ RowInv' /\ HandInv' /\ WrittenInv' /\ DistinctInv'
         /\ runs' = runs /\ product' = product
<1>1. UNCHANGED <<runs, product, loader, touched, stray, handed>> BY DEF rowVars
<1>2. RowInv' BY <1>1 DEF IInv, RowInv
<1>3. WrittenInv' BY <1>1 DEF IInv, WrittenInv
<1>4. HandInv' /\ DistinctInv' BY <1>1, VariantFrame DEF GoesOn
<1> QED BY <1>1, <1>2, <1>3, <1>4

\* Only the row of the operation is written.
LEMMA TaskRowStep ==
  ASSUME IInv, NEW t \in Task, NEW status \in Progress,
         NEW message \in {"none", "created", "saved", "sent", "taken"},
         TaskIs(t, status, message),
         message # "taken" => status = "pending",
         task[t].message # "taken",
         UNCHANGED <<rowVars, loader, worker, touched, stray, handed>>
  PROVE  IInv'
<1>1. /\ task' \in [Task -> Tasks]
      /\ task'[t].status = status /\ task'[t].message = message
      /\ \A u \in Task : u # t => task'[u] = task[u]
  BY DEF IInv, TypeOK, TaskIs, Tasks
<1>2. TypeOK' BY <1>1, RowFrame DEF IInv, TypeOK
<1>3. TaskInv' BY <1>1 DEF IInv, TaskInv
<1>4. LiveInv' /\ RerunInv' BY RowFrame DEF IInv, LiveInv, RerunInv
<1> QED BY <1>2, <1>3, <1>4, RowFrame DEF IInv

LEMMA TaskSteps ==
  ASSUME IInv, NEW t \in Task, Upload(t) \/ SaveTaskId(t) \/ SendMessage(t) \/ RejectTask(t)
  PROVE  IInv'
<1>1. CASE Upload(t) BY <1>1, TaskRowStep DEF Upload, Progress
<1>2. CASE SaveTaskId(t) BY <1>2, TaskRowStep DEF SaveTaskId, Progress
<1>3. CASE SendMessage(t)
  <2>1. task[t].status = "pending" BY <1>3 DEF SendMessage, IInv, TaskInv
  <2> QED BY <1>3, <2>1, TaskRowStep DEF SendMessage, Progress
<1>4. CASE RejectTask(t) BY <1>4, TaskRowStep DEF RejectTask, Progress
<1> QED BY <1>1, <1>2, <1>3, <1>4

\* The worker of t remembers something else; its kind and its flag stay.
LEMMA WorkerIsLemma ==
  ASSUME IInv, NEW t \in Task, NEW at \in {"started", "found", "course", "patched"},
         NEW review \in YesNo, NEW run \in Nat, NEW unpublished \in YesNo, NEW isDraft \in YesNo,
         WorkerIs(t, at, review, run, unpublished, isDraft)
  PROVE  /\ worker' \in [Task -> Worker]
         /\ worker'[t].at = at /\ worker'[t].run = run /\ worker'[t].unpublished = unpublished
         /\ worker'[t].kind = worker[t].kind
         /\ \A u \in Task : u # t => worker'[u] = worker[u]
<1>1. worker[t].kind \in Kind BY DEF IInv, TypeOK, Worker
<1> QED BY <1>1 DEF IInv, TypeOK, WorkerIs, Worker

\* A worker that is at work stays at work.
LEMMA WorkingFrame ==
  ASSUME IInv, NEW t \in Task, worker[t].at # "idle", task' = task,
         worker'[t].at # "idle", \A u \in Task : u # t => worker'[u] = worker[u]
  PROVE  TaskInv'
BY DEF IInv, TaskInv

\* A worker starts on a file, or stops.
LEMMA StartsOrStops ==
  ASSUME IInv, NEW t \in Task, worker' \in [Task -> Worker], task' \in [Task -> Tasks],
         worker'[t].at \in {"idle", "started"},
         worker'[t].at = "idle" => \/ task' = task
                                   \/ task'[t].message = "taken",
         worker'[t].at = "started" => /\ task'[t].message = "taken"
                                      /\ task'[t].status = "processing",
         \A u \in Task : u # t => worker'[u] = worker[u] /\ task'[u] = task[u],
         UNCHANGED <<rowVars, loader, touched, stray, handed>>
  PROVE  IInv'
<1>1. TypeOK' BY RowFrame DEF IInv, TypeOK
<1>2. TaskInv' BY DEF IInv, TaskInv
<1>3. LiveInv' BY RowFrame DEF IInv, LiveInv
<1>4. RerunInv' BY DEF IInv, RerunInv
<1> QED BY <1>1, <1>2, <1>3, <1>4, RowFrame DEF IInv

LEMMA StartTaskStep ==
  ASSUME IInv, NEW t \in Task, NEW kind \in Kind, StartTask(t, kind)
  PROVE  IInv'
<1>1. /\ task' \in [Task -> Tasks]
      /\ task'[t].status = "processing" /\ task'[t].message = "taken"
      /\ \A u \in Task : u # t => task'[u] = task[u]
  BY DEF IInv, TypeOK, StartTask, TaskIs, Tasks, Progress
<1>2. /\ worker' \in [Task -> Worker] /\ worker'[t].at = "started"
      /\ \A u \in Task : u # t => worker'[u] = worker[u]
  BY DEF IInv, TypeOK, StartTask, Read, Worker, NoRun, YesNo
<1> QED BY <1>1, <1>2, StartsOrStops DEF StartTask

LEMMA BulkEndsStep ==
  ASSUME IInv, NEW t \in Task, NEW status \in {"completed", "failed"}, BulkEnds(t, status)
  PROVE  IInv'
<1>1. task[t].message = "taken" BY DEF IInv, TaskInv, BulkEnds
<1>2. /\ task' \in [Task -> Tasks] /\ task'[t].message = "taken"
      /\ \A u \in Task : u # t => task'[u] = task[u]
  BY <1>1 DEF IInv, TypeOK, BulkEnds, TaskIs, Tasks, Progress
<1>3. /\ worker' \in [Task -> Worker] /\ worker'[t].at = "idle"
      /\ \A u \in Task : u # t => worker'[u] = worker[u]
  BY DEF IInv, TypeOK, BulkEnds, Rest, Resting, Worker, Kind, NoRun, YesNo
<1> QED BY <1>2, <1>3, StartsOrStops DEF BulkEnds

LEMMA WorkerDiesStep ==
  ASSUME IInv, NEW t \in Task, WorkerDies(t)
  PROVE  IInv'
<1>1. /\ worker' \in [Task -> Worker] /\ worker'[t].at = "idle"
      /\ \A u \in Task : u # t => worker'[u] = worker[u]
  BY DEF IInv, TypeOK, WorkerDies, Rest, Resting, Worker, Kind, NoRun, YesNo
<1> QED BY <1>1, StartsOrStops DEF WorkerDies, IInv, TypeOK

\* The run a worker has in hand.
LEMMA InHand ==
  ASSUME IInv, NEW t \in Task, worker[t].at \in {"found", "course", "patched"}
  PROVE  /\ worker[t].run \in DOMAIN runs /\ worker[t].run \in Nat
         /\ worker[t].unpublished \in YesNo /\ worker[t].isDraft \in YesNo
         /\ worker[t].review \in YesNo
         /\ runs[worker[t].run].course \in Course /\ runs[worker[t].run].status \in Status
         /\ runs[worker[t].run].content \in Content
         /\ runs[worker[t].run].variant \in Variant \cup {NoVariant}
         /\ runs[worker[t].run].schedule \in Schedule
<1>1. worker[t] \in Worker /\ worker[t].run \in DOMAIN runs BY DEF IInv, TypeOK
<1>2. /\ worker[t].run \in Nat /\ worker[t].unpublished \in YesNo
      /\ worker[t].isDraft \in YesNo /\ worker[t].review \in YesNo
  BY <1>1 DEF Worker
<1>3. runs[worker[t].run] \in Run BY <1>1 DEF IInv, TypeOK
<1> QED BY <1>1, <1>2, <1>3 DEF Run

LEMMA BulkCreatesStep ==
  ASSUME IInv, NEW t \in Task, NEW c \in Course, NEW s \in Schedule, NEW review \in YesNo,
         BulkCreates(t, c, s, review)
  PROVE  IInv'
<1> DEFINE n == Len(runs) + 1
<1>1. /\ runs' \in Seq(Run) /\ Len(runs') <= MaxRuns
      /\ DOMAIN runs' = DOMAIN runs \cup {n}
      /\ \A j \in DOMAIN runs : runs'[j] = runs[j]
      /\ runs'[n].status = "unpublished"
  BY AddLemma DEF IInv, TypeOK, BulkCreates
<1>2. n \in Nat BY DEF IInv, TypeOK
<1> HIDE DEF n
<1>3. /\ UNCHANGED <<product, loader, task, touched, handed>> /\ stray' = "yes"
      /\ worker[t].at = "started"
  BY DEF BulkCreates
<1>4. PICK at \in {"course", "found"} : WorkerIs(t, at, review, n, "yes", "yes")
  BY DEF BulkCreates, n
<1>5. /\ worker' \in [Task -> Worker]
      /\ worker'[t].at = at /\ worker'[t].run = n /\ worker'[t].unpublished = "yes"
      /\ \A u \in Task : u # t => worker'[u] = worker[u]
  BY <1>2, <1>4, WorkerIsLemma DEF YesNo
<1>6. TypeOK' BY <1>1, <1>3, <1>5 DEF IInv, TypeOK, YesNo
<1>7. TaskInv' BY <1>3, <1>5, WorkingFrame
<1>8. LiveInv'
  <2> SUFFICES ASSUME touched' = "no" PROVE LiveInv' BY DEF LiveInv
  <2>1. loader'.at = "review" => runs'[loader'.run].status = "in_review"
    BY <1>1, <1>3 DEF IInv, TypeOK, LiveInv
  <2>2. ASSUME NEW u \in Task, worker'[u].at \in {"found", "course", "patched"},
               worker'[u].unpublished = "yes"
        PROVE  runs'[worker'[u].run].status \in {"unpublished", "in_review"}
    <3>1. CASE u = t BY <3>1, <1>1, <1>5
    <3>2. CASE u # t BY <2>2, <3>2, <1>1, <1>3, <1>5 DEF IInv, TypeOK, LiveInv
    <3> QED BY <3>1, <3>2
  <2> QED BY <2>1, <2>2 DEF LiveInv
<1>9. RerunInv' BY <1>5 DEF IInv, RerunInv
<1>10. RowInv' /\ HandInv' /\ WrittenInv' /\ DistinctInv'
  BY <1>3, ForeignAdd DEF BulkCreates
<1> QED BY <1>6, <1>7, <1>8, <1>9, <1>10 DEF IInv

LEMMA BulkFindsStep ==
  ASSUME IInv, NEW t \in Task, NEW k \in Key, NEW review \in YesNo, BulkFinds(t, k, review)
  PROVE  IInv'
<1>1. /\ k \in DOMAIN runs /\ k \in Nat
      /\ YesIf(runs[k].status = "unpublished") \in YesNo
      /\ DraftFlag(runs[k].course) \in YesNo
  BY DEF BulkFinds, YesIf, YesNo, DraftFlag, Key, IInv, TypeOK
<1>2. /\ UNCHANGED <<rowVars, loader, task, touched, stray, handed>>
      /\ worker[t].at = "started" /\ worker[t].kind \in {"partial_update", "course_create"}
      /\ WorkerIs(t, "found", review, k, YesIf(runs[k].status = "unpublished"),
                  DraftFlag(runs[k].course))
  BY DEF BulkFinds
<1>3. /\ worker' \in [Task -> Worker]
      /\ worker'[t].at = "found" /\ worker'[t].run = k
      /\ worker'[t].unpublished = YesIf(runs[k].status = "unpublished")
      /\ worker'[t].kind = worker[t].kind
      /\ \A u \in Task : u # t => worker'[u] = worker[u]
  BY <1>1, <1>2, WorkerIsLemma
<1>4. TypeOK' BY <1>1, <1>2, <1>3, RowFrame DEF IInv, TypeOK
<1>5. TaskInv' BY <1>2, <1>3, WorkingFrame
<1>6. LiveInv'
  <2>1. worker'[t].unpublished = "yes" => runs[k].status = "unpublished"
    BY <1>3 DEF YesIf
  <2> QED BY <2>1, <1>2, <1>3, RowFrame DEF IInv, LiveInv
<1>7. RerunInv' BY <1>2, <1>3 DEF IInv, RerunInv
<1> QED BY <1>2, <1>4, <1>5, <1>6, <1>7, RowFrame DEF IInv

LEMMA BulkUpdatesCourseStep ==
  ASSUME IInv, NEW t \in Task, NEW changed \in BOOLEAN, BulkUpdatesCourse(t, changed)
  PROVE  IInv'
<1> DEFINE k == worker[t].run
<1>1. /\ worker[t].at = "found" /\ k \in DOMAIN runs /\ runs[k].course \in Course
      /\ k \in Nat /\ worker[t].unpublished \in YesNo /\ worker[t].isDraft \in YesNo
      /\ worker[t].review \in YesNo
  <2>1. worker[t].at = "found" BY DEF BulkUpdatesCourse
  <2> QED BY <2>1, InHand
<1>2. /\ runs' \in Seq(Run) /\ Len(runs') = Len(runs) /\ DOMAIN runs' = DOMAIN runs
      /\ \A j \in DOMAIN runs :
           /\ runs'[j].course = runs[j].course
           /\ runs'[j].variant = runs[j].variant
           /\ runs'[j].content = runs[j].content
           /\ \/ runs'[j].status = runs[j].status
              \/ runs[j].status = "reviewed" /\ runs'[j].status = "unpublished"
  BY <1>1, SaveCourseLemma DEF BulkUpdatesCourse, IInv, TypeOK
<1>3. UNCHANGED <<product, loader, task, touched, stray, handed>> BY DEF BulkUpdatesCourse
<1>4. PICK isDraft \in YesNo : WorkerIs(t, "course", worker[t].review, k, worker[t].unpublished, isDraft)
  BY <1>1 DEF BulkUpdatesCourse, YesNo
<1>5. /\ worker' \in [Task -> Worker]
      /\ worker'[t].at = "course" /\ worker'[t].run = k
      /\ worker'[t].unpublished = worker[t].unpublished
      /\ worker'[t].kind = worker[t].kind
      /\ \A u \in Task : u # t => worker'[u] = worker[u]
  BY <1>1, <1>4, WorkerIsLemma
<1>6. TypeOK' BY <1>1, <1>2, <1>3, <1>5 DEF IInv, TypeOK
<1>7. TaskInv' BY <1>1, <1>3, <1>5, WorkingFrame
<1>8. RowInv' BY <1>3 DEF IInv, RowInv
<1>9. WrittenInv' BY <1>2, <1>3 DEF IInv, TypeOK, WrittenInv
<1>10. LiveInv'
  <2> SUFFICES ASSUME touched = "no" PROVE LiveInv' BY <1>3 DEF LiveInv
  <2>1. loader.at = "review" => runs'[loader.run].status = "in_review"
    BY <1>2 DEF IInv, TypeOK, LiveInv
  <2>2. ASSUME NEW u \in Task, worker'[u].at \in {"found", "course", "patched"},
               worker'[u].unpublished = "yes"
        PROVE  runs'[worker'[u].run].status \in {"unpublished", "in_review"}
    <3>1. /\ worker'[u].run = worker[u].run
          /\ worker[u].at \in {"found", "course", "patched"}
          /\ worker[u].unpublished = "yes"
      BY <2>2, <1>1, <1>5
    <3>2. worker[u].run \in DOMAIN runs BY <3>1, InHand
    <3> QED BY <3>1, <3>2, <1>2 DEF IInv, LiveInv
  <2> QED BY <2>1, <2>2, <1>3 DEF LiveInv
<1>11. RerunInv' BY <1>1, <1>5 DEF IInv, RerunInv
<1>12. HandInv' /\ DistinctInv' BY <1>2, <1>3, VariantFrame DEF GoesOn
<1> QED BY <1>6, <1>7, <1>8, <1>9, <1>10, <1>11, <1>12 DEF IInv

\* Bulk operation t saves the status of the run it has in hand, and marks the
\* others who have it.
LEMMA BulkSave ==
  ASSUME IInv, NEW t \in Task, NEW k \in DOMAIN runs, NEW status \in Status,
         NEW content \in Content, NEW schedule \in Schedule,
         Save(k, runs[k].variant, schedule, status, content),
         Touched(HeldByCsv(k) \/ \E u \in Task \ {t} : HeldByBulk(u, k)),
         worker[t].at \in {"found", "course", "patched"}, worker[t].run = k,
         NEW at \in {"started", "patched"}, NEW review \in YesNo, NEW run \in Nat,
         NEW unpublished \in YesNo, NEW isDraft \in YesNo,
         WorkerIs(t, at, review, run, unpublished, isDraft),
         at = "patched" => run = k /\ unpublished = worker[t].unpublished,
         touched = "no" /\ unpublished = "yes" => status \in {"unpublished", "in_review"},
         UNCHANGED <<product, loader, task, stray, handed>>
  PROVE  IInv'
<1>1. runs[k].variant \in Variant \cup {NoVariant}
  <2>1. runs[k] \in Run BY DEF IInv, TypeOK
  <2> QED BY <2>1 DEF Run
<1>2. /\ runs' \in Seq(Run) /\ Len(runs') = Len(runs) /\ DOMAIN runs' = DOMAIN runs
      /\ runs'[k].course = runs[k].course /\ runs'[k].variant = runs[k].variant
      /\ runs'[k].status = status
      /\ \A j \in DOMAIN runs : j # k => runs'[j] = runs[j]
  BY <1>1, SaveLemma DEF IInv, TypeOK
<1>3. /\ worker' \in [Task -> Worker]
      /\ worker'[t].at = at /\ worker'[t].run = run /\ worker'[t].unpublished = unpublished
      /\ worker'[t].kind = worker[t].kind
      /\ \A u \in Task : u # t => worker'[u] = worker[u]
  BY WorkerIsLemma
<1>4. /\ touched' \in YesNo
      /\ touched' = "no" => /\ touched = "no" /\ ~HeldByCsv(k)
                            /\ \A u \in Task \ {t} : ~HeldByBulk(u, k)
  BY DEF IInv, TypeOK, Touched, YesNo
<1>5. TypeOK' BY <1>2, <1>3, <1>4 DEF IInv, TypeOK
<1>6. TaskInv' BY <1>3, WorkingFrame
<1>7. RowInv' BY DEF IInv, RowInv
<1>8. WrittenInv' BY <1>2, <1>4 DEF IInv, TypeOK, WrittenInv, HeldByCsv
<1>9. LiveInv'
  <2> SUFFICES ASSUME touched' = "no" PROVE LiveInv' BY DEF LiveInv
  <2>1. loader'.at = "review" => runs'[loader'.run].status = "in_review"
    BY <1>2, <1>4 DEF IInv, TypeOK, LiveInv, HeldByCsv
  <2>2. ASSUME NEW u \in Task, worker'[u].at \in {"found", "course", "patched"},
               worker'[u].unpublished = "yes"
        PROVE  runs'[worker'[u].run].status \in {"unpublished", "in_review"}
    <3>1. CASE u = t BY <2>2, <3>1, <1>2, <1>3, <1>4
    <3>2. CASE u # t BY <2>2, <3>2, <1>2, <1>3, <1>4 DEF IInv, TypeOK, LiveInv, HeldByBulk
    <3> QED BY <3>1, <3>2
  <2> QED BY <2>1, <2>2 DEF LiveInv
<1>10. RerunInv' BY <1>3 DEF IInv, RerunInv
<1>11. HandInv' /\ DistinctInv'
  <2>1. \A j \in DOMAIN runs : /\ runs'[j].course = runs[j].course
                               /\ runs'[j].variant = runs[j].variant
    BY <1>2
  <2> QED BY <2>1, <1>2, VariantFrame DEF GoesOn
<1> QED BY <1>5, <1>6, <1>7, <1>8, <1>9, <1>10, <1>11 DEF IInv

LEMMA BulkUpdatesRunStep ==
  ASSUME IInv, NEW t \in Task, NEW changed \in BOOLEAN, NEW s \in Schedule,
         BulkUpdatesRun(t, changed, s)
  PROVE  IInv'
<1> DEFINE k == worker[t].run
           status == StatusAfterPatch(runs[k].status, worker[t].isDraft, changed)
<1>1. /\ worker[t].at = "course" /\ k \in DOMAIN runs /\ k \in Nat
      /\ worker[t].unpublished \in YesNo /\ worker[t].isDraft \in YesNo
      /\ worker[t].review \in YesNo
      /\ runs[k].status \in Status /\ runs[k].status # "in_review"
  <2>1. worker[t].at = "course" /\ runs[k].status # "in_review" BY DEF BulkUpdatesRun
  <2> QED BY <2>1, InHand
<1>2. /\ status \in Status
      /\ runs[k].status = "unpublished" => status \in {"unpublished", "in_review"}
  BY <1>1, StatusAfterPatchLemma
<1>3. touched = "no" /\ worker[t].unpublished = "yes" => runs[k].status = "unpublished"
  BY <1>1 DEF IInv, LiveInv
<1>4. /\ Save(k, runs[k].variant, s, status, "other")
      /\ Touched(HeldByCsv(k) \/ \E u \in Task \ {t} : HeldByBulk(u, k))
      /\ WorkerIs(t, "patched", worker[t].review, k, worker[t].unpublished, "no")
      /\ UNCHANGED <<product, loader, task, stray, handed>>
  BY DEF BulkUpdatesRun
<1> HIDE DEF status
<1> QED BY <1>1, <1>2, <1>3, <1>4, BulkSave, ContentLemma DEF YesNo

LEMMA BulkSubmitsStep ==
  ASSUME IInv, NEW t \in Task, BulkSubmits(t)
  PROVE  IInv'
<1> DEFINE k == worker[t].run
<1>1. /\ worker[t].at = "patched" /\ k \in DOMAIN runs /\ runs[k].content \in Content
      /\ runs[k].schedule \in Schedule
  <2>1. worker[t].at = "patched" BY DEF BulkSubmits
  <2> QED BY <2>1, InHand
<1>2. /\ Save(k, runs[k].variant, runs[k].schedule, "in_review", runs[k].content)
      /\ Touched(HeldByCsv(k) \/ \E u \in Task \ {t} : HeldByBulk(u, k))
      /\ WorkerIs(t, "started", "no", 0, "no", "no")
      /\ UNCHANGED <<product, loader, task, stray, handed>>
  BY DEF BulkSubmits, SaveStatus, NoRun
<1>3. "in_review" \in Status /\ "no" \in YesNo /\ 0 \in Nat BY DEF Status, YesNo
<1> QED BY <1>1, <1>2, <1>3, BulkSave

LEMMA BulkRowEndsStep ==
  ASSUME IInv, NEW t \in Task, BulkRowEnds(t)
  PROVE  IInv'
<1>1. /\ WorkerIs(t, "started", "no", 0, "no", "no") /\ worker[t].at # "idle"
      /\ UNCHANGED <<rowVars, loader, task, touched, stray, handed>>
  BY DEF BulkRowEnds, NoRun
<1>2. /\ worker' \in [Task -> Worker] /\ worker'[t].at = "started"
      /\ \A u \in Task : u # t => worker'[u] = worker[u]
  BY <1>1, WorkerIsLemma DEF YesNo
<1>3. TypeOK' BY <1>1, <1>2, RowFrame DEF IInv, TypeOK
<1>4. TaskInv' BY <1>1, <1>2, WorkingFrame
<1>5. LiveInv' BY <1>1, <1>2, RowFrame DEF IInv, LiveInv
<1>6. RerunInv' BY <1>2 DEF IInv, RerunInv
<1> QED BY <1>1, <1>3, <1>4, <1>5, <1>6, RowFrame DEF IInv

LEMMA TaskStepLemma ==
  ASSUME IInv, NEW t \in Task, TaskStep(t)
  PROVE  IInv'
<1>1. ASSUME NEW kind \in Kind, StartTask(t, kind) PROVE IInv'
  BY <1>1, StartTaskStep
<1>2. ASSUME NEW c \in Course, NEW s \in Schedule, NEW review \in YesNo,
             BulkCreates(t, c, s, review)
      PROVE  IInv'
  BY <1>2, BulkCreatesStep
<1>3. ASSUME NEW k \in Key, NEW review \in YesNo, BulkFinds(t, k, review) PROVE IInv'
  BY <1>3, BulkFindsStep
<1>4. ASSUME NEW changed \in BOOLEAN,
             \/ BulkUpdatesCourse(t, changed)
             \/ \E s \in Schedule : BulkUpdatesRun(t, changed, s)
      PROVE IInv'
  BY <1>4, BulkUpdatesCourseStep, BulkUpdatesRunStep
<1>5. ASSUME NEW status \in {"completed", "failed"}, BulkEnds(t, status) PROVE IInv'
  BY <1>5, BulkEndsStep
<1> QED BY <1>1, <1>2, <1>3, <1>4, <1>5, TaskSteps, BulkSubmitsStep, BulkRowEndsStep,
           WorkerDiesStep
        DEF TaskStep

---------------------------------------------------------------------------
(* The invariant.                                                          *)

LEMMA InitInv == Init => IInv
<1> SUFFICES ASSUME Init PROVE IInv OBVIOUS
<1>1. runs = <<>> /\ DOMAIN runs = {} /\ runs \in Seq(Run) /\ Len(runs) = 0
  <2>1. runs = <<>> BY DEF Init
  <2> QED BY <2>1
<1>2. /\ loader \in Loader /\ loader.at = "idle" /\ loader.rows = {} /\ loader.todo = {}
  BY DEF Init, Reading, NoRun, Loader, Phases, YesNo, Content
<1>3. /\ task \in [Task -> Tasks]
      /\ \A t \in Task : task[t].status = "pending" /\ task[t].message = "none"
  BY DEF Init, NoTask, Tasks, Progress
<1>4. /\ worker \in [Task -> Worker]
      /\ \A t \in Task : worker[t].at = "idle"
  BY DEF Init, Resting, Worker, Kind, YesNo, NoRun
<1>5. TypeOK BY <1>1, <1>2, <1>3, <1>4 DEF Init, TypeOK, YesNo
<1>6. TaskInv /\ RowInv /\ HandInv /\ WrittenInv /\ LiveInv /\ RerunInv
  BY <1>2, <1>3, <1>4 DEF TaskInv, RowInv, HandInv, WrittenInv, LiveInv, RerunInv
<1>7. DistinctInv BY <1>1, <1>2 DEF Init, DistinctInv, OwnInv, NoVariants, Alone
<1> QED BY <1>5, <1>6, <1>7 DEF IInv

LEMMA StutterInv ==
  ASSUME IInv, UNCHANGED vars
  PROVE  IInv'
<1>1. UNCHANGED <<rowVars, loader, bulkVars, touched, stray, handed>> BY DEF vars
<1>2. TypeOK' BY <1>1 DEF IInv, TypeOK, rowVars, bulkVars
<1>3. LiveInv' BY <1>1 DEF IInv, LiveInv, rowVars, bulkVars
<1> QED BY <1>1, <1>2, <1>3, RowFrame, BulkFrame DEF IInv

LEMMA NextInv == IInv /\ [Next]_vars => IInv'
<1> SUFFICES ASSUME IInv, [Next]_vars PROVE IInv' OBVIOUS
<1>1. CASE EditorStep BY <1>1, EditorStepLemma
<1>2. CASE LoaderStep BY <1>2, LoaderStepLemma
<1>3. ASSUME NEW t \in Task, TaskStep(t) PROVE IInv' BY <1>3, TaskStepLemma
<1>4. CASE UNCHANGED vars BY <1>4, StutterInv
<1> QED BY <1>1, <1>2, <1>3, <1>4 DEF Next

\* The invariant holds in every reachable state.
LEMMA AlwaysInv == Spec => []IInv
BY InitInv, NextInv, PTL DEF Spec

---------------------------------------------------------------------------
(* The theorems.                                                           *)

\* The rows, the loader and the workers keep their types; what a loader has in
\* hand is a row that exists.
THEOREM IngestionTypeCorrect == Spec => []TypeOK
<1>1. IInv => TypeOK BY DEF IInv
<1> QED BY <1>1, AlwaysInv, PTL

\* No variant has two runs as long as no run is left without variant or comes in
\* from elsewhere, and no editor sets, changes or clears a variant.
THEOREM DistinctVariantsThm == Spec => []DistinctVariants
<1>1. IInv => DistinctVariants
  BY DEF IInv, DistinctInv, Alone, NoVariants, DistinctVariants
<1> QED BY <1>1, AlwaysInv, PTL

---------------------------------------------------------------------------
(* What a step does to the runs.                                           *)

\* A step after which every run has the variant it had.
MustKeep == ~VariantEditable \/ (handed = "no" /\ (loader' # loader \/ worker' # worker))

\* Run k keeps the variant it has in such a step, and stays published unless it is
\* marked.
Keeps(k) ==
  /\ k \in DOMAIN runs'
  /\ MustKeep /\ runs[k].variant # NoVariant => runs'[k].variant = runs[k].variant
  /\ touched = "no" /\ touched' = "no" /\ runs[k].status = "published" =>
       runs'[k].status = "published"

\* A run is saved, with its variant, or its first one where that is asked for.
LEMMA SaveKeeps ==
  ASSUME IInv, NEW k \in DOMAIN runs, NEW variant \in Variant \cup {NoVariant},
         NEW schedule \in Schedule, NEW status \in Status, NEW content \in Content,
         Save(k, variant, schedule, status, content),
         MustKeep /\ runs[k].variant # NoVariant => variant = runs[k].variant,
         touched = "no" /\ touched' = "no" /\ runs[k].status = "published" =>
           status = "published"
  PROVE  \A j \in DOMAIN runs : Keeps(j)
<1>1. /\ DOMAIN runs' = DOMAIN runs /\ runs'[k].variant = variant
      /\ runs'[k].status = status
      /\ \A j \in DOMAIN runs : j # k => runs'[j] = runs[j]
  BY SaveLemma DEF IInv, TypeOK
<1> QED BY <1>1 DEF Keeps

\* The variant and the dates of a run stay.
LEMMA SaveAsItIs ==
  ASSUME IInv, NEW k \in DOMAIN runs, NEW status \in Status, NEW content \in Content,
         Save(k, runs[k].variant, runs[k].schedule, status, content),
         touched = "no" /\ touched' = "no" /\ runs[k].status = "published" =>
           status = "published"
  PROVE  \A j \in DOMAIN runs : Keeps(j)
<1>1. runs[k].variant \in Variant \cup {NoVariant} /\ runs[k].schedule \in Schedule
  <2>1. runs[k] \in Run BY DEF IInv, TypeOK
  <2> QED BY <2>1 DEF Run
<1> QED BY <1>1, SaveKeeps

LEMMA EditorKeeps ==
  ASSUME IInv, EditorStep
  PROVE  \A j \in DOMAIN runs : Keeps(j)
<1>1. ASSUME NEW k \in DOMAIN runs
      PROVE  runs[k].status \in Status /\ runs[k].content \in Content
  <2>1. runs[k] \in Run BY DEF IInv, TypeOK
  <2> QED BY <2>1 DEF Run
<1>2. ASSUME NEW k \in Key, NEW isDraft \in YesNo, NEW changed \in BOOLEAN,
             NEW s \in Schedule, NEW v \in Variant \cup {NoVariant},
             EditRun(k, isDraft, changed, s, v)
      PROVE  \A j \in DOMAIN runs : Keeps(j)
  <2>1. k \in DOMAIN runs BY <1>2 DEF EditRun
  <2>2. /\ StatusAfterPatch(runs[k].status, isDraft, changed) \in Status
        /\ runs[k].status = "published" =>
             StatusAfterPatch(runs[k].status, isDraft, changed) = "published"
    BY <1>1, <2>1, StatusAfterPatchLemma
  <2>3. MustKeep => v = runs[k].variant
    BY <1>2 DEF EditRun, MustKeep, bulkVars
  <2>4. Save(k, v, s, StatusAfterPatch(runs[k].status, isDraft, changed), "other")
    BY <1>2 DEF EditRun
  <2> QED BY <2>1, <2>2, <2>3, <2>4, SaveKeeps, ContentLemma
<1>3. ASSUME NEW k \in Key, NEW from \in {"in_review", "reviewed"},
             NEW to \in {"reviewed", "published"}, MoveOn(k, from, to)
      PROVE  \A j \in DOMAIN runs : Keeps(j)
  <2>1. k \in DOMAIN runs /\ runs[k].status = from BY <1>3 DEF MoveOn
  <2> QED BY <1>1, <1>3, <2>1, SaveAsItIs DEF MoveOn, SaveStatus, Status
<1>4. ASSUME NEW c \in Course, NEW s \in Schedule, NEW v \in Variant \cup {NoVariant},
             EditorCreatesRun(c, s, v)
      PROVE  \A j \in DOMAIN runs : Keeps(j)
  <2>1. Add(c, s, v) BY <1>4 DEF EditorCreatesRun
  <2> QED BY <2>1, AddLemma DEF IInv, TypeOK, Keeps
<1> QED BY <1>2, <1>3, <1>4 DEF EditorStep

\* The run whose review the loader completes has not gone live in between.
LEMMA LoaderKeeps ==
  ASSUME IInv, LoaderStep
  PROVE  \A j \in DOMAIN runs : Keeps(j)
<1>1. CASE UNCHANGED runs BY <1>1 DEF Keeps
<1>2. ASSUME NEW v \in Variant, CreateRun(v) PROVE \A j \in DOMAIN runs : Keeps(j)
  <2>1. Add(CourseOf[v], ScheduleOf[v], NoVariant) BY <1>2 DEF CreateRun
  <2> QED BY <2>1, AddLemma DEF IInv, TypeOK, Keeps
<1>3. ASSUME NEW changed \in BOOLEAN, UpdateCourse(changed)
      PROVE  \A j \in DOMAIN runs : Keeps(j)
  <2>1. SaveCourse(CourseOf[loader.row], changed) /\ CourseOf[loader.row] \in Course
    BY <1>3 DEF UpdateCourse, IInv, TypeOK
  <2> QED BY <2>1, SaveCourseLemma DEF IInv, TypeOK, Keeps
<1>4. ASSUME NEW changed \in BOOLEAN, UpdateRun(changed)
      PROVE  \A j \in DOMAIN runs : Keeps(j)
  <2> DEFINE k == loader.run
             v == IF VariantEditable THEN loader.row ELSE runs[k].variant
             status == StatusAfterPatch(runs[k].status, loader.isDraft, changed)
  <2>1. loader.at = "run" BY <1>4 DEF UpdateRun
  <2>2. /\ loader.row \in Variant /\ k \in DOMAIN runs
        /\ loader.isDraft \in YesNo
    BY <2>1 DEF IInv, TypeOK, Loader
  <2>3. runs[k] \in Run BY <2>2 DEF IInv, TypeOK
  <2>4. /\ v \in Variant \cup {NoVariant} /\ ScheduleOf[loader.row] \in Schedule
        /\ status \in Status
        /\ runs[k].status = "published" => status = "published"
    BY <2>2, <2>3, StatusAfterPatchLemma DEF Run
  <2>5. MustKeep /\ runs[k].variant # NoVariant => v = runs[k].variant
    BY <2>1 DEF IInv, HandInv, MustKeep
  <2>6. Save(k, v, ScheduleOf[loader.row], status, "sheet") BY <1>4 DEF UpdateRun
  <2> HIDE DEF v, status
  <2> QED BY <2>2, <2>4, <2>5, <2>6, SaveKeeps, ContentLemma
<1>5. CASE PushToReview
  <2>1. loader.at = "refresh" /\ runs[loader.run].status # "published"
    BY <1>5 DEF PushToReview
  <2>2. loader.run \in DOMAIN runs BY <2>1 DEF IInv, TypeOK
  <2>3. runs[loader.run] \in Run BY <2>2 DEF IInv, TypeOK
  <2> QED BY <1>5, <2>1, <2>2, <2>3, SaveAsItIs DEF PushToReview, SaveStatus, Run, Status
<1>6. ASSUME NEW status \in {"reviewed", "published"}, CompleteReview(status)
      PROVE  \A j \in DOMAIN runs : Keeps(j)
  <2>1. loader.at = "review" BY <1>6 DEF CompleteReview
  <2>2. loader.run \in DOMAIN runs /\ loader.content \in Content BY <2>1 DEF IInv, TypeOK, Loader
  <2>3. touched = "no" => runs[loader.run].status = "in_review" BY <2>1 DEF IInv, LiveInv
  <2> QED BY <1>6, <2>2, <2>3, SaveAsItIs DEF CompleteReview, Status
<1>7. ASSUME NEW rows \in SUBSET Variant, StartIngest(rows)
      PROVE  \A j \in DOMAIN runs : Keeps(j)
  BY <1>7 DEF StartIngest, FromElsewhere, Keeps
<1>8. \/ UNCHANGED runs
      \/ \E rows \in SUBSET Variant : StartIngest(rows)
      \/ \E v \in Variant : CreateRun(v)
      \/ \E changed \in BOOLEAN : UpdateCourse(changed) \/ UpdateRun(changed)
      \/ PushToReview
      \/ \E status \in {"reviewed", "published"} : CompleteReview(status)
  BY DEF LoaderStep, SkipRow, FindRun, TakeCreated, LeaveRunInReview, FailRow,
         NothingToReview, FinishIngest, IngestDies, rowVars
<1> QED BY <1>1, <1>2, <1>3, <1>4, <1>5, <1>6, <1>7, <1>8

\* The run a bulk operation submits has not gone live in between.
LEMMA TaskKeeps ==
  ASSUME IInv, NEW t \in Task, TaskStep(t)
  PROVE  \A j \in DOMAIN runs : Keeps(j)
<1> DEFINE k == worker[t].run
<1>1. CASE UNCHANGED runs BY <1>1 DEF Keeps
<1>2. ASSUME NEW c \in Course, NEW s \in Schedule, NEW review \in YesNo,
             BulkCreates(t, c, s, review)
      PROVE  \A j \in DOMAIN runs : Keeps(j)
  <2>1. Add(c, s, NoVariant) BY <1>2 DEF BulkCreates
  <2> QED BY <2>1, AddLemma DEF IInv, TypeOK, Keeps
<1>3. ASSUME NEW changed \in BOOLEAN, BulkUpdatesCourse(t, changed)
      PROVE  \A j \in DOMAIN runs : Keeps(j)
  <2>1. worker[t].at = "found" /\ SaveCourse(runs[k].course, changed)
    BY <1>3 DEF BulkUpdatesCourse
  <2>2. runs[k].course \in Course BY <2>1, InHand
  <2> QED BY <2>1, <2>2, SaveCourseLemma DEF IInv, TypeOK, Keeps
<1>4. ASSUME NEW changed \in BOOLEAN, NEW s \in Schedule, BulkUpdatesRun(t, changed, s)
      PROVE  \A j \in DOMAIN runs : Keeps(j)
  <2> DEFINE status == StatusAfterPatch(runs[k].status, worker[t].isDraft, changed)
  <2>1. worker[t].at = "course" BY <1>4 DEF BulkUpdatesRun
  <2>2. /\ k \in DOMAIN runs /\ runs[k].status \in Status /\ worker[t].isDraft \in YesNo
    BY <2>1, InHand
  <2>3. status \in Status /\ (runs[k].status = "published" => status = "published")
    BY <2>2, StatusAfterPatchLemma
  <2>4. Save(k, runs[k].variant, s, status, "other") BY <1>4 DEF BulkUpdatesRun
  <2>5. runs[k].variant \in Variant \cup {NoVariant} BY <2>1, InHand
  <2> HIDE DEF status
  <2> QED BY <2>2, <2>3, <2>4, <2>5, SaveKeeps, ContentLemma
<1>5. CASE BulkSubmits(t)
  <2>1. worker[t].at = "patched" /\ MaySubmit(t) BY <1>5 DEF BulkSubmits
  <2>2. k \in DOMAIN runs /\ runs[k].content \in Content BY <2>1, InHand
  <2>3. \/ worker[t].unpublished = "yes"
        \/ runs[k].status = "unpublished"
    BY <2>1 DEF MaySubmit, IInv, RerunInv
  <2>4. touched = "no" => runs[k].status # "published" BY <2>1, <2>3 DEF IInv, LiveInv
  <2> QED BY <1>5, <2>2, <2>4, SaveAsItIs DEF BulkSubmits, SaveStatus, Status
<1>6. \/ UNCHANGED runs
      \/ \E c \in Course, s \in Schedule, review \in YesNo : BulkCreates(t, c, s, review)
      \/ \E changed \in BOOLEAN : BulkUpdatesCourse(t, changed)
      \/ \E changed \in BOOLEAN, s \in Schedule : BulkUpdatesRun(t, changed, s)
      \/ BulkSubmits(t)
  BY DEF TaskStep, Upload, SaveTaskId, SendMessage, RejectTask, StartTask, BulkFinds,
         BulkRowEnds, BulkEnds, WorkerDies, rowVars
<1> QED BY <1>1, <1>2, <1>3, <1>4, <1>5, <1>6

LEMMA NextKeeps ==
  ASSUME IInv, [Next]_vars
  PROVE  \A j \in DOMAIN runs : Keeps(j)
<1>1. CASE UNCHANGED vars BY <1>1 DEF vars, rowVars, Keeps
<1> QED BY <1>1, EditorKeeps, LoaderKeeps, TaskKeeps DEF Next

\* No loader makes the run of one variant the run of another, unless an editor gives
\* out a variant while it has the row in hand; without the switch nobody does.
THEOREM VariantKeptThm == Spec => VariantKept
<1>1. IInv /\ [Next]_vars =>
        [~VariantEditable \/ (handed = "no" /\ (loader' # loader \/ worker' # worker)) =>
           \A k \in DOMAIN runs : runs[k].variant # NoVariant =>
                                    runs'[k].variant = runs[k].variant]_vars
  BY NextKeeps DEF Keeps, MustKeep
<1> QED BY <1>1, AlwaysInv, PTL DEF Spec, VariantKept

\* No loader takes a published run off the site, unless the run moved on while
\* it had it in hand.
THEOREM PublishedStaysThm == Spec => PublishedStays
<1>1. IInv /\ [Next]_vars =>
        [touched = "no" /\ touched' = "no" =>
           \A k \in DOMAIN runs : runs[k].status = "published" =>
                                    runs'[k].status = "published"]_vars
  BY NextKeeps DEF Keeps
<1> QED BY <1>1, AlwaysInv, PTL DEF Spec, PublishedStays

\* The loader completes the review of what it has written itself.
THEOREM ReviewsWhatItWroteThm == Spec => ReviewsWhatItWrote
<1>1. ASSUME IInv, NEW status, CompleteReview(status), status \in Status,
             loader.inReview = "no", touched = "no"
      PROVE  runs'[loader.run].content = "sheet"
  <2>1. loader.at = "review" BY <1>1 DEF CompleteReview
  <2>2. loader.run \in DOMAIN runs /\ loader.content \in Content
    BY <1>1, <2>1 DEF IInv, TypeOK, Loader
  <2>3. runs[loader.run] \in Run BY <1>1, <2>2 DEF IInv, TypeOK
  <2>4. /\ runs[loader.run].variant \in Variant \cup {NoVariant}
        /\ runs[loader.run].schedule \in Schedule
    BY <2>3 DEF Run
  <2>5. runs'[loader.run].content = loader.content
    BY <1>1, <2>2, <2>4, SaveLemma DEF CompleteReview, IInv, TypeOK
  <2> QED BY <1>1, <2>1, <2>5 DEF IInv, WrittenInv
<1>2. IInv /\ [Next]_vars =>
        [loader.inReview = "no" /\ touched = "no" =>
           \A status \in {"reviewed", "published"} :
             CompleteReview(status) => runs'[loader.run].content = "sheet"]_vars
  BY <1>1 DEF Status
<1> QED BY <1>2, AlwaysInv, PTL DEF Spec, ReviewsWhatItWrote

---------------------------------------------------------------------------
(* Products and operations.                                                *)

\* A product is archived only if the sheet has no row of it.
THEOREM ArchivesOnlyMissingThm == Spec => ArchivesOnlyMissing
<1> DEFINE Missing(c) == product[c] = "published" /\ product'[c] = "archived" =>
                           \A v \in loader.rows : CourseOf[v] # c
<1>1. ASSUME IInv, FinishIngest, NEW c \in Course PROVE Missing(c)
  BY <1>1 DEF FinishIngest, IInv, TypeOK, RowInv
<1>2. ASSUME IInv, NEW changed \in BOOLEAN, UpdateCourse(changed), NEW c \in Course
      PROVE  Missing(c)
  BY <1>2 DEF UpdateCourse, IInv, TypeOK
<1>3. ASSUME product' = product, NEW c \in Course PROVE Missing(c) BY <1>3
<1>4. EditorStep => product' = product
  BY DEF EditorStep, EditRun, MoveOn, EditorCreatesRun
<1>5. LoaderStep => \/ product' = product \/ FinishIngest
                    \/ \E changed \in BOOLEAN : UpdateCourse(changed)
  BY DEF LoaderStep, StartIngest, SkipRow, FindRun, CreateRun, TakeCreated, UpdateRun,
         LeaveRunInReview, FailRow, PushToReview, NothingToReview, CompleteReview, IngestDies,
         rowVars
<1>6. ASSUME NEW t \in Task, TaskStep(t) PROVE product' = product
  BY <1>6 DEF TaskStep, Upload, SaveTaskId, SendMessage, RejectTask, StartTask, BulkCreates,
              BulkFinds, BulkUpdatesCourse, BulkUpdatesRun, BulkSubmits, BulkRowEnds,
              BulkEnds, WorkerDies, rowVars
<1> HIDE DEF Missing
<1>7. IInv /\ [Next]_vars => [\A c \in Course : Missing(c)]_vars
  BY <1>1, <1>2, <1>3, <1>4, <1>5, <1>6 DEF Next
<1> USE DEF Missing
<1>8. IInv /\ [Next]_vars =>
        [\A c \in Course : product[c] = "published" /\ product'[c] = "archived" =>
           \A v \in loader.rows : CourseOf[v] # c]_vars
  BY <1>7
<1> QED BY <1>8, AlwaysInv, PTL DEF Spec, ArchivesOnlyMissing

\* Only the steps of an operation change its row and its worker.
LEMMA TasksAlone ==
  EditorStep \/ LoaderStep => task' = task /\ worker' = worker
<1>1. EditorStep => UNCHANGED bulkVars
  BY DEF EditorStep, EditRun, MoveOn, EditorCreatesRun
<1>2. LoaderStep => UNCHANGED bulkVars
  BY DEF LoaderStep, StartIngest, SkipRow, FindRun, CreateRun, TakeCreated, UpdateCourse,
         UpdateRun, LeaveRunInReview, FailRow, PushToReview, NothingToReview, CompleteReview,
         FinishIngest, IngestDies
<1> QED BY <1>1, <1>2 DEF bulkVars

\* What a step of operation t does to the rows and the workers.
LEMMA TaskStepShape ==
  ASSUME IInv, NEW t \in Task, TaskStep(t)
  PROVE  /\ \A u \in Task : u # t => task'[u] = task[u] /\ worker'[u] = worker[u]
         /\ \/ task'[t].status = task[t].status
            \/ task[t].status = "pending"
            \/ task'[t].status \in {"completed", "failed"}
         /\ worker[t].at = "idle" /\ worker'[t].at # "idle" => task[t].message = "sent"
<1>1. ASSUME NEW status, NEW message, TaskIs(t, status, message)
      PROVE  /\ \A u \in Task : u # t => task'[u] = task[u]
             /\ task'[t].status = status
  BY <1>1 DEF TaskIs, IInv, TypeOK
<1>2. ASSUME NEW at, NEW review, NEW run, NEW unpublished, NEW isDraft,
             WorkerIs(t, at, review, run, unpublished, isDraft)
      PROVE  \A u \in Task : u # t => worker'[u] = worker[u]
  BY <1>2 DEF WorkerIs, IInv, TypeOK
<1>3. Rest(t) => /\ \A u \in Task : u # t => worker'[u] = worker[u]
                 /\ worker'[t].at = "idle"
  BY DEF Rest, Resting, IInv, TypeOK
<1>4. ASSUME NEW kind \in Kind, Read(t, kind)
      PROVE  \A u \in Task : u # t => worker'[u] = worker[u]
  BY <1>4 DEF Read, IInv, TypeOK
<1>5. task[t].message # "taken" => task[t].status = "pending"
  BY DEF IInv, TaskInv
<1>6. CASE Upload(t) \/ SaveTaskId(t) \/ SendMessage(t) \/ RejectTask(t)
  BY <1>1, <1>5, <1>6 DEF Upload, SaveTaskId, SendMessage, RejectTask
<1>7. CASE \E kind \in Kind : StartTask(t, kind)
  BY <1>1, <1>4, <1>5, <1>7 DEF StartTask
<1>8. CASE \/ \E c \in Course, s \in Schedule, review \in YesNo : BulkCreates(t, c, s, review)
           \/ \E k \in Key, review \in YesNo : BulkFinds(t, k, review)
           \/ \E changed \in BOOLEAN : BulkUpdatesCourse(t, changed)
           \/ \E changed \in BOOLEAN, s \in Schedule : BulkUpdatesRun(t, changed, s)
           \/ BulkSubmits(t) \/ BulkRowEnds(t)
  <2>1. task' = task /\ worker[t].at # "idle"
    BY <1>8 DEF BulkCreates, BulkFinds, BulkUpdatesCourse, BulkUpdatesRun, BulkSubmits,
                BulkRowEnds
  <2>2. \E at, review, run, unpublished, isDraft :
          WorkerIs(t, at, review, run, unpublished, isDraft)
    BY <1>8 DEF BulkCreates, BulkFinds, BulkUpdatesCourse, BulkUpdatesRun, BulkSubmits,
                BulkRowEnds
  <2> QED BY <1>2, <2>1, <2>2
<1>9. CASE \E status \in {"completed", "failed"} : BulkEnds(t, status)
  BY <1>1, <1>3, <1>9 DEF BulkEnds
<1>10. CASE WorkerDies(t)
  BY <1>3, <1>10 DEF WorkerDies
<1> QED BY <1>6, <1>7, <1>8, <1>9, <1>10 DEF TaskStep

\* The status of a bulk operation only advances.
THEOREM StatusAdvancesThm == Spec => StatusAdvances
<1>1. ASSUME IInv, NEW t \in Task, TaskStep(t), NEW u \in Task
      PROVE  Rank(task[u].status) <= Rank(task'[u].status)
  <2>1. task[u].status \in Progress BY <1>1 DEF IInv, TypeOK, Tasks
  <2>2. task'[u].status \in Progress
    <3>1. IInv' BY <1>1, TaskStepLemma
    <3> QED BY <3>1 DEF IInv, TypeOK, Tasks
  <2>3. CASE u # t BY <1>1, <2>1, <2>3, TaskStepShape DEF Rank, Progress
  <2>4. CASE u = t BY <1>1, <2>1, <2>2, <2>4, TaskStepShape DEF Rank, Progress
  <2> QED BY <2>3, <2>4
<1>2. ASSUME IInv, task' = task, NEW u \in Task
      PROVE  Rank(task[u].status) <= Rank(task'[u].status)
  <2>1. task[u].status \in Progress BY <1>2 DEF IInv, TypeOK, Tasks
  <2> QED BY <1>2, <2>1 DEF Rank, Progress
<1>3. IInv /\ [Next]_vars =>
        [\A t \in Task : Rank(task[t].status) <= Rank(task'[t].status)]_vars
  BY <1>1, <1>2, TasksAlone DEF Next
<1> QED BY <1>3, AlwaysInv, PTL DEF Spec, StatusAdvances

\* A file is ingested at most once, even when its worker dies.
THEOREM IngestedOnceThm == Spec => IngestedOnce
<1>1. ASSUME IInv, NEW t \in Task, TaskStep(t), NEW u \in Task,
             worker[u].at = "idle", worker'[u].at # "idle"
      PROVE  task[u].status = "pending"
  <2>1. u = t /\ task[u].message = "sent" BY <1>1, TaskStepShape
  <2> QED BY <1>1, <2>1 DEF IInv, TaskInv
<1>2. IInv /\ [Next]_vars =>
        [\A t \in Task : worker[t].at = "idle" /\ worker'[t].at # "idle" =>
           task[t].status = "pending"]_vars
  BY <1>1, TasksAlone DEF Next
<1> QED BY <1>2, AlwaysInv, PTL DEF Spec, IngestedOnce

---------------------------------------------------------------------------
(* The refinement of TaskLedger.                                           *)

LEMMA LedgerInit == Init => Ledger!Init
BY DEF Init, Ledger!Init, StateShown, Busy, NoTask, Resting

\* What the user is shown when the row of an operation is saved.
LEMMA ShownSaved ==
  ASSUME task \in [Task -> Tasks], NEW t \in Task, NEW status, NEW message,
         message # "none", TaskIs(t, status, message)
  PROVE  StateShown' = [StateShown EXCEPT ![t] = status]
<1>1. task' = [task EXCEPT ![t] = [status |-> status, message |-> message]]
  BY DEF TaskIs
<1>2. ASSUME NEW u \in Task
      PROVE  (IF task'[u].message = "none" THEN "absent" ELSE task'[u].status)
               = [StateShown EXCEPT ![t] = status][u]
  BY <1>1 DEF StateShown
<1> QED BY <1>2 DEF StateShown

\* Who is busy after a worker starts, goes on, or rests.
LEMMA BusyAfter ==
  ASSUME worker \in [Task -> Worker], NEW t \in Task
  PROVE  /\ \A kind : Read(t, kind) => Busy' = Busy \cup {t}
         /\ \A at, review, run, unpublished, isDraft :
              at # "idle" /\ WorkerIs(t, at, review, run, unpublished, isDraft)
                => Busy' = Busy \cup {t}
         /\ Rest(t) => Busy' = Busy \ {t}
<1>1. ASSUME NEW w, worker' = [worker EXCEPT ![t] = w]
      PROVE  Busy' = IF w.at = "idle" THEN Busy \ {t} ELSE Busy \cup {t}
  <2>1. ASSUME NEW u \in Task
        PROVE  worker'[u].at # "idle" <=> IF u = t THEN w.at # "idle" ELSE worker[u].at # "idle"
    BY <1>1
  <2> QED BY <2>1 DEF Busy
<1>2. ASSUME NEW kind, Read(t, kind) PROVE Busy' = Busy \cup {t}
  <2> DEFINE w == [at |-> "started", kind |-> kind, review |-> "no",
                   run |-> NoRun, unpublished |-> "no", isDraft |-> "no"]
  <2>1. worker' = [worker EXCEPT ![t] = w] /\ w.at # "idle" BY <1>2 DEF Read
  <2> HIDE DEF w
  <2> QED BY <1>1, <2>1
<1>3. ASSUME NEW at, NEW review, NEW run, NEW unpublished, NEW isDraft, at # "idle",
             WorkerIs(t, at, review, run, unpublished, isDraft)
      PROVE  Busy' = Busy \cup {t}
  <2> DEFINE w == [at |-> at, kind |-> worker[t].kind, review |-> review,
                   run |-> run, unpublished |-> unpublished, isDraft |-> isDraft]
  <2>1. worker' = [worker EXCEPT ![t] = w] /\ w.at # "idle" BY <1>3 DEF WorkerIs
  <2> HIDE DEF w
  <2> QED BY <1>1, <2>1
<1>4. ASSUME Rest(t) PROVE Busy' = Busy \ {t}
  <2>1. worker' = [worker EXCEPT ![t] = Resting] /\ Resting.at = "idle" BY <1>4 DEF Rest, Resting
  <2> QED BY <1>1, <2>1
<1> QED BY <1>2, <1>3, <1>4

\* Every step of an operation is one of the ledger, or does not show in it.
LEMMA LedgerTaskStep ==
  ASSUME IInv, NEW t \in Task, TaskStep(t)
  PROVE  Ledger!Next \/ UNCHANGED <<StateShown, Busy>>
<1>1. /\ task \in [Task -> Tasks] /\ worker \in [Task -> Worker]
      /\ task[t].message # "taken" => task[t].status = "pending" /\ worker[t].at = "idle"
      /\ worker[t].at # "idle" => task[t].status = "processing" /\ task[t].message = "taken"
  BY DEF IInv, TypeOK, TaskInv
<1>2. StateShown[t] = IF task[t].message = "none" THEN "absent" ELSE task[t].status
  BY DEF StateShown
<1>3. t \in Busy <=> worker[t].at # "idle"
  BY DEF Busy
<1>4. worker' = worker => UNCHANGED Busy
  BY DEF Busy
<1>5. task' = task => UNCHANGED StateShown
  BY DEF StateShown
<1>6. StateShown = [u \in Task |-> StateShown[u]]
  BY DEF StateShown
<1>7. CASE Upload(t)
  <2>1. StateShown' = [StateShown EXCEPT ![t] = "pending"]
    BY <1>1, <1>7, ShownSaved DEF Upload
  <2> QED
    BY <1>2, <1>4, <1>7, <2>1 DEF Upload, Ledger!Next, Ledger!Accept, Ledger!Moves
<1>8. CASE SaveTaskId(t) \/ SendMessage(t)
  <2>1. StateShown' = [StateShown EXCEPT ![t] = StateShown[t]]
    BY <1>1, <1>2, <1>8, ShownSaved DEF SaveTaskId, SendMessage
  <2>2. UNCHANGED StateShown
    BY <1>6, <2>1
  <2> QED
    BY <1>4, <1>8, <2>2 DEF SaveTaskId, SendMessage
<1>9. CASE RejectTask(t)
  <2>1. StateShown' = [StateShown EXCEPT ![t] = "failed"]
    BY <1>1, <1>9, ShownSaved DEF RejectTask
  <2> QED
    BY <1>1, <1>2, <1>4, <1>9, <2>1 DEF RejectTask, Ledger!Next, Ledger!Reject, Ledger!Moves
<1>10. ASSUME NEW kind \in Kind, StartTask(t, kind) PROVE Ledger!Next
  <2>1. StateShown' = [StateShown EXCEPT ![t] = "processing"]
    BY <1>1, <1>10, ShownSaved DEF StartTask
  <2>2. Busy' = Busy \cup {t}
    BY <1>1, <1>10, BusyAfter DEF StartTask
  <2> QED
    BY <1>1, <1>2, <1>10, <2>1, <2>2 DEF StartTask, Ledger!Next, Ledger!Take, Ledger!Moves
<1>11. CASE \/ \E c \in Course, s \in Schedule, review \in YesNo : BulkCreates(t, c, s, review)
            \/ \E k \in Key, review \in YesNo : BulkFinds(t, k, review)
            \/ \E changed \in BOOLEAN : BulkUpdatesCourse(t, changed)
            \/ \E changed \in BOOLEAN, s \in Schedule : BulkUpdatesRun(t, changed, s)
            \/ BulkSubmits(t) \/ BulkRowEnds(t)
  <2>1. task' = task /\ worker[t].at # "idle"
    BY <1>11 DEF BulkCreates, BulkFinds, BulkUpdatesCourse, BulkUpdatesRun, BulkSubmits,
                 BulkRowEnds
  <2>2. \E at, review, run, unpublished, isDraft :
          at # "idle" /\ WorkerIs(t, at, review, run, unpublished, isDraft)
    BY <1>11 DEF BulkCreates, BulkFinds, BulkUpdatesCourse, BulkUpdatesRun, BulkSubmits,
                 BulkRowEnds
  <2>3. Busy' = Busy \cup {t}
    BY <1>1, <2>2, BusyAfter
  <2> QED
    BY <1>3, <1>5, <2>1, <2>3
<1>12. ASSUME NEW status \in {"completed", "failed"}, BulkEnds(t, status) PROVE Ledger!Next
  <2>1. StateShown' = [StateShown EXCEPT ![t] = status]
    BY <1>1, <1>12, ShownSaved DEF BulkEnds
  <2>2. Busy' = Busy \ {t}
    BY <1>1, <1>12, BusyAfter DEF BulkEnds
  <2> QED
    BY <1>1, <1>2, <1>3, <1>12, <2>1, <2>2 DEF BulkEnds, Ledger!Next, Ledger!Finish, Ledger!Moves
<1>13. CASE WorkerDies(t)
  <2>1. Busy' = Busy \ {t}
    BY <1>1, <1>13, BusyAfter DEF WorkerDies
  <2> QED
    BY <1>3, <1>5, <1>13, <2>1 DEF WorkerDies, Ledger!Next, Ledger!Abandon
<1> QED
  BY <1>7, <1>8, <1>9, <1>10, <1>11, <1>12, <1>13 DEF TaskStep

LEMMA LedgerStep == IInv /\ [Next]_vars => [Ledger!Next]_(Ledger!ledger)
<1>1. task' = task /\ worker' = worker => UNCHANGED <<StateShown, Busy>>
  BY DEF StateShown, Busy
<1> QED
  BY <1>1, LedgerTaskStep, TasksAlone DEF Next, vars, bulkVars, Ledger!ledger

\* The task rows, the commit hook, the message and the workers implement
\* TaskLedger: an operation is taken up once, only the worker that is at it ends
\* it, and after the death of that worker nothing does.
THEOREM KeepsTaskPromisesThm == Spec => KeepsTaskPromises
<1>1. Spec => Ledger!Init /\ [][Ledger!Next]_(Ledger!ledger)
  BY LedgerInit, LedgerStep, AlwaysInv, PTL DEF Spec
<1> QED BY <1>1 DEF KeepsTaskPromises, Ledger!Spec

\* An operation whose worker died.
Abandoned(t) == task[t].status = "processing" /\ worker[t].at = "idle"

AbandonedIsShown ==
  \A t \in Task : Abandoned(t) <=> StateShown[t] = "processing" /\ t \notin Busy

LEMMA AbandonedShown == IInv => AbandonedIsShown
BY DEF IInv, TaskInv, Abandoned, StateShown, Busy, AbandonedIsShown

LEMMA AbandonedShownNext == IInv' => AbandonedIsShown'
BY AbandonedShown, PTL

\* No step of the ledger touches an operation in Processing that nobody is busy with.
LEMMA LedgerLeavesAbandoned ==
  ASSUME NEW t \in Task, StateShown[t] = "processing", t \notin Busy,
         [Ledger!Next]_(Ledger!ledger)
  PROVE  StateShown'[t] = "processing" /\ t \notin Busy'
<1>1. ASSUME NEW u \in Task, NEW from, NEW to, from # "processing" \/ u \in Busy,
             Ledger!Moves(u, from, to)
      PROVE  StateShown'[t] = "processing"
  <2>1. StateShown = [v \in Task |-> StateShown[v]]
    BY DEF StateShown
  <2> QED
    BY <1>1, <2>1 DEF Ledger!Moves
<1>2. ASSUME NEW u \in Task, Ledger!Accept(u) \/ Ledger!Take(u) \/ Ledger!Reject(u)
      PROVE  StateShown'[t] = "processing" /\ t \notin Busy'
  <2>1. u # t
    BY <1>2 DEF Ledger!Accept, Ledger!Take, Ledger!Reject, Ledger!Moves
  <2> QED
    BY <1>1, <1>2, <2>1 DEF Ledger!Accept, Ledger!Take, Ledger!Reject
<1>3. ASSUME NEW u \in Task, Ledger!Abandon(u)
      PROVE  StateShown'[t] = "processing" /\ t \notin Busy'
  BY <1>3 DEF Ledger!Abandon
<1>4. ASSUME NEW u \in Task, NEW outcome, Ledger!Finish(u, outcome)
      PROVE  StateShown'[t] = "processing" /\ t \notin Busy'
  BY <1>1, <1>4 DEF Ledger!Finish
<1>5. CASE UNCHANGED Ledger!ledger
  BY <1>5 DEF Ledger!ledger
<1> QED BY <1>2, <1>3, <1>4, <1>5 DEF Ledger!Next

\* An operation whose worker died shows Processing for ever: the message was
\* acknowledged when it was taken, and nothing else starts or ends the work.
THEOREM DeadWorkIsNeverEnded ==
  Spec => \A t \in Task : [](Abandoned(t) => []Abandoned(t))
<1> SUFFICES ASSUME NEW t \in Task PROVE Spec => [](Abandoned(t) => []Abandoned(t))
  OBVIOUS
<1>1. IInv /\ Abandoned(t) /\ [Next]_vars /\ IInv' => Abandoned(t)'
  BY AbandonedShown, AbandonedShownNext, LedgerStep, LedgerLeavesAbandoned DEF AbandonedIsShown
<1> QED BY <1>1, AlwaysInv, PTL DEF Spec

===========================================================================
