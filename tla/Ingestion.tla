----------------------------- MODULE Ingestion -----------------------------
(***************************************************************************)
(* Runs that come from spreadsheets (data_loaders/csv_loader.py,           *)
(* course_loader.py, course_run_loader.py, tasks.py, signals.py).          *)
(*                                                                         *)
(* import_course_metadata reads the sheet of the variants of all external  *)
(* products, row by row; each row finds or makes a run, updates it and     *)
(* completes its review.  At the end the products that are not in the      *)
(* sheet are archived.  Meanwhile editors work on the same draft rows, and *)
(* so do Celery workers with the files staff upload (bulk operations).     *)
(*                                                                         *)
(* A request to the API is a step, and so is a save of the loader.  Of the *)
(* fields of a run only their origin is kept: the sheet that is being      *)
(* ingested, or elsewhere.  The two review states are one.                 *)
(***************************************************************************)
EXTENDS Naturals, Sequences

CONSTANTS
  Course,           \* products of one type and source
  Variant,          \* what the rows of the sheets describe
  NoVariant,
  Schedule,         \* start and end dates
  CourseOf,         \* the product of a variant
  ScheduleOf,       \* the dates a variant has in every sheet
  VariantEditable,  \* the switch is_course_run_variant_id_editable
  Task,             \* BulkOperationTask rows
  MaxRuns           \* bound on the number of course runs

ASSUME IngestionAssumption ==
  /\ NoVariant \notin Variant
  /\ CourseOf \in [Variant -> Course]
  /\ ScheduleOf \in [Variant -> Schedule]
  /\ VariantEditable \in BOOLEAN
  /\ MaxRuns \in Nat

Key    == 1..MaxRuns
NoRun  == 0
Status == {"unpublished", "in_review", "reviewed", "published"}
Content == {"sheet", "other"}
Run    == [course: Course, variant: Variant \cup {NoVariant}, schedule: Schedule,
           status: Status, content: Content]
Phases == {"idle", "rows", "made_course", "made_run", "course", "run", "refresh", "review"}
YesNo    == {"yes", "no"}
Progress == {"pending", "processing", "completed", "failed"}

VARIABLES
  runs,      \* the draft rows, in the order they were created
  product,   \* AdditionalMetadata.product_status of each product, or "none"
  loader,    \* what the CSV loader remembers
  task,      \* status, task_id and message of each bulk operation
  worker,    \* what the worker on each bulk operation remembers
  touched,   \* history: has anyone else written a run a loader had in hand?
  stray,     \* history: has a run been left without variant, come in from elsewhere
             \* or got its variant from an editor?
  handed     \* history: has an editor given out a variant since the loader took up
             \* its row, and before it gives the run in hand its own?

rowVars  == <<runs, product>>
bulkVars == <<task, worker>>
vars     == <<rowVars, loader, bulkVars, touched, stray, handed>>

\* A loader without a row in hand.
Reading(at, rows, todo, listed) ==
  [at |-> at, rows |-> rows, todo |-> todo, listed |-> listed, row |-> NoVariant,
   run |-> NoRun, inReview |-> "no", isDraft |-> "no", content |-> "other"]
Loader == [at: Phases, rows: SUBSET Variant, todo: SUBSET Variant,
           listed: SUBSET Course, row: Variant \cup {NoVariant},
           run: Nat, inReview: YesNo, isDraft: YesNo, content: Content]
Kind   == {"course_create", "course_rerun", "partial_update"}
NoTask == [status |-> "pending", message |-> "none"]
Tasks  == [status: Progress, message: {"none", "created", "saved", "sent", "taken"}]
Resting == [at |-> "idle", kind |-> "course_rerun", review |-> "no", run |-> NoRun,
            unpublished |-> "no", isDraft |-> "no"]
Worker  == [at: {"idle", "started", "found", "course", "patched"}, kind: Kind,
            review: YesNo, run: Nat, unpublished: YesNo, isDraft: YesNo]

TypeOK ==
  /\ runs \in Seq(Run)
  /\ Len(runs) <= MaxRuns
  /\ product \in [Course -> {"none", "published", "archived"}]
  /\ loader \in Loader
  /\ loader.at \notin {"idle", "rows"} => loader.row \in Variant
  /\ loader.at \in {"course", "run", "refresh", "review"} => loader.run \in DOMAIN runs
  /\ task \in [Task -> Tasks]
  /\ worker \in [Task -> Worker]
  /\ \A t \in Task : worker[t].at \notin {"idle", "started"} => worker[t].run \in DOMAIN runs
  /\ touched \in YesNo
  /\ stray \in YesNo
  /\ handed \in YesNo

Init ==
  /\ runs = <<>>
  /\ product = [c \in Course |-> "none"]
  /\ loader = Reading("idle", {}, {}, {})
  /\ task = [t \in Task |-> NoTask]
  /\ worker = [t \in Task |-> Resting]
  /\ touched = "no"
  /\ stray = "no"
  /\ handed = "no"

---------------------------------------------------------------------------
(* The rows and the API.                                                   *)

RunsOf(c)       == {k \in DOMAIN runs : runs[k].course = c}
IsFirst(k, ks)  == k \in ks /\ \A j \in ks : k <= j
IsNewest(k, ks) == k \in ks /\ \A j \in ks : j <= k

\* POST /courses/ or /course_runs/: a draft row with the variant that is sent.
\* (The loaders send none, with the switch on or off.)
Add(c, s, v) ==
  /\ Len(runs) < MaxRuns
  /\ runs' = Append(runs, [course |-> c, variant |-> v, schedule |-> s,
                           status |-> "unpublished", content |-> "other"])

YesIf(b)    == IF b THEN "yes" ELSE "no"
InReview(k) == YesIf(runs[k].status = "in_review")

\* get_draft_flag: edits go live at once when a run of the course is published.
DraftFlag(c) == YesIf(\A k \in RunsOf(c) : runs[k].status # "published")

\* _update_course_run: a Reviewed run that changes loses its review, and
\* draft=False submits what is Unpublished then.
StatusAfterPatch(status, isDraft, changed) ==
  CASE status = "published" \/ (status = "reviewed" /\ ~changed) -> status
    [] status = "unpublished" \/ (status = "reviewed" /\ changed) ->
         IF isDraft = "no" THEN "in_review" ELSE "unpublished"
    [] OTHER -> status

\* Run k is saved: nobody changes the course it belongs to.
Save(k, variant, schedule, status, content) ==
  runs' = [runs EXCEPT ![k] = [course |-> runs[k].course, variant |-> variant,
                               schedule |-> schedule, status |-> status, content |-> content]]
SaveStatus(k, status) ==
  Save(k, runs[k].variant, runs[k].schedule, status, runs[k].content)

\* update_course: a change of a course takes back the review of its Reviewed runs.
SaveCourse(c, changed) ==
  runs' = IF ~changed THEN runs
          ELSE [k \in DOMAIN runs |->
                  IF runs[k].course = c /\ runs[k].status = "reviewed"
                  THEN [course |-> c, variant |-> runs[k].variant, schedule |-> runs[k].schedule,
                        status |-> "unpublished", content |-> runs[k].content]
                  ELSE runs[k]]

\* Run k is in the hands of a loader: CSV has updated it, bulk operation t has
\* read its status.
HeldByCsv(k)     == loader.at \in {"refresh", "review"} /\ loader.run = k
HeldByBulk(t, k) == worker[t].at \in {"found", "course", "patched"} /\ worker[t].run = k
Touched(held)    == touched' = IF held THEN "yes" ELSE touched
Touch(k)         == Touched(HeldByCsv(k) \/ \E t \in Task : HeldByBulk(t, k))

\* A row is in the loader's hands, and its run has not got its variant yet.
HasRow == loader.at \in {"made_course", "made_run", "course", "run"}

\* An editor gives a run a variant, another one or none.
HandsOut(given) ==
  /\ stray' = IF given THEN "yes" ELSE stray
  /\ handed' = IF given /\ HasRow THEN "yes" ELSE handed

\* An editor saves a run, with other dates perhaps, for which no review is taken
\* back, or submits it with draft=False.  The variant that is sent is dropped
\* unless the switch is on.
EditRun(k, isDraft, changed, s, v) ==
  /\ k \in DOMAIN runs
  /\ runs[k].status # "in_review"
  /\ v # runs[k].variant => VariantEditable /\ changed
  /\ Save(k, v, s, StatusAfterPatch(runs[k].status, isDraft, changed), "other")
  /\ Touch(k)
  /\ HandsOut(v # runs[k].variant)
  /\ UNCHANGED <<product, loader, bulkVars>>

\* Staff approve a run (handle_internal_review), or it goes live.
MoveOn(k, from, to) ==
  /\ k \in DOMAIN runs
  /\ runs[k].status = from
  /\ SaveStatus(k, to)
  /\ Touch(k)
  /\ UNCHANGED <<product, loader, bulkVars, stray, handed>>

\* An editor makes a run of a course that exists, with a variant or without.
EditorCreatesRun(c, s, v) ==
  /\ RunsOf(c) # {}
  /\ Add(c, s, v)
  /\ stray' = "yes"
  /\ handed' = IF v # NoVariant /\ HasRow THEN "yes" ELSE handed
  /\ UNCHANGED <<product, loader, bulkVars, touched>>

---------------------------------------------------------------------------
(* CSVDataLoader.ingest.                                                   *)

\* No run has its fields from a sheet that has just come.
FromElsewhere(run) ==
  [course |-> run.course, variant |-> run.variant, schedule |-> run.schedule,
   status |-> run.status, content |-> "other"]

StartIngest(rows) ==
  /\ loader.at = "idle"
  /\ runs' = [k \in DOMAIN runs |-> FromElsewhere(runs[k])]
  /\ loader' = Reading("rows", rows, rows, {})
  /\ UNCHANGED <<product, bulkVars, touched, stray, handed>>

\* The loader takes up row v: its product counts as present whatever follows.
Taken(v, at, run, inReview, isDraft) ==
  [loader EXCEPT !.at = at, !.todo = loader.todo \ {v}, !.listed = loader.listed \cup {CourseOf[v]},
                 !.row = v, !.run = run, !.inReview = inReview, !.isDraft = isDraft]

\* Mutant: the identifier is collected after the validation.
SkipRowMutant(v) ==
  /\ loader.at = "rows"
  /\ v \in loader.todo
  /\ loader' = [loader EXCEPT !.todo = loader.todo \ {v}]
  /\ UNCHANGED <<rowVars, bulkVars, touched, stray, handed>>

\* The row is not valid, or the API does not create the course or the run.
SkipRow(v) ==
  /\ loader.at = "rows"
  /\ v \in loader.todo
  /\ loader' = [loader EXCEPT !.todo = loader.todo \ {v},
                              !.listed = loader.listed \cup {CourseOf[v]}]
  /\ UNCHANGED <<rowVars, bulkVars, touched, stray, handed>>

\* Mutants: a run of another variant counts as well; only the dates count.
MatchingHandsMutant(v) ==
  {k \in RunsOf(CourseOf[v]) :
     runs[k].variant = v \/ runs[k].schedule = ScheduleOf[v]}
MatchingVariantMutant(v) ==
  {k \in RunsOf(CourseOf[v]) :
     runs[k].schedule = ScheduleOf[v] /\ runs[k].variant = NoVariant}

\* _get_or_create_course_run: the runs that are, or may become, those of v.
Matching(v) ==
  {k \in RunsOf(CourseOf[v]) :
     \/ runs[k].variant = v
     \/ runs[k].schedule = ScheduleOf[v] /\ runs[k].variant = NoVariant}

FindRun(v, k) ==
  /\ loader.at = "rows"
  /\ v \in loader.todo
  /\ IsNewest(k, Matching(v))
  /\ loader' = Taken(v, "course", k, InReview(k), DraftFlag(CourseOf[v]))
  /\ UNCHANGED <<rowVars, bulkVars, touched, stray, handed>>

\* Mutant: the run that was created is not looked up.
CreateRunMutant(v) ==
  /\ loader.at = "rows"
  /\ v \in loader.todo
  /\ Matching(v) = {}
  /\ Add(CourseOf[v], ScheduleOf[v], NoVariant)
  /\ loader' = Taken(v, "course", NoRun, "no", "no")
  /\ UNCHANGED <<product, bulkVars, touched, stray, handed>>

\* POST by the loader: a course with its first run, or another run.
CreateRun(v) ==
  /\ loader.at = "rows"
  /\ v \in loader.todo
  /\ Matching(v) = {}
  /\ Add(CourseOf[v], ScheduleOf[v], NoVariant)
  /\ loader' = Taken(v, IF RunsOf(CourseOf[v]) = {} THEN "made_course" ELSE "made_run",
                     NoRun, "no", "no")
  /\ UNCHANGED <<product, bulkVars, touched, stray, handed>>

\* The answer is thrown away: the loader looks for the first run of the new
\* course, or for the newest run of the old one, whoever has made it.
TakeCreated(k) ==
  LET ks == RunsOf(CourseOf[loader.row]) IN
  /\ \/ loader.at = "made_course" /\ IsFirst(k, ks)
     \/ loader.at = "made_run" /\ IsNewest(k, ks)
  /\ loader' = [loader EXCEPT !.at = "course", !.run = k, !.inReview = InReview(k),
                              !.isDraft = DraftFlag(CourseOf[loader.row])]
  /\ UNCHANGED <<rowVars, bulkVars, touched, stray, handed>>

\* The image, and PATCH /courses/<key>/, whose body may differ or not; only the
\* entitlement price when an earlier row has published the product already.
UpdateCourse(changed) ==
  LET c == CourseOf[loader.row] IN
  /\ loader.at = "course"
  /\ product' = [product EXCEPT ![c] = "published"]
  /\ SaveCourse(c, changed)
  /\ loader' = [loader EXCEPT !.at = "run"]
  /\ UNCHANGED <<bulkVars, touched, stray, handed>>

\* PATCH /course_runs/<key>/, which is refused while the run is in review; not
\* asked for when the run was in review as the loader found it.  Another variant is
\* a change, also when it is dropped.
UpdateRun(changed) ==
  LET k == loader.run
      v == IF VariantEditable THEN loader.row ELSE runs[k].variant
  IN
  /\ loader.at = "run"
  /\ loader.inReview = "no"
  /\ runs[k].status # "in_review"
  /\ runs[k].variant # loader.row => changed
  /\ Save(k, v, ScheduleOf[loader.row],
          StatusAfterPatch(runs[k].status, loader.isDraft, changed), "sheet")
  /\ loader' = [loader EXCEPT !.at = "refresh", !.isDraft = "no"]
  /\ Touch(k)
  /\ handed' = "no"
  /\ UNCHANGED <<product, bulkVars, stray>>

\* The row ends without giving the variant to its run.
LeaveBehind ==
  /\ handed' = "no"
  /\ stray' = IF \/ loader.at \in {"made_course", "made_run"}
                 \/ loader.at \in {"course", "run"} /\ runs[loader.run].variant = NoVariant
              THEN "yes" ELSE stray

LeaveRunInReview ==
  /\ loader.at = "run"
  /\ loader.inReview = "yes"
  /\ loader' = [loader EXCEPT !.at = "refresh"]
  /\ LeaveBehind
  /\ UNCHANGED <<rowVars, bulkVars, touched>>

\* On to the next row.
NextRow == Reading("rows", loader.rows, loader.todo, loader.listed)

\* Mutant: the row goes on although its run was not updated.
FailRowMutant ==
  /\ loader.at \in {"course", "run"}
  /\ loader' = [loader EXCEPT !.at = "refresh"]
  /\ LeaveBehind
  /\ UNCHANGED <<rowVars, bulkVars, touched>>

\* The image cannot be loaded, or the API refuses: the next row.
FailRow ==
  /\ loader.at \in {"course", "run"}
  /\ loader' = NextRow
  /\ LeaveBehind
  /\ UNCHANGED <<rowVars, bulkVars, touched>>

\* refresh_from_db, and save(update_fields=['status']) of an Unpublished run.
PushToReview ==
  /\ loader.at = "refresh"
  /\ runs[loader.run].status \in {"unpublished", "in_review"}
  /\ SaveStatus(loader.run, "in_review")
  /\ loader' = [loader EXCEPT !.at = "review", !.content = runs[loader.run].content]
  /\ Touched(\E t \in Task : HeldByBulk(t, loader.run))
  /\ UNCHANGED <<product, bulkVars, stray, handed>>

NothingToReview ==
  /\ loader.at = "refresh"
  /\ runs[loader.run].status \in {"reviewed", "published"}
  /\ loader' = NextRow
  /\ UNCHANGED <<rowVars, bulkVars, touched, stray, handed>>

\* complete_review_phase: Reviewed, and Published at once when the run is due;
\* save() writes the whole row as the loader has read it.
CompleteReview(status) ==
  LET k == loader.run IN
  /\ loader.at = "review"
  /\ Save(k, runs[k].variant, runs[k].schedule, status, loader.content)
  /\ loader' = NextRow
  /\ Touched(\E t \in Task : HeldByBulk(t, k))
  /\ UNCHANGED <<product, bulkVars, stray, handed>>

\* _archive_stale_products, once every row has been read.
FinishIngest ==
  /\ loader.at = "rows"
  /\ loader.todo = {}
  /\ product' = [c \in Course |-> IF product[c] = "published" /\ c \notin loader.listed
                                  THEN "archived" ELSE product[c]]
  /\ loader' = Reading("idle", {}, {}, {})
  /\ UNCHANGED <<runs, bulkVars, touched, stray, handed>>

\* Killed, or a save in the review step raises: nothing is archived.
IngestDies ==
  /\ loader.at # "idle"
  /\ loader' = Reading("idle", {}, {}, {})
  /\ LeaveBehind
  /\ UNCHANGED <<rowVars, bulkVars, touched>>

---------------------------------------------------------------------------
(* Bulk operations.                                                        *)

TaskIs(t, status, message) ==
  task' = [task EXCEPT ![t] = [status |-> status, message |-> message]]

\* POST /bulk_operation_tasks/ is committed.
Upload(t) ==
  /\ task[t].message = "none"
  /\ TaskIs(t, "pending", "created")
  /\ UNCHANGED <<rowVars, loader, worker, touched, stray, handed>>

\* Mutant: the message is sent before the row is saved.
SaveTaskIdMutant(t) ==
  /\ \/ task[t].message = "created" /\ TaskIs(t, "pending", "sent")
     \/ task[t].message = "taken" /\ TaskIs(t, "pending", "taken")
  /\ UNCHANGED <<rowVars, loader, worker, touched, stray, handed>>

\* queue_bulk_operation_celery_task: the whole row is saved with its task_id ...
SaveTaskId(t) ==
  /\ task[t].message = "created"
  /\ TaskIs(t, "pending", "saved")
  /\ UNCHANGED <<rowVars, loader, worker, touched, stray, handed>>

\* ... and then the message is sent, unless that fails.
SendMessage(t) ==
  /\ task[t].message = "saved"
  /\ TaskIs(t, task[t].status, "sent")
  /\ UNCHANGED <<rowVars, loader, worker, touched, stray, handed>>

WorkerIs(t, at, review, run, unpublished, isDraft) ==
  worker' = [worker EXCEPT ![t] = [at |-> at, kind |-> worker[t].kind, review |-> review,
                                   run |-> run, unpublished |-> unpublished, isDraft |-> isDraft]]
Read(t, kind) ==
  worker' = [worker EXCEPT ![t] = [at |-> "started", kind |-> kind, review |-> "no",
                                   run |-> NoRun, unpublished |-> "no", isDraft |-> "no"]]
Rest(t) == worker' = [worker EXCEPT ![t] = Resting]

\* A worker takes the message, which is acknowledged at once, reads the file (of
\* some kind) and saves the row with status Processing ...
StartTask(t, kind) ==
  /\ task[t].message = "sent"
  /\ TaskIs(t, "processing", "taken")
  /\ Read(t, kind)
  /\ UNCHANGED <<rowVars, loader, touched, stray, handed>>

\* ... or Failed, when the file or the type of the task is not usable.
RejectTask(t) ==
  /\ task[t].message = "sent"
  /\ TaskIs(t, "failed", "taken")
  /\ UNCHANGED <<rowVars, loader, worker, touched, stray, handed>>

\* course_rerun: POST /course_runs/; course_create of a new course: POST /courses/.
\* (review: does the row say move_to_legal_review?)
BulkCreates(t, c, s, review) ==
  /\ worker[t].at = "started"
  /\ \/ worker[t].kind = "course_rerun" /\ RunsOf(c) # {}
     \/ worker[t].kind = "course_create" /\ RunsOf(c) = {}
  /\ Add(c, s, NoVariant)
  /\ WorkerIs(t, IF worker[t].kind = "course_rerun" THEN "course" ELSE "found",
              review, Len(runs) + 1, "yes", "yes")
  /\ stray' = "yes"
  /\ UNCHANGED <<product, loader, task, touched, handed>>

\* partial_update: the run that is named; course_create of a course that is
\* there: its first run, which is updated although the creation is "skipped".
BulkFinds(t, k, review) ==
  /\ worker[t].at = "started"
  /\ k \in DOMAIN runs
  /\ \/ worker[t].kind = "partial_update"
     \/ worker[t].kind = "course_create" /\ IsFirst(k, RunsOf(runs[k].course))
  /\ WorkerIs(t, "found", review, k, YesIf(runs[k].status = "unpublished"),
              DraftFlag(runs[k].course))
  /\ UNCHANGED <<rowVars, loader, task, touched, stray, handed>>

\* PATCH /courses/<key>/.
BulkUpdatesCourse(t, changed) ==
  /\ worker[t].at = "found"
  /\ SaveCourse(runs[worker[t].run].course, changed)
  /\ WorkerIs(t, "course", worker[t].review, worker[t].run, worker[t].unpublished,
              IF /\ worker[t].kind = "partial_update"
                 /\ worker[t].unpublished = "yes"
                 /\ worker[t].review = "no"
              THEN "yes" ELSE worker[t].isDraft)
  /\ UNCHANGED <<product, loader, task, touched, stray, handed>>

\* PATCH /course_runs/<key>/, which sends the dates in the row and no variant.
BulkUpdatesRun(t, changed, s) ==
  LET k == worker[t].run IN
  /\ worker[t].at = "course"
  /\ runs[k].status # "in_review"
  /\ Save(k, runs[k].variant, s,
          StatusAfterPatch(runs[k].status, worker[t].isDraft, changed), "other")
  /\ WorkerIs(t, "patched", worker[t].review, k, worker[t].unpublished, "no")
  /\ Touched(HeldByCsv(k) \/ \E u \in Task \ {t} : HeldByBulk(u, k))
  /\ UNCHANGED <<product, loader, task, stray, handed>>

\* Mutant: a partial update submits its run whatever the status.
MaySubmitMutant(t) == worker[t].review = "yes"

\* The status is read again but for course_create, which uses the one it found,
\* and for course_rerun, which does not look.
MaySubmit(t) ==
  /\ worker[t].review = "yes"
  /\ \/ worker[t].kind = "course_rerun"
     \/ worker[t].kind = "partial_update" /\ runs[worker[t].run].status = "unpublished"
     \/ worker[t].kind = "course_create" /\ worker[t].unpublished = "yes"

\* save(update_fields=['status']), after which the row is done.
BulkSubmits(t) ==
  LET k == worker[t].run IN
  /\ worker[t].at = "patched"
  /\ MaySubmit(t)
  /\ SaveStatus(k, "in_review")
  /\ WorkerIs(t, "started", "no", NoRun, "no", "no")
  /\ Touched(HeldByCsv(k) \/ \E u \in Task \ {t} : HeldByBulk(u, k))
  /\ UNCHANGED <<product, loader, task, stray, handed>>

\* A row that is not submitted is done, or the API or a check refuses it.
BulkRowEnds(t) ==
  /\ worker[t].at \in {"found", "course", "patched"}
  /\ WorkerIs(t, "started", "no", NoRun, "no", "no")
  /\ UNCHANGED <<rowVars, loader, task, touched, stray, handed>>

\* Completed, whatever became of the rows, or Failed when a save raises outside
\* the handlers of a row.
BulkEnds(t, status) ==
  /\ worker[t].at # "idle"
  /\ status = "completed" => worker[t].at = "started"
  /\ TaskIs(t, status, task[t].message)
  /\ Rest(t)
  /\ UNCHANGED <<rowVars, loader, touched, stray, handed>>

\* The worker is killed: nobody takes the message again.
WorkerDies(t) ==
  /\ worker[t].at # "idle"
  /\ Rest(t)
  /\ UNCHANGED <<rowVars, loader, task, touched, stray, handed>>

---------------------------------------------------------------------------
EditorStep ==
  \/ \E k \in Key :
       \/ \E isDraft \in YesNo, changed \in BOOLEAN,
             s \in Schedule, v \in Variant \cup {NoVariant} : EditRun(k, isDraft, changed, s, v)
       \/ MoveOn(k, "in_review", "reviewed")
       \/ MoveOn(k, "reviewed", "published")
  \/ \E c \in Course, s \in Schedule, v \in Variant \cup {NoVariant} : EditorCreatesRun(c, s, v)

LoaderStep ==
  \/ \E rows \in SUBSET Variant : StartIngest(rows)
  \/ \E v \in Variant : SkipRow(v) \/ CreateRun(v) \/ \E k \in Key : FindRun(v, k)
  \/ \E k \in Key : TakeCreated(k)
  \/ \E changed \in BOOLEAN : UpdateCourse(changed) \/ UpdateRun(changed)
  \/ LeaveRunInReview \/ FailRow
  \/ PushToReview \/ NothingToReview
  \/ \E status \in {"reviewed", "published"} : CompleteReview(status)
  \/ FinishIngest \/ IngestDies

TaskStep(t) ==
  \/ Upload(t) \/ SaveTaskId(t) \/ SendMessage(t) \/ RejectTask(t)
  \/ \E kind \in Kind : StartTask(t, kind)
  \/ \E review \in YesNo : \/ \E c \in Course, s \in Schedule : BulkCreates(t, c, s, review)
                          \/ \E k \in Key : BulkFinds(t, k, review)
  \/ \E changed \in BOOLEAN : \/ BulkUpdatesCourse(t, changed)
                               \/ \E s \in Schedule : BulkUpdatesRun(t, changed, s)
  \/ BulkSubmits(t) \/ BulkRowEnds(t)
  \/ \E status \in {"completed", "failed"} : BulkEnds(t, status)
  \/ WorkerDies(t)

Next == EditorStep \/ LoaderStep \/ \E t \in Task : TaskStep(t)

Spec == Init /\ [][Next]_vars

---------------------------------------------------------------------------
(* What ingestion promises.                                                *)

\* A run the loader found out of review gets its review completed only with the
\* fields of the row, unless someone wrote the run after the loader's PATCH.
ReviewsWhatItWrote ==
  [][loader.inReview = "no" /\ touched = "no" =>
       \A status \in {"reviewed", "published"} :
         CompleteReview(status) => runs'[loader.run].content = "sheet"]_vars

\* "a wrong course run with the same schedule is not incorrectly updated": no
\* loader makes the run of one variant the run of another, unless an editor gives
\* out a variant between the loader's lookup or POST and its PATCH.  Without the
\* switch nobody does, editors neither.
VariantKept ==
  [][ ~VariantEditable \/ (handed = "no" /\ (loader' # loader \/ worker' # worker)) =>
        \A k \in DOMAIN runs : runs[k].variant # NoVariant => runs'[k].variant = runs[k].variant]_vars

\* No variant has two runs, as long as no row leaves a run without variant behind
\* when it fails, none comes in from editors or bulk operations, and no editor
\* sets, changes or clears a variant.  (With one without variant, the newest of
\* both is taken, and the variant of the older run is given to it as well.)
DistinctVariants ==
  stray = "no" => \A j, k \in DOMAIN runs :
                    j # k /\ runs[j].variant # NoVariant => runs[j].variant # runs[k].variant

\* A product is archived only if the sheet has no row of it, valid or not.
ArchivesOnlyMissing ==
  [][\A c \in Course : product[c] = "published" /\ product'[c] = "archived" =>
       \A v \in loader.rows : CourseOf[v] # c]_vars

\* No loader takes a published run off the site, unless someone else moved the
\* run on while the loader had it in hand.
PublishedStays ==
  [][touched = "no" /\ touched' = "no" =>
       \A k \in DOMAIN runs : runs[k].status = "published" => runs'[k].status = "published"]_vars

Rank(status) == CASE status = "pending" -> 0 [] status = "processing" -> 1 [] OTHER -> 2

\* The status a user sees of a bulk operation only advances, although the task
\* row is saved as a whole by the request and by the worker.
StatusAdvances ==
  [][\A t \in Task : Rank(task[t].status) <= Rank(task'[t].status)]_vars

\* A file is ingested at most once, even when its worker dies: for a second time
\* would make every rerun again.
IngestedOnce ==
  [][\A t \in Task : worker[t].at = "idle" /\ worker'[t].at # "idle" =>
       task[t].status = "pending"]_vars

\* The task rows and the workers implement what a bulk operation promises: taken
\* up once, an outcome only from the worker that is at it, and no outcome at all
\* once that worker has died.
StateShown == [t \in Task |-> IF task[t].message = "none" THEN "absent" ELSE task[t].status]
Busy       == {t \in Task : worker[t].at # "idle"}

Ledger == INSTANCE TaskLedger WITH state <- StateShown, busy <- Busy

KeepsTaskPromises == Ledger!Spec
===========================================================================
