# A TLA+ verification of course-discovery

course-discovery aggregates the metadata of courses, course runs and programs, lets
course teams edit it (Publisher) and serves it to the catalog, to search and to
partners.  It is a Django application: REST views that run in many web workers,
management commands that a scheduler starts, Celery tasks, data loaders, a MySQL
database, a shared cache and Elasticsearch.  Nothing in it locks rows, so what is
hard to test is what happens *between* the database transactions of these actors.

The project models the parts of the program where that matters, checks them with
TLC on small instances and proves the main results with TLAPS for any instance.
All paths below are relative to `src/course_discovery/apps/`.

## The system

| Component | State it keeps | Operations | Interacts with |
|---|---|---|---|
| Course run life cycle (`course_metadata/models.py`, `api/v1/views/course_runs.py`, `courses.py`) | a DRAFT and an OFFICIAL row of every course and run; run status Unpublished, LegalReview, InternalReview, Reviewed, Published | create, edit, submit, review, promote (`update_or_create_official_version`), publish, revert | slugs, cache receivers, e-commerce, Studio, marketing site |
| Publication commands (`management/commands/publish_live_course_runs.py`, `unpublish_inactive_runs.py`, `archive_courses.py`) | rows in memory while they run | publish due runs, withdraw old ones, archive | the same rows, without locks |
| URL slugs (`CourseUrlSlug`, `Course.set_active_url_slug`, four slug commands) | one table, unique by slug, shared by draft and official rows | create, edit, promote, redirect, backfill, remove, migrate | life cycle (publish adds redirects, promotion copies slugs) |
| API response cache (`api/cache.py`, `course_metadata/signals.py`) | `api_timestamp`, cached responses | GET, invalidate on post_save/post_delete | every writer of `course_metadata` |
| Studio loader (`data_loaders/api.py`, `refresh_course_metadata.py`) | rows it writes | create and update runs and courses | life cycle, slugs, cache (switches the receivers off) |
| Draft world (`utils.ensure_draft_world`) | draft rows for rows that have none | create a whole tree | life cycle |
| Search index rotation (`update_index.py`, `remove_unused_indexes.py`) | indexes, alias | fill, sanity check, swap alias, purge | Elasticsearch, on-save indexing |
| Sheets (`data_loaders/csv_loader.py`, `course_loader.py`, `course_run_loader.py`) | what they remember of a row; `product_status` | find or create a run, update it, complete its review, archive what is missing | life cycle, through the API and past it |
| Bulk operations (`tasks.py`, `signals.py`) | `BulkOperationTask.status` | enqueue on commit, process | Celery, the sheets |
| Curricula, external keys (`signals.py`) | graph of programs and curricula | check on pre_save | admin, loaders |
| Change feed (`data_modified_timestamp`, `api/filters.py`) | a timestamp on both rows of a course and on programs | stamp by receivers and UPDATE statements, copy, filter `?timestamp=` | every writer of courses, runs and what they refer to |
| Run keys, seats (`api/utils.py`, models) | none / seat rows | next free key, deadlines | Studio, e-commerce |
| Salesforce, marketing site, e-commerce clients | remote | calls with retries | life cycle |
| Programs, pathways, people, catalogs, tagging, taxonomy, permissions, search views | CRUD | queries, serializers | read the above |

What is hard here:

* a request is one transaction (`writable_request_wrapper`), a command is many; it
  loads rows, keeps them, and `save()` writes back every column of a stale row;
* the draft and the official row are often saved in two transactions;
* a command may die between any two of them, or one run may fail while others go on;
* `post_save` runs before the commit of a request;
* dates pass by themselves: a go-live date in the middle of a review, the end of
  enrollment in the middle of a sweep;
* uniqueness and acyclicity are checked by a query before the save.

`PROJECT.json` lists these hazards at the lines where they bite, with the properties
that would notice.

What makes each component correct: only what a reviewer approved goes live
(life cycle); a due run goes live although others fail, and a course keeps a run
that can be sold (commands); one slug per row, no old URL is lost or changes hands
(slugs); no response is older than its invalidation, and a commit that is announced
is seen (cache); the draft world is whole or not there, and nobody's edit is lost in
it (draft world); the alias points to a complete index, and a purge spares what is
served (search index); one variant has one run, a review is completed on what the
sheet says (sheets and bulk operations); programs stay free
of cycles and external keys unique (curricula); a client that asks for what has
changed since it asked last misses nothing (change feed).

## Modules

| Module | What it is |
|---|---|
| `CourseRunLifecycle` | the runs of one course, both rows, requests, loader, time, three commands |
| `CourseUrlSlugs` | the slug table of one partner, requests and slug commands |
| `CatalogUrls` | what the slugs promise to visitors; `CourseUrlSlugs` implements it |
| `ApiCache` | one cached URL, GET requests, three kinds of writers |
| `SearchIndex` | the indexes of one document, the commands that make, fill, swap and purge them |
| `Ingestion` | the runs of external products, the CSV loader, editors, bulk operations |
| `TaskLedger` | what a bulk operation promises to the user; `Ingestion` implements it |
| `Curricula` | programs, curricula and external keys, writers whose checks come before their saves |
| `DraftWorld` | one official course that gets its draft rows while it is edited and loaded |
| `DraftAtOnce` | what a draft world looks like to who works with it; `DraftWorld` implements it |
| `ChangeFeed` | the timestamps of one course and its program, everybody who sets or loses them, a client |
| `..._proofs` | the theorems of a module |
| `MC...` | its instance for TLC |

The operators that end in `Mutant` are broken variants of the operator after them.
No behaviour uses them: they record which bug in the code each property would notice.

What goes wrong between two actors is recorded in a *history variable*, so that one
run explores everything and a property says from which circumstance on it may fail:
`fault` and `disturbed` (commands that die or meet a request), `unannounced` (a commit
after the timestamp), `overlapped` (jobs of `update_index`), `touched`, `stray`
and `handed` (writes of a run a loader has in hand; runs without a variant or with one
from an editor; a variant given out while a row is at work), `fresh` and
`raced` (a save between another's check and save), `stray` of `DraftWorld` and of `ChangeFeed`.  No
guard of an action that models code reads them.

### CourseRunLifecycle

`draft[r]` and `official[r]` are the two rows of a run: its status and a version
number that counts reviewable edits; `absent` is no row.  `courseDraft` and
`courseOfficial` are the versions of the two course rows.  `approved[r]` is history:
what the last reviewer saw, with what Studio has changed since.  `cmd`, `todo`, `sweep`, `half` are the memory of the
command that runs: official rows it loaded, rows it decided to unpublish, and runs
whose official row is saved and whose draft row is not.  `fault` is "cut" once
publish, unpublish or the Studio loader died between two transactions, "torn" once `archive_courses` did
or a request came while a command was at work.

| Action | Code |
|---|---|
| `CreateRun` | `POST /course_runs/` |
| `RunEdit(r, isDraft, changed)` | `PATCH /course_runs/<key>/`: status after the edit, revert of the official row, promotion |
| `SendToInternalReview`, `Approve` | staff PATCH of `status`; `handle_status_change` promotes and, when due, publishes in the same transaction |
| `CourseEdit(isDraft, changed)` | `PATCH /courses/<key>/`: re-publication of live runs, then revert of Reviewed ones |
| `LoaderCreateRun` | `create_course_run` of the Studio loader |
| `LoaderUpdateRun(r, dies)` | `update_course_run` of the Studio loader: both rows saved one after the other, or only the official one because it died |
| `GoLiveDatePasses`, `EnrollmentCloses` | the clock |
| `StartPublish`, `PublishRun`, `PublishFails` | `publish_live_course_runs` and `CourseRun.publish` |
| `StartUnpublish`, `SweepCourse`, `UnpublishOfficial`, `UnpublishDraft` | `unpublish_inactive_runs` (also called at the end of `publish`) |
| `ArchiveDraft`, `ArchiveOfficial` | `archive_courses` |
| `CommandDies` | a kill, or an exception between two transactions |

Left out: dates are the same on both rows, are not edited, and every run has an end
date; one command runs at a time; the partner uses Publisher (for others the loader
sets the status Published and updates the course, too); a request is atomic, and so is
the update of one run by the loader but for its death; the rows that differ before
such an update are taken to differ after it;
seats and restricted runs are part of the content version.  The entitlement price of a
course is not: `update_entitlement` hardly ever reports that it has changed (see
`ChangeFeed`), so it does not take Reviewed runs back.

### CourseUrlSlugs and CatalogUrls

`entry[s]` is the row of `CourseUrlSlug` with slug `s`: its course, whether it hangs
on the draft or the official row, and its two flags.  `SetDraftSlug` and
`SetOfficialSlug` are the two branches of `set_active_url_slug`; `DraftSlugs` and
`OfficialSlugs` are what `active_url_slug` finds for either row.  `moving` is a slug
command that has saved the draft row only; `unredirected` a run that the publish
command has made live and not yet redirected; `redirected`, `loaded` and `disturbed`
are history.  A run has one status for both rows here, and slugs are case-folded.  A
slug generated by `get_slug_for_course` may be any free slug of the subdirectory
format, one generated from the title any free slug.

A course begins at an editor (`CreateCourse`), as a draft row with a slug, or in Studio
(`LoadCourse`), as an official row without one.  The loader may also make the official
row of a course that has a draft row, before it promotes it (`Republish`).
`ensure_draft_world` gives a course from Studio a draft row, without a slug again
(`EnsureDraft`); it gets one when an editor or a command sets it, when a run is
submitted, or at the latest when the course is promoted, since `set_active_url_slug` of
no slug generates one (`PromotionSlugs`).  So `OneActiveSlug` says "at most one" for
every course and "one" for those made by an editor and those with a run that is
Reviewed or Published.

`CatalogUrls` says what a visitor may count on: a slug leads to one course at most, a
course that has a slug in the catalog is served at one ever after, and only `Retire`, the removal
of a redirect, lets a slug go.  The refinement mapping takes `leads` from the entries
of official rows and `active` from the one entry that `active_url_slug` finds; edits
of draft rows, and every command but `remove_redirects_from_courses`, are `Serve`
steps or stutter.

### ApiCache

`db` is the version of the data a URL shows, `stamp` the cached `api_timestamp`,
`cached[k]` the response under timestamp `k`.  A writer is `Transactional` (requests,
and deletions: save, receiver, commit), `Autocommit` (commands: save, receiver) or a
`Loader` (receivers off, one timestamp at the end, or none if it dies).
`set_api_timestamp` is two steps, `time.time()` and `cache.set`, and so is
`get_or_set`.  Clock values differ: two processes never read the same microsecond.
The cache server may drop any key.  `unannounced` is history: a transaction or a
loader has committed and no timestamp was set since.

### SearchIndex

An index is named by the second of its creation, so `index[t]` is the index of second
`t`: no index, one with the mapping of the document (`keyword`), or one that a bulk
write brought back with a dynamic mapping, and its number of documents.  `job[j]` is
what an execution of `update_index` remembers: its new index, the size of the one
behind the alias, what it has written.  `purge` is what `remove_unused_indexes`
remembers between its list, its choice and its deletion.

| Action | Code |
|---|---|
| `Prepare`, `WriteBatch` | `prepare_backend_index`, `populate` by bulk writes |
| `CheckPasses`, `CheckFails` | `sanity_check_new_index`, or none with `--disable-change-limit` |
| `SetAlias` | `set_alias`, which moves it in one call |
| `JobDies` | a kill, or the failure of another document's index |
| `PurgeList`, `PurgeChoose`, `PurgeDelete` | `remove_unused_indexes`: the list, the alias and the set difference, the deletion |
| `CreateEmpty`, `PopulateServed`, `DeleteServed` | `search_index --create` (or `install_es_indexes`), `--populate`, `--delete` by an operator |
| `RecordsChange`, `Tick` | rows are saved or deleted; time passes |

Left out: which documents an index holds (a row saved while an index is filled goes
to the index behind the alias and is missing in the new one until it is saved again,
which is a matter of content the count does not tell).

### Ingestion and TaskLedger

`runs` is the sequence of the draft rows of external products: product, variant,
dates, status, and whether its fields come from the sheet being ingested.  `loader`
is the CSV loader with the row it has in hand; `task` and `worker` are the rows of
`BulkOperationTask` with their Celery message, and what a worker holds.

| Action | Code |
|---|---|
| `StartIngest`, `SkipRow`, `FinishIngest`, `IngestDies` | `CSVDataLoader.ingest`, a row that is not valid, `_archive_stale_products`, a kill or an exception outside the handlers of a row |
| `FindRun`, `CreateRun`, `TakeCreated` | the lookup by variant or dates; the POST; the second lookup, which ignores what the POST answered |
| `UpdateCourse`, `UpdateRun`, `LeaveRunInReview`, `FailRow` | the two PATCH requests, and what the API refuses |
| `PushToReview`, `NothingToReview`, `CompleteReview` | `refresh_from_db` and the saves that complete the review |
| `EditRun`, `EditorCreatesRun` | `PATCH` and `POST /course_runs/` by an editor.  POST stores the variant it is sent; PATCH stores it while `is_course_run_variant_id_editable` is on and drops it otherwise.  The loaders send none when they create a run |
| `MoveOn` | a reviewer approves a run, or it goes live |
| `Upload`, `SaveTaskId`, `SendMessage` | `POST /bulk_operation_tasks/`, the commit hook, Celery |
| `StartTask`, `RejectTask`, `BulkEnds`, `WorkerDies` | `process_bulk_operation` |
| `BulkCreates`, `BulkFinds`, `BulkUpdatesCourse`, `BulkUpdatesRun`, `BulkSubmits`, `BulkRowEnds` | the rows of `course_create`, `course_rerun` and `partial_update` |

A run may lose its variant to the row of another in one way: an editor gives a run a
variant after the loader has looked its run up, or has created it, and before the loader
sends its PATCH (`handed`).  `VariantKept` says that there is no other way, and
`DistinctVariants` names what it takes for one variant to have two runs (`stray`).

Left out: one CSV loader runs at a time; the official rows (they follow as in
`CourseRunLifecycle`); the fields of a row; a run that editors move to another course;
the loader of course editors.

`TaskLedger` says what a user who uploads a file may count on: the operation is taken
up once, by one worker, and its outcome is final; a worker that dies is replaced by
nobody.  The refinement mapping shows an operation, with the status of its row, from its
upload on (`StateShown`): that the commit hook saves the whole row once more is a stutter
because it comes before the message.  A worker counts as busy from `StartTask` on
(`Busy`).  The hook, the message and the copy of the row in the worker are details the
ledger does not have.

### Curricula

`program`, `members` and `courses` are a curriculum and its two membership tables,
`course` and `key` a run.  A save is `Check`, the receiver of `pre_save` that finds
nothing (`Passes`), and one of `WriteCurriculum`, `WriteMember`, `WriteCourse`,
`WriteRun`; `pending` is what is between them.  `GivesUp` is a request that ends
without its save, `DeleteMember` and `DeleteCourse` are deletions, which no receiver
guards.  `Visits` and `OnCycle` define reachability by closed sets, which says
the same as the recursive descent of `_find_in_programs` and can be reasoned about;
the receivers of keys keep their early returns (`CurriculumPasses`, `CoursePasses`,
`RunPasses`).  Rows are the official ones.

### DraftWorld and DraftAtOnce

One course that began as an official row (Studio loader).  `course` says which rows it
has and whether they are linked (`draft_version`), `official`, `draft` and `paired`
the same of its runs.  `Find`, `InsertCourse`, `LinkCourse`, `ListRuns`, `CopyNew`,
`CopyClashes`, `PairRun`, `Finish` and `Dies` are `ensure_draft_world` and
`set_draft_state` row by row, as a run update or a comment executes them;
`SaveFirst` and `CreateFirst` are the requests that execute them in their transaction
(`BuildAtOnce`), `SaveAgain`, `CreateAgain` and `Review` those that find drafts.
`FindCourse`, `LoadDraft`, `LoadOfficial`, `LoadAlone` and `SetCanonical` are a thread
of the Studio loader, which looks for a draft version and acts on the answer later.
`stray` collects the troubles: a build that died, one that met a row that was there
(`clash`), work in an unfinished world (`early`), a write of what was stale (`late`).
Seats, restrictions and entitlements go with their run or course.

`DraftAtOnce` is the same course as if every draft world were made in one step
(`Build`): no draft rows before it, one for every official run after it, all linked,
with the canonical run.  It promises nothing after the first trouble (`Break`).  The
refinement mapping hides the rows of a world a request is at work on (`Finished`), so
all steps of a build but its last are stutters, and those of loaders and editors that
fall between them must make sense without them.  `BuiltAtOnce` is the refinement.

### ChangeFeed

`stamp` is `data_modified_timestamp` of the draft row, the official row and the
program.  Of what the rows hold only `ahead` is kept: the parts (fields, link to a
related object, many-to-many members, price, run, slug) in which the draft version
differs from the official one.  `request` is a request or an admin form with what it
loaded, since it writes the whole row, old timestamp included; `unread` and `since`
are what a client has not seen as it is now, and when it asked last.  `half` is a
command that has saved the official run only.

| Action | Code |
|---|---|
| `Begin`, `CourseUpdate`, `RequestFails` | `PATCH /courses/<key>/`: entitlements, reload, related objects, reload, save, slug, promotion, revert of Reviewed runs |
| `RunUpdate`, `CreateRun` | `PATCH` and `POST /course_runs/`, and the saves of a review |
| `ProgramSave` | the admin form of a program |
| `PublishRun`, `SaveOfficialRun`, `SaveDraftRun`, `SaveOfficialRunOnly`, `ArchiveDraft`, `CommandDies` | `publish`, `unpublish_inactive_runs`, `archive_courses`, `update_course_run` of the loader: only the draft run stamps |
| `LoadNewRun` | `create_course_run`, which promotes the draft course |
| `RelatedSave` | a `GeoLocation`, `ProductMeta`, `Fact`, ... is saved by itself; the programs of the official row follow |
| `UntrackedSave` | an organization, a person, ...: models without a receiver |
| `LoadCounts` | `_process_course_enrollment_count` of the analytics loader and the count of the program |
| `Poll`, `Tick` | a client with `?timestamp=`; time passes |

`stray` names the first cause for which a change may go unnoticed.  `FeedMissesNothing`
says that, of everything the module lets happen, only twelve kinds of step are such a
cause:

* `quiet`: an edit that stamps nothing.  The receivers of the many-to-many fields of a
  course or a run act when members are added and compare sets, so members that are
  emptied or only put in another order are not noticed (`signals.py:407`, `:428`); nor
  are an entitlement that is created and the restriction of a run;
* `price`: `update_entitlement` compares the new price with the entitlement it has
  just changed, so it reports nothing, the course is not loaded again and its save
  writes the old timestamp (`courses.py:304`);
* `certificate`: `update_certificate_info` reports no change when it creates one;
* `oldslug`: a course returns to a slug of its history, which stamps nothing;
* `release`: a request that changes nothing itself publishes an earlier draft edit
  under the timestamp of that edit, or one that changes a related object to which only
  the draft row refers, which stamps no program; `studio`: a new Studio run publishes;
* `skipped`, `died`: a command saves an official run, which stamps nothing, and the
  draft run has its values already, or the command dies before it;
* `count`: the analytics loader writes the counts of the official course, which stamps
  nothing; `untracked`: an object of a model without a receiver changes;
* `late`: a request writes its row after somebody else has saved;
* `overlap`: the client asks while a request has taken its time and not committed.

Left out: more than one related object at a time (all stamp the rows that refer to
them); the admin form of a course; degrees, and the timestamps that organizations have
of their own; courses without a draft row.

## Runs

Every run ends by exhausting its state space, the longest in three minutes.  Four of
them follow the states that satisfy a constraint, `MCBound` of their MC module: a state
beyond it is still generated and checked, but TLC does not go on from there.

| Run | Instance | Shows |
|---|---|---|
| `Lifecycle` | 2 runs, one marketable, 2 versions, two of the three objects changed | `EverPublishedWasReviewed`, `ReviewedContentIsApproved` in spite of everything; `PostReviewAgree`, `OfficialFollowsDraft`, `QuietPublishAfterReview`, `KeepsOneMarketable` up to the fault each names |
| `LifecycleGoLive` | 2 runs, one whose publication always raises; fairness | `DueRunsGoLive` |
| `LifecycleStalePublish` | 2 runs | `NoPublishSkipsReview` is violated (finding 1) |
| `LifecycleStudioRun` | 2 runs | `OfficialCourseAfterReview` is violated (finding 2) |
| `Slugs` | 2 courses, one at most from Studio, with a run each, 3 slugs, one a subdirectory slug | `OneActiveSlug`, `KeepsCatalogPromises` in spite of everything; `ReviewedSlugIsServed`, `RunUrlStays` until a command is disturbed |
| `ApiCache` | 2 GETs, one writer of each kind, 3 versions, 3 timestamps | `NothingBeforeInvalidation`, `AnnouncedIsCurrent` |
| `ApiCacheStale` | 2 GETs, one write request | `CachedIsCurrent` is violated (finding 3) |
| `SearchIndex` | 2 jobs, one unchecked, retention 1, threshold 60 %, 3 seconds, 2 rows | `ServesWhatItWrote`, `ChangesLittle`, `NeverGoesBack`, `PurgeSparesCurrent` |
| `Ingestion` | 1 product, 2 variants with the same dates, 1 bulk operation; 2 runs, and a third while a row is at work | `DistinctVariants`, `VariantKept`, `ReviewsWhatItWrote`, `PublishedStays`, `ArchivesOnlyMissing`, `KeepsTaskPromises` |
| `Curricula` | 2 programs, 2 curricula, 2 courses, 2 runs, 1 key, 2 writers | `NoCircularPrograms`, `KeysAreUnique` |
| `DraftWorld` | 3 runs, 2 requests, 2 loader threads | `WorldIsWhole`, `LookupsFindOne`, `ClashOnlyIfEarly`, `BuiltAtOnce`, `CanonicalKept`, `EditsKept` |
| `ChangeFeed` | 3 moments, a request with one kind of edit or one of 6 pairs, 2 parts of the draft ahead | `FeedMissesNothing` |

Every passing run of a module also checks its type invariant, except
`LifecycleGoLive`.

Bounds.
Two runs (life cycle) are the least with which one is swept, or fails, while the other
goes live, and with which one run's edit meets the other's review; the code never
relates three.  Two content versions (`MaxVersion`, `MaxCourseVersion`) tell "as
approved" from "changed since"; `LifecycleGoLive` has one version of the course, since
only the runs go live.  Of the two runs and the course, `MCBound` follows those states in
which two have been changed, which is what it takes for one review to cover the change of
another object; after a request inside a command, one, since by then only
`ReviewedContentIsApproved` and `EverPublishedWasReviewed` promise anything.
Two courses and three slugs allow a slug that changes, a return to an old one, and a
run slug that belongs to the other course (`RunSlug`).  Two courses from Studio meet
nothing in one another that one of them and a course of an editor do not (`MCBound`).
Three timestamps and three versions (`MaxClock`, `MaxVersion`) let a request be
overtaken by two invalidations.
Three seconds (`MaxTime`) are an index that is served, one that is filled and one for
the job or the operator that comes between; two rows (`MaxRecords`) tell an index
that is complete, one that is partly filled and one that is empty, and 60 % lies
between the changes by a half and by all; a retention of 1 leaves one unused index.
Two variants with the same dates are what the lookup could mistake for one another,
and two runs are one of each, or two of the same.  The third run (`MaxRuns`) is the one
somebody creates between the loader's POST and its lookup, when there is a run already.
Of the combinations `MCBound` follows these: two runs without end, with all that
editors do, as long as there is no bulk operation; with one, for one variant, and until
somebody writes a run that is in hand (after which `ReviewsWhatItWrote` and
`PublishedStays` say nothing); the third run until the row has given its variant or
failed.  A second product would double this, since a row reads the runs of its own
product; that a row of one product keeps another's from being archived is left to
`ArchivesOnlyMissingThm`.
A cycle of two programs has the two curricula one needs; two runs with one key, in one
course or in two, are a clash; the second writer is the race.
Three runs are one that is being copied while another is created and a third loaded.
Three moments (`MaxTime` 2) are one before the client asks, one at which it asks and one
after; the pairs of edits (`MCEdits`) are those in which one edit repairs or spoils what
the other does to the timestamps.  The draft version may differ from the official one
in two parts (`MCBound`), as many as an action looks at together.  Writers are followed until the first cause
(`Followed` is empty), after which `FeedMissesNothing` promises nothing; the client goes on.
The symmetric sets are `Reader`, `Variant`, the sets of `Curricula` and those of
`DraftWorld`; no run that uses symmetry checks liveness.
The theorems show that for the safety properties the size does not matter.

Deadlock is not checked in the two cache runs: there the bounds on the clock and on
the versions end every behaviour.

Fairness (`FairSpec`): `WF(CommandStep)`, a started command executes its next
statement; `SF(StartPublish)`, the scheduler starts `publish_live_course_runs` again
and again, and no other command runs for ever.  Nothing is assumed of editors,
reviewers or time.  `DueRunsGoLive` supposes, in the property, that commands stop
dying some day: one that dies each time before its second run would make no progress.

## Findings

1. **A stale publication skips the review** (`LifecycleStalePublish`).  The publish
   command loads the due Reviewed rows, then publishes each as it was.  A reviewable
   edit in between reverts the run to Unpublished ("If changes are made after review
   and before publish, revert status to unpublished", `api/v1/views/course_runs.py`),
   and the command then publishes it.  `QuietPublishAfterReviewThm` shows that the
   request inside the command is to blame.
2. **A Studio run promotes the unreviewed course** (`LifecycleStudioRun`).  The
   decision record 0004 writes draft data to the official row only after a review;
   the loader's `create_course_run` copies the draft course when a run appears in
   Studio.
3. **The cache keeps what a transaction has just replaced** (`ApiCacheStale`).  The
   receiver sets the timestamp before the commit; a GET in between caches the old
   response without a timeout.  `AnnouncedIsCurrentThm` shows that the transaction is
   to blame: once a timestamp is set after the commit, the cache is current.  A loader
   that dies before its last statement has the same effect.
The modules show further weaknesses of the code, which no run is about: the causes of
`ChangeFeed` (the price is a plain mistake); a title, license or visibility that comes
from Studio goes into a Reviewed run, and live with it, without a review, although an
editor's change of these fields would take the review back (`LoaderUpdateRun`); `remove_unused_indexes`, which means to
take the oldest indexes but takes them from the difference of two sets, so it may
delete any of them (`Victims`); a draft world whose build died is never repaired (`LostForGood`, `TornForGood`);
`Curricula` can be defeated by two requests at once, a job of `update_index` by another
in the same second; a bulk operation whose worker dies
stays in Processing (`DeadWorkIsNeverEnded`); a run created or given its variant by an
editor while a row is at work may get the variant of the row instead (`handed`); once a purge has taken the alias away, no
scheduled command brings it back (`OperatorEndsOutage`).

## Theorems

Most state, for all values of the constants, a property that a run checks on a small
instance, as `Spec => []P`, `Spec => [][A]_vars` or a refinement.  No run checks
`HistoryIsKeptThm`, `IngestedOnceThm`, `StatusAdvancesThm` and `DraftKeepsCanonicalThm`,
which say in one sentence a part of a refinement or invariant that is checked, nor
those that say something of another kind: what a state leads to for ever
(`DeadWorkIsNeverEnded`, `LostForGood`, `TornForGood`, `OperatorEndsOutage`),
that a command comes to its end (`CommandsTerminate`,
`PublishLosesNoRun`), and what a check of the code computes (`VisitsUnfolds`,
`ReceiversAreExact`).

The constants are only assumed to have the types in the
`ASSUME` of each module, which TLC evaluates in the runs; sets need not be finite
unless the module says so.  Every module proves its type invariant (`TypeCorrect`,
`SlugTypeCorrect`, `CacheTypeCorrect`, ...).

* `CourseRunLifecycle_proofs`: `EverPublishedWasReviewedThm` and
  `ReviewedContentIsApprovedThm` by the invariant `ReviewInv`, which adds what is true
  of the rows a command holds in memory: they were approved once, though they may no
  longer be current.  What waits as Reviewed is what was approved, with Studio's later
  changes on top and nobody else's.  `OfficialFollowsDraftThm`, `PostReviewAgreeThm` and
  `QuietPublishAfterReviewThm` by `QuietAgreeInv`: unless `fault` is "torn", the tables
  agree outside the half-saved run (`TablesAgree`) and the rows a command holds are
  still those of the table (`MemoryIsFresh`).  `KeepsOneMarketableThm` adds
  `SweepSpares`: what the sweep decided on leaves a marketable run.
  `CommandsTerminate` (which supposes a finite set of runs) bounds the work a command
  has left by `Work`, a number in which a loaded row weighs more than the sweep that
  follows its publication: every step of the command lowers it, and requests, the
  loader and time leave it alone.  `PublishLosesNoRun` says that a run leaves the list
  of those to publish only by being published, by raising, or because the command dies.
* `CourseUrlSlugs_proofs`: `OneActiveSlugThm`, `HistoryIsKeptThm` without assumption
  on the commands, by `SlugInv` (types, a run that left Unpublished has a draft
  course, one that is Reviewed, live or half published has a slug in the catalog, and a
  course with a slug there shows one to its editor); `ReviewedSlugIsServedThm`,
  `RunUrlStaysThm` by `AloneInv`, which also describes the table while an undisturbed
  command is between its two transactions.  `KeepsCatalogPromisesThm` is the
  refinement of `CatalogUrls`: initial states map to initial states, and under
  `SlugInv` every step to a `Serve`, a `Retire` or a stutter.
* `ApiCache_proofs`: `NothingBeforeInvalidationThm` by `CacheInv`: a time taken and
  not yet set is used by nobody else (`TimesAreFresh`), and what was read lies between
  the last invalidation and the database (`ReadsAreFresh`); `AnnouncedIsCurrentThm` by
  `StampFollows`: either the timestamp is current or somebody is still about to set it.
* `SearchIndex_proofs`: `ServesWhatItWroteThm`, `ChangesLittleThm`, `NeverGoesBackThm`
  and `PurgeSparesCurrentThm` by `SearchInv`: the alias points to an index that
  exists, names lie in the past, a purge has not chosen what it saw as current, and
  the index of a job that runs alone is as the job left it or gone (`Alone`).
  `OperatorEndsOutage`: without an alias every job ends at its first count, so only
  `CreateEmpty` leads out.
* `Ingestion_proofs`: the properties of the run by `IInv`, one part per concern: what the status
  of a task says of its message (`TaskInv`), which rows the sheet still has (`RowInv`)
  and which run may be in hand (`HandInv`), that an untouched run in hand has the content (`WrittenInv`) and status
  (`LiveInv`, `RerunInv`) it was given, and that while nothing has strayed the runs
  without variant are those in hand (`DistinctInv`).  Without the variant switch
  `VariantKeptThm` is about editors as well.  `KeepsTaskPromisesThm` is the
  refinement of `TaskLedger`, every step of a task mapped to one of the ledger and all
  others to a stutter; `DeadWorkIsNeverEnded` follows from it: no step of the ledger
  leaves the state of an operation in Processing whose worker is gone.
* `Curricula_proofs`: `NoCircularProgramsThm` and `KeysAreUniqueThm` by `IInv`: as
  long as nobody raced, programs are acyclic, keys are unique, and the check of every
  writer that is still fresh would pass again.  That one more edge closes no cycle is
  shown for any set of programs, with the closed sets that define reachability.
  `VisitsUnfolds` shows that these satisfy the recursion of `_find_in_programs`.
  `ReceiversAreExact` is about the checks alone: in a state that is right, each
  receiver accepts a row exactly if writing it leaves no cycle and no duplicate key.
  That they are no stricter than they need be is what no run looks at.
* `ChangeFeed_proofs`: `FeedMissesNothingThm` by `IInv`: before the first cause a
  request that nobody has overtaken holds the timestamps of the database (`Fresh`), was
  there when the client last asked (`AskedBefore`), and the draft row is never older than
  the official one whose timestamp it will replace (`DraftNotOlder`), as long as both
  refer to the same object.
* `DraftWorld_proofs`: the properties of the run by `IInv`: which stage of a request goes with
  which rows (`RequestInv`), what a loader thread found (`LoaderInv`), which links
  exist (`PairInv`), and the properties themselves, which need each other.
  `BuiltAtOnceThm` is the refinement of `DraftAtOnce`; beyond `IInv` it needs that an
  unfinished world has draft rows of official runs only (`DraftIsCopied`), so that the
  last step of a build shows just what `Build` makes.  `LostForGood` and `TornForGood`
  follow from `RestStep`: whoever comes to a world that nobody is at work on links no
  official run that was left out, and leaves the rows of the course as they are.

Only model-checked: `DueRunsGoLive` (liveness under fairness is out of the prover's
reach).  Its safety half is proved: `CommandsTerminate` and `PublishLosesNoRun` leave to
TLC only that a scheduler which starts the command again and again does start it.  The properties of the three runs
that expect a violation hold of no specification here and are not theorems.

## Not modelled

* *Course run keys, seats, deadlines, prices* (`api/utils.py`): arithmetic on strings
  and dates without shared state, which the unit tests enumerate; whether a key is free
  is decided in Studio.
* *How a slug is made* from titles and subjects (`get_slug_for_course`): any free slug
  stands for it, so the number it appends, which may be taken, is not looked at.
* *Salesforce, marketing site and e-commerce*: the state is remote; that a repeated call
  was executed before cannot be told from this code.  Their failure is `Broken` of the
  life cycle and `FailRow` of the sheets.
* *Degree and geolocation loaders, the loader of course editors*: they write rows that
  nothing else modelled here reads or writes.
* *Programs, pathways, people, catalogs, tagging, taxonomy, permissions, search
  documents and queries*: fields, serializers and queries without a protocol of their
  own.  Permissions decide who may send a request, not what it does.
* *Edits of dates, types and restrictions of a run, runs without an end date*: the life
  cycle takes dates from the clock.
* *Overlapping requests on one row*: a request is one step.  Two that read the same
  row before either saves lose the edit of one; the models keep the rows that commands,
  loaders and `ensure_draft_world` hold for long.

The definitions of the models stand for a small part of the repository's lines.  Most
of the others declare fields, serializers, admin pages, documents, settings, constants
and factories, and have no control flow a state machine could show.
