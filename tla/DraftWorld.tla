----------------------------- MODULE DraftWorld -----------------------------
(***************************************************************************)
(* How an official course that has no draft rows gets them                 *)
(* (ensure_draft_world, utils.py).                                         *)
(*                                                                         *)
(* The Studio loader creates official rows.  The first request that edits  *)
(* something of the course copies the course and each of its runs into a   *)
(* draft row and lets the official row point to it (draft_version).  A     *)
(* request that saves the course or creates a run does so in a             *)
(* transaction; one that updates a run or comments on the course does so   *)
(* row by row, in everybody's sight.                                       *)
(*                                                                         *)
(* One course; seats, restrictions and entitlements go with their run or   *)
(* with the course.  A course that starts as a draft has nothing to build. *)
(***************************************************************************)
EXTENDS FiniteSets

CONSTANTS
  Run, NoRun,
  Request,   \* requests of editors
  Loader     \* threads of the Studio loader

ASSUME DraftWorldAssumption == NoRun \notin Run

VARIABLES
  course,          \* its rows: none, the official one alone, both, both and linked
  official,        \* runs with an official row
  draft,           \* runs with a draft row
  paired,          \* runs whose official row points to the draft row
  canonical,       \* Course.canonical_course_run of the official row
  draftCanonical,  \* ... and of the draft row
  edited,          \* does the draft row have what an editor changed?
  request,         \* where a request is in ensure_draft_world
  loader,          \* where a loader thread is with a run that it has not found
  stray            \* history: what went wrong so far

officialVars == <<official, canonical>>
draftVars    == <<draft, draftCanonical, edited>>
vars == <<course, officialVars, draftVars, paired, request, loader, stray>>

\* died: a world was left unfinished; clash: so it was, because a run had its
\* draft row already; early: somebody worked in an unfinished world; late: what
\* was written did not match what was there meanwhile.
Trouble == {"died", "clash", "early", "late"}

\* seen: the canonical run in the row that was read; todo, run: of the loop.
Stages  == {"away", "insert", "link", "list", "copy", "pair"}
Builder == [at: Stages, seen: Run \cup {NoRun}, todo: SUBSET Run, run: Run \cup {NoRun}]
NoWork  == [at |-> "away", seen |-> NoRun, todo |-> {}, run |-> NoRun]

\* drafts: had the course a draft version?  created: did this thread create it?
LoaderState == [at: {"idle", "create", "officiate", "canonical"}, run: Run \cup {NoRun},
                drafts: {"yes", "no"}, created: {"yes", "no"}]
Resting     == [at |-> "idle", run |-> NoRun, drafts |-> "no", created |-> "no"]

Unfinished(q) == request[q].at \in {"link", "list", "copy", "pair"}
AllFinished   == \A q \in Request : ~Unfinished(q)

TypeOK ==
  /\ course \in {"none", "alone", "split", "linked"}
  /\ official \subseteq Run /\ draft \subseteq Run
  /\ paired \subseteq official \cap draft
  /\ canonical \in official \cup {NoRun}
  /\ draftCanonical \in draft \cup {NoRun}
  /\ edited \in {"yes", "no"}
  /\ request \in [Request -> Builder]
  /\ \A q \in Request : request[q].at = "pair" =>
       request[q].run \in (request[q].todo \cap official \cap draft)
  /\ loader \in [Loader -> LoaderState]
  /\ \A l \in Loader : loader[l].at # "idle" => loader[l].run \in Run
  /\ stray \subseteq Trouble

Init ==
  /\ course = "none"
  /\ official = {} /\ draft = {} /\ paired = {}
  /\ canonical = NoRun /\ draftCanonical = NoRun
  /\ edited = "no"
  /\ request = [q \in Request |-> NoWork]
  /\ loader = [l \in Loader |-> Resting]
  /\ stray = {}

Noted(condition, trouble) == stray' = IF condition THEN stray \cup {trouble} ELSE stray

---------------------------------------------------------------------------
(* ensure_draft_world outside a transaction.                               *)

\* Request q goes on to a stage, or ends.
GoesOn(q, at, todo, run) ==
  request' = [request EXCEPT ![q] =
                [at |-> at, seen |-> request[q].seen, todo |-> todo, run |-> run]]
Ends(q) == request' = [request EXCEPT ![q] = NoWork]

\* The official row of a course without draft version was read, or that of a run
\* of such a course.  (filter_drafts finds two rows where one is not linked yet,
\* and the request fails.)
Find(q) ==
  /\ request[q] = NoWork
  /\ \/ course = "alone"
     \/ course \in {"alone", "split"} /\ official \ draft # {}
  /\ request' = [request EXCEPT ![q] =
                    [at |-> "insert", seen |-> canonical, todo |-> {}, run |-> NoRun]]
  /\ UNCHANGED <<course, officialVars, draftVars, paired, loader, stray>>

\* Mutant: a draft row that is there already is taken for the one to insert.
InsertCourseMutant(q) ==
  /\ request[q].at = "insert"
  /\ course' = "split"
  /\ GoesOn(q, "link", {}, NoRun)
  /\ UNCHANGED <<officialVars, draftVars, paired, loader, stray>>

\* The draft row, unless there is one (IntegrityError).
InsertCourse(q) ==
  /\ request[q].at = "insert"
  /\ \/ /\ course = "alone"
        /\ course' = "split"
        /\ GoesOn(q, "link", {}, NoRun)
     \/ /\ course # "alone"
        /\ Ends(q)
        /\ UNCHANGED course
  /\ UNCHANGED <<officialVars, draftVars, paired, loader, stray>>

\* Mutant: the row that lost its canonical run for the draft is written.
LinkCourseMutant(q) ==
  /\ request[q].at = "link"
  /\ course' = "linked"
  /\ canonical' = NoRun
  /\ GoesOn(q, "list", {}, NoRun)
  /\ Noted(canonical # request[q].seen, "late")
  /\ UNCHANGED <<official, draftVars, paired, loader>>

\* The official row is written as it was read, with a draft version.
LinkCourse(q) ==
  /\ request[q].at = "link"
  /\ course' = "linked"
  /\ canonical' = request[q].seen
  /\ GoesOn(q, "list", {}, NoRun)
  /\ Noted(canonical # request[q].seen, "late")
  /\ UNCHANGED <<official, draftVars, paired, loader>>

ListRuns(q) ==
  /\ request[q].at = "list"
  /\ GoesOn(q, "copy", official, NoRun)
  /\ UNCHANGED <<course, officialVars, draftVars, paired, loader, stray>>

\* The next run gets its draft row, ...
CopyNew(q, r) ==
  /\ request[q].at = "copy"
  /\ r \in request[q].todo \ draft
  /\ draft' = draft \cup {r}
  /\ GoesOn(q, "pair", request[q].todo, r)
  /\ UNCHANGED <<course, officialVars, draftCanonical, edited, paired, loader, stray>>

\* ... unless it has one (IntegrityError).
CopyClashes(q, r) ==
  /\ request[q].at = "copy"
  /\ r \in request[q].todo \cap draft
  /\ Ends(q)
  /\ Noted(TRUE, "clash")
  /\ UNCHANGED <<course, officialVars, draftVars, paired, loader>>

PairRun(q) ==
  /\ request[q].at = "pair"
  /\ paired' = paired \cup {request[q].run}
  /\ GoesOn(q, "copy", request[q].todo \ {request[q].run}, NoRun)
  /\ UNCHANGED <<course, officialVars, draftVars, loader, stray>>

\* Mutant: the canonical run of the draft row is not set.
FinishMutant(q) ==
  /\ request[q].at = "copy" /\ request[q].todo = {}
  /\ draftCanonical' = NoRun
  /\ edited' = "no"
  /\ Ends(q)
  /\ UNCHANGED <<course, officialVars, draft, paired, loader, stray>>

\* The draft course is saved, as it was when it was inserted.
Finish(q) ==
  /\ request[q].at = "copy" /\ request[q].todo = {}
  /\ draftCanonical' = request[q].seen
  /\ edited' = "no"
  /\ Ends(q)
  /\ UNCHANGED <<course, officialVars, draft, paired, loader, stray>>

\* An exception, or the end of the process.
Dies(q) ==
  /\ request[q] # NoWork
  /\ Ends(q)
  /\ Noted(Unfinished(q), "died")
  /\ UNCHANGED <<course, officialVars, draftVars, paired, loader>>

---------------------------------------------------------------------------
(* Requests in a transaction, and work on a course that has its drafts.    *)

\* Mutant: only the canonical run is copied.
BuildAtOnceMutant(seen) ==
  /\ course = "alone"
  /\ course' = "linked"
  /\ paired' = official \cap {seen}
  /\ canonical' = seen
  /\ Noted(canonical # seen, "late")

\* The same rows in one step.  The canonical run that was read (seen) may have
\* been set since.
BuildAtOnce(seen) ==
  /\ course = "alone"
  /\ course' = "linked"
  /\ paired' = official
  /\ canonical' = seen
  /\ Noted(canonical # seen, "late")

\* An editor saves the course, the first time or again.
SaveFirst(seen) ==
  /\ BuildAtOnce(seen)
  /\ draft' = official
  /\ draftCanonical' = seen
  /\ edited' = "yes"
  /\ UNCHANGED <<official, request, loader>>

SaveAgain ==
  /\ course = "linked"
  /\ edited' = "yes"
  /\ Noted(~AllFinished, "early")
  /\ UNCHANGED <<course, officialVars, draft, draftCanonical, paired, request, loader>>

FirstOr(was, r) == IF was = NoRun THEN r ELSE was

\* An editor creates a run.  Studio refuses a key that it knows.
CreateFirst(r, seen) ==
  /\ r \notin official
  /\ BuildAtOnce(seen)
  /\ draft' = official \cup {r}
  /\ draftCanonical' = FirstOr(seen, r)
  /\ UNCHANGED <<official, edited, request, loader>>

CreateAgain(r) ==
  /\ course = "linked"
  /\ r \notin official \cup draft
  /\ draft' = draft \cup {r}
  /\ draftCanonical' = FirstOr(draftCanonical, r)
  /\ Noted(~AllFinished, "early")
  /\ UNCHANGED <<course, officialVars, edited, paired, request, loader>>

\* A draft run is reviewed and becomes official.
Officiate(r) ==
  /\ official' = official \cup {r}
  /\ paired' = paired \cup {r}

Review(r) ==
  /\ course = "linked"
  /\ r \in draft \ official
  /\ Officiate(r)
  /\ UNCHANGED <<course, canonical, draftVars, request, loader, stray>>

---------------------------------------------------------------------------
(* The Studio loader.                                                      *)

\* Studio has a run that is nowhere here; its course is created if need be.
FindCourse(l, r) ==
  /\ loader[l].at = "idle"
  /\ r \notin official \cup draft
  /\ course' = IF course = "none" THEN "alone" ELSE course
  /\ loader' = [loader EXCEPT ![l] =
       [at |-> "create", run |-> r,
        drafts |-> IF course = "linked" THEN "yes" ELSE "no",
        created |-> IF course = "none" THEN "yes" ELSE "no"]]
  /\ UNCHANGED <<officialVars, draftVars, paired, request, stray>>

Proceed(l, at) ==
  loader' = [loader EXCEPT ![l] =
               IF at = "idle" THEN Resting
               ELSE [at |-> at, run |-> loader[l].run, drafts |-> loader[l].drafts,
                     created |-> loader[l].created]]

\* A draft run, and then its official version.
LoadDraft(l) ==
  /\ loader[l].at = "create" /\ loader[l].drafts = "yes"
  /\ loader[l].run \notin draft
  /\ draft' = draft \cup {loader[l].run}
  /\ Proceed(l, "officiate")
  /\ Noted(~AllFinished, "early")
  /\ UNCHANGED <<course, officialVars, draftCanonical, edited, paired, request>>

LoadOfficial(l) ==
  /\ loader[l].at = "officiate"
  /\ loader[l].run \notin official \ paired
  /\ Officiate(loader[l].run)
  /\ Proceed(l, "idle")
  /\ UNCHANGED <<course, canonical, draftVars, request, stray>>

\* Mutant: the run is official as if it had been a draft.
LoadAloneMutant(l) ==
  /\ loader[l].at = "create" /\ loader[l].drafts = "no"
  /\ loader[l].run \notin official
  /\ Officiate(loader[l].run)
  /\ Proceed(l, IF loader[l].created = "yes" THEN "canonical" ELSE "idle")
  /\ Noted(course # "alone", "late")
  /\ UNCHANGED <<course, canonical, draftVars, request>>

\* The course had no draft version when it was read.
LoadAlone(l) ==
  /\ loader[l].at = "create" /\ loader[l].drafts = "no"
  /\ loader[l].run \notin official
  /\ official' = official \cup {loader[l].run}
  /\ Proceed(l, IF loader[l].created = "yes" THEN "canonical" ELSE "idle")
  /\ Noted(course # "alone", "late")
  /\ UNCHANGED <<course, canonical, draftVars, paired, request>>

SetCanonical(l) ==
  /\ loader[l].at = "canonical"
  /\ canonical' = loader[l].run
  /\ Proceed(l, "idle")
  /\ Noted(course # "alone", "late")
  /\ UNCHANGED <<course, official, draftVars, paired, request>>

\* The run is there by now, something else fails, or the loader dies.
LoaderGivesUp(l) ==
  /\ loader[l].at # "idle"
  /\ Proceed(l, "idle")
  /\ UNCHANGED <<course, officialVars, draftVars, paired, request, stray>>

---------------------------------------------------------------------------
Next ==
  \/ \E q \in Request :
       \/ Find(q) \/ InsertCourse(q) \/ LinkCourse(q) \/ ListRuns(q)
       \/ \E r \in Run : CopyNew(q, r) \/ CopyClashes(q, r)
       \/ PairRun(q) \/ Finish(q) \/ Dies(q)
  \/ \E seen \in {canonical, NoRun} :
       SaveFirst(seen) \/ \E r \in Run : CreateFirst(r, seen)
  \/ SaveAgain
  \/ \E r \in Run : CreateAgain(r) \/ Review(r)
  \/ \E l \in Loader :
       \/ \E r \in Run : FindCourse(l, r)
       \/ LoadDraft(l) \/ LoadOfficial(l) \/ LoadAlone(l) \/ SetCanonical(l)
       \/ LoaderGivesUp(l)

Spec == Init /\ [][Next]_vars

---------------------------------------------------------------------------
(* What an editor may rely on.                                             *)

\* "The draft world is defined as all draft objects related": a course that has
\* a finished draft row has a linked draft row for every official run, unless a
\* request died in the middle, somebody worked in an unfinished world, or a
\* loader took the course for one without drafts.  Nothing repairs it later.
WorldIsWhole ==
  AllFinished /\ course = "linked" /\ stray \cap {"died", "clash", "late"} = {}
    => official = paired

\* filter_drafts finds one row of the course, and one of each run: else every
\* request fails from then on.
LookupsFindOne ==
  AllFinished /\ stray \cap {"died", "late"} = {}
    => course # "split" /\ draft \cap official \subseteq paired

\* A build fails on a run that has its draft row already only if somebody worked
\* in the unfinished world.
ClashOnlyIfEarly == "clash" \in stray => "early" \in stray

\* The draft row has the canonical run of the official row.
DraftKeepsCanonical ==
  AllFinished /\ course = "linked" /\ stray = {} /\ canonical # NoRun
    => draftCanonical = canonical

\* The canonical run of a course is not lost when the official row is written
\* back, unless it was set in between.
CanonicalKept == [][canonical # NoRun /\ "late" \notin stray' => canonical' = canonical]_vars

\* What an editor saved in the draft row is not overwritten when the world is
\* finished, unless it was saved too early.
EditsKept == [][edited = "yes" /\ "early" \notin stray => edited' = "yes"]_vars

---------------------------------------------------------------------------
(* Row by row and yet at once.                                             *)

\* While a request is at work on the world nobody looks at its rows; the course
\* has its drafts when the last step is done.
Finished == AllFinished /\ course = "linked"

CourseShown ==
  CASE stray # {}                      -> "broken"
    [] stray = {} /\ Finished          -> "linked"
    [] stray = {} /\ course = "none"   -> "none"
    [] OTHER                           -> "alone"

World == INSTANCE DraftAtOnce WITH
  course         <- CourseShown,
  draft          <- IF Finished THEN draft ELSE {},
  paired         <- IF Finished THEN paired ELSE {},
  draftCanonical <- IF Finished THEN draftCanonical ELSE NoRun,
  edited         <- IF Finished THEN edited ELSE "no"

\* Until the first trouble a build that goes row by row, in everybody's sight and
\* between the steps of editors and loaders, cannot be told from one in a
\* transaction: it is as if the draft world appeared in its last step.
BuiltAtOnce == World!Spec
=============================================================================
