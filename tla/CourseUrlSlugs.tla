-------------------------- MODULE CourseUrlSlugs --------------------------
(***************************************************************************)
(* The URL slugs of the courses of one partner                             *)
(* (CourseUrlSlug, Course.set_active_url_slug, CourseRun.publish and the   *)
(* slug commands).                                                         *)
(*                                                                         *)
(* One table, unique by slug, serves the draft and the official row of     *)
(* every course.  The official row keeps every slug it ever had: one is    *)
(* active, the others redirect.  The draft row has an entry of its own     *)
(* only while its slug is not in the official history; otherwise the       *)
(* official entry marked is_active_on_draft speaks for it.  A course that  *)
(* comes from Studio is official from the start and has no slug until an   *)
(* editor, a command, a submission or a promotion gives it one.            *)
(*                                                                         *)
(* Of a run only the status and the slug matter here; both its rows have   *)
(* the same status (CourseRunLifecycle).  An API request is one step; the  *)
(* commands commit between the steps written here.                         *)
(***************************************************************************)
EXTENDS Naturals, FiniteSets

CONSTANTS
  Course, Run, Slug,
  NoCourse,          \* the course of a slug nobody uses
  NoSlug,            \* a request without url_slug
  CourseOf,          \* CourseOf[r]: the course of run r
  RunSlug,           \* RunSlug[r]: the slug of run r
  Subdirectory,      \* the slugs that match the subdirectory format
  SubdirectoryOn     \* IS_SUBDIRECTORY_SLUG_FORMAT_ENABLED, for an open course

ASSUME SlugAssumption ==
  /\ NoCourse \notin Course
  /\ NoSlug \notin Slug
  /\ CourseOf \in [Run -> Course]
  /\ RunSlug \in [Run -> Slug]
  /\ Subdirectory \subseteq Slug
  /\ SubdirectoryOn \in BOOLEAN

Flags         == {"is_active", "is_active_on_draft"}
Free          == [course |-> NoCourse, row |-> "none", flags |-> {}]
OfDraft(c)    == [course |-> c, row |-> "draft", flags |-> {"is_active"}]
OfOfficial(c) == [course |-> c, row |-> "official", flags |-> Flags]
Redirect(c)   == [course |-> c, row |-> "official", flags |-> {}]

\* An entry of a draft row is always active; a free slug has no entry at all.
Entry ==
  {Free} \cup [course: Course, row: {"draft"}, flags: {{"is_active"}}]
         \cup [course: Course, row: {"official"}, flags: SUBSET Flags]

Unpublished == "unpublished"
InReview    == "in_review"
Reviewed    == "reviewed"
Published   == "published"

Status == {Unpublished, InReview, Reviewed, Published}

VARIABLES
  entry,       \* the table CourseUrlSlug: one entry per slug
  created,     \* courses that have a draft row
  officials,   \* courses that have an official row
  loaded,      \* history: courses that came from Studio, without a draft row
  status,      \* status of each run
  moving,      \* slug command between its two transactions: <<>> or <<course, slug>>
  unredirected,\* run the publish command has published but not yet redirected
  redirected,  \* history: runs whose redirect publish() has reported in place
  disturbed    \* history: has a command died, or a request come inside one?

vars == <<entry, created, officials, loaded, status, moving, unredirected, redirected, disturbed>>

TypeOK ==
  /\ entry \in [Slug -> Entry]
  /\ created \subseteq Course
  /\ officials \subseteq Course
  /\ loaded \subseteq Course
  /\ officials \subseteq created \cup loaded
  /\ status \in [Run -> Status]
  /\ moving \in {<<>>} \cup (Course \X Slug)
  /\ unredirected \subseteq Run
  /\ redirected \subseteq Run
  /\ disturbed \in {"no", "yes"}

Init ==
  /\ entry = [s \in Slug |-> Free]
  /\ created = {}
  /\ officials = {}
  /\ loaded = {}
  /\ status = [r \in Run |-> Unpublished]
  /\ moving = <<>>
  /\ unredirected = {}
  /\ redirected = {}
  /\ disturbed = "no"

DraftHistory(t, c)    == {s \in Slug : t[s].course = c /\ t[s].row = "draft"}
OfficialHistory(t, c) == {s \in Slug : t[s].course = c /\ t[s].row = "official"}

\* Course.active_url_slug of the official and of the draft row.
OfficialSlugs(t, c) == {s \in OfficialHistory(t, c) : "is_active" \in t[s].flags}
DraftSlugs(t, c) ==
  IF DraftHistory(t, c) # {} THEN DraftHistory(t, c)
  ELSE {s \in OfficialHistory(t, c) : "is_active_on_draft" \in t[s].flags}

\* Mutant: nobody checks who has the slug.
AvailableMutant(t, c, s) == TRUE

\* The slug is not in use with another course.
Available(t, c, s) == t[s].course \in {NoCourse, c}

MarkOnDraft(e, match) ==
  [e EXCEPT !.flags = IF match THEN @ \cup {"is_active_on_draft"}
                      ELSE @ \ {"is_active_on_draft"}]

\* Mutants of SetDraftSlug: the old entry stays, or is switched off instead of replaced.
SetDraftSlugMutant(t, c, s) ==
  [x \in Slug |-> CASE x \in OfficialHistory(t, c) -> MarkOnDraft(t[x], x = s)
                    [] x \notin OfficialHistory(t, c) /\ x = s -> OfDraft(c)
                    [] OTHER -> t[x]]
SetDraftSlugOffMutant(t, c, s) ==
  [x \in Slug |-> CASE x \in OfficialHistory(t, c) -> MarkOnDraft(t[x], x = s)
                    [] x \notin OfficialHistory(t, c) /\ x = s -> OfDraft(c)
                    [] x \in DraftHistory(t, c) \ {s} -> [t[x] EXCEPT !.flags = {}]
                    [] OTHER -> t[x]]

\* set_active_url_slug on the draft row: the official history is searched
\* first, and an entry of the draft row itself is replaced or dropped.
SetDraftSlug(t, c, s) ==
  LET history == OfficialHistory(t, c)
      own     == DraftHistory(t, c)
  IN  [x \in Slug |-> CASE x \in history -> MarkOnDraft(t[x], x = s)
                        [] x \notin history /\ x = s -> OfDraft(c)
                        [] x \in own \ {s} -> Free
                        [] OTHER -> t[x]]

\* Mutant: the slugs the course had before are deleted.
SetOfficialSlugMutant(t, c, s) ==
  [x \in Slug |-> CASE x = s -> OfOfficial(c)
                    [] x # s /\ t[x].course = c -> Free
                    [] OTHER -> t[x]]

\* ... and on the official row: the draft's own entry goes, the slug joins the
\* history and takes both flags from the slug that had them.
SetOfficialSlug(t, c, s) ==
  LET history == OfficialHistory(t, c)
      own     == DraftHistory(t, c)
  IN  [x \in Slug |-> CASE x = s -> OfOfficial(c)
                        [] x \in own \ {s} -> Free
                        [] x \in history \ {s} -> Redirect(c)
                        [] OTHER -> t[x]]

SetOnBoth(t, c, s) ==
  IF c \in officials THEN SetOfficialSlug(SetDraftSlug(t, c, s), c, s)
  ELSE SetDraftSlug(t, c, s)

RunsOf(c, st) == {r \in Run : CourseOf[r] = c /\ status[r] = st}

Idle == moving = <<>> /\ unredirected = {}

\* A request is served whether or not a command is between two transactions.
Alongside == disturbed' = IF Idle THEN disturbed ELSE "yes"

---------------------------------------------------------------------------
(* API requests and the loader.                                            *)

\* POST /courses/ with a slug, or with one generated to be unique.
CreateCourse(c, s) ==
  /\ Alongside
  /\ c \notin created \cup officials
  /\ entry[s] = Free
  /\ entry' = SetDraftSlug(entry, c, s)
  /\ created' = created \cup {c}
  /\ UNCHANGED <<officials, loaded, status, moving, unredirected, redirected>>

\* The loader finds a run of a course that has no official row, and makes one
\* without a slug; a draft row that exists is linked to it.
LoadCourse(c) ==
  /\ Alongside
  /\ c \notin officials
  /\ officials' = officials \cup {c}
  /\ loaded' = IF c \in created THEN loaded ELSE loaded \cup {c}
  /\ UNCHANGED <<entry, created, status, moving, unredirected, redirected>>

\* A request or a comment about such a course makes its draft row, which takes
\* no slug along (ensure_draft_world).
EnsureDraft(c) ==
  /\ Alongside
  /\ c \in officials \ created
  /\ created' = created \cup {c}
  /\ UNCHANGED <<entry, officials, loaded, status, moving, unredirected, redirected>>

\* Mutant: the Reviewed runs are forgotten.
PushesSlugMutant(c, isDraft) == c \in officials /\ ~isDraft

\* The slug of a PATCH goes to the draft row, and to the official row at once
\* when the edit is not a draft or a run of the course is Reviewed.
PushesSlug(c, isDraft) == c \in officials /\ (~isDraft \/ RunsOf(c, Reviewed) # {})

EditedTable(c, s, isDraft) ==
  CASE s = NoSlug -> entry
    [] s # NoSlug /\ PushesSlug(c, isDraft) ->
         SetOfficialSlug(SetDraftSlug(entry, c, s), c, s)
    [] OTHER -> SetDraftSlug(entry, c, s)

\* The slug that the official course takes is that of the draft course, or one
\* generated to be unique when it has none.
PromotionSlugs(t, c) ==
  IF DraftSlugs(t, c) # {} THEN DraftSlugs(t, c) ELSE {s \in Slug : t[s] = Free}

\* PATCH /courses/<key>/.  live: a published run is still open for enrollment,
\* so that an edit with draft=false makes the course official again.
EditCourse(c, s, isDraft, changed, live) ==
  LET t == EditedTable(c, s, isDraft) IN
  /\ Alongside
  /\ c \in created
  /\ s # NoSlug => Available(entry, c, s)
  /\ live => RunsOf(c, Published) # {}
  /\ \/ ~isDraft /\ live /\ \E p \in PromotionSlugs(t, c) : entry' = SetOfficialSlug(t, c, p)
     \/ ~(~isDraft /\ live) /\ entry' = t
  /\ status' = [r \in Run |-> IF changed /\ r \in RunsOf(c, Reviewed)
                              THEN Unpublished ELSE status[r]]
  /\ UNCHANGED <<created, loaded, officials, moving, unredirected, redirected>>

\* Submission for review moves an open course to the subdirectory format.
SubmitRun(r, s) ==
  LET c == CourseOf[r] IN
  /\ Alongside
  /\ c \in created
  /\ status[r] = Unpublished
  /\ status' = [status EXCEPT ![r] = InReview]
  /\ \/ /\ SubdirectoryOn
        /\ DraftSlugs(entry, c) \cap Subdirectory = {}
        /\ s \in Subdirectory
        /\ Available(entry, c, s)
        /\ entry' = SetOnBoth(entry, c, s)
     \/ /\ ~(SubdirectoryOn /\ DraftSlugs(entry, c) \cap Subdirectory = {})
        /\ UNCHANGED entry
  /\ UNCHANGED <<created, loaded, officials, moving, unredirected, redirected>>

\* update_or_create_official_version of the course.
PromotesTo(c, s) ==
  /\ s \in PromotionSlugs(entry, c)
  /\ Available(entry, c, s)
  /\ officials' = officials \cup {c}

\* Staff approves a run that is not due yet.
Approve(r) ==
  LET c == CourseOf[r] IN
  /\ Alongside
  /\ status[r] = InReview
  /\ status' = [status EXCEPT ![r] = Reviewed]
  /\ \E s \in Slug : PromotesTo(c, s) /\ entry' = SetOfficialSlug(entry, c, s)
  /\ UNCHANGED <<created, loaded, moving, unredirected, redirected>>

\* publish(): the slug of the run becomes a redirect to its course.
WithRedirect(t, r) ==
  IF t[RunSlug[r]] = Free THEN [t EXCEPT ![RunSlug[r]] = Redirect(CourseOf[r])] ELSE t

\* Staff approves a run that is due: published in the same transaction, which
\* fails as a whole when another course has the slug of the run.
ApproveAndPublish(r) ==
  LET c == CourseOf[r] IN
  /\ Alongside
  /\ status[r] = InReview
  /\ status' = [status EXCEPT ![r] = Published]
  /\ Available(entry, c, RunSlug[r])
  /\ \E s \in Slug :
       PromotesTo(c, s) /\ entry' = WithRedirect(SetOfficialSlug(entry, c, s), r)
  /\ redirected' = redirected \cup {r}
  /\ UNCHANGED <<created, loaded, moving, unredirected>>

\* A run that is live or Reviewed is edited, or the loader finds a new run of
\* the course in Studio: the course is made official once more.
Republish(c) ==
  /\ Alongside
  /\ c \in created
  /\ \E s \in Slug : PromotesTo(c, s) /\ entry' = SetOfficialSlug(entry, c, s)
  /\ UNCHANGED <<created, loaded, status, moving, unredirected, redirected>>

\* A Reviewed run loses its review to an edit; a Published one is unpublished.
WithdrawRun(r) ==
  /\ Alongside
  /\ status[r] \in {Reviewed, Published}
  /\ status' = [status EXCEPT ![r] = Unpublished]
  /\ UNCHANGED <<entry, created, loaded, officials, moving, unredirected, redirected>>

---------------------------------------------------------------------------
(* Commands.                                                               *)

\* publish_live_course_runs: the run goes live in one transaction ...
PublishRun(r) ==
  /\ Idle
  /\ status[r] = Reviewed
  /\ status' = [status EXCEPT ![r] = Published]
  /\ unredirected' = {r}
  /\ UNCHANGED <<entry, created, loaded, officials, moving, redirected, disturbed>>

\* ... and gets its redirect in another, an IntegrityError when the slug of the
\* run belongs to another course.
AddRedirect(r) ==
  /\ r \in unredirected
  /\ unredirected' = {}
  /\ \/ /\ Available(entry, CourseOf[r], RunSlug[r])
        /\ entry' = WithRedirect(entry, r)
        /\ redirected' = redirected \cup {r}
     \/ /\ ~Available(entry, CourseOf[r], RunSlug[r])
        /\ UNCHANGED <<entry, redirected>>
  /\ UNCHANGED <<created, loaded, officials, status, moving, disturbed>>

\* backfill_course_run_slugs_to_courses: a slug that exists is left alone.
BackfillRedirect(r) ==
  /\ Idle
  /\ status[r] = Published
  /\ entry[RunSlug[r]] = Free
  /\ entry' = WithRedirect(entry, r)
  /\ redirected' = redirected \cup {r}
  /\ UNCHANGED <<created, loaded, officials, status, moving, unredirected, disturbed>>

\* remove_redirects_from_courses: all redirects, or those it is given.
RemoveRedirects(ss) ==
  /\ Idle
  /\ ss \subseteq {s \in Slug : entry[s] # Free /\ entry[s].flags = {}}
  /\ ss # {}
  /\ entry' = [s \in Slug |-> IF s \in ss THEN Free ELSE entry[s]]
  /\ redirected' = {r \in redirected : RunSlug[r] \notin ss}
  /\ UNCHANGED <<created, loaded, officials, status, moving, unredirected, disturbed>>

\* update_course_active_url_slugs, migrate_course_slugs: the draft row first ...
MoveDraft(c, s) ==
  /\ Idle
  /\ c \in created
  /\ Available(entry, c, s)
  /\ entry' = SetDraftSlug(entry, c, s)
  /\ moving' = IF c \in officials THEN <<c, s>> ELSE <<>>
  /\ UNCHANGED <<created, loaded, officials, status, unredirected, redirected, disturbed>>

\* ... then, in a transaction of its own, the official row; an IntegrityError
\* when another course has taken the slug in between.
MoveOfficial(c, s) ==
  /\ moving = <<c, s>>
  /\ moving' = <<>>
  /\ \/ Available(entry, c, s) /\ entry' = SetOfficialSlug(entry, c, s)
     \/ ~Available(entry, c, s) /\ UNCHANGED entry
  /\ UNCHANGED <<created, loaded, officials, status, unredirected, redirected, disturbed>>

CommandDies ==
  /\ ~Idle
  /\ moving' = <<>>
  /\ unredirected' = {}
  /\ disturbed' = "yes"
  /\ UNCHANGED <<entry, created, loaded, officials, status, redirected>>

---------------------------------------------------------------------------
RunStep ==
  \E r \in Run :
    \/ \E s \in Slug : SubmitRun(r, s)
    \/ Approve(r)
    \/ ApproveAndPublish(r)
    \/ WithdrawRun(r)
    \/ PublishRun(r)
    \/ AddRedirect(r)
    \/ BackfillRedirect(r)

CourseStep ==
  \E c \in Course :
    \/ \E s \in Slug : CreateCourse(c, s) \/ MoveDraft(c, s) \/ MoveOfficial(c, s)
    \/ \E s \in Slug \cup {NoSlug}, isDraft, changed, live \in BOOLEAN :
         EditCourse(c, s, isDraft, changed, live)
    \/ LoadCourse(c)
    \/ EnsureDraft(c)
    \/ Republish(c)

Next ==
  \/ RunStep
  \/ CourseStep
  \/ \E ss \in SUBSET Slug : RemoveRedirects(ss)
  \/ CommandDies

Spec == Init /\ [][Next]_vars

---------------------------------------------------------------------------
(* What the slugs promise.                                                 *)

AtMostOne(ss) == \A s, x \in ss : s = x

\* Whatever command died or overlapped an edit, a course never has two slugs for
\* its draft row or two for the catalog.  Only a course from Studio may have none:
\* a course made by an editor always has one, a course the catalog has a slug for
\* shows one to its editor, and the catalog has one for every course with a run
\* that is Reviewed or Published.
OneActiveSlug ==
  /\ \A c \in Course :
       /\ AtMostOne(DraftSlugs(entry, c)) /\ AtMostOne(OfficialSlugs(entry, c))
       /\ OfficialSlugs(entry, c) # {} => DraftSlugs(entry, c) # {}
  /\ \A c \in created \ loaded : DraftSlugs(entry, c) # {}
  /\ \A r \in Run :
       status[r] \in {Reviewed, Published} => OfficialSlugs(entry, CourseOf[r]) # {}

\* A slug that was ever official for a course stays in its history, never to
\* serve another course, unless an operator removes a redirect.
HistoryIsKept ==
  [][\A c \in Course :
       (\A ss \in SUBSET Slug : ~RemoveRedirects(ss))
         => OfficialHistory(entry, c) \subseteq OfficialHistory(entry', c)]_vars

\* Unless a command died or a request came inside one, the catalog has the slug
\* the editor sees while a run waits to go live, so that publishing the run,
\* which copies no slug, shows the right one.
ReviewedSlugIsServed ==
  disturbed = "no" => \A r \in Run : status[r] = Reviewed /\ moving = <<>>
    => DraftSlugs(entry, CourseOf[r]) = OfficialSlugs(entry, CourseOf[r])

\* Under the same condition a run whose publication reported success has its
\* slug in the history of the official course, where the next edit of the draft
\* slug does not reach it.
RunUrlStays ==
  disturbed = "no" => \A r \in redirected : RunSlug[r] \in OfficialHistory(entry, CourseOf[r])

\* The table of slugs implements what the catalog promises: whatever happens, a
\* slug changes hands only through the removal of a redirect, and a course that
\* once had a slug in the catalog is served at a slug of its own ever after.
LeadsTo ==
  [s \in Slug |-> IF entry[s].row = "official" THEN entry[s].course ELSE NoCourse]
ServedAt ==
  [c \in Course |-> IF OfficialSlugs(entry, c) = {} THEN NoSlug
                    ELSE CHOOSE s \in Slug : s \in OfficialSlugs(entry, c)]

Catalog == INSTANCE CatalogUrls WITH leads <- LeadsTo, active <- ServedAt

KeepsCatalogPromises == Catalog!Spec
===========================================================================
