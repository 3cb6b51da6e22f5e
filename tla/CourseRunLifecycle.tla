------------------------ MODULE CourseRunLifecycle ------------------------
(***************************************************************************)
(* The publication life cycle of the runs of one course                    *)
(* (course_metadata/models.py, api/v1/views, management/commands).         *)
(*                                                                         *)
(* Every course and every course run has two rows: the DRAFT row the       *)
(* publisher edits and the OFFICIAL row the catalog serves.  A run walks   *)
(* Unpublished -> LegalReview -> InternalReview -> Reviewed -> Published;  *)
(* promotion copies the draft row over the official one.                   *)
(*                                                                         *)
(* One API request is one database transaction and one step.  The          *)
(* management commands are not: they load rows into memory, save them much *)
(* later (Django's save() writes every column back), and may die between   *)
(* two transactions.                                                       *)
(***************************************************************************)
EXTENDS Naturals, FiniteSets

CONSTANTS
  Run,               \* the runs of the course
  Marketable,        \* runs for which could_be_marketable holds
  Broken,            \* runs whose publication raises (marketing push fails)
  HasMarketingSite,  \* partner.has_marketing_site
  MaxVersion,        \* bound on the content versions of a run
  MaxCourseVersion   \* bound on the content versions of the course

Commands == {"publish", "unpublish", "archive"}

ASSUME LifecycleAssumption ==
  /\ Marketable \subseteq Run
  /\ Broken \subseteq Run
  /\ HasMarketingSite \in BOOLEAN
  /\ MaxVersion \in Nat \ {0}
  /\ MaxCourseVersion \in Nat \ {0}

Unpublished    == "unpublished"
LegalReview    == "review_by_legal"
InternalReview == "review_by_internal"
Reviewed       == "reviewed"
Published      == "published"

Status     == {Unpublished, LegalReview, InternalReview, Reviewed, Published}
InReview   == {LegalReview, InternalReview}
PostReview == {Reviewed, Published}

(* "absent": the row does not exist.  content counts the reviewable        *)
(* changes; 0 on an official row that exists: what no draft row held.      *)
Row     == [status: Status \cup {"absent"}, content: Nat]
Absent  == [status |-> "absent", content |-> 0]
NewRow  == [status |-> Unpublished, content |-> 1]

(* What a reviewer saw, with what Studio changed in the run since; version *)
(* 0: this run was never approved.                                         *)
Approval      == [run: Nat, course: Nat]
NeverApproved == [run |-> 0, course |-> 0]

VARIABLES
  draft,           \* draft[r]: the draft row of run r
  official,        \* official[r]: its official row
  courseDraft,     \* content version of the draft course row
  courseOfficial,  \* content version of the official course row, 0 if none
  due,             \* runs whose go_live_date has passed
  closed,          \* runs whose enrollment deadline has passed
  approved,        \* history: the last approval of each run
  cmd,             \* the management command in progress, or "idle"
  todo,            \* official rows it loaded and has not dealt with yet
  sweep,           \* inactive rows it has decided to unpublish
  half,            \* runs it unpublished whose draft row is still to be saved
  fault            \* history: the worst that happened to a command so far

dataVars == <<draft, official, courseDraft, courseOfficial, approved>>
timeVars == <<due, closed>>
cmdVars  == <<cmd, todo, sweep, half>>
vars     == <<dataVars, timeVars, cmdVars, fault>>

(* "cut": publish_live_course_runs or unpublish_inactive_runs died between *)
(* two transactions, or the Studio loader between the two rows of a run;   *)
(* "torn": archive_courses did, or a request came while a command was in   *)
(* progress.                                                               *)
Faults == {"none", "cut", "torn"}

Nothing == [r \in Run |-> Absent]

TypeOK ==
  /\ draft \in [Run -> Row]
  /\ official \in [Run -> Row]
  /\ courseDraft \in Nat
  /\ courseOfficial \in Nat
  /\ due \subseteq Run
  /\ closed \subseteq Run
  /\ approved \in [Run -> Approval]
  /\ cmd \in Commands \cup {"idle"}
  /\ todo \in [Run -> Row]
  /\ sweep \in [Run -> Row]
  /\ half \subseteq Run
  /\ fault \in Faults

Init ==
  /\ draft = Nothing
  /\ official = Nothing
  /\ courseDraft = 1
  /\ courseOfficial = 0
  /\ due \in SUBSET Run
  /\ closed = {}
  /\ approved = [r \in Run |-> NeverApproved]
  /\ cmd = "idle"
  /\ todo = Nothing
  /\ sweep = Nothing
  /\ half = {}
  /\ fault = "none"

Present(rows)          == {r \in Run : rows[r].status # "absent"}
WithStatus(rows, s)    == {r \in Run : rows[r].status = s}
SetStatus(rows, rs, s) ==
  [r \in Run |-> IF r \in rs THEN [rows[r] EXCEPT !.status = s] ELSE rows[r]]
Keep(rows, rs)         == [r \in Run |-> IF r \in rs THEN rows[r] ELSE Absent]

\* Mutant: a run that is closed counts as one that is left.
KeepersMutant(rows) == WithStatus(rows, Published) \cap Marketable

(* Course.unpublish_inactive_runs: the published runs whose enrollment is  *)
(* over, unless no marketable published run would be left.                 *)
Keepers(rows)  == (WithStatus(rows, Published) \cap Marketable) \ closed
Inactive(rows) == WithStatus(rows, Published) \cap closed
Expired(rows)  == IF HasMarketingSite /\ Keepers(rows) # {} THEN Inactive(rows) ELSE {}

\* Mutant: the draft row is forgotten.
WithDraftMutant(rs) == {}

\* run.draft_version: those of the runs rs that have a draft row.
WithDraft(rs) == rs \cap Present(draft)

\* A request is served whether or not a command is in progress.
Alongside == fault' = IF cmd = "idle" THEN fault ELSE "torn"

---------------------------------------------------------------------------
(* The REST API and the Studio loader: one transaction per step, but for   *)
(* LoaderUpdateRun.                                                        *)

\* POST /course_runs/: the new run is a draft row only.
CreateRun(r) ==
  /\ Alongside
  /\ draft[r] = Absent
  /\ draft' = [draft EXCEPT ![r] = NewRow]
  /\ UNCHANGED <<official, courseDraft, courseOfficial, approved, timeVars, cmdVars>>

\* refresh_course_metadata finds a run made in Studio: the loader creates the
\* draft row and makes it official at once, and the draft course with it.
LoaderCreateRun(r) ==
  /\ Alongside
  /\ draft[r] = Absent
  /\ draft' = [draft EXCEPT ![r] = NewRow]
  /\ official' = [official EXCEPT ![r] = NewRow]
  /\ courseOfficial' = courseDraft
  /\ UNCHANGED <<courseDraft, approved, timeVars, cmdVars>>

\* update_course_run: Studio has another title, license or visibility.  The
\* official row is saved first and then the draft row, each in a transaction of
\* its own, and their status stays: nothing here takes a review back.  Rows that
\* read the same do so afterwards, unless the loader dies in the middle.
LoaderUpdateRun(r, dies) ==
  LET new  == draft[r].content + 1
      same == official[r].content = draft[r].content
  IN
  /\ draft[r] # Absent
  /\ draft[r].content < MaxVersion
  /\ official' = IF same THEN [official EXCEPT ![r].content = IF dies THEN 0 ELSE new] ELSE official
  /\ \/ /\ ~dies
        /\ Alongside
        /\ draft' = [draft EXCEPT ![r].content = new]
        /\ approved' = IF draft[r].status = Reviewed
                       THEN [approved EXCEPT ![r].run = new] ELSE approved
     \/ /\ dies /\ same
        /\ fault' = IF cmd # "idle" \/ fault = "torn" THEN "torn" ELSE "cut"
        /\ UNCHANGED <<draft, approved>>
  /\ UNCHANGED <<courseDraft, courseOfficial, timeVars, cmdVars>>

\* A reviewable change of a Reviewed run takes its review back ...
Reverts(r, changed) == changed /\ draft[r].status = Reviewed

\* Mutant: the official row keeps its review.
RevertOfficialMutant(rows, rs) == rows

\* ... on the official row too.
RevertOfficial(rows, rs) == SetStatus(rows, rs, Unpublished)

\* Mutant: a changed Reviewed run stays Reviewed.
StatusAfterEditMutant(r, isDraft, changed) ==
  IF ~isDraft /\ draft[r].status = Unpublished THEN LegalReview ELSE draft[r].status

\* _update_course_run: draft=False submits an unpublished or reverted run.
StatusAfterEdit(r, isDraft, changed) ==
  CASE ~isDraft /\ (draft[r].status = Unpublished \/ Reverts(r, changed)) -> LegalReview
    [] isDraft /\ Reverts(r, changed) -> Unpublished
    [] OTHER -> draft[r].status

EditedRow(r, isDraft, changed) ==
  [status  |-> StatusAfterEdit(r, isDraft, changed),
   content |-> IF changed THEN draft[r].content + 1 ELSE draft[r].content]

\* Published runs are re-published directly; Reviewed ones stay in step.
PromotesRun(row, isDraft) == (~isDraft /\ row.status = Published) \/ row.status = Reviewed

\* PATCH /course_runs/<key>/ by an editor, refused while the run is in review.
RunEdit(r, isDraft, changed) ==
  LET row == EditedRow(r, isDraft, changed) IN
  /\ Alongside
  /\ draft[r].status \in Status \ InReview
  /\ changed => draft[r].content < MaxVersion
  /\ draft' = [draft EXCEPT ![r] = row]
  /\ \/ /\ PromotesRun(row, isDraft)
        /\ official' = [official EXCEPT ![r] = row]
        /\ courseOfficial' = courseDraft
     \/ /\ ~PromotesRun(row, isDraft)
        /\ official' = IF Reverts(r, changed)
                       THEN RevertOfficial(official, {r}) ELSE official
        /\ UNCHANGED courseOfficial
  /\ UNCHANGED <<courseDraft, approved, timeVars, cmdVars>>

\* PATCH by staff with status=review_by_internal while the run is in review.
SendToInternalReview(r) ==
  /\ Alongside
  /\ draft[r].status \in InReview
  /\ draft' = [draft EXCEPT ![r].status = InternalReview]
  /\ UNCHANGED <<official, courseDraft, courseOfficial, approved, timeVars, cmdVars>>

\* PATCH by staff with status=reviewed: handle_status_change promotes the run
\* and its course and, if the run is due, publishes it in the same transaction.
Approve(r) ==
  LET s    == IF r \in due THEN Published ELSE Reviewed
      row  == [draft[r] EXCEPT !.status = s]
      offs == [official EXCEPT ![r] = row]
      gone == IF r \in due THEN Expired(offs) ELSE {}
  IN
  /\ Alongside
  /\ draft[r].status \in InReview
  /\ r \in due => r \notin Broken
  /\ official' = SetStatus(offs, gone, Unpublished)
  /\ draft' = SetStatus([draft EXCEPT ![r] = row], WithDraft(gone), Unpublished)
  /\ courseOfficial' = courseDraft
  /\ approved' = [approved EXCEPT ![r] = [run |-> draft[r].content, course |-> courseDraft]]
  /\ UNCHANGED <<courseDraft, timeVars, cmdVars>>

\* The runs a course edit takes back from Reviewed, and those it re-publishes.
RevertedBy(changed)    == IF changed THEN WithStatus(draft, Reviewed) ELSE {}
RepublishedBy(isDraft) == IF isDraft THEN {} ELSE WithStatus(draft, Published) \ closed

\* PATCH /courses/<key>/: allowed whatever the state of the runs.
CourseEdit(isDraft, changed) ==
  LET version == IF changed THEN courseDraft + 1 ELSE courseDraft IN
  /\ Alongside
  /\ changed => courseDraft < MaxCourseVersion
  /\ courseDraft' = version
  /\ courseOfficial' = IF RepublishedBy(isDraft) # {} THEN version ELSE courseOfficial
  /\ draft' = SetStatus(draft, RevertedBy(changed), Unpublished)
  /\ official' = RevertOfficial([r \in Run |-> IF r \in RepublishedBy(isDraft)
                                               THEN draft[r] ELSE official[r]],
                                RevertedBy(changed))
  /\ UNCHANGED <<approved, timeVars, cmdVars>>

---------------------------------------------------------------------------
(* Time.  Dates are the same on both rows and are not edited.              *)

GoLiveDatePasses(r) ==
  /\ r \notin due
  /\ due' = due \cup {r}
  /\ UNCHANGED <<dataVars, closed, cmdVars, fault>>

EnrollmentCloses(r) ==
  /\ r \notin closed
  /\ closed' = closed \cup {r}
  /\ UNCHANGED <<dataVars, due, cmdVars, fault>>

---------------------------------------------------------------------------
(* publish_live_course_runs: load the due Reviewed official rows, then     *)
(* publish them one by one.                                                *)

\* Mutant: the command asks for the date only.
DueRunsMutant == Present(official) \cap due
DueRuns == WithStatus(official, Reviewed) \cap due

StartPublish ==
  /\ cmd = "idle"
  /\ DueRuns # {}
  /\ cmd' = "publish"
  /\ todo' = Keep(official, DueRuns)
  /\ UNCHANGED <<dataVars, timeVars, sweep, half, fault>>

\* CourseRun.publish on the row in memory: both rows are saved in one
\* transaction; the course then looks for inactive runs to unpublish.
PublishRun(r) ==
  LET offs == [official EXCEPT ![r] = [todo[r] EXCEPT !.status = Published]] IN
  /\ cmd = "publish"
  /\ todo[r] # Absent
  /\ sweep = Nothing
  /\ half = {}
  /\ r \notin Broken
  /\ official' = offs
  /\ draft' = SetStatus(draft, WithDraft({r}), Published)
  /\ todo' = [todo EXCEPT ![r] = Absent]
  /\ sweep' = Keep(offs, Expired(offs))
  /\ UNCHANGED <<courseDraft, courseOfficial, approved, timeVars, cmd, half, fault>>

\* The exception rolls the transaction back; the command goes on.
\* Mutant: the command stops at the first run that fails.
PublishFailsMutant(r) ==
  /\ cmd = "publish"
  /\ todo[r] # Absent
  /\ sweep = Nothing
  /\ half = {}
  /\ r \in Broken
  /\ todo' = Nothing
  /\ UNCHANGED <<dataVars, timeVars, cmd, sweep, half, fault>>

PublishFails(r) ==
  /\ cmd = "publish"
  /\ todo[r] # Absent
  /\ sweep = Nothing
  /\ half = {}
  /\ r \in Broken
  /\ todo' = [todo EXCEPT ![r] = Absent]
  /\ UNCHANGED <<dataVars, timeVars, cmd, sweep, half, fault>>

---------------------------------------------------------------------------
(* unpublish_inactive_runs: load the published official rows of every      *)
(* course, then deal with one course after the other.                      *)

StartUnpublish ==
  /\ cmd = "idle"
  /\ WithStatus(official, Published) # {}
  /\ cmd' = "unpublish"
  /\ todo' = Keep(official, WithStatus(official, Published))
  /\ UNCHANGED <<dataVars, timeVars, sweep, half, fault>>

\* The command reaches this course: it decides on the rows it loaded.
SweepCourse ==
  /\ cmd = "unpublish"
  /\ todo # Nothing
  /\ sweep' = Keep(todo, Expired(todo))
  /\ todo' = Nothing
  /\ UNCHANGED <<dataVars, timeVars, cmd, half, fault>>

\* One inactive run: its official row is saved from memory ...
UnpublishOfficial(r) ==
  /\ sweep[r] # Absent
  /\ half = {}
  /\ official' = [official EXCEPT ![r] = [sweep[r] EXCEPT !.status = Unpublished]]
  /\ sweep' = [sweep EXCEPT ![r] = Absent]
  /\ half' = {r}
  /\ UNCHANGED <<draft, courseDraft, courseOfficial, approved, timeVars, cmd, todo, fault>>

\* ... and then, in another transaction, its draft row.
UnpublishDraft(r) ==
  /\ r \in half
  /\ draft' = SetStatus(draft, WithDraft({r}), Unpublished)
  /\ half' = {}
  /\ UNCHANGED <<official, courseDraft, courseOfficial, approved, timeVars, cmd, todo, sweep, fault>>

FinishCommand ==
  /\ cmd \in {"publish", "unpublish"}
  /\ todo = Nothing
  /\ sweep = Nothing
  /\ half = {}
  /\ cmd' = "idle"
  /\ UNCHANGED <<dataVars, timeVars, todo, sweep, half, fault>>

---------------------------------------------------------------------------
(* archive_courses: the draft runs in one transaction, the official runs   *)
(* in the next.                                                            *)

ArchiveDraft ==
  /\ cmd = "idle"
  /\ Present(draft) # {}
  /\ draft' = SetStatus(draft, Present(draft), Unpublished)
  /\ cmd' = IF courseOfficial = 0 THEN "idle" ELSE "archive"
  /\ UNCHANGED <<official, courseDraft, courseOfficial, approved, timeVars, todo, sweep, half, fault>>

\* Mutant: a status of its own instead of Unpublished.
ArchiveOfficialMutant ==
  /\ cmd = "archive"
  /\ official' = SetStatus(official, Present(official), "archived")
  /\ cmd' = "idle"
  /\ UNCHANGED <<draft, courseDraft, courseOfficial, approved, timeVars, todo, sweep, half, fault>>

ArchiveOfficial ==
  /\ cmd = "archive"
  /\ official' = SetStatus(official, Present(official), Unpublished)
  /\ cmd' = "idle"
  /\ UNCHANGED <<draft, courseDraft, courseOfficial, approved, timeVars, todo, sweep, half, fault>>

\* The command is killed, or its next statement raises, between transactions.
CommandDies ==
  /\ cmd # "idle"
  /\ fault' = IF cmd = "archive" \/ fault = "torn" THEN "torn" ELSE "cut"
  /\ cmd' = "idle"
  /\ todo' = Nothing
  /\ sweep' = Nothing
  /\ half' = {}
  /\ UNCHANGED <<dataVars, timeVars>>

---------------------------------------------------------------------------
ApiStep ==
  \/ \E r \in Run : CreateRun(r) \/ SendToInternalReview(r) \/ Approve(r)
  \/ \E r \in Run, isDraft, changed \in BOOLEAN : RunEdit(r, isDraft, changed)
  \/ \E isDraft, changed \in BOOLEAN : CourseEdit(isDraft, changed)

LoaderStep ==
  \/ \E r \in Run : LoaderCreateRun(r)
  \/ \E r \in Run, dies \in BOOLEAN : LoaderUpdateRun(r, dies)

TimeStep == \E r \in Run : GoLiveDatePasses(r) \/ EnrollmentCloses(r)

\* Every step of a command that is already running.
CommandStep ==
  \/ \E r \in Run : PublishRun(r) \/ PublishFails(r)
  \/ \E r \in Run : UnpublishOfficial(r) \/ UnpublishDraft(r)
  \/ SweepCourse
  \/ FinishCommand
  \/ ArchiveOfficial

Next ==
  \/ ApiStep
  \/ LoaderStep
  \/ TimeStep
  \/ StartPublish \/ StartUnpublish \/ ArchiveDraft
  \/ CommandStep
  \/ CommandDies

Spec == Init /\ [][Next]_vars

\* A started command is executed to its end, and the scheduler starts
\* publish_live_course_runs again and again.
FairSpec == Spec /\ WF_vars(CommandStep) /\ SF_vars(StartPublish)

---------------------------------------------------------------------------
(* What the life cycle promises.                                           *)

\* As long as every command runs alone and to its end, the two rows of a run
\* agree on whether it has passed review: the draft says Reviewed (Published)
\* exactly when the catalog does, and a Reviewed run is served exactly as the
\* draft row reads.
PostReviewAgree ==
  fault = "none" => \A r \in Run \ half :
    /\ cmd # "archive" /\ official[r].status \in PostReview
         => draft[r].status = official[r].status
    /\ draft[r].status \in PostReview => official[r].status = draft[r].status
    /\ draft[r].status = Reviewed => official[r] = draft[r]

\* The half of that agreement that survives a publish or unpublish command
\* dying between two transactions: what the catalog shows as reviewed or live,
\* the draft row says too.
OfficialFollowsDraft ==
  cmd # "archive" /\ fault # "torn" =>
    \A r \in Run : official[r].status \in PostReview => draft[r].status = official[r].status

\* A run that waits for its go-live date holds the course content that the
\* reviewer approved, and the run content that the reviewer approved or Studio
\* wrote over an approved one: whatever editors and staff send, their changes do
\* not slip in.  Studio's do: title_override, hidden and license are none of
\* STATUS_CHANGE_EXEMPT_FIELDS, but the loader takes no review back.
ReviewedContentIsApproved ==
  \A r \in Run : draft[r].status = Reviewed =>
    approved[r] = [run |-> draft[r].content, course |-> courseDraft]

\* No row says Reviewed or Published unless a reviewer approved the run once.
EverPublishedWasReviewed ==
  \A r \in Run :
    draft[r].status \in PostReview \/ official[r].status \in PostReview
      => approved[r] # NeverApproved

\* A run goes live only from Reviewed, or in the step that approves it.
PublishedAfterReview ==
  \A r \in Run :
    draft'[r].status = Published /\ draft[r].status # Published
      => \/ draft[r].status = Reviewed
         \/ /\ draft[r].status \in InReview
            /\ approved'[r] = [run |-> draft[r].content, course |-> courseDraft]

NoPublishSkipsReview == [][PublishedAfterReview]_vars

\* ... which is so as long as no request comes while a command is in progress.
QuietPublishAfterReview == [][fault # "torn" => PublishedAfterReview]_vars

\* Unpublishing old runs leaves a published marketable run, unless the command
\* decides on rows that a request has changed since.
KeepsOneMarketable ==
  [][(\E r \in Run : UnpublishOfficial(r)) /\ fault # "torn"
       => WithStatus(official', Published) \cap Marketable # {}]_vars

\* Once there is an official course, its content changes only when a reviewer
\* approves a run of the course, or when a run of it is live already.
OfficialCourseAfterReview ==
  [][courseOfficial # 0 /\ courseOfficial' # courseOfficial
       => \E r \in Run : approved'[r] # approved[r] \/ draft[r].status = Published]_vars

\* A Reviewed run that is due is published or withdrawn in the end, even when
\* the publication of another run raises on every execution of the command,
\* provided that not every execution is killed.
DueRunsGoLive ==
  <>[][~CommandDies]_vars =>
    \A r \in Run \ Broken :
      (r \in due /\ official[r].status = Reviewed) ~> (official[r].status # Reviewed)
===========================================================================
