--------------------- MODULE CourseRunLifecycle_proofs ---------------------
(***************************************************************************)
(* Theorems about CourseRunLifecycle, for every set of runs, every bound   *)
(* on the content versions and every choice of Marketable and Broken.      *)
(***************************************************************************)
EXTENDS CourseRunLifecycle, FiniteSetTheorems, TLAPS

(* Lemmas about the operators on tables of rows. *)

LEMMA AbsentIsRow == Absent \in Row /\ NewRow \in Row /\ Nothing \in [Run -> Row]
BY DEF Absent, NewRow, Nothing, Row, Status, Unpublished

LEMMA WithStatusIsRow ==
  ASSUME NEW row \in Row, NEW s \in Status
  PROVE  [row EXCEPT !.status = s] \in Row
BY DEF Row

LEMMA SetStatusType ==
  ASSUME NEW rows \in [Run -> Row], NEW rs, NEW s \in Status
  PROVE  SetStatus(rows, rs, s) \in [Run -> Row]
BY WithStatusIsRow DEF SetStatus

LEMMA KeepType ==
  ASSUME NEW rows \in [Run -> Row], NEW rs
  PROVE  Keep(rows, rs) \in [Run -> Row]
BY AbsentIsRow DEF Keep

LEMMA StatusNames ==
  /\ Unpublished \in Status /\ LegalReview \in Status /\ InternalReview \in Status
  /\ Reviewed \in Status /\ Published \in Status
  /\ Unpublished \notin PostReview /\ LegalReview \notin PostReview
  /\ InternalReview \notin PostReview /\ "absent" \notin PostReview
  /\ "absent" \notin Status
BY DEF Status, PostReview, Unpublished, LegalReview, InternalReview, Reviewed, Published

LEMMA EditedRowType ==
  ASSUME TypeOK, NEW r \in Run, NEW isDraft, NEW changed, draft[r].status \in Status \ InReview
  PROVE  EditedRow(r, isDraft, changed) \in Row
<1>1. StatusAfterEdit(r, isDraft, changed) \in Status
  BY StatusNames DEF StatusAfterEdit, TypeOK
<1>2. draft[r].content \in Nat
  BY DEF TypeOK, Row
<1> QED
  BY <1>1, <1>2 DEF EditedRow, Row

---------------------------------------------------------------------------
(* The type invariant. *)

LEMMA TypeInit == Init => TypeOK
BY AbsentIsRow, LifecycleAssumption DEF Init, TypeOK, Approval, NeverApproved, Commands, Faults

LEMMA TypeNext == TypeOK /\ [Next]_vars => TypeOK'
<1> SUFFICES ASSUME TypeOK, [Next]_vars PROVE TypeOK'
  OBVIOUS
<1> USE LifecycleAssumption DEF Alongside, Faults
<1>1. ASSUME NEW r \in Run, CreateRun(r) PROVE TypeOK'
  BY <1>1, AbsentIsRow DEF TypeOK, CreateRun, cmdVars, timeVars
<1>2. ASSUME NEW r \in Run, SendToInternalReview(r) PROVE TypeOK'
  BY <1>2, WithStatusIsRow, StatusNames DEF TypeOK, SendToInternalReview, cmdVars, timeVars
<1>3. ASSUME NEW r \in Run, Approve(r) PROVE TypeOK'
  <2> DEFINE s == IF r \in due THEN Published ELSE Reviewed
             row == [draft[r] EXCEPT !.status = s]
             offs == [official EXCEPT ![r] = row]
  <2>1. row \in Row
    BY WithStatusIsRow, StatusNames DEF TypeOK
  <2>2. offs \in [Run -> Row] /\ [draft EXCEPT ![r] = row] \in [Run -> Row]
    BY <2>1 DEF TypeOK
  <2>3. official' \in [Run -> Row]
    BY <1>3, <2>2, SetStatusType, StatusNames DEF Approve
  <2>4. draft' \in [Run -> Row]
    BY <1>3, <2>2, SetStatusType, StatusNames DEF Approve
  <2>5. approved' \in [Run -> Approval]
    BY <1>3 DEF Approve, TypeOK, Row, Approval
  <2> QED
    BY <1>3, <2>3, <2>4, <2>5 DEF Approve, TypeOK, cmdVars, timeVars
<1>4. ASSUME NEW r \in Run, NEW isDraft \in BOOLEAN, NEW changed \in BOOLEAN,
             RunEdit(r, isDraft, changed)
      PROVE  TypeOK'
  <2>1. EditedRow(r, isDraft, changed) \in Row
    BY <1>4, EditedRowType DEF RunEdit
  <2>2. SetStatus(official, {r}, Unpublished) \in [Run -> Row]
    BY SetStatusType, StatusNames DEF TypeOK
  <2> QED
    BY <1>4, <2>1, <2>2 DEF TypeOK, RunEdit, RevertOfficial, cmdVars, timeVars
<1>5. ASSUME NEW isDraft \in BOOLEAN, NEW changed \in BOOLEAN, CourseEdit(isDraft, changed)
      PROVE  TypeOK'
  <2>1. draft' \in [Run -> Row]
    BY <1>5, SetStatusType, StatusNames DEF CourseEdit, TypeOK
  <2>2. [r \in Run |-> IF r \in RepublishedBy(isDraft) THEN draft[r] ELSE official[r]]
          \in [Run -> Row]
    BY DEF TypeOK
  <2>3. official' \in [Run -> Row]
    BY <1>5, <2>2, SetStatusType, StatusNames DEF CourseEdit, RevertOfficial
  <2> QED
    BY <1>5, <2>1, <2>3 DEF TypeOK, CourseEdit, cmdVars, timeVars
<1>6. CASE LoaderStep
  <2>1. ASSUME NEW r \in Run, LoaderCreateRun(r) PROVE TypeOK'
    BY <2>1, AbsentIsRow DEF TypeOK, LoaderCreateRun, cmdVars, timeVars
  <2>2. ASSUME NEW r \in Run, NEW dies \in BOOLEAN, LoaderUpdateRun(r, dies) PROVE TypeOK'
    <3>1. draft[r].content + 1 \in Nat /\ 0 \in Nat
      BY DEF TypeOK, Row
    <3>2. official' \in [Run -> Row] /\ draft' \in [Run -> Row]
      <4>1. \A row \in Row, n \in Nat : [row EXCEPT !.content = n] \in Row
        BY DEF Row
      <4>2. \A rows \in [Run -> Row], n \in Nat : [rows EXCEPT ![r].content = n] \in [Run -> Row]
        BY <4>1
      <4>3. \E n \in Nat : official' \in {official, [official EXCEPT ![r].content = n]}
        BY <2>2, <3>1 DEF LoaderUpdateRun
      <4>4. draft' \in {draft, [draft EXCEPT ![r].content = draft[r].content + 1]}
        BY <2>2 DEF LoaderUpdateRun
      <4> QED
        BY <3>1, <4>2, <4>3, <4>4 DEF TypeOK
    <3>3. approved' \in [Run -> Approval]
      BY <2>2, <3>1 DEF TypeOK, LoaderUpdateRun, Approval
    <3> QED
      BY <2>2, <3>2, <3>3 DEF TypeOK, LoaderUpdateRun, cmdVars, timeVars
  <2> QED
    BY <1>6, <2>1, <2>2 DEF LoaderStep
<1>7. CASE TimeStep
  BY <1>7 DEF TypeOK, TimeStep, GoLiveDatePasses, EnrollmentCloses, dataVars, cmdVars
<1>8. CASE StartPublish
  BY <1>8, KeepType DEF TypeOK, StartPublish, dataVars, timeVars, Commands
<1>9. CASE StartUnpublish
  BY <1>9, KeepType DEF TypeOK, StartUnpublish, dataVars, timeVars, Commands
<1>10. CASE ArchiveDraft
  BY <1>10, SetStatusType, StatusNames DEF TypeOK, ArchiveDraft, timeVars, Commands
<1>11. ASSUME NEW r \in Run, PublishRun(r) PROVE TypeOK'
  <2>1. [todo[r] EXCEPT !.status = Published] \in Row
    BY WithStatusIsRow, StatusNames DEF TypeOK
  <2>2. official' \in [Run -> Row]
    BY <1>11, <2>1 DEF TypeOK, PublishRun
  <2>3. sweep' \in [Run -> Row]
    <3> DEFINE offs == [official EXCEPT ![r] = [todo[r] EXCEPT !.status = Published]]
    <3>1. offs \in [Run -> Row] /\ sweep' = Keep(offs, Expired(offs))
      BY <1>11, <2>1 DEF PublishRun, TypeOK
    <3> QED
      BY <3>1, KeepType
  <2>4. draft' \in [Run -> Row]
    BY <1>11, SetStatusType, StatusNames DEF PublishRun, TypeOK
  <2>5. todo' \in [Run -> Row]
    BY <1>11, AbsentIsRow DEF PublishRun, TypeOK
  <2> QED
    BY <1>11, <2>2, <2>3, <2>4, <2>5 DEF TypeOK, PublishRun, timeVars
<1>12. ASSUME NEW r \in Run, PublishFails(r) PROVE TypeOK'
  BY <1>12, AbsentIsRow DEF TypeOK, PublishFails, dataVars, timeVars
<1>13. ASSUME NEW r \in Run, UnpublishOfficial(r) PROVE TypeOK'
  BY <1>13, AbsentIsRow, WithStatusIsRow, StatusNames DEF TypeOK, UnpublishOfficial, timeVars
<1>14. ASSUME NEW r \in Run, UnpublishDraft(r) PROVE TypeOK'
  BY <1>14, SetStatusType, StatusNames DEF TypeOK, UnpublishDraft, timeVars
<1>15. CASE SweepCourse
  BY <1>15, KeepType, AbsentIsRow DEF TypeOK, SweepCourse, dataVars, timeVars
<1>16. CASE FinishCommand
  BY <1>16 DEF TypeOK, FinishCommand, dataVars, timeVars
<1>17. CASE ArchiveOfficial
  BY <1>17, SetStatusType, StatusNames DEF TypeOK, ArchiveOfficial, timeVars
<1>18. CASE CommandDies
  BY <1>18, AbsentIsRow DEF TypeOK, CommandDies, dataVars, timeVars
<1>19. CASE UNCHANGED vars
  BY <1>19 DEF TypeOK, vars, dataVars, timeVars, cmdVars
<1> QED
  BY <1>1, <1>2, <1>3, <1>4, <1>5, <1>6, <1>7, <1>8, <1>9, <1>10, <1>11, <1>12, <1>13,
     <1>14, <1>15, <1>16, <1>17, <1>18, <1>19 DEF Next, ApiStep, CommandStep

\* Every reachable state is a state of the tables and of the commands' memory
\* as the models declare them.
THEOREM TypeCorrect == Spec => []TypeOK
<1> QED BY TypeInit, TypeNext, PTL DEF Spec

---------------------------------------------------------------------------
(* What the operators on tables do to one row. *)

LEMMA SetUnpublishedRow ==
  ASSUME NEW rows \in [Run -> Row], NEW rs, NEW r \in Run
  PROVE  /\ SetStatus(rows, rs, Unpublished)[r].status \in PostReview
              => SetStatus(rows, rs, Unpublished)[r] = rows[r]
         /\ r \notin rs => SetStatus(rows, rs, Unpublished)[r] = rows[r]
         /\ r \in rs => SetStatus(rows, rs, Unpublished)[r].status = Unpublished
<1>1. r \in rs => [rows[r] EXCEPT !.status = Unpublished].status = Unpublished
  BY DEF Row
<1> QED
  BY <1>1, StatusNames DEF SetStatus

LEMMA SetPublishedRow ==
  ASSUME NEW rows \in [Run -> Row], NEW rs, NEW r \in Run
  PROVE  /\ r \notin rs => SetStatus(rows, rs, Published)[r] = rows[r]
         /\ r \in rs => SetStatus(rows, rs, Published)[r].status = Published
BY DEF SetStatus, Row

LEMMA KeepRow ==
  ASSUME NEW rows, NEW rs, NEW r \in Run
  PROVE  /\ Keep(rows, rs)[r] \in {rows[r], Absent}
         /\ Keep(rows, rs)[r] # Absent => r \in rs /\ Keep(rows, rs)[r] = rows[r]
BY DEF Keep

LEMMA ExpiredRow ==
  ASSUME NEW rows, NEW r \in Expired(rows)
  PROVE  r \in Run /\ rows[r].status = Published
BY DEF Expired, Inactive, WithStatus

LEMMA PresentRow ==
  ASSUME NEW rows \in [Run -> Row], NEW r \in Run
  PROVE  r \notin Present(rows) => rows[r].status \notin PostReview
BY StatusNames DEF Present

LEMMA NothingRow ==
  ASSUME NEW r \in Run
  PROVE  Nothing[r] = Absent /\ Absent.status \notin PostReview
BY StatusNames DEF Nothing, Absent

LEMMA EditedStatus ==
  ASSUME TypeOK, NEW r \in Run, NEW isDraft \in BOOLEAN, NEW changed \in BOOLEAN
  PROVE  LET row == EditedRow(r, isDraft, changed) IN
           /\ row.status \in PostReview => row.status = draft[r].status
           /\ row.status = Reviewed => ~changed /\ row = draft[r]
           /\ Reverts(r, changed) => row.status \notin PostReview
           /\ draft[r].status \in PostReview /\ row.status \notin PostReview
                => Reverts(r, changed)
           /\ ~Reverts(r, changed) /\ draft[r].status = Reviewed => row = draft[r]
<1>1. draft[r] \in Row
  BY DEF TypeOK
<1>2. EditedRow(r, isDraft, changed).status = StatusAfterEdit(r, isDraft, changed)
  BY DEF EditedRow
<1>3. ~changed /\ StatusAfterEdit(r, isDraft, changed) = draft[r].status
        => EditedRow(r, isDraft, changed) = draft[r]
  BY <1>1 DEF EditedRow, Row
<1>4. Reviewed # Published /\ Unpublished # Reviewed /\ LegalReview # Reviewed
      /\ Unpublished # Published /\ LegalReview # Published
  BY DEF Reviewed, Published, Unpublished, LegalReview
<1> QED
  BY <1>2, <1>3, <1>4 DEF StatusAfterEdit, Reverts, PostReview

\* Studio's data leave the status of all rows alone; rows that read the same do
\* so afterwards, and what waits as Reviewed stays what its approval says.
StudioUpdates == \E r \in Run, dies \in BOOLEAN : LoaderUpdateRun(r, dies)

ContentApproved(q) == approved[q] = [run |-> draft[q].content, course |-> courseDraft]

LEMMA StudioKeeps ==
  ASSUME TypeOK, StudioUpdates
  PROVE  /\ \A q \in Run : /\ draft'[q].status = draft[q].status
                           /\ official'[q].status = official[q].status
                           /\ fault' = "none" /\ official[q] = draft[q] => official'[q] = draft'[q]
                           /\ approved[q] # NeverApproved => approved'[q] # NeverApproved
                           /\ draft[q].status = Reviewed /\ ContentApproved(q) => ContentApproved(q)'
         /\ UNCHANGED <<courseDraft, courseOfficial, timeVars, cmdVars>>
<1>1. PICK r \in Run, dies \in BOOLEAN : LoaderUpdateRun(r, dies)
  BY DEF StudioUpdates
<1>2. draft[r].content + 1 \in Nat /\ draft[r].content + 1 # 0
  BY DEF TypeOK, Row
<1>3. UNCHANGED <<courseDraft, courseOfficial, timeVars, cmdVars>>
  BY <1>1 DEF LoaderUpdateRun
<1>4. \A q \in Run : /\ draft'[q].status = draft[q].status
                     /\ official'[q].status = official[q].status
                     /\ q # r => draft'[q] = draft[q] /\ official'[q] = official[q]
  BY <1>1 DEF LoaderUpdateRun, TypeOK, Row
<1>5. /\ \A q \in Run \ {r} : approved'[q] = approved[q]
      /\ approved'[r] # approved[r] => approved'[r].run = draft[r].content + 1
  BY <1>1 DEF LoaderUpdateRun, TypeOK, Approval
<1>6. \A q \in Run : approved[q] # NeverApproved => approved'[q] # NeverApproved
  BY <1>2, <1>5 DEF NeverApproved
<1>7. ASSUME fault' = "none", official[r] = draft[r] PROVE official'[r] = draft'[r]
  <2>1. ~dies
    BY <1>1, <1>7 DEF LoaderUpdateRun
  <2> QED
    BY <1>1, <1>7, <2>1 DEF LoaderUpdateRun, TypeOK
<1>8. ASSUME draft[r].status = Reviewed, ContentApproved(r) PROVE ContentApproved(r)'
  <2>1. CASE dies
    BY <1>1, <1>3, <1>8, <2>1 DEF LoaderUpdateRun, ContentApproved
  <2>2. CASE ~dies
    <3>1. draft'[r].content = draft[r].content + 1
      BY <1>1, <2>2 DEF LoaderUpdateRun, TypeOK, Row
    <3>2. approved'[r] = [approved[r] EXCEPT !.run = draft[r].content + 1]
      BY <1>1, <1>8, <2>2 DEF LoaderUpdateRun, TypeOK
    <3> QED
      BY <1>3, <1>8, <3>1, <3>2 DEF ContentApproved
  <2> QED
    BY <2>1, <2>2
<1>9. \A q \in Run \ {r} : ContentApproved(q) => ContentApproved(q)'
  BY <1>3, <1>4, <1>5 DEF ContentApproved
<1> QED
  BY <1>3, <1>4, <1>6, <1>7, <1>8, <1>9

---------------------------------------------------------------------------
(* Every row that says Reviewed or Published, in the tables or in the      *)
(* memory of a command, belongs to a run that was approved.                *)

ApprovedRows(rows) ==
  \A r \in Run : rows[r].status \in PostReview => approved[r] # NeverApproved

ReviewInv ==
  /\ courseDraft # 0
  /\ ApprovedRows(draft)
  /\ ApprovedRows(official)
  /\ ApprovedRows(todo)
  /\ ApprovedRows(sweep)
  /\ \A r \in Run : todo[r] # Absent => todo[r].status \in PostReview

LEMMA ReviewInit == Init => ReviewInv
BY NothingRow DEF Init, ReviewInv, ApprovedRows

LEMMA ReviewNext == TypeOK /\ ReviewInv /\ [Next]_vars => ReviewInv'
<1> SUFFICES ASSUME TypeOK, ReviewInv, [Next]_vars PROVE ReviewInv'
  OBVIOUS
<1> USE DEF ReviewInv, ApprovedRows
<1>1. ASSUME NEW r \in Run, CreateRun(r) PROVE ReviewInv'
  BY <1>1, StatusNames DEF TypeOK, CreateRun, cmdVars, NewRow
<1>2. ASSUME NEW r \in Run, SendToInternalReview(r) PROVE ReviewInv'
  <2>1. \A q \in Run : q # r => draft'[q] = draft[q]
    BY <1>2 DEF SendToInternalReview, TypeOK
  <2>2. draft'[r].status = InternalReview
    BY <1>2 DEF SendToInternalReview, TypeOK, Row
  <2> QED
    BY <1>2, <2>1, <2>2, StatusNames DEF SendToInternalReview, cmdVars
<1>3. ASSUME NEW r \in Run, Approve(r) PROVE ReviewInv'
  <2> DEFINE s == IF r \in due THEN Published ELSE Reviewed
             row == [draft[r] EXCEPT !.status = s]
             offs == [official EXCEPT ![r] = row]
             drafts == [draft EXCEPT ![r] = row]
             gone == IF r \in due THEN Expired(offs) ELSE {}
  <2>1. row \in Row
    BY WithStatusIsRow, StatusNames DEF TypeOK
  <2>2. offs \in [Run -> Row] /\ drafts \in [Run -> Row]
    BY <2>1 DEF TypeOK
  <2>3. approved'[r] # NeverApproved /\ \A q \in Run \ {r} : approved'[q] = approved[q]
    BY <1>3 DEF Approve, TypeOK, NeverApproved
  <2>4. \A q \in Run : official'[q].status \in PostReview => official'[q] = offs[q]
    BY <1>3, <2>2, SetUnpublishedRow DEF Approve
  <2>5. \A q \in Run : draft'[q].status \in PostReview => draft'[q] = drafts[q]
    BY <1>3, <2>2, SetUnpublishedRow DEF Approve
  <2>6. \A q \in Run \ {r} : offs[q] = official[q] /\ drafts[q] = draft[q]
    BY DEF TypeOK
  <2>7. courseDraft' # 0 /\ todo' = todo /\ sweep' = sweep
    BY <1>3 DEF Approve, cmdVars
  <2> QED
    BY <2>3, <2>4, <2>5, <2>6, <2>7
<1>4. ASSUME NEW r \in Run, NEW isDraft \in BOOLEAN, NEW changed \in BOOLEAN,
             RunEdit(r, isDraft, changed)
      PROVE  ReviewInv'
  <2> DEFINE row == EditedRow(r, isDraft, changed)
  <2>1. row.status \in PostReview => draft[r].status \in PostReview
    BY EditedStatus
  <2>2. \A q \in Run : draft'[q] = IF q = r THEN row ELSE draft[q]
    BY <1>4 DEF RunEdit, TypeOK
  <2>3. \A q \in Run : official'[q].status \in PostReview
                         => official'[q] = official[q] \/ (q = r /\ official'[q] = row)
    <3>1. CASE PromotesRun(row, isDraft)
      BY <1>4, <3>1 DEF RunEdit, TypeOK
    <3>2. CASE ~PromotesRun(row, isDraft)
      <4>1. official' \in {official, SetStatus(official, {r}, Unpublished)}
        BY <1>4, <3>2 DEF RunEdit, RevertOfficial
      <4> QED
        BY <4>1, SetUnpublishedRow DEF TypeOK
    <3> QED
      BY <3>1, <3>2
  <2>4. approved' = approved /\ courseDraft' = courseDraft /\ todo' = todo /\ sweep' = sweep
    BY <1>4 DEF RunEdit, cmdVars
  <2> QED
    BY <2>1, <2>2, <2>3, <2>4
<1>5. ASSUME NEW isDraft \in BOOLEAN, NEW changed \in BOOLEAN, CourseEdit(isDraft, changed)
      PROVE  ReviewInv'
  <2> DEFINE mid == [r \in Run |-> IF r \in RepublishedBy(isDraft) THEN draft[r] ELSE official[r]]
  <2>1. \A r \in Run : draft'[r].status \in PostReview => draft'[r] = draft[r]
    BY <1>5, SetUnpublishedRow DEF CourseEdit, TypeOK
  <2>2. mid \in [Run -> Row]
    BY DEF TypeOK
  <2>3. \A r \in Run : official'[r].status \in PostReview => official'[r] = mid[r]
    BY <1>5, <2>2, SetUnpublishedRow DEF CourseEdit, RevertOfficial
  <2>4. courseDraft' # 0 /\ approved' = approved /\ todo' = todo /\ sweep' = sweep
    BY <1>5 DEF CourseEdit, TypeOK, cmdVars
  <2> QED
    BY <2>1, <2>3, <2>4
<1>6. CASE LoaderStep
  <2>1. ASSUME NEW r \in Run, LoaderCreateRun(r) PROVE ReviewInv'
    BY <2>1, StatusNames DEF TypeOK, LoaderCreateRun, cmdVars, NewRow
  <2>2. ASSUME StudioUpdates PROVE ReviewInv'
    BY <2>2, StudioKeeps DEF cmdVars
  <2> QED
    BY <1>6, <2>1, <2>2 DEF LoaderStep, StudioUpdates
<1>7. CASE TimeStep
  BY <1>7 DEF TimeStep, GoLiveDatePasses, EnrollmentCloses, dataVars, cmdVars
<1>8. CASE StartPublish
  BY <1>8, KeepRow, NothingRow DEF StartPublish, dataVars, DueRuns, WithStatus, PostReview
<1>9. CASE StartUnpublish
  BY <1>9, KeepRow, NothingRow DEF StartUnpublish, dataVars, WithStatus, PostReview
<1>10. CASE ArchiveDraft
  BY <1>10, SetUnpublishedRow DEF ArchiveDraft, TypeOK
<1>11. ASSUME NEW r \in Run, PublishRun(r) PROVE ReviewInv'
  <2>1. approved[r] # NeverApproved
    BY <1>11 DEF PublishRun
  <2>2. ApprovedRows(official)' /\ courseDraft' # 0
    BY <1>11, <2>1 DEF PublishRun, TypeOK
  <2>3. ApprovedRows(draft)'
    BY <1>11, <2>1, SetPublishedRow DEF PublishRun, TypeOK, WithDraft
  <2>4. \A q \in Run : todo'[q] \in {todo[q], Absent} /\ approved'[q] = approved[q]
    BY <1>11 DEF PublishRun, TypeOK
  <2>5. \A q \in Run : sweep'[q] \in {official'[q], Absent}
    BY <1>11, KeepRow DEF PublishRun
  <2> QED
    BY <2>2, <2>3, <2>4, <2>5, NothingRow
<1>12. ASSUME NEW r \in Run, PublishFails(r) PROVE ReviewInv'
  BY <1>12, NothingRow DEF PublishFails, TypeOK, dataVars
<1>13. ASSUME NEW r \in Run, UnpublishOfficial(r) PROVE ReviewInv'
  BY <1>13, NothingRow, StatusNames DEF UnpublishOfficial, TypeOK, Row
<1>14. ASSUME NEW r \in Run, UnpublishDraft(r) PROVE ReviewInv'
  BY <1>14, SetUnpublishedRow DEF UnpublishDraft, TypeOK
<1>15. CASE SweepCourse
  BY <1>15, KeepRow, NothingRow DEF SweepCourse, dataVars
<1>16. CASE FinishCommand
  BY <1>16 DEF FinishCommand, dataVars
<1>17. CASE ArchiveOfficial
  BY <1>17, SetUnpublishedRow DEF ArchiveOfficial, TypeOK
<1>18. CASE CommandDies
  BY <1>18, NothingRow DEF CommandDies, dataVars
<1>19. CASE UNCHANGED vars
  BY <1>19 DEF vars, dataVars, cmdVars
<1> QED
  BY <1>1, <1>2, <1>3, <1>4, <1>5, <1>6, <1>7, <1>8, <1>9, <1>10, <1>11, <1>12, <1>13,
     <1>14, <1>15, <1>16, <1>17, <1>18, <1>19 DEF Next, ApiStep, CommandStep

\* Whatever commands, requests and crashes interleave, no run is ever shown as
\* reviewed or published that no reviewer has approved.
THEOREM EverPublishedWasReviewedThm == Spec => []EverPublishedWasReviewed
<1>1. ReviewInv => EverPublishedWasReviewed
  BY DEF ReviewInv, ApprovedRows, EverPublishedWasReviewed
<1> QED
  BY <1>1, TypeCorrect, ReviewInit, ReviewNext, PTL DEF Spec

---------------------------------------------------------------------------
(* What waits as Reviewed is what was approved: inductive as it stands.    *)

LEMMA ApprovedContentNext ==
  TypeOK /\ ReviewedContentIsApproved /\ [Next]_vars => ReviewedContentIsApproved'
<1> SUFFICES ASSUME TypeOK, ReviewedContentIsApproved, [Next]_vars,
                    NEW q \in Run, draft'[q].status = Reviewed
             PROVE  approved'[q] = [run |-> draft'[q].content, course |-> courseDraft']
  BY DEF ReviewedContentIsApproved
<1> USE DEF ReviewedContentIsApproved
<1>a. Reviewed \in PostReview /\ Reviewed \notin {Unpublished, Published, InternalReview}
  BY DEF PostReview, Reviewed, Unpublished, Published, InternalReview
\* It is enough that the draft row, the draft course and the approval stay.
<1>b. ASSUME draft'[q] = draft[q], courseDraft' = courseDraft, approved'[q] = approved[q]
      PROVE  approved'[q] = [run |-> draft'[q].content, course |-> courseDraft']
  BY <1>b
<1>1. ASSUME NEW r \in Run, CreateRun(r)
      PROVE  draft'[q] = draft[q] /\ courseDraft' = courseDraft /\ approved'[q] = approved[q]
  BY <1>1, <1>a DEF TypeOK, CreateRun, NewRow
<1>2. ASSUME NEW r \in Run, SendToInternalReview(r)
      PROVE  draft'[q] = draft[q] /\ courseDraft' = courseDraft /\ approved'[q] = approved[q]
  BY <1>2, <1>a DEF TypeOK, SendToInternalReview, Row
<1>3. ASSUME NEW r \in Run, Approve(r)
      PROVE  approved'[q] = [run |-> draft'[q].content, course |-> courseDraft']
  <2> DEFINE s == IF r \in due THEN Published ELSE Reviewed
             row == [draft[r] EXCEPT !.status = s]
             drafts == [draft EXCEPT ![r] = row]
             gone == IF r \in due THEN Expired([official EXCEPT ![r] = row]) ELSE {}
  <2>1. drafts \in [Run -> Row] /\ row.content = draft[r].content
    BY WithStatusIsRow, StatusNames DEF TypeOK, Row
  <2>2. draft'[q] = drafts[q]
    <3>1. draft' = SetStatus(drafts, WithDraft(gone), Unpublished)
      BY <1>3 DEF Approve
    <3> HIDE DEF drafts, gone
    <3>2. SetStatus(drafts, WithDraft(gone), Unpublished)[q].status \in PostReview
            => SetStatus(drafts, WithDraft(gone), Unpublished)[q] = drafts[q]
      BY <2>1, SetUnpublishedRow
    <3> QED
      BY <1>a, <3>1, <3>2
  <2>3. CASE q = r
    BY <1>3, <2>1, <2>2, <2>3 DEF Approve, TypeOK
  <2>4. CASE q # r
    BY <1>3, <1>b, <2>2, <2>4 DEF Approve, TypeOK
  <2> QED
    BY <2>3, <2>4
<1>4. ASSUME NEW r \in Run, NEW isDraft \in BOOLEAN, NEW changed \in BOOLEAN,
             RunEdit(r, isDraft, changed)
      PROVE  draft'[q] = draft[q] /\ courseDraft' = courseDraft /\ approved'[q] = approved[q]
  BY <1>4, EditedStatus DEF RunEdit, TypeOK
<1>5. ASSUME NEW isDraft \in BOOLEAN, NEW changed \in BOOLEAN, CourseEdit(isDraft, changed)
      PROVE  draft'[q] = draft[q] /\ courseDraft' = courseDraft /\ approved'[q] = approved[q]
  <2>1. draft'[q] = draft[q]
    BY <1>5, <1>a, SetUnpublishedRow DEF CourseEdit, TypeOK
  <2>2. q \notin RevertedBy(changed)
    <3>1. draft' = SetStatus(draft, RevertedBy(changed), Unpublished)
      BY <1>5 DEF CourseEdit
    <3>2. q \in RevertedBy(changed) => draft'[q].status = Unpublished
      BY <3>1, SetUnpublishedRow DEF TypeOK
    <3> QED
      BY <1>a, <3>2
  <2>3. ~changed
    <3>1. draft[q].status = Reviewed
      BY <2>1
    <3>2. CASE changed
      BY <2>2, <3>1, <3>2 DEF RevertedBy, WithStatus
    <3> QED
      BY <3>2
  <2> QED
    BY <1>5, <2>1, <2>3 DEF CourseEdit
<1>6. ASSUME NEW r \in Run, LoaderCreateRun(r)
      PROVE  draft'[q] = draft[q] /\ courseDraft' = courseDraft /\ approved'[q] = approved[q]
  BY <1>6, <1>a DEF TypeOK, LoaderCreateRun, NewRow
<1>15. ASSUME StudioUpdates
       PROVE  approved'[q] = [run |-> draft'[q].content, course |-> courseDraft']
  <2>1. draft[q].status = Reviewed /\ ContentApproved(q)
    BY <1>15, StudioKeeps DEF ContentApproved
  <2> QED
    BY <1>15, <2>1, StudioKeeps DEF ContentApproved
<1>7. CASE TimeStep
  BY <1>7, <1>b DEF TimeStep, GoLiveDatePasses, EnrollmentCloses, dataVars
<1>8. CASE StartPublish \/ StartUnpublish \/ SweepCourse \/ FinishCommand \/ CommandDies
  BY <1>8, <1>b DEF StartPublish, StartUnpublish, SweepCourse, FinishCommand, CommandDies, dataVars
<1>9. CASE ArchiveDraft
  BY <1>9, <1>a, <1>b, SetUnpublishedRow DEF ArchiveDraft, TypeOK
<1>10. ASSUME NEW r \in Run, PublishRun(r)
       PROVE  draft'[q] = draft[q] /\ courseDraft' = courseDraft /\ approved'[q] = approved[q]
  BY <1>10, <1>a, SetPublishedRow DEF PublishRun, TypeOK
<1>11. ASSUME NEW r \in Run, PublishFails(r) \/ UnpublishOfficial(r)
       PROVE  draft'[q] = draft[q] /\ courseDraft' = courseDraft /\ approved'[q] = approved[q]
  BY <1>11 DEF PublishFails, UnpublishOfficial, dataVars
<1>12. ASSUME NEW r \in Run, UnpublishDraft(r)
       PROVE  draft'[q] = draft[q] /\ courseDraft' = courseDraft /\ approved'[q] = approved[q]
  BY <1>12, <1>a, SetUnpublishedRow DEF UnpublishDraft, TypeOK
<1>13. CASE ArchiveOfficial
  BY <1>13, <1>b DEF ArchiveOfficial
<1>14. CASE UNCHANGED vars
  BY <1>14, <1>b DEF vars, dataVars
<1> QED
  BY <1>b, <1>1, <1>2, <1>3, <1>4, <1>5, <1>6, <1>7, <1>8, <1>9, <1>10, <1>11, <1>12, <1>13,
     <1>14, <1>15 DEF Next, ApiStep, LoaderStep, StudioUpdates, CommandStep

\* Under every interleaving and every crash, a run that waits for its go-live
\* date holds exactly the course content its reviewer approved, and the run
\* content the reviewer approved with nothing on top but what Studio wrote.
THEOREM ReviewedContentIsApprovedThm == Spec => []ReviewedContentIsApproved
<1>1. Init => ReviewedContentIsApproved
  BY DEF Init, ReviewedContentIsApproved, Nothing, Absent, Reviewed
<1> QED
  BY <1>1, TypeCorrect, ApprovedContentNext, PTL DEF Spec

---------------------------------------------------------------------------
(* When commands run alone, the two rows of a run agree.  The invariant    *)
(* says besides what the memory of a command holds: rows that are still    *)
(* what the table holds, because nobody else writes.                       *)

TablesAgree ==
  /\ \A r \in Run : cmd # "archive" /\ official[r].status \in PostReview
                      => draft[r].status = official[r].status
  /\ \A r \in Run : draft[r].status = Reviewed =>
       /\ official[r].status = Reviewed
       /\ fault = "none" => official[r] = draft[r]
  /\ fault = "none" => \A r \in Run \ half : draft[r].status \in PostReview
                                                 => official[r].status = draft[r].status
  /\ \A r \in Run : cmd = "archive" => draft[r].status \notin PostReview
  /\ \A r \in Run : official[r].status \in PostReview => courseOfficial # 0

MemoryIsFresh ==
  /\ \A r \in Run : todo[r] # Absent => /\ todo[r] = official[r]
                                        /\ todo[r].status \in PostReview
                                        /\ cmd = "publish" => todo[r].status = Reviewed
                                        /\ cmd \in {"publish", "unpublish"}
                                        /\ sweep[r] = Absent
  /\ \A r \in Run : sweep[r] # Absent => /\ sweep[r] = official[r]
                                         /\ sweep[r].status = Published
                                         /\ cmd \in {"publish", "unpublish"}
  /\ \A r \in half : /\ official[r].status = Unpublished
                     /\ draft[r].status = Published
                     /\ cmd \in {"publish", "unpublish"}
  /\ \A q, r \in half : q = r

AgreeInv == TablesAgree /\ MemoryIsFresh

LEMMA AgreeInit == Init => AgreeInv
BY NothingRow, StatusNames
   DEF Init, AgreeInv, TablesAgree, MemoryIsFresh, PostReview

\* A request finds no command in progress, so it has only the tables to keep.
LEMMA IdleMemory ==
  ASSUME TypeOK, AgreeInv, cmd = "idle"
  PROVE  half = {} /\ \A r \in Run : todo[r] = Absent /\ sweep[r] = Absent
BY DEF TypeOK, AgreeInv, MemoryIsFresh

LEMMA IdleKeepsMemory ==
  ASSUME TypeOK, AgreeInv, cmd = "idle", UNCHANGED cmdVars
  PROVE  MemoryIsFresh'
BY IdleMemory DEF MemoryIsFresh, cmdVars

LEMMA RequestKeepsAgreement ==
  ASSUME TypeOK, ReviewInv, AgreeInv, fault' # "torn", ApiStep \/ LoaderStep
  PROVE  AgreeInv'
<1>1. cmd = "idle" /\ UNCHANGED <<cmd, todo, sweep, half>> /\ (fault' = "none" => fault = "none")
  BY DEF ApiStep, LoaderStep, CreateRun, SendToInternalReview, Approve, RunEdit, CourseEdit,
         LoaderCreateRun, LoaderUpdateRun, Alongside, cmdVars
<1>2. MemoryIsFresh' /\ half = {} /\ half' = {} /\ cmd' = "idle"
  BY <1>1, IdleMemory, IdleKeepsMemory DEF cmdVars
<1>3. \A r \in Run : official[r].status \in PostReview => draft[r].status = official[r].status
  BY <1>1 DEF AgreeInv, TablesAgree
<1>a. /\ Unpublished \notin PostReview /\ InternalReview \notin PostReview
      /\ "absent" \notin PostReview /\ Reviewed \in PostReview /\ Published \in PostReview
      /\ InReview \cap PostReview = {} /\ Reviewed # Published
  BY DEF PostReview, InReview, Unpublished, InternalReview, LegalReview, Reviewed, Published
<1> DEFINE Kept(q) ==
      /\ official'[q].status \in PostReview =>
           draft'[q].status = official'[q].status /\ courseOfficial' # 0
      /\ draft'[q].status = Reviewed =>
           /\ official'[q].status = Reviewed
           /\ fault' = "none" => official'[q] = draft'[q]
      /\ fault' = "none" /\ draft'[q].status \in PostReview
           => official'[q].status = draft'[q].status
<1>4. SUFFICES ASSUME NEW q \in Run PROVE Kept(q)
  BY <1>1, <1>2 DEF AgreeInv, TablesAgree
\* A row that stays as it is keeps agreeing.
<1>b. draft'[q] = draft[q] /\ official'[q] = official[q] /\ courseOfficial' = courseOfficial
        => Kept(q)
  BY <1>1, <1>2, <1>3 DEF AgreeInv, TablesAgree
<1>5. ASSUME NEW r \in Run, CreateRun(r) PROVE Kept(q)
  <2>1. CASE q = r
    <3>1. official[q].status \notin PostReview
      BY <1>3, <1>5, <1>a, <2>1 DEF CreateRun, Absent
    <3>2. draft'[q].status = Unpublished
      BY <1>5, <2>1 DEF CreateRun, TypeOK, NewRow
    <3> QED
      BY <1>5, <1>a, <3>1, <3>2 DEF CreateRun
  <2>2. CASE q # r
    BY <1>5, <1>b, <2>2 DEF CreateRun, TypeOK
  <2> QED
    BY <2>1, <2>2
<1>6. ASSUME NEW r \in Run, SendToInternalReview(r) PROVE Kept(q)
  <2>1. CASE q = r
    <3>1. official[q].status \notin PostReview
      BY <1>3, <1>6, <1>a, <2>1 DEF SendToInternalReview
    <3>2. draft'[q].status = InternalReview
      BY <1>6, <2>1 DEF SendToInternalReview, TypeOK, Row
    <3> QED
      BY <1>6, <1>a, <3>1, <3>2 DEF SendToInternalReview
  <2>2. CASE q # r
    BY <1>6, <1>b, <2>2 DEF SendToInternalReview, TypeOK
  <2> QED
    BY <2>1, <2>2
<1>7. ASSUME NEW r \in Run, Approve(r) PROVE Kept(q)
  <2> DEFINE s == IF r \in due THEN Published ELSE Reviewed
             row == [draft[r] EXCEPT !.status = s]
             offs == [official EXCEPT ![r] = row]
             drafts == [draft EXCEPT ![r] = row]
             gone == IF r \in due THEN Expired(offs) ELSE {}
  <2>1. row \in Row /\ offs \in [Run -> Row] /\ drafts \in [Run -> Row]
    BY WithStatusIsRow, StatusNames DEF TypeOK
  <2>2. offs[q] = (IF q = r THEN row ELSE official[q]) /\ drafts[q] = (IF q = r THEN row ELSE draft[q])
    BY DEF TypeOK
  <2>3. q \in gone => offs[q].status = Published
    BY DEF Expired, Inactive, WithStatus
  <2>4. q \in gone => q \in WithDraft(gone)
    BY <1>3, <1>7, <1>a, <2>2, <2>3, StatusNames DEF Approve, WithDraft, Present, InReview, Status
  <2>5. q \in WithDraft(gone) => q \in gone
    BY DEF WithDraft
  <2>6. draft' = SetStatus(drafts, WithDraft(gone), Unpublished)
        /\ official' = SetStatus(offs, gone, Unpublished)
        /\ courseOfficial' # 0
    BY <1>7 DEF Approve, ReviewInv
  <2>7. CASE q \in gone
    <3> HIDE DEF drafts, offs, gone
    <3> QED
      BY <1>a, <2>1, <2>4, <2>6, <2>7, SetUnpublishedRow
  <2>8. CASE q \notin gone
    <3>1. draft'[q] = drafts[q] /\ official'[q] = offs[q]
      <4> HIDE DEF drafts, offs, gone
      <4> QED
        BY <2>1, <2>5, <2>6, <2>8, SetUnpublishedRow
    <3> QED
      BY <1>1, <1>2, <1>3, <2>2, <2>6, <3>1 DEF AgreeInv, TablesAgree
  <2> QED
    BY <2>7, <2>8
<1>8. ASSUME NEW r \in Run, NEW isDraft \in BOOLEAN, NEW changed \in BOOLEAN,
             RunEdit(r, isDraft, changed)
      PROVE  Kept(q)
  <2> DEFINE row == EditedRow(r, isDraft, changed)
  <2>1. draft'[q] = IF q = r THEN row ELSE draft[q]
    BY <1>8 DEF RunEdit, TypeOK
  <2>2. CASE PromotesRun(row, isDraft)
    <3>1. official'[q] = IF q = r THEN row ELSE official[q]
      BY <1>8, <2>2 DEF RunEdit, TypeOK
    <3>2. courseOfficial' # 0
      BY <1>8, <1>a, <2>2 DEF RunEdit, ReviewInv
    <3> QED
      BY <1>1, <1>2, <1>3, <2>1, <3>1, <3>2 DEF AgreeInv, TablesAgree
  <2>3. CASE ~PromotesRun(row, isDraft)
    <3>1. courseOfficial' = courseOfficial
      BY <1>8, <2>3 DEF RunEdit
    <3>2. official' = IF Reverts(r, changed)
                      THEN SetStatus(official, {r}, Unpublished) ELSE official
      BY <1>8, <2>3 DEF RunEdit, RevertOfficial
    <3>3. CASE q # r
      <4>1. official'[q] = official[q]
        BY <3>2, <3>3, SetUnpublishedRow DEF TypeOK
      <4> QED
        BY <1>b, <2>1, <3>1, <3>3, <4>1
    <3>4. CASE q = r /\ Reverts(r, changed)
      <4>1. official'[q].status = Unpublished
        BY <3>2, <3>4, SetUnpublishedRow DEF TypeOK
      <4>2. draft'[q].status \notin PostReview
        BY <2>1, <3>4, EditedStatus
      <4> QED
        BY <1>a, <4>1, <4>2
    <3>5. CASE q = r /\ ~Reverts(r, changed)
      <4>1. row.status # Reviewed
        BY <2>3 DEF PromotesRun
      <4>2. official[r].status \in PostReview => row.status = draft[r].status
        BY <1>3, <3>5, EditedStatus
      <4>3. row.status \in PostReview => row.status = draft[r].status
        BY EditedStatus
      <4>4. official'[q] = official[q]
        BY <3>2, <3>5
      <4> HIDE DEF row
      <4> QED
        BY <1>1, <1>2, <1>3, <2>1, <3>1, <3>5, <4>1, <4>2, <4>3, <4>4 DEF AgreeInv, TablesAgree
    <3> QED
      BY <3>3, <3>4, <3>5
  <2> QED
    BY <2>2, <2>3
<1>9. ASSUME NEW isDraft \in BOOLEAN, NEW changed \in BOOLEAN, CourseEdit(isDraft, changed)
      PROVE  Kept(q)
  <2> DEFINE mid == [r \in Run |-> IF r \in RepublishedBy(isDraft) THEN draft[r] ELSE official[r]]
  <2>1. mid \in [Run -> Row]
    BY DEF TypeOK
  <2>2. draft' = SetStatus(draft, RevertedBy(changed), Unpublished)
        /\ official' = SetStatus(mid, RevertedBy(changed), Unpublished)
    BY <1>9 DEF CourseEdit, RevertOfficial
  <2>3. CASE q \in RevertedBy(changed)
    <3> HIDE DEF mid
    <3> QED
      BY <1>a, <2>1, <2>2, <2>3, SetUnpublishedRow DEF TypeOK
  <2>4. CASE q \notin RevertedBy(changed)
    <3>1. draft'[q] = draft[q] /\ official'[q] = mid[q]
      <4> HIDE DEF mid
      <4> QED
        BY <2>1, <2>2, <2>4, SetUnpublishedRow DEF TypeOK
    <3>2. courseOfficial # 0 \/ q \in RepublishedBy(isDraft) => courseOfficial' # 0
      BY <1>9 DEF CourseEdit, ReviewInv, TypeOK
    <3>3. q \in RepublishedBy(isDraft) => draft[q].status = Published
      BY DEF RepublishedBy, WithStatus
    <3>4. CASE q \in RepublishedBy(isDraft)
      BY <1>a, <3>1, <3>2, <3>3, <3>4
    <3>5. CASE q \notin RepublishedBy(isDraft)
      BY <1>1, <1>2, <1>3, <3>1, <3>2, <3>5 DEF AgreeInv, TablesAgree
    <3> QED
      BY <3>4, <3>5
  <2> QED
    BY <2>3, <2>4
<1>10. ASSUME NEW r \in Run, LoaderCreateRun(r) PROVE Kept(q)
  <2>1. courseOfficial' # 0
    BY <1>10 DEF LoaderCreateRun, ReviewInv
  <2>2. CASE q = r
    BY <1>10, <1>a, <2>2 DEF LoaderCreateRun, TypeOK, NewRow
  <2>3. CASE q # r
    <3>1. draft'[q] = draft[q] /\ official'[q] = official[q]
      BY <1>10, <2>3 DEF LoaderCreateRun, TypeOK
    <3> QED
      BY <1>1, <1>2, <1>3, <2>1, <3>1 DEF AgreeInv, TablesAgree
  <2> QED
    BY <2>2, <2>3
<1>11. ASSUME StudioUpdates PROVE Kept(q)
  <2>1. /\ draft'[q].status = draft[q].status
        /\ official'[q].status = official[q].status
        /\ courseOfficial' = courseOfficial
        /\ fault' = "none" /\ official[q] = draft[q] => official'[q] = draft'[q]
    BY <1>11, StudioKeeps
  <2> QED
    BY <1>1, <1>2, <1>3, <2>1 DEF AgreeInv, TablesAgree
<1> QED
  BY <1>5, <1>6, <1>7, <1>8, <1>9, <1>10, <1>11 DEF ApiStep, LoaderStep, StudioUpdates

LEMMA CommandKeepsAgreement ==
  ASSUME TypeOK, ReviewInv, AgreeInv, fault' # "torn",
         StartPublish \/ StartUnpublish \/ ArchiveDraft \/ CommandStep \/ CommandDies
  PROVE  AgreeInv'
<1>a. /\ Unpublished \notin PostReview /\ "absent" \notin PostReview
      /\ Reviewed \in PostReview /\ Published \in PostReview /\ Reviewed # Published
      /\ Unpublished # Published /\ Unpublished # Reviewed
  BY DEF PostReview, Unpublished, Reviewed, Published
<1>b. \A rows, s : \A r \in WithStatus(rows, s) : r \in Run /\ rows[r].status = s
  BY DEF WithStatus
<1> USE DEF AgreeInv
<1>1. CASE StartPublish
  <2>1. TablesAgree'
    BY <1>1 DEF StartPublish, dataVars, TablesAgree
  <2>2. MemoryIsFresh'
    BY <1>1, <1>a, <1>b, IdleMemory, KeepRow DEF StartPublish, DueRuns, dataVars, MemoryIsFresh
  <2> QED
    BY <2>1, <2>2
<1>2. CASE StartUnpublish
  <2>1. TablesAgree'
    BY <1>2 DEF StartUnpublish, dataVars, TablesAgree
  <2>2. MemoryIsFresh'
    BY <1>2, <1>a, <1>b, IdleMemory, KeepRow DEF StartUnpublish, dataVars, MemoryIsFresh
  <2> QED
    BY <2>1, <2>2
<1>3. CASE ArchiveDraft
  <2>1. MemoryIsFresh'
    BY <1>3, IdleMemory DEF ArchiveDraft, MemoryIsFresh
  <2>2. \A r \in Run : draft'[r].status \notin PostReview
    <3>1. draft' = SetStatus(draft, Present(draft), Unpublished)
      BY <1>3 DEF ArchiveDraft
    <3> QED
      BY <1>a, <3>1, SetUnpublishedRow, PresentRow DEF TypeOK
  <2>3. courseOfficial = 0 => \A r \in Run : official[r].status \notin PostReview
    BY DEF TablesAgree
  <2> QED
    BY <1>3, <1>a, <2>1, <2>2, <2>3 DEF ArchiveDraft, TablesAgree
<1>4. ASSUME NEW r \in Run, PublishRun(r) PROVE AgreeInv'
  <2>1. /\ todo[r] = official[r] /\ official[r].status = Reviewed
        /\ draft[r].status = Reviewed /\ cmd # "archive" /\ courseOfficial # 0
    BY <1>4, <1>a DEF PublishRun, MemoryIsFresh, TablesAgree
  <2>2. r \in WithDraft({r})
    BY <2>1, <1>a DEF WithDraft, Present
  <2>3. /\ draft'[r].status = Published
        /\ \A q \in Run \ {r} : draft'[q] = draft[q]
    BY <1>4, <2>2, SetPublishedRow DEF PublishRun, TypeOK, WithDraft
  <2>4. /\ official'[r].status = Published
        /\ \A q \in Run \ {r} : official'[q] = official[q]
    BY <1>4 DEF PublishRun, TypeOK, Row
  <2>5. half = {} /\ UNCHANGED <<half, cmd, courseOfficial, fault>> /\ cmd = "publish"
    BY <1>4 DEF PublishRun
  <2>6. TablesAgree'
    BY <1>a, <2>1, <2>3, <2>4, <2>5 DEF TablesAgree
  <2>7. \A q \in Run : todo'[q] # Absent => q # r /\ todo'[q] = todo[q]
    BY <1>4 DEF PublishRun, TypeOK
  <2>8. \A q \in Run : sweep'[q] # Absent => /\ sweep'[q] = official'[q]
                                             /\ official'[q].status = Published
    <3> DEFINE offs == [official EXCEPT ![r] = [todo[r] EXCEPT !.status = Published]]
    <3>1. official' = offs /\ sweep' = Keep(offs, Expired(offs))
      BY <1>4 DEF PublishRun
    <3> HIDE DEF offs
    <3> QED
      BY <3>1, KeepRow, ExpiredRow
  <2>9. \A q \in Run : todo'[q] # Absent => sweep'[q] = Absent
    BY <1>a, <2>4, <2>5, <2>7, <2>8 DEF MemoryIsFresh
  <2>10. MemoryIsFresh'
    BY <2>4, <2>5, <2>7, <2>8, <2>9 DEF MemoryIsFresh
  <2> QED
    BY <2>6, <2>10
<1>5. ASSUME NEW r \in Run, PublishFails(r) PROVE AgreeInv'
  <2>1. \A q \in Run : todo'[q] # Absent => todo'[q] = todo[q]
    BY <1>5 DEF PublishFails, TypeOK
  <2> QED
    BY <1>5, <2>1 DEF PublishFails, dataVars, TablesAgree, MemoryIsFresh
<1>6. ASSUME NEW r \in Run, UnpublishOfficial(r) PROVE AgreeInv'
  <2>1. sweep[r] = official[r] /\ official[r].status = Published
        /\ cmd \in {"publish", "unpublish"} /\ todo[r] = Absent
    BY <1>6 DEF UnpublishOfficial, MemoryIsFresh
  <2>2. draft[r].status = Published
    BY <1>a, <2>1 DEF TablesAgree
  <2>3. /\ official'[r].status = Unpublished
        /\ \A q \in Run \ {r} : official'[q] = official[q] /\ sweep'[q] = sweep[q]
        /\ sweep'[r] = Absent
    BY <1>6 DEF UnpublishOfficial, TypeOK, Row
  <2>4. half = {} /\ half' = {r} /\ UNCHANGED <<draft, courseOfficial, cmd, todo, fault>>
    BY <1>6 DEF UnpublishOfficial
  <2>5. TablesAgree'
    BY <1>a, <2>1, <2>2, <2>3, <2>4 DEF TablesAgree
  <2>6. MemoryIsFresh'
    BY <2>1, <2>2, <2>3, <2>4 DEF MemoryIsFresh
  <2> QED
    BY <2>5, <2>6
<1>7. ASSUME NEW r \in Run, UnpublishDraft(r) PROVE AgreeInv'
  <2>1. half = {r} /\ half' = {} /\ official[r].status = Unpublished
        /\ cmd \in {"publish", "unpublish"} /\ draft[r].status = Published
    BY <1>7 DEF UnpublishDraft, MemoryIsFresh
  <2>2. r \in WithDraft({r})
    BY <1>a, <2>1 DEF WithDraft, Present
  <2>3. draft'[r].status = Unpublished /\ \A q \in Run \ {r} : draft'[q] = draft[q]
    BY <1>7, <2>2, SetUnpublishedRow DEF UnpublishDraft, TypeOK, WithDraft
  <2>4. UNCHANGED <<official, courseOfficial, cmd, todo, sweep, fault>>
    BY <1>7 DEF UnpublishDraft
  <2>5. TablesAgree'
    BY <1>a, <2>1, <2>3, <2>4 DEF TablesAgree
  <2>6. MemoryIsFresh'
    BY <2>1, <2>4 DEF MemoryIsFresh
  <2> QED
    BY <2>5, <2>6
<1>8. CASE SweepCourse
  <2>1. TablesAgree'
    BY <1>8 DEF SweepCourse, dataVars, TablesAgree
  <2>2. \A q \in Run : sweep'[q] # Absent => /\ sweep'[q] = official[q]
                                             /\ official[q].status = Published
    <3>1. \A q \in Run : sweep'[q] # Absent => sweep'[q] = todo[q] /\ todo[q].status = Published
      BY <1>8, <1>b, KeepRow DEF SweepCourse, Expired, Inactive
    <3> QED
      BY <3>1 DEF MemoryIsFresh
  <2>3. \A q \in Run : todo'[q] = Absent
    BY <1>8, NothingRow DEF SweepCourse
  <2>4. UNCHANGED <<official, draft, half, cmd>> /\ cmd = "unpublish"
    BY <1>8 DEF SweepCourse, dataVars
  <2> QED
    BY <2>1, <2>2, <2>3, <2>4 DEF MemoryIsFresh
<1>9. CASE FinishCommand
  BY <1>9, NothingRow DEF FinishCommand, dataVars, TablesAgree, MemoryIsFresh
<1>10. CASE ArchiveOfficial
  <2>1. \A r \in Run : official'[r].status \notin PostReview
    <3>1. official' = SetStatus(official, Present(official), Unpublished)
      BY <1>10 DEF ArchiveOfficial
    <3> QED
      BY <1>a, <3>1, SetUnpublishedRow, PresentRow DEF TypeOK
  <2>2. \A r \in Run : draft'[r].status \notin PostReview
    BY <1>10 DEF ArchiveOfficial, TablesAgree
  <2>3. /\ half = {} /\ half' = {} /\ cmd' = "idle"
        /\ \A r \in Run : todo'[r] = Absent /\ sweep'[r] = Absent
    BY <1>10 DEF ArchiveOfficial, MemoryIsFresh, TypeOK
  <2> QED
    BY <1>a, <2>1, <2>2, <2>3 DEF TablesAgree, MemoryIsFresh
<1>11. CASE CommandDies
  <2>1. MemoryIsFresh'
    BY <1>11, NothingRow DEF CommandDies, MemoryIsFresh
  <2>2. TablesAgree'
    BY <1>11 DEF CommandDies, dataVars, TablesAgree
  <2> QED
    BY <2>1, <2>2
<1> QED
  BY <1>1, <1>2, <1>3, <1>4, <1>5, <1>6, <1>7, <1>8, <1>9, <1>10, <1>11 DEF CommandStep

\* The worst fault so far is never forgotten.
LEMMA FaultsStay ==
  ASSUME [Next]_vars
  PROVE  /\ fault' # "torn" => fault # "torn"
         /\ fault' = "none" => fault = "none"
<1> USE DEF Alongside
<1>1. CASE ApiStep \/ LoaderStep
  BY <1>1 DEF ApiStep, LoaderStep, CreateRun, SendToInternalReview, Approve, RunEdit, CourseEdit,
              LoaderCreateRun, LoaderUpdateRun
<1>2. CASE TimeStep \/ UNCHANGED vars
  BY <1>2 DEF TimeStep, GoLiveDatePasses, EnrollmentCloses, vars
<1>3. CASE StartPublish \/ StartUnpublish \/ ArchiveDraft \/ CommandStep
  BY <1>3 DEF StartPublish, StartUnpublish, ArchiveDraft, CommandStep, PublishRun, PublishFails,
              UnpublishOfficial, UnpublishDraft, SweepCourse, FinishCommand, ArchiveOfficial
<1>4. CASE CommandDies
  BY <1>4 DEF CommandDies
<1> QED
  BY <1>1, <1>2, <1>3, <1>4 DEF Next

QuietAgreeInv == fault # "torn" => AgreeInv

LEMMA AgreeNext ==
  TypeOK /\ ReviewInv /\ QuietAgreeInv /\ [Next]_vars => QuietAgreeInv'
<1> SUFFICES ASSUME TypeOK, ReviewInv, QuietAgreeInv, [Next]_vars, fault' # "torn"
             PROVE  AgreeInv'
  BY DEF QuietAgreeInv
<1>1. AgreeInv
  BY FaultsStay DEF QuietAgreeInv
<1>2. CASE TimeStep \/ UNCHANGED vars
  BY <1>1, <1>2 DEF TimeStep, GoLiveDatePasses, EnrollmentCloses, vars, dataVars, cmdVars,
              AgreeInv, TablesAgree, MemoryIsFresh
<1> QED
  BY <1>1, <1>2, RequestKeepsAgreement, CommandKeepsAgreement DEF Next

LEMMA AgreeHolds == Spec => []QuietAgreeInv
<1>1. Init => QuietAgreeInv
  BY AgreeInit DEF QuietAgreeInv
<1> QED
  BY <1>1, AgreeNext, TypeInit, TypeNext, ReviewInit, ReviewNext, PTL DEF Spec

\* As long as no request comes inside a command and archive_courses is never cut
\* short, what the catalog shows as reviewed or live, the draft row says too,
\* even when the publish and unpublish commands die between two transactions.
THEOREM OfficialFollowsDraftThm == Spec => []OfficialFollowsDraft
<1>1. QuietAgreeInv => OfficialFollowsDraft
  BY DEF QuietAgreeInv, AgreeInv, TablesAgree, OfficialFollowsDraft
<1> QED
  BY <1>1, AgreeHolds, PTL

\* As long as every command runs alone and to its end, the two rows of every run
\* agree on whether it has passed review.
THEOREM PostReviewAgreeThm == Spec => []PostReviewAgree
<1>1. QuietAgreeInv => PostReviewAgree
  BY DEF QuietAgreeInv, AgreeInv, TablesAgree, PostReviewAgree
<1> QED
  BY <1>1, AgreeHolds, PTL

\* As long as no request comes inside a command, a run goes live only from
\* Reviewed or in the step that approves what the draft holds.
THEOREM QuietPublishAfterReviewThm == Spec => QuietPublishAfterReview
<1>1. TypeOK /\ QuietAgreeInv /\ [Next]_vars => [fault # "torn" => PublishedAfterReview]_vars
  <2> SUFFICES ASSUME TypeOK, QuietAgreeInv, Next, fault # "torn", NEW q \in Run,
                      draft'[q].status = Published, draft[q].status # Published
               PROVE  \/ draft[q].status = Reviewed
                      \/ /\ draft[q].status \in InReview
                         /\ approved'[q] = [run |-> draft[q].content, course |-> courseDraft]
    BY DEF PublishedAfterReview
  <2>a. /\ Published \notin {Unpublished, LegalReview, InternalReview, Reviewed}
        /\ draft'[q] # draft[q]
    BY DEF Published, Unpublished, LegalReview, InternalReview, Reviewed
  <2>1. CASE ApiStep \/ LoaderStep
    <3>1. ASSUME NEW r \in Run, CreateRun(r) \/ LoaderCreateRun(r) \/ SendToInternalReview(r) PROVE FALSE
      BY <3>1, <2>a DEF CreateRun, LoaderCreateRun, SendToInternalReview, TypeOK, NewRow, Row
    <3>2. ASSUME NEW r \in Run, NEW isDraft \in BOOLEAN, NEW changed \in BOOLEAN,
                 RunEdit(r, isDraft, changed)
          PROVE  FALSE
      <4>1. draft' = [draft EXCEPT ![r] = EditedRow(r, isDraft, changed)] /\ q = r
        BY <3>2, <2>a DEF RunEdit, TypeOK
      <4>2. draft'[q].status = StatusAfterEdit(r, isDraft, changed)
        BY <4>1 DEF EditedRow, TypeOK
      <4> QED
        BY <4>1, <4>2, <2>a DEF StatusAfterEdit
    <3>3. ASSUME NEW isDraft \in BOOLEAN, NEW changed \in BOOLEAN, CourseEdit(isDraft, changed)
          PROVE  FALSE
      <4>1. draft' = SetStatus(draft, RevertedBy(changed), Unpublished)
        BY <3>3 DEF CourseEdit
      <4> QED
        BY <4>1, <2>a, SetUnpublishedRow DEF TypeOK, RevertedBy, WithStatus
    <3>4. ASSUME NEW r \in Run, Approve(r)
          PROVE  /\ draft[q].status \in InReview
                 /\ approved'[q] = [run |-> draft[q].content, course |-> courseDraft]
      <4>1. PICK gone \in SUBSET Run, row \in Row :
              draft' = SetStatus([draft EXCEPT ![r] = row], WithDraft(gone), Unpublished)
        <5> DEFINE s    == IF r \in due THEN Published ELSE Reviewed
                   row  == [draft[r] EXCEPT !.status = s]
                   offs == [official EXCEPT ![r] = row]
                   gone == IF r \in due THEN Expired(offs) ELSE {}
        <5>1. draft' = SetStatus([draft EXCEPT ![r] = row], WithDraft(gone), Unpublished)
          BY <3>4 DEF Approve
        <5>2. row \in Row
          BY DEF TypeOK, Row, Status
        <5>3. gone \subseteq Run
          BY DEF Expired, Inactive, WithStatus
        <5> HIDE DEF row, gone
        <5> QED
          BY <5>1, <5>2, <5>3
      <4>2. q = r
        <5>1. \A p \in Run \ {r} : draft'[p] = draft[p] \/ draft'[p].status = Unpublished
          BY <4>1 DEF SetStatus, TypeOK, Row
        <5> QED
          BY <5>1, <2>a
      <4> QED
        BY <3>4, <4>2 DEF Approve, TypeOK
    <3>5. ASSUME StudioUpdates PROVE FALSE
      BY <3>5, <2>a, StudioKeeps
    <3> QED
      BY <2>1, <3>1, <3>2, <3>3, <3>4, <3>5 DEF ApiStep, LoaderStep, StudioUpdates
  <2>2. CASE TimeStep
    BY <2>2, <2>a DEF TimeStep, GoLiveDatePasses, EnrollmentCloses, dataVars
  <2>3. CASE StartPublish \/ StartUnpublish \/ CommandDies
    BY <2>3, <2>a DEF StartPublish, StartUnpublish, CommandDies, dataVars
  <2>4. CASE ArchiveDraft
    BY <2>4, <2>a, SetUnpublishedRow, PresentRow DEF ArchiveDraft, TypeOK
  <2>5. ASSUME NEW r \in Run, PublishRun(r) PROVE draft[q].status = Reviewed
    <3>1. q = r
      <4>1. draft' = SetStatus(draft, WithDraft({r}), Published)
        BY <2>5 DEF PublishRun
      <4> QED
        BY <4>1, <2>a DEF SetStatus, WithDraft, TypeOK
    <3>2. todo[r] = official[r] /\ todo[r].status = Reviewed
      BY <2>5 DEF PublishRun, QuietAgreeInv, AgreeInv, MemoryIsFresh
    <3> QED
      BY <2>5, <3>1, <3>2 DEF PublishRun, QuietAgreeInv, AgreeInv, TablesAgree, PostReview
  <2>6. CASE CommandStep /\ ~(\E r \in Run : PublishRun(r))
    <3>1. ASSUME NEW r \in Run, UnpublishDraft(r) PROVE FALSE
      BY <3>1, <2>a, SetUnpublishedRow DEF UnpublishDraft, TypeOK, WithDraft, Present
    <3> QED
      BY <2>6, <2>a, <3>1 DEF CommandStep, PublishFails, UnpublishOfficial, SweepCourse,
         FinishCommand, ArchiveOfficial, dataVars
  <2> QED
    BY <2>1, <2>2, <2>3, <2>4, <2>5, <2>6 DEF Next
<1> QED
  BY <1>1, AgreeHolds, TypeCorrect, PTL DEF Spec, QuietPublishAfterReview

---------------------------------------------------------------------------
(* What unpublishing spares: while runs wait to be unpublished, another    *)
(* one is published and marketable and not among them.                     *)

SweepSpares ==
  fault # "torn" /\ (\E r \in Run : sweep[r] # Absent) =>
    \E q \in Run : /\ official[q].status = Published
                   /\ q \in Marketable
                   /\ sweep[q] = Absent

\* Deciding on rows that are up to date spares a keeper.
LEMMA SweepLeavesKeeper ==
  ASSUME NEW rows \in [Run -> Row], NEW r \in Run, Keep(rows, Expired(rows))[r] # Absent
  PROVE  \E q \in Run : /\ rows[q].status = Published
                         /\ q \in Marketable
                         /\ Keep(rows, Expired(rows))[q] = Absent
<1>1. r \in Expired(rows)
  BY DEF Keep
<1>2. PICK q \in Run : q \in Keepers(rows)
  BY <1>1 DEF Expired, Keepers, WithStatus
<1>3. q \notin Expired(rows)
  BY <1>2 DEF Keepers, Expired, Inactive
<1> QED
  BY <1>2, <1>3 DEF Keepers, WithStatus, Keep

LEMMA SweepNext ==
  TypeOK /\ QuietAgreeInv /\ SweepSpares /\ [Next]_vars => SweepSpares'
<1> SUFFICES ASSUME TypeOK, QuietAgreeInv, SweepSpares, [Next]_vars, fault' # "torn",
                    NEW r \in Run, sweep'[r] # Absent
             PROVE  \E q \in Run : /\ official'[q].status = Published
                                   /\ q \in Marketable
                                   /\ sweep'[q] = Absent
  BY DEF SweepSpares
<1>0. fault # "torn" /\ AgreeInv
  BY FaultsStay DEF QuietAgreeInv
<1>a. cmd = "idle" => \A q \in Run : sweep[q] = Absent
  BY <1>0, IdleMemory
<1>b. Published # Unpublished
  BY DEF Published, Unpublished
<1>1. CASE official' = official /\ sweep' = sweep
  BY <1>0, <1>1 DEF SweepSpares
<1>2. CASE ApiStep \/ LoaderStep
  <2>1. cmd = "idle" /\ sweep' = sweep
    BY <1>0, <1>2 DEF ApiStep, LoaderStep, CreateRun, SendToInternalReview, Approve, RunEdit,
       CourseEdit, LoaderCreateRun, LoaderUpdateRun, Alongside, cmdVars
  <2> QED
    BY <2>1, <1>a
<1>3. CASE TimeStep \/ StartPublish \/ StartUnpublish \/ ArchiveDraft \/ UNCHANGED vars
  BY <1>1, <1>3 DEF TimeStep, GoLiveDatePasses, EnrollmentCloses, StartPublish, StartUnpublish,
     ArchiveDraft, vars, dataVars, cmdVars
<1>4. ASSUME NEW p \in Run, PublishRun(p)
      PROVE  \E q \in Run : /\ official'[q].status = Published
                            /\ q \in Marketable
                            /\ sweep'[q] = Absent
  <2> DEFINE offs == [official EXCEPT ![p] = [todo[p] EXCEPT !.status = Published]]
  <2>1. official' = offs /\ sweep' = Keep(offs, Expired(offs))
    BY <1>4 DEF PublishRun
  <2>2. offs \in [Run -> Row]
    BY WithStatusIsRow, StatusNames DEF TypeOK
  <2> HIDE DEF offs
  <2> QED
    BY <2>1, <2>2, SweepLeavesKeeper
<1>5. CASE SweepCourse
  <2>1. sweep' = Keep(todo, Expired(todo)) /\ official' = official
    BY <1>5 DEF SweepCourse, dataVars
  <2>2. PICK q \in Run : /\ todo[q].status = Published
                         /\ q \in Marketable
                         /\ sweep'[q] = Absent
    BY <2>1, SweepLeavesKeeper DEF TypeOK
  <2>3. todo[q] # Absent
    BY <2>2, StatusNames DEF Absent, Published
  <2>4. todo[q] = official[q]
    BY <1>0, <2>3 DEF AgreeInv, MemoryIsFresh
  <2> QED
    BY <2>1, <2>2, <2>4
<1>6. ASSUME NEW p \in Run, UnpublishOfficial(p)
      PROVE  \E q \in Run : /\ official'[q].status = Published
                            /\ q \in Marketable
                            /\ sweep'[q] = Absent
  <2>1. PICK q \in Run : /\ official[q].status = Published
                         /\ q \in Marketable
                         /\ sweep[q] = Absent
    BY <1>0, <1>6 DEF UnpublishOfficial, SweepSpares
  <2>2. q # p /\ official'[q] = official[q] /\ sweep'[q] = sweep[q]
    BY <1>6, <2>1 DEF UnpublishOfficial, TypeOK
  <2> QED
    BY <2>1, <2>2
<1>7. ASSUME NEW p \in Run, PublishFails(p) \/ UnpublishDraft(p)
      PROVE  official' = official /\ sweep' = sweep
  BY <1>7 DEF PublishFails, UnpublishDraft, dataVars
<1>8. CASE FinishCommand
  BY <1>1, <1>8 DEF FinishCommand, dataVars
<1>9. ArchiveOfficial => \A q \in Run : sweep'[q] = Absent
  BY <1>0 DEF ArchiveOfficial, AgreeInv, MemoryIsFresh
<1>10. CommandDies => \A q \in Run : sweep'[q] = Absent
  BY NothingRow DEF CommandDies
<1> QED
  BY <1>1, <1>2, <1>3, <1>4, <1>5, <1>6, <1>7, <1>8, <1>9, <1>10 DEF Next, CommandStep

\* As long as no request comes inside a command, unpublishing old runs leaves a
\* published marketable run, even when the command dies half way.
THEOREM KeepsOneMarketableThm == Spec => KeepsOneMarketable
<1>1. Init => SweepSpares
  BY NothingRow DEF Init, SweepSpares
<1>2. TypeOK /\ SweepSpares /\ [Next]_vars =>
        [(\E r \in Run : UnpublishOfficial(r)) /\ fault # "torn"
           => WithStatus(official', Published) \cap Marketable # {}]_vars
  <2> SUFFICES ASSUME TypeOK, SweepSpares, NEW r \in Run, UnpublishOfficial(r), fault # "torn"
               PROVE  WithStatus(official', Published) \cap Marketable # {}
    OBVIOUS
  <2>1. PICK q \in Run : /\ official[q].status = Published
                         /\ q \in Marketable
                         /\ sweep[q] = Absent
    BY DEF UnpublishOfficial, SweepSpares
  <2>2. official'[q] = official[q]
    BY <2>1 DEF UnpublishOfficial, TypeOK
  <2> QED
    BY <2>1, <2>2 DEF WithStatus
<1> QED
  BY <1>1, <1>2, SweepNext, AgreeHolds, TypeCorrect, PTL DEF Spec, KeepsOneMarketable

---------------------------------------------------------------------------
(* Commands end.  What is left to do for a command becomes less with each   *)
(* of its steps, and no request adds to it.  A run that is loaded may lead  *)
(* to a sweep of all runs, and a run that is swept takes two steps.         *)

Loaded(rows) == {r \in Run : rows[r] # Absent}

ToDo    == Cardinality(Loaded(todo))
ToSweep == Cardinality(Loaded(sweep))
Halves  == Cardinality(half)
Running == IF cmd = "idle" THEN 0 ELSE 1

PerRun == 2 * Cardinality(Run) + 1
Work   == PerRun * ToDo + 2 * ToSweep + Halves + Running

\* At most one run is between its two transactions.
OneHalf == half = {} \/ \E r \in Run : half = {r}

LEMMA OneHalfHolds == Spec => []OneHalf
<1>1. Init => OneHalf BY DEF Init, OneHalf
<1>2. OneHalf /\ [Next]_vars => OneHalf'
  <2> SUFFICES ASSUME OneHalf, [Next]_vars PROVE OneHalf'
    OBVIOUS
  <2>1. ASSUME NEW r \in Run, UnpublishOfficial(r) \/ UnpublishDraft(r) PROVE OneHalf'
    BY <2>1 DEF UnpublishOfficial, UnpublishDraft, OneHalf
  <2>2. ASSUME NEW r \in Run, PublishRun(r) \/ PublishFails(r) PROVE OneHalf'
    BY <2>2 DEF PublishRun, PublishFails, OneHalf
  <2>3. ASSUME SweepCourse \/ FinishCommand \/ ArchiveOfficial \/ CommandDies PROVE OneHalf'
    BY <2>3 DEF SweepCourse, FinishCommand, ArchiveOfficial, CommandDies, OneHalf
  <2>4. ASSUME ApiStep \/ LoaderStep \/ TimeStep PROVE half' = half
    BY <2>4 DEF ApiStep, LoaderStep, TimeStep, CreateRun, SendToInternalReview, Approve, RunEdit,
      CourseEdit, LoaderCreateRun, LoaderUpdateRun, GoLiveDatePasses, EnrollmentCloses, cmdVars
  <2>5. ASSUME StartPublish \/ StartUnpublish \/ ArchiveDraft PROVE half' = half
    BY <2>5 DEF StartPublish, StartUnpublish, ArchiveDraft
  <2>6. ASSUME UNCHANGED vars PROVE half' = half BY <2>6 DEF vars, cmdVars
  <2>7. half' = half => OneHalf' BY DEF OneHalf
  <2> QED BY <2>1, <2>2, <2>3, <2>4, <2>5, <2>6, <2>7 DEF Next, CommandStep
<1> QED BY <1>1, <1>2, PTL DEF Spec

LEMMA LoadedSize ==
  ASSUME IsFiniteSet(Run), NEW rows
  PROVE  /\ Cardinality(Run) \in Nat
         /\ Cardinality(Loaded(rows)) \in Nat
         /\ Cardinality(Loaded(rows)) <= Cardinality(Run)
<1>1. Loaded(rows) \in SUBSET Run BY DEF Loaded
<1> QED BY <1>1, FS_Subset, FS_CardinalityType

LEMMA LoadedLess ==
  ASSUME IsFiniteSet(Run), NEW rows \in [Run -> Row], NEW r \in Run, rows[r] # Absent
  PROVE  /\ Cardinality(Loaded(rows)) >= 1
         /\ Cardinality(Loaded([rows EXCEPT ![r] = Absent])) = Cardinality(Loaded(rows)) - 1
<1>1. Loaded([rows EXCEPT ![r] = Absent]) = Loaded(rows) \ {r} BY DEF Loaded
<1>2. r \in Loaded(rows) /\ IsFiniteSet(Loaded(rows))
  <2>1. Loaded(rows) \in SUBSET Run BY DEF Loaded
  <2> QED BY <2>1, FS_Subset DEF Loaded
<1>3. Cardinality(Loaded(rows) \ {r}) = Cardinality(Loaded(rows)) - 1
  BY <1>2, FS_RemoveElement
<1>4. Cardinality(Loaded(rows)) # 0
  <2>1. Loaded(rows) # {} BY <1>2
  <2> QED BY <1>2, <2>1, FS_EmptySet
<1>5. PICK k \in Nat : k = Cardinality(Loaded(rows)) BY LoadedSize
<1>6. k >= 1 BY <1>4, <1>5
<1> QED BY <1>1, <1>3, <1>5, <1>6

LEMMA LoadedNothing == Cardinality(Loaded(Nothing)) = 0
<1>1. Loaded(Nothing) = {} BY DEF Loaded, Nothing
<1> QED BY <1>1, FS_EmptySet

LEMMA LoadedSome ==
  ASSUME IsFiniteSet(Run), NEW rows \in [Run -> Row], rows # Nothing
  PROVE  Cardinality(Loaded(rows)) >= 1
<1>1. PICK r \in Run : rows[r] # Absent BY DEF Nothing
<1> QED BY <1>1, LoadedLess

\* The parts of Work.
LEMMA WorkParts ==
  ASSUME IsFiniteSet(Run), OneHalf
  PROVE  /\ PerRun \in Nat /\ PerRun = 2 * Cardinality(Run) + 1
         /\ ToDo \in Nat /\ ToDo <= Cardinality(Run)
         /\ ToSweep \in Nat /\ ToSweep <= Cardinality(Run)
         /\ Halves \in Nat /\ Halves <= 1 /\ (half = {} <=> Halves = 0)
         /\ Running \in Nat /\ Running <= 1
         /\ PerRun * ToDo \in Nat
<1>1. /\ Cardinality(Run) \in Nat
      /\ ToDo \in Nat /\ ToDo <= Cardinality(Run)
      /\ ToSweep \in Nat /\ ToSweep <= Cardinality(Run)
  BY LoadedSize DEF ToDo, ToSweep
<1>2. PerRun \in Nat BY <1>1 DEF PerRun
<1>3. PerRun * ToDo \in Nat BY <1>1, <1>2
<1>4. Halves \in Nat /\ Halves <= 1 /\ (half = {} <=> Halves = 0)
  <2>1. CASE half = {} BY <2>1, FS_EmptySet DEF Halves
  <2>2. CASE half # {}
    <3>1. PICK r \in Run : half = {r} BY <2>2 DEF OneHalf
    <3>2. Cardinality({r}) = 1 BY FS_Singleton
    <3> QED BY <3>1, <3>2, <2>2 DEF Halves
  <2> QED BY <2>1, <2>2
<1> QED BY <1>1, <1>2, <1>3, <1>4 DEF Running, PerRun

LEMMA OneLess ==
  ASSUME NEW c \in Nat, NEW k \in Nat, NEW j \in Nat, j < k
  PROVE  c * j \in Nat /\ c * k \in Nat /\ c * j + c <= c * k
<1>1. c * (j + 1) <= c * k
  <2>1. PICK d \in Nat : k = j + 1 + d
    <3>1. k - (j + 1) \in Nat /\ k = j + 1 + (k - (j + 1)) OBVIOUS
    <3> QED BY <3>1
  <2>2. c * k = c * (j + 1) + c * d BY <2>1
  <2>3. c * d \in Nat /\ c * (j + 1) \in Nat OBVIOUS
  <2> QED BY <2>2, <2>3
<1> QED BY <1>1

\* A run less to do pays for a sweep; a run less to sweep pays for its second half.
LEMMA Payment ==
  ASSUME NEW n \in Nat, NEW b \in Nat, NEW a \in Nat, NEW s \in Nat, NEW t \in Nat,
         NEW h \in Nat, NEW g \in Nat, NEW q \in Nat
  PROVE  /\ a + (2 * n + 1) <= b /\ t <= n => a + 2 * t + h + q < b + 2 * s + h + q
         /\ t = s - 1 /\ g <= 1 => a + 2 * t + g + q < a + 2 * s + h + q
OBVIOUS

LEMMA CommandWorks ==
  ASSUME IsFiniteSet(Run), TypeOK, OneHalf, OneHalf', CommandStep
  PROVE  Work' < Work
<1> DEFINE N == Cardinality(Run)
           Before == PerRun * ToDo
           After  == PerRun * ToDo'
<1>1. /\ N \in Nat /\ PerRun \in Nat /\ PerRun = 2 * N + 1
      /\ ToDo \in Nat /\ ToSweep \in Nat /\ Halves \in Nat /\ Halves <= 1 /\ Running \in Nat
      /\ Before \in Nat
  BY LoadedSize, WorkParts
<1>2. /\ ToDo' \in Nat /\ ToSweep' \in Nat /\ ToSweep' <= N /\ Halves' \in Nat /\ Halves' <= 1
      /\ Running' \in Nat
  <2>1. ToDo' \in Nat /\ ToSweep' \in Nat /\ ToSweep' <= N BY LoadedSize DEF ToDo, ToSweep
  <2>2. Halves' \in Nat /\ Halves' <= 1
    <3>1. CASE half' = {} BY <3>1, FS_EmptySet DEF Halves
    <3>2. CASE half' # {}
      <4>1. PICK r \in Run : half' = {r} BY <3>2 DEF OneHalf
      <4>2. Cardinality({r}) = 1 BY FS_Singleton
      <4> QED BY <4>1, <4>2 DEF Halves
    <3> QED BY <3>1, <3>2
  <2> QED BY <2>1, <2>2 DEF Running
<1>3. After \in Nat /\ (ToDo' < ToDo => After + PerRun <= Before) /\ (ToDo' = ToDo => After = Before)
  BY <1>1, <1>2, OneLess
<1>4. Work = Before + 2 * ToSweep + Halves + Running BY DEF Work
<1>5. Work' = After + 2 * ToSweep' + Halves' + Running' BY DEF Work, PerRun
<1> HIDE DEF N, Before, After
<1>6. ASSUME NEW r \in Run, PublishRun(r) PROVE Work' < Work
  <2>1. ToDo' = ToDo - 1 /\ ToDo >= 1 BY <1>6, LoadedLess DEF PublishRun, ToDo, TypeOK
  <2>2. Halves' = Halves /\ Running' = Running BY <1>6 DEF PublishRun, Halves, Running
  <2>3. After + PerRun <= Before BY <1>1, <1>2, <1>3, <2>1
  <2> QED BY <1>1, <1>2, <1>3, <1>4, <1>5, <2>2, <2>3, Payment
<1>7. ASSUME NEW r \in Run, PublishFails(r) PROVE Work' < Work
  <2>1. ToDo' = ToDo - 1 /\ ToDo >= 1 BY <1>7, LoadedLess DEF PublishFails, ToDo, TypeOK
  <2>2. Halves' = Halves /\ Running' = Running /\ ToSweep' = ToSweep
    BY <1>7 DEF PublishFails, Halves, Running, ToSweep
  <2>3. After + PerRun <= Before BY <1>1, <1>2, <1>3, <2>1
  <2> QED BY <1>1, <1>2, <1>3, <1>4, <1>5, <2>2, <2>3
<1>8. ASSUME NEW r \in Run, UnpublishOfficial(r) PROVE Work' < Work
  <2>1. ToSweep' = ToSweep - 1 BY <1>8, LoadedLess DEF UnpublishOfficial, ToSweep, TypeOK
  <2>2. ToDo' = ToDo /\ Running' = Running BY <1>8 DEF UnpublishOfficial, ToDo, Running
  <2>3. After = Before BY <1>3, <2>2
  <2>4. Halves' <= 1 BY <1>2
  <2> QED BY <1>1, <1>2, <1>3, <1>4, <1>5, <2>1, <2>2, <2>3, <2>4, Payment
<1>9. ASSUME NEW r \in Run, UnpublishDraft(r) PROVE Work' < Work
  <2>1. ToDo' = ToDo /\ ToSweep' = ToSweep /\ Running' = Running
    BY <1>9 DEF UnpublishDraft, ToDo, ToSweep, Running
  <2>2. half # {} /\ Halves # 0 BY <1>9, WorkParts DEF UnpublishDraft
  <2>3. Halves' = 0 BY <1>9, FS_EmptySet DEF UnpublishDraft, Halves
  <2> QED BY <1>1, <1>2, <1>3, <1>4, <1>5, <2>1, <2>2, <2>3
<1>10. ASSUME SweepCourse PROVE Work' < Work
  <2>1. ToDo' = 0 BY <1>10, LoadedNothing DEF SweepCourse, ToDo
  <2>2. ToDo >= 1 BY <1>10, LoadedSome DEF SweepCourse, ToDo, TypeOK
  <2>3. Halves' = Halves /\ Running' = Running BY <1>10 DEF SweepCourse, Halves, Running
  <2>4. After + PerRun <= Before BY <1>1, <1>2, <1>3, <2>1, <2>2
  <2> QED BY <1>1, <1>2, <1>3, <1>4, <1>5, <2>3, <2>4, Payment
<1>11. ASSUME FinishCommand PROVE Work' < Work
  <2>1. ToDo' = ToDo /\ ToSweep' = ToSweep /\ Halves' = Halves
    BY <1>11 DEF FinishCommand, ToDo, ToSweep, Halves
  <2>2. Running = 1 /\ Running' = 0 BY <1>11 DEF FinishCommand, Running
  <2> QED BY <1>1, <1>2, <1>3, <1>4, <1>5, <2>1, <2>2
<1>12. ASSUME ArchiveOfficial PROVE Work' < Work
  <2>1. ToDo' = ToDo /\ ToSweep' = ToSweep /\ Halves' = Halves
    BY <1>12 DEF ArchiveOfficial, ToDo, ToSweep, Halves
  <2>2. Running = 1 /\ Running' = 0 BY <1>12 DEF ArchiveOfficial, Running
  <2> QED BY <1>1, <1>2, <1>3, <1>4, <1>5, <2>1, <2>2
<1> QED BY <1>6, <1>7, <1>8, <1>9, <1>10, <1>11, <1>12 DEF CommandStep

\* Only publish and unpublish hold rows in memory.
IdleIsDone ==
  cmd \notin {"publish", "unpublish"} => todo = Nothing /\ sweep = Nothing /\ half = {}

\* Nobody but the command itself touches its memory.
OthersKeepMemory == cmd # "idle" /\ ~CommandStep /\ ~CommandDies => UNCHANGED cmdVars

LEMMA OthersKeep == [Next]_vars => OthersKeepMemory
<1> SUFFICES ASSUME [Next]_vars PROVE OthersKeepMemory
  OBVIOUS
<1>1. ASSUME ApiStep \/ LoaderStep \/ TimeStep PROVE UNCHANGED cmdVars
  BY <1>1 DEF ApiStep, LoaderStep, TimeStep, CreateRun, SendToInternalReview, Approve, RunEdit,
    CourseEdit, LoaderCreateRun, LoaderUpdateRun, GoLiveDatePasses, EnrollmentCloses
<1>2. ASSUME StartPublish \/ StartUnpublish \/ ArchiveDraft PROVE cmd = "idle"
  BY <1>2 DEF StartPublish, StartUnpublish, ArchiveDraft
<1>3. ASSUME UNCHANGED vars PROVE UNCHANGED cmdVars BY <1>3 DEF vars, cmdVars
<1> QED BY <1>1, <1>2, <1>3 DEF Next, OthersKeepMemory

LEMMA IdleIsDoneHolds == Spec => []IdleIsDone
<1>1. Init => IdleIsDone BY DEF Init, IdleIsDone
<1>2. TypeOK /\ IdleIsDone /\ [Next]_vars => IdleIsDone'
  <2> SUFFICES ASSUME TypeOK, IdleIsDone, [Next]_vars PROVE IdleIsDone'
    OBVIOUS
  <2>1. ASSUME NEW r \in Run, UnpublishOfficial(r) \/ UnpublishDraft(r) PROVE IdleIsDone'
    BY <2>1 DEF UnpublishOfficial, UnpublishDraft, IdleIsDone, Nothing
  <2>2. ASSUME NEW r \in Run, PublishRun(r) \/ PublishFails(r) PROVE IdleIsDone'
    BY <2>2 DEF PublishRun, PublishFails, IdleIsDone
  <2>3. ASSUME SweepCourse \/ FinishCommand \/ ArchiveOfficial \/ CommandDies PROVE IdleIsDone'
    BY <2>3 DEF SweepCourse, FinishCommand, ArchiveOfficial, CommandDies, IdleIsDone
  <2>4. ASSUME StartPublish \/ StartUnpublish \/ ArchiveDraft PROVE IdleIsDone'
    BY <2>4 DEF StartPublish, StartUnpublish, ArchiveDraft, IdleIsDone
  <2>5. ASSUME ApiStep \/ LoaderStep \/ TimeStep \/ UNCHANGED vars PROVE UNCHANGED cmdVars
    BY <2>5 DEF ApiStep, LoaderStep, TimeStep, CreateRun, SendToInternalReview, Approve, RunEdit,
      CourseEdit, LoaderCreateRun, LoaderUpdateRun, GoLiveDatePasses, EnrollmentCloses, cmdVars, vars
  <2>6. UNCHANGED cmdVars => IdleIsDone' BY DEF cmdVars, IdleIsDone
  <2> QED BY <2>1, <2>2, <2>3, <2>4, <2>5, <2>6 DEF Next, CommandStep
<1> QED BY <1>1, <1>2, TypeCorrect, PTL DEF Spec

\* With n runs no command has more than this many steps.
Longest == PerRun * Cardinality(Run) + 2 * Cardinality(Run) + 2

WorkBounded == Work \in 0..Longest /\ (cmd = "idle" <=> Work = 0)

LEMMA WorkIsBounded ==
  ASSUME IsFiniteSet(Run), TypeOK, OneHalf, IdleIsDone
  PROVE  WorkBounded
<1>1. PICK n \in Nat : n = Cardinality(Run) BY LoadedSize
<1>2. PICK p \in Nat : p = PerRun BY WorkParts
<1>3. PICK t \in Nat : t = ToDo /\ t <= n BY <1>1, WorkParts
<1>4. PICK s \in Nat : s = ToSweep /\ s <= n BY <1>1, WorkParts
<1>5. PICK h \in Nat : h = Halves /\ h <= 1 BY WorkParts
<1>6. PICK q \in Nat : q = Running /\ q <= 1 BY WorkParts
<1>7. p * t \in Nat /\ p * n \in Nat /\ p * t <= p * n
  <2>1. CASE t = n BY <2>1
  <2>2. CASE t < n
    <3>1. p * t \in Nat /\ p * n \in Nat /\ p * t + p <= p * n BY <2>2, OneLess
    <3> QED BY <3>1
  <2> QED BY <1>3, <2>1, <2>2
<1>8. PICK w \in Nat : w = p * t BY <1>7
<1>9. PICK m \in Nat : m = p * n BY <1>7
<1>10. Work = w + 2 * s + h + q /\ Longest = m + 2 * n + 2
  BY <1>1, <1>2, <1>3, <1>4, <1>5, <1>6, <1>8, <1>9 DEF Work, Longest
<1>11. w + 2 * s + h + q \in 0..(m + 2 * n + 2) BY <1>4, <1>5, <1>6, <1>7, <1>8, <1>9
<1>12. ASSUME cmd = "idle" PROVE Work = 0
  <2>1. t = 0 /\ s = 0
    BY <1>3, <1>4, <1>12, LoadedNothing DEF IdleIsDone, ToDo, ToSweep
  <2>2. h = 0 /\ q = 0
    BY <1>5, <1>6, <1>12, FS_EmptySet DEF IdleIsDone, Halves, Running
  <2>3. p * 0 = 0 OBVIOUS
  <2> QED BY <1>8, <1>10, <2>1, <2>2, <2>3
<1>13. ASSUME cmd # "idle" PROVE Work # 0
  <2>1. q = 1 BY <1>6, <1>13 DEF Running
  <2> QED BY <1>10, <2>1
<1> QED BY <1>10, <1>11, <1>12, <1>13 DEF WorkBounded

\* A step of the command leaves less to do, and no other step leaves more.
WorkShrinks == cmd # "idle" => Work' <= Work /\ (CommandStep => Work' < Work)

\* Every command ends by itself: a command has ended exactly when no work is left,
\* never has more than Longest, each of its own steps leaves less, and neither
\* requests nor time nor the loader add to it while it runs.  So a sweep of old
\* runs, which publish_live_course_runs makes after every run, cannot keep it going.
THEOREM CommandsTerminate ==
  ASSUME IsFiniteSet(Run)
  PROVE  Spec => []WorkBounded /\ [][WorkShrinks]_vars
<1>1. TypeOK /\ OneHalf /\ IdleIsDone => WorkBounded BY WorkIsBounded
<1>2. TypeOK /\ OneHalf /\ OneHalf' /\ WorkBounded /\ WorkBounded' /\ [Next]_vars => [WorkShrinks]_vars
  <2> SUFFICES ASSUME TypeOK, OneHalf, OneHalf', WorkBounded, WorkBounded', [Next]_vars, cmd # "idle"
               PROVE  Work' <= Work /\ (CommandStep => Work' < Work)
    BY DEF WorkShrinks
  <2>1. Work \in Nat BY WorkParts, LoadedSize DEF WorkBounded, Longest
  <2>2. Work' \in Nat BY WorkParts, LoadedSize DEF WorkBounded, Longest, PerRun
  <2>3. CASE CommandStep
    <3>1. Work' < Work BY <2>3, CommandWorks
    <3> QED BY <2>1, <2>2, <3>1
  <2>4. CASE CommandDies /\ ~CommandStep
    <3>1. Work' = 0 BY <2>4 DEF CommandDies, WorkBounded
    <3> QED BY <2>1, <2>4, <3>1
  <2>5. CASE ~CommandStep /\ ~CommandDies
    <3>1. UNCHANGED cmdVars BY <2>5, OthersKeep DEF OthersKeepMemory
    <3>2. Work' = Work BY <3>1 DEF cmdVars, Work, ToDo, ToSweep, Halves, Running, PerRun, Loaded
    <3> QED BY <2>1, <2>5, <3>2
  <2> QED BY <2>3, <2>4, <2>5
<1> QED BY <1>1, <1>2, TypeCorrect, OneHalfHolds, IdleIsDoneHolds, PTL DEF Spec

\* The next execution of publish_live_course_runs takes every due Reviewed run
\* into memory, and no run it holds gets lost there: unless the command dies, each
\* run whose publication does not raise is Published when the command lets it go,
\* whatever happened to other runs before.
RunsAreNotLost ==
  \A r \in Run :
    /\ StartPublish /\ r \in due /\ official[r].status = Reviewed => todo'[r] = official[r]
    /\ cmd = "publish" /\ todo[r] # Absent /\ todo'[r] # todo[r] /\ ~CommandDies /\ r \notin Broken
         => todo'[r] = Absent /\ official'[r].status = Published

THEOREM PublishLosesNoRun == Spec => [][RunsAreNotLost]_vars
<1>1. TypeOK /\ [Next]_vars => [RunsAreNotLost]_vars
  <2> SUFFICES ASSUME TypeOK, Next, NEW r \in Run PROVE
        /\ StartPublish /\ r \in due /\ official[r].status = Reviewed => todo'[r] = official[r]
        /\ cmd = "publish" /\ todo[r] # Absent /\ todo'[r] # todo[r] /\ ~CommandDies /\ r \notin Broken
             => todo'[r] = Absent /\ official'[r].status = Published
    BY DEF RunsAreNotLost
  <2>1. StartPublish /\ r \in due /\ official[r].status = Reviewed => todo'[r] = official[r]
    BY DEF StartPublish, DueRuns, Keep, WithStatus
  <2>2. ASSUME cmd = "publish", todo[r] # Absent, todo'[r] # todo[r], ~CommandDies, r \notin Broken
        PROVE  todo'[r] = Absent /\ official'[r].status = Published
    <3>1. CommandStep BY <2>2, OthersKeep DEF OthersKeepMemory, cmdVars
    <3>2. PICK q \in Run : PublishRun(q) \/ PublishFails(q)
      <4>1. ~SweepCourse BY <2>2 DEF SweepCourse
      <4>2. ~FinishCommand /\ ~ArchiveOfficial BY <2>2 DEF FinishCommand, ArchiveOfficial
      <4>3. ASSUME NEW p \in Run, UnpublishOfficial(p) \/ UnpublishDraft(p) PROVE FALSE
        BY <2>2, <4>3 DEF UnpublishOfficial, UnpublishDraft
      <4> QED BY <3>1, <4>1, <4>2, <4>3 DEF CommandStep
    <3>3. q = r BY <2>2, <3>2 DEF PublishRun, PublishFails, TypeOK
    <3>4. PublishRun(r) BY <2>2, <3>2, <3>3 DEF PublishFails
    <3>5. [todo[r] EXCEPT !.status = Published].status = Published BY DEF TypeOK, Row
    <3> QED BY <3>4, <3>5 DEF PublishRun, TypeOK
  <2> QED BY <2>1, <2>2
<1> QED BY <1>1, TypeCorrect, PTL DEF Spec
===========================================================================
