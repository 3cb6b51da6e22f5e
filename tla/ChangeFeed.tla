----------------------------- MODULE ChangeFeed -----------------------------
(***************************************************************************)
(* How other services learn what has changed: data_modified_timestamp of   *)
(* courses and programs, and the filter ?timestamp= of their endpoints.    *)
(*                                                                         *)
(* The catalog shows the official row of a course, alone and inside its    *)
(* programs.  Editors work on the draft row.  A change of a run, a seat or *)
(* an entitlement stamps every row of the course and its programs, by      *)
(* receivers and by UPDATE statements, a related object the rows that      *)
(* refer to it and the programs of the official one; a change of the draft *)
(* row stamps that row and the programs, and reaches the official row with *)
(* the stamp of the draft row when the draft row is copied.                *)
(*                                                                         *)
(* One official course with its draft row and a related object, in one     *)
(* program, and a client that asks both endpoints for what has changed     *)
(* since it asked last.                                                    *)
(* What a field holds does not matter: ahead is the set of the parts in    *)
(* which the draft version differs from the official one.                  *)
(***************************************************************************)
EXTENDS Naturals

CONSTANTS
  MaxTime,     \* bound of the clock
  Edits,       \* sets of edits that one request may make
  Followed     \* bound: the causes after which writers are followed further

Slugs == {"newslug", "oldslug"}    \* not in, or in the official slug history
Part  == {"fields", "link", "members", "price", "run"} \cup Slugs
Edit  == (Part \ {"run"}) \cup {"related", "certificate"}

\* Each is a way in which the catalog changes while its timestamp does not.
\* quiet: nothing stamps the edit (members emptied or put in another order, the
\* first entitlement, a run's restriction); price, certificate: a row is written
\* with the timestamp it had before its related row changed; oldslug: the course
\* goes back to a slug it had before; release: an earlier draft edit is published
\* by a request that changes nothing else, or only what the program does not refer
\* to; studio: a new run publishes it; skipped: the draft run had the new value
\* already; died: a command saved the official run alone; count: the enrollment
\* counts; untracked: an object without receiver; late: a row is written as it
\* was loaded; overlap: the client asked inside a request.
Cause == {"quiet", "price", "certificate", "oldslug", "release", "studio", "skipped",
          "died", "count", "untracked", "late", "overlap"}

ASSUME ChangeFeedAssumption ==
  /\ MaxTime \in Nat
  /\ Edits \subseteq {e \in SUBSET Edit : ~(Slugs \subseteq e)}
  /\ Followed \subseteq Cause

Time == 0 .. MaxTime
Row  == {"draft", "official", "program"}

VARIABLES
  clock,
  stamp,       \* stamp[r]: data_modified_timestamp of a row
  ahead,       \* parts in which the draft version differs from the official one
  unread,      \* rows whose content the client has not seen as it is now
  since,       \* when the client asked last
  request,     \* the request or admin form at work: what it loaded, and when
  half,        \* a command has saved the official run and not yet the draft run
  stray        \* history: the cause of which a change may go unnoticed

vars == <<clock, stamp, ahead, unread, since, request, half, stray>>

Shown == {"official", "program"}
Idle  == [at |-> "idle", time |-> 0, draft |-> 0, program |-> 0]

\* draft and program are the stamps in the rows the request has loaded; it is
\* overtaken when somebody else has saved since.
Request == [at: {"idle", "work", "overtaken"}, time: Time, draft: Time, program: Time]

TypeOK ==
  /\ clock \in Time
  /\ stamp \in [Row -> Time]
  /\ ahead \subseteq Part
  /\ ~(Slugs \subseteq ahead)
  /\ unread \subseteq Shown
  /\ since \in Time
  /\ request \in Request
  /\ half \in {"no", "yes"}
  /\ stray \in Cause \cup {"none", "several"}

Init ==
  /\ clock = 0
  /\ stamp = [r \in Row |-> 0]
  /\ ahead = {}
  /\ unread = {}
  /\ since = 0
  /\ request = Idle
  /\ half = "no"
  /\ stray = "none"

Noted(cause) ==
  stray' = CASE cause = "none" -> stray
             [] cause # "none" /\ stray \in {"none", cause} -> cause
             [] OTHER -> "several"

\* Mutant: the rows of the course are stamped, its programs are forgotten.
AllMutant(t) == [r \in Row |-> IF r = "program" THEN stamp[r] ELSE t]

\* set_data_modified_timestamp and its copies in the related models.
All(t) == [r \in Row |-> t]

\* A related object stamps the courses that refer to it, and the programs of those
\* courses.  Programs list official rows: a draft row that has been linked to
\* another object than the official one stamps itself alone.
Referring(s, t) == IF "link" \in ahead THEN [s EXCEPT !["draft"] = t] ELSE All(t)

\* set_official_state: the official row takes the timestamp of the draft row, and
\* a slug that is new to its history stamps all rows.
Copied(s, parts, t) ==
  IF "newslug" \in parts THEN All(t) ELSE [s EXCEPT !["official"] = s["draft"]]

\* Somebody saves while a request or a form is open.
Overtake == request' = IF request.at = "work" THEN [request EXCEPT !.at = "overtaken"] ELSE request

---------------------------------------------------------------------------
(* A request, and the admin form of a program.                             *)

Begin ==
  /\ request.at = "idle"
  /\ request' = [at |-> "work", time |-> clock,
                 draft |-> stamp["draft"], program |-> stamp["program"]]
  /\ UNCHANGED <<clock, stamp, ahead, unread, since, half, stray>>

Working == request.at # "idle"

\* What now() may have returned inside the request.
Moments == {t \in Time : request.time <= t /\ t <= clock}

\* PATCH /courses/<key>/ up to the save of the draft row.  The entitlement comes
\* first; if update_entitlement reports a change the row is loaded again.  Then
\* the related objects, after which its timestamp is loaded again, unless all
\* that happened is that a CertificateInfo was created.  The row is written as a
\* whole, with the time of the save if one of its fields has changed.
Saved(e, reported, t) ==
  LET sold   == IF "price" \in e THEN All(t) ELSE stamp
      linked == IF e \cap {"related", "certificate"} # {} THEN Referring(sold, t) ELSE sold
      loaded == CASE "related" \in e -> linked["draft"]
                  [] "related" \notin e /\ reported -> sold["draft"]
                  [] OTHER -> request.draft
  IN  IF e \cap {"fields", "link"} # {} THEN [linked EXCEPT !["draft"] = t, !["program"] = t]
      ELSE [linked EXCEPT !["draft"] = loaded]

\* The many-to-many fields are compared, as sets, with those of the official row
\* when members are added; the slug with an entry of the draft row's own.
StampsAll(e, back) ==
  \/ "members" \in e \ back
  \/ "newslug" \in e
  \/ "oldslug" \in e /\ "newslug" \in ahead

\* Mutant: the slug that was set before stays set.
EditedDraftMutant(e, back) == (ahead \cup (e \cap Part)) \ back

\* The draft after the edits e, of which back restore what is official.
EditedDraft(e, back) ==
  ((IF e \cap Slugs # {} THEN ahead \ Slugs ELSE ahead) \cup (e \cap Part)) \ back

\* A timestamp that the request has set is lost again with the save of the row.
Forgets(e, s, t) == e \cap {"price", "related", "certificate"} # {} /\ s["draft"] # t

MayRestore(e, back) ==
  /\ back \subseteq e \cap (Part \ {"newslug"})
  /\ back \subseteq IF "newslug" \in ahead THEN ahead \cup {"oldslug"} ELSE ahead

\* Edits that no receiver notices: members that are emptied or put in another
\* order, and an entitlement that is created.
Quiet(e, back) == SUBSET ((e \cap {"members", "price"}) \ back)

\* What the catalog misses of a request that leaves the timestamps s.
CauseOf(e, out, shows, s, t) ==
  CASE request.at = "overtaken" -> "late"
    [] request.at = "work" /\ Forgets(e, s, t) -> IF "price" \in e THEN "price" ELSE "certificate"
    [] request.at = "work" /\ ~Forgets(e, s, t) /\ shows /\ (\E r \in Shown : s[r] # t) ->
         IF "oldslug" \in out \cap e THEN "oldslug" ELSE "release"
    [] OTHER -> "none"

\* The whole request.  reported: the price that was sent is not the value of any
\* float, which is all that update_entitlement notices, or is that of a new one.
\* goes: what becomes official, everything if a run is live and draft=false, or
\* the slug.  reverts: a Reviewed run goes back to Unpublished, after all the rest.
CourseUpdate(e, back, quiet, reported, goes, reverts, t) ==
  LET loud   == e \ quiet
      edited == EditedDraft(e, back)
      out    == CASE goes = "all" -> edited [] goes = "slug" -> edited \cap Slugs [] OTHER -> {}
      saved  == IF StampsAll(loud, back) THEN All(t) ELSE Saved(loud, reported, t)
      copied == IF goes = "all" THEN Copied(saved, edited, t) ELSE saved
      final  == IF reverts THEN All(t) ELSE copied
      shows  == \/ out # {} \/ reverts
                \/ e \cap {"related", "certificate"} # {} /\ "link" \notin ahead
  IN
  /\ Working
  /\ MayRestore(e, back)
  /\ reported => "price" \in e
  /\ goes = "slug" => e \cap Slugs # {}
  /\ reverts => reported \/ e \cap {"fields", "link", "members", "related"} # {}
  /\ stamp' = final
  /\ ahead' = edited \ out
  /\ unread' = IF shows THEN Shown ELSE unread
  /\ request' = Idle
  /\ Noted(IF quiet # {} THEN "quiet" ELSE CauseOf(loud, out, shows, final, t))
  /\ UNCHANGED <<clock, since, half>>

\* A run whose row or seats change stamps all rows; staff that is emptied or put in
\* another order and a restriction stamp none ("quiet"), and a restriction is lifted
\* from the official run at once.
RunChange == {"no", "quiet", "lifted", "yes"}

\* PATCH /course_runs/<key>/, and the saves of a review.  goes: the run becomes
\* official with its course; or the official run of a Reviewed one is reverted.
RunUpdate(changed, back, goes, t) ==
  LET edited == IF changed \in {"yes", "quiet"} THEN (ahead \cup {"run"}) \ back ELSE ahead
      saved  == IF changed = "yes" THEN All(t) ELSE stamp
      final  == IF goes = "all" THEN Copied(saved, edited, t) ELSE saved
      out    == IF goes = "all" THEN edited ELSE {}
      shows  == goes = "revert" \/ out # {} \/ changed = "lifted"
  IN
  /\ Working
  /\ back \subseteq ahead \cap {"run"}
  /\ goes = "revert" => changed = "yes"
  /\ stamp' = final
  /\ ahead' = edited \ out
  /\ unread' = IF shows THEN Shown ELSE unread
  /\ request' = Idle
  /\ Noted(CASE changed \in {"quiet", "lifted"} -> "quiet"
             [] changed \in {"no", "yes"} /\ shows /\ (\E r \in Shown : final[r] # t) -> "release"
             [] OTHER -> "none")
  /\ UNCHANGED <<clock, since, half>>

\* POST /course_runs/.  The new row stamps nothing; the fields that a rerun then
\* takes from an older run do.
CreateRun(rerun, t) ==
  /\ Working
  /\ stamp' = IF rerun THEN All(t) ELSE stamp
  /\ ahead' = ahead \cup {"run"}
  /\ request' = Idle
  /\ UNCHANGED <<clock, unread, since, half, stray>>

\* The admin form of a program writes the whole row.
ProgramSave(changed, t) ==
  /\ Working
  /\ stamp' = [stamp EXCEPT !["program"] = IF changed THEN t ELSE request.program]
  /\ unread' = IF changed THEN unread \cup {"program"} ELSE unread
  /\ request' = Idle
  /\ Noted(IF request.at = "overtaken" THEN "late" ELSE "none")
  /\ UNCHANGED <<clock, ahead, since, half>>

RequestFails ==
  /\ Working
  /\ request' = Idle
  /\ UNCHANGED <<clock, stamp, ahead, unread, since, half, stray>>

---------------------------------------------------------------------------
(* Commands, the loader, and the admin pages of related objects.           *)

\* CourseRun.publish: both rows of the run in one transaction.
PublishRun ==
  /\ stamp' = All(clock)
  /\ unread' = Shown
  /\ Overtake
  /\ UNCHANGED <<clock, ahead, since, half, stray>>

\* unpublish_inactive_runs, update_course_run of the loader, archive_courses, the
\* counts of a run: the official row, which stamps nothing ...
SaveOfficialRun ==
  /\ half = "no"
  /\ half' = "yes"
  /\ ahead' = ahead \cup {"run"}
  /\ unread' = Shown
  /\ Overtake
  /\ UNCHANGED <<clock, stamp, since, stray>>

\* ... and the draft row.
SaveDraftRun(agree) ==
  /\ half = "yes"
  /\ half' = "no"
  /\ stamp' = All(clock)
  /\ ahead' = IF agree THEN ahead \ {"run"} ELSE ahead
  /\ Overtake
  /\ UNCHANGED <<clock, unread, since, stray>>

CommandDies ==
  /\ half = "yes"
  /\ half' = "no"
  /\ Noted("died")
  /\ UNCHANGED <<clock, stamp, ahead, unread, since, request>>

\* The draft row has the new values already: an editor was first, or
\* archive_courses, which takes the draft row first.
SaveOfficialRunOnly(agree) ==
  /\ half = "no"
  /\ "run" \in ahead
  /\ ahead' = IF agree THEN ahead \ {"run"} ELSE ahead
  /\ unread' = Shown
  /\ Noted("skipped")
  /\ Overtake
  /\ UNCHANGED <<clock, stamp, since, half>>

ArchiveDraft ==
  /\ half = "no"
  /\ stamp' = All(clock)
  /\ ahead' = ahead \cup {"run"}
  /\ Overtake
  /\ UNCHANGED <<clock, unread, since, half, stray>>

\* create_course_run: a run that was made in Studio makes the course official.
LoadNewRun ==
  /\ stamp' = Copied(stamp, ahead, clock)
  /\ ahead' = ahead \cap {"run"}
  /\ unread' = Shown
  /\ Noted(IF "newslug" \in ahead THEN "none" ELSE "studio")
  /\ Overtake
  /\ UNCHANGED <<clock, since, half>>

\* An object that the rows in refer refer to is saved.  The program follows the
\* official row, since it lists no other.
RelatedSave(refer) ==
  /\ refer # {}
  /\ "draft" \in refer /\ "official" \notin refer => "link" \in ahead
  /\ "official" \in refer /\ "draft" \notin refer => "link" \in ahead
  /\ stamp' = [r \in Row |-> IF r \in refer \/ (r = "program" /\ "official" \in refer)
                             THEN clock ELSE stamp[r]]
  /\ unread' = CASE "official" \in refer -> Shown
                 [] "official" \notin refer /\ "program" \in refer -> unread \cup {"program"}
                 [] OTHER -> unread
  /\ Overtake
  /\ UNCHANGED <<clock, ahead, since, half, stray>>

\* An object of a model that no receiver watches (an organization, a person, a
\* subject) changes in what is shown of the course or of the program alone.
UntrackedSave(shown) ==
  /\ unread' = unread \cup shown
  /\ Noted("untracked")
  /\ UNCHANGED <<clock, stamp, ahead, since, request, half>>

\* The analytics loader writes the counts of the official course, of the draft
\* course, which stamps the program, and of the program, and may die between them.
LoadCounts(both) ==
  /\ stamp' = IF both THEN [stamp EXCEPT !["program"] = clock] ELSE stamp
  /\ unread' = Shown
  /\ Noted("count")
  /\ Overtake
  /\ UNCHANGED <<clock, ahead, since, half>>

---------------------------------------------------------------------------
(* The client.                                                             *)

\* CourseFilter and ProgramFilter: timestamp is a lower bound, inclusive.
Listed == {r \in Shown : stamp[r] >= since}

Poll ==
  /\ unread' = unread \ Listed
  /\ since' = clock
  /\ Noted(IF request.at = "idle" THEN "none" ELSE "overlap")
  /\ UNCHANGED <<clock, stamp, ahead, request, half>>

Tick ==
  /\ clock < MaxTime
  /\ clock' = clock + 1
  /\ UNCHANGED <<stamp, ahead, unread, since, request, half, stray>>

RequestStep ==
  \/ Begin
  \/ RequestFails
  \/ \E t \in Moments :
       \/ \E e \in Edits, reported, reverts \in BOOLEAN, goes \in {"no", "slug", "all"} :
            \E back \in SUBSET e : \E quiet \in Quiet(e, back) :
              CourseUpdate(e, back, quiet, reported, goes, reverts, t)
       \/ \E changed \in RunChange, back \in SUBSET {"run"},
            goes \in {"no", "revert", "all"} : RunUpdate(changed, back, goes, t)
       \/ \E rerun \in BOOLEAN : CreateRun(rerun, t)
       \/ \E changed \in BOOLEAN : ProgramSave(changed, t)

CommandStep ==
  \/ PublishRun
  \/ SaveOfficialRun
  \/ \E agree \in BOOLEAN : SaveDraftRun(agree) \/ SaveOfficialRunOnly(agree)
  \/ CommandDies
  \/ ArchiveDraft
  \/ LoadNewRun
  \/ \E refer \in SUBSET Row : RelatedSave(refer)
  \/ \E shown \in {Shown, {"program"}} : UntrackedSave(shown)
  \/ \E both \in BOOLEAN : LoadCounts(both)

Next ==
  \/ stray \in Followed \cup {"none"} /\ (RequestStep \/ CommandStep)
  \/ Poll
  \/ Tick

Spec == Init /\ [][Next]_vars

---------------------------------------------------------------------------
(* What the timestamps promise.                                            *)

\* The client will be told of all it has not seen, whoever changed it.
Told == half = "no" => \A r \in unread : stamp[r] >= since

\* Of all the ways modelled here to change what the catalog shows, only those that
\* Cause names can go unnoticed: until one occurs, a client that asks for everything
\* since it asked last misses no change of the course, nor of the program that shows
\* it, although receivers, UPDATE statements and whole-row saves each set or restore
\* the timestamp of some of the rows.
FeedMissesNothing == stray = "none" => Told
===========================================================================
