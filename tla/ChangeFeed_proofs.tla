------------------------- MODULE ChangeFeed_proofs -------------------------
(***************************************************************************)
(* Proofs about ChangeFeed, for every clock, every choice of edits and     *)
(* every choice of the causes that are followed.                           *)
(***************************************************************************)
EXTENDS ChangeFeed, TLAPS

USE ChangeFeedAssumption

---------------------------------------------------------------------------
(* The inductive invariant.  A request that nobody has overtaken holds the *)
(* timestamps that are in the database, and they are older than anything   *)
(* it will write; as long as both rows refer to the same object the draft  *)
(* row is not older than the official one, which takes its timestamp.      *)

Fresh ==
  request.at = "work" =>
    /\ request.draft = stamp["draft"]
    /\ request.program = stamp["program"]
    /\ \A r \in Row : stamp[r] <= request.time

AskedBefore == request.at # "idle" => since <= request.time /\ request.time <= clock

DraftNotOlder == "link" \notin ahead => stamp["draft"] >= stamp["official"]

Good ==
  /\ Told
  /\ since <= clock
  /\ \A r \in Row : stamp[r] <= clock
  /\ AskedBefore
  /\ Fresh
  /\ DraftNotOlder

IInv == TypeOK /\ (stray = "none" => Good)

---------------------------------------------------------------------------
(* Timestamps and causes.                                                  *)

LEMMA Rows == Row = {"draft", "official", "program"} /\ Shown \subseteq Row
BY DEF Row, Shown

LEMMA AllType ==
  ASSUME NEW t \in Time
  PROVE  All(t) \in [Row -> Time] /\ \A r \in Row : All(t)[r] = t
BY DEF All

LEMMA ReferringType ==
  ASSUME NEW s \in [Row -> Time], NEW t \in Time
  PROVE  /\ Referring(s, t) \in [Row -> Time]
         /\ Referring(s, t)["draft"] = t
         /\ \A r \in Shown : Referring(s, t)[r] = IF "link" \in ahead THEN s[r] ELSE t
<1>1. CASE "link" \in ahead BY <1>1, Rows DEF Referring, Shown
<1>2. CASE "link" \notin ahead BY <1>2, Rows, AllType DEF Referring, Shown
<1> QED BY <1>1, <1>2

LEMMA CopiedType ==
  ASSUME NEW s \in [Row -> Time], NEW parts, NEW t \in Time
  PROVE  /\ Copied(s, parts, t) \in [Row -> Time]
         /\ \/ Copied(s, parts, t) = All(t)
            \/ /\ Copied(s, parts, t)["draft"] = s["draft"]
               /\ Copied(s, parts, t)["official"] = s["draft"]
               /\ Copied(s, parts, t)["program"] = s["program"]
<1>1. CASE "newslug" \in parts BY <1>1, AllType DEF Copied
<1>2. CASE "newslug" \notin parts BY <1>2, Rows DEF Copied
<1> QED BY <1>1, <1>2

LEMMA CopiedAll ==
  ASSUME NEW parts, NEW t \in Time PROVE Copied(All(t), parts, t) = All(t)
BY Rows DEF Copied, All

\* A history without a cause was and gets none.
LEMMA NotedCause ==
  ASSUME TypeOK, NEW cause \in Cause \cup {"none"}, Noted(cause)
  PROVE  /\ stray' \in Cause \cup {"none", "several"}
         /\ stray' = "none" => stray = "none" /\ cause = "none"
<1>1. CASE cause = "none" BY <1>1 DEF Noted, TypeOK
<1>2. CASE cause # "none" /\ stray \in {"none", cause} BY <1>2 DEF Noted, TypeOK
<1>3. CASE cause # "none" /\ stray \notin {"none", cause} BY <1>3 DEF Noted, TypeOK, Cause
<1> QED BY <1>1, <1>2, <1>3

LEMMA OvertakeType ==
  ASSUME TypeOK, Overtake
  PROVE  /\ request' \in Request /\ request'.at # "work"
         /\ request'.at # "idle" => request.at # "idle" /\ request'.time = request.time
BY DEF Overtake, TypeOK, Request

LEMMA IdleType == Idle \in Request /\ Idle.at = "idle"
BY DEF Idle, Request, Time

\* Whoever stamps all rows, at a time that the client has not passed, keeps all.
LEMMA StampedAll ==
  ASSUME IInv, stray = "none", TypeOK', NEW t \in Time, since <= t, t <= clock,
         stamp' = All(t), UNCHANGED <<clock, since>>,
         request'.at # "work",
         request'.at # "idle" => request.at # "idle" /\ request'.time = request.time
  PROVE  Good'
<1>1. /\ stamp'["draft"] = t /\ stamp'["official"] = t /\ stamp'["program"] = t
      /\ \A r \in Row : stamp'[r] = t
  BY AllType, Rows
<1>2. unread' \subseteq Row BY Rows DEF TypeOK
<1>3. AskedBefore' BY DEF IInv, Good, AskedBefore
<1>4. t \in Nat /\ since' \in Nat /\ clock' \in Nat BY DEF TypeOK, Time
<1> QED BY <1>1, <1>2, <1>3, <1>4 DEF Good, Told, Fresh, DraftNotOlder

---------------------------------------------------------------------------
(* Requests.                                                               *)

LEMMA BeginKeeps == ASSUME IInv, Begin PROVE IInv'
<1>1. TypeOK'
  BY Rows DEF IInv, Begin, TypeOK, Request
<1>2. ASSUME stray' = "none" PROVE Good'
  BY <1>2, Rows DEF IInv, Begin, TypeOK, Good, Told, AskedBefore, Fresh, DraftNotOlder, Time
<1> QED BY <1>1, <1>2 DEF IInv

LEMMA RequestFailsKeeps == ASSUME IInv, RequestFails PROVE IInv'
BY IdleType DEF IInv, RequestFails, TypeOK, Good, Told, AskedBefore, Fresh, DraftNotOlder

LEMMA CreateRunKeeps ==
  ASSUME IInv, NEW rerun \in BOOLEAN, NEW t \in Moments, CreateRun(rerun, t)
  PROVE  IInv'
<1>1. t \in Time /\ request.time <= t /\ t <= clock BY DEF Moments
<1>2. TypeOK'
  BY <1>1, AllType, IdleType DEF IInv, CreateRun, TypeOK, Part, Slugs
<1>3. ASSUME stray' = "none" PROVE Good'
  <2>1. stray = "none" /\ Good BY <1>3 DEF CreateRun, IInv
  <2>2. CASE rerun
    BY <2>1, <2>2, <1>1, <1>2, StampedAll, IdleType
       DEF CreateRun, Working, Good, AskedBefore, IInv, TypeOK, Time, Request
  <2>3. CASE ~rerun
    BY <2>1, <2>3, IdleType DEF CreateRun, Good, Told, AskedBefore, Fresh, DraftNotOlder
  <2> QED BY <2>2, <2>3
<1> QED BY <1>2, <1>3 DEF IInv

LEMMA ProgramSaveKeeps ==
  ASSUME IInv, NEW changed \in BOOLEAN, NEW t \in Moments, ProgramSave(changed, t)
  PROVE  IInv'
<1>1. t \in Time /\ request.time <= t /\ t <= clock BY DEF Moments
<1>2. TypeOK /\ Working BY DEF IInv, ProgramSave
<1> DEFINE cause == IF request.at = "overtaken" THEN "late" ELSE "none"
<1>3. /\ stray' \in Cause \cup {"none", "several"}
      /\ stray' = "none" => stray = "none" /\ cause = "none"
  <2>1. cause \in Cause \cup {"none"} BY DEF Cause
  <2>2. Noted(cause) BY DEF ProgramSave
  <2> HIDE DEF cause
  <2> QED BY <1>2, <2>1, <2>2, NotedCause
<1>4. TypeOK'
  BY <1>1, <1>2, <1>3, IdleType, Rows DEF ProgramSave, TypeOK, Request, Shown
<1>5. ASSUME stray' = "none" PROVE Good'
  <2>1. Good /\ request.at = "work"
    BY <1>2, <1>3, <1>5 DEF IInv, Working, TypeOK, Request
  <2>2. /\ stamp'["draft"] = stamp["draft"] /\ stamp'["official"] = stamp["official"]
        /\ stamp'["program"] = IF changed THEN t ELSE stamp["program"]
    BY <1>2, <2>1, Rows DEF ProgramSave, TypeOK, Good, Fresh
  <2>3. request'.at = "idle" /\ UNCHANGED <<clock, since, ahead, half>>
    BY IdleType DEF ProgramSave
  <2>4. changed => unread' = unread \cup {"program"} BY DEF ProgramSave
  <2>5. ~changed => unread' = unread BY DEF ProgramSave
  <2>6. since <= t /\ \A r \in Row : stamp[r] <= t
    BY <1>1, <1>2, <2>1, Rows DEF Good, AskedBefore, Fresh, TypeOK, Time, Request
  <2> QED BY <1>1, <1>2, <2>1, <2>2, <2>3, <2>4, <2>5, <2>6, Rows
          DEF Good, Told, AskedBefore, Fresh, DraftNotOlder, TypeOK, Time, Shown
<1> QED BY <1>4, <1>5 DEF IInv

---------------------------------------------------------------------------
(* Commands, the loader and related objects.                               *)

LEMMA PublishRunKeeps == ASSUME IInv, PublishRun PROVE IInv'
<1>1. TypeOK BY DEF IInv
<1>2. TypeOK'
  BY <1>1, AllType, OvertakeType DEF PublishRun, TypeOK
<1>3. ASSUME stray' = "none" PROVE Good'
  BY <1>1, <1>2, <1>3, OvertakeType, StampedAll DEF PublishRun, IInv, Good, TypeOK, Time
<1> QED BY <1>2, <1>3 DEF IInv

LEMMA SaveOfficialRunKeeps == ASSUME IInv, SaveOfficialRun PROVE IInv'
<1>1. TypeOK BY DEF IInv
<1>2. TypeOK'
  BY <1>1, OvertakeType DEF SaveOfficialRun, TypeOK, Part, Slugs
<1>3. ASSUME stray' = "none" PROVE Good'
  BY <1>1, <1>3, OvertakeType DEF SaveOfficialRun, IInv, Good, Told, AskedBefore, Fresh, DraftNotOlder
<1> QED BY <1>2, <1>3 DEF IInv

LEMMA SaveDraftRunKeeps ==
  ASSUME IInv, NEW agree \in BOOLEAN, SaveDraftRun(agree) PROVE IInv'
<1>1. TypeOK BY DEF IInv
<1>2. TypeOK'
  BY <1>1, AllType, OvertakeType DEF SaveDraftRun, TypeOK
<1>3. ASSUME stray' = "none" PROVE Good'
  BY <1>1, <1>2, <1>3, OvertakeType, StampedAll DEF SaveDraftRun, IInv, Good, TypeOK, Time
<1> QED BY <1>2, <1>3 DEF IInv

LEMMA CommandDiesKeeps == ASSUME IInv, CommandDies PROVE IInv'
<1>1. TypeOK /\ Noted("died") BY DEF IInv, CommandDies
<1>2. stray' \in Cause \cup {"none", "several"} /\ stray' # "none"
  BY <1>1, NotedCause DEF Cause
<1> QED BY <1>1, <1>2 DEF CommandDies, IInv, TypeOK

LEMMA SaveOfficialRunOnlyKeeps ==
  ASSUME IInv, NEW agree \in BOOLEAN, SaveOfficialRunOnly(agree) PROVE IInv'
<1>1. TypeOK /\ Noted("skipped") /\ Overtake BY DEF IInv, SaveOfficialRunOnly
<1>2. stray' \in Cause \cup {"none", "several"} /\ stray' # "none"
  BY <1>1, NotedCause DEF Cause
<1> QED BY <1>1, <1>2, OvertakeType DEF SaveOfficialRunOnly, IInv, TypeOK

LEMMA ArchiveDraftKeeps == ASSUME IInv, ArchiveDraft PROVE IInv'
<1>1. TypeOK BY DEF IInv
<1>2. TypeOK'
  BY <1>1, AllType, OvertakeType DEF ArchiveDraft, TypeOK, Part, Slugs
<1>3. ASSUME stray' = "none" PROVE Good'
  BY <1>1, <1>2, <1>3, OvertakeType, StampedAll DEF ArchiveDraft, IInv, Good, TypeOK, Time
<1> QED BY <1>2, <1>3 DEF IInv

LEMMA LoadNewRunKeeps == ASSUME IInv, LoadNewRun PROVE IInv'
<1>1. TypeOK BY DEF IInv
<1> DEFINE cause == IF "newslug" \in ahead THEN "none" ELSE "studio"
<1>2. /\ stray' \in Cause \cup {"none", "several"}
      /\ stray' = "none" => stray = "none" /\ cause = "none"
  <2>1. cause \in Cause \cup {"none"} BY DEF Cause
  <2>2. Noted(cause) BY DEF LoadNewRun
  <2> HIDE DEF cause
  <2> QED BY <1>1, <2>1, <2>2, NotedCause
<1>3. TypeOK'
  BY <1>1, <1>2, CopiedType, OvertakeType DEF LoadNewRun, TypeOK
<1>4. ASSUME stray' = "none" PROVE Good'
  <2>1. stamp' = All(clock) BY <1>2, <1>4 DEF LoadNewRun, Copied
  <2> QED BY <1>1, <1>2, <1>3, <1>4, <2>1, OvertakeType, StampedAll
          DEF LoadNewRun, IInv, Good, TypeOK, Time
<1> QED BY <1>3, <1>4 DEF IInv

LEMMA RelatedSaveKeeps ==
  ASSUME IInv, NEW refer \in SUBSET Row, RelatedSave(refer) PROVE IInv'
<1>1. TypeOK /\ Overtake BY DEF IInv, RelatedSave
<1>2. TypeOK'
  BY <1>1, OvertakeType DEF RelatedSave, TypeOK, Shown
<1>3. ASSUME stray' = "none" PROVE Good'
  <2>1. Good BY <1>3 DEF RelatedSave, IInv
  <2>2. /\ stamp'["program"] = IF refer \cap Shown # {} THEN clock ELSE stamp["program"]
        /\ stamp'["draft"] = IF "draft" \in refer THEN clock ELSE stamp["draft"]
        /\ stamp'["official"] = IF "official" \in refer THEN clock ELSE stamp["official"]
        /\ "official" \in refer /\ "draft" \notin refer => "link" \in ahead
    BY Rows DEF RelatedSave, Shown
  <2>3. \A r \in Row : stamp'[r] = stamp[r] \/ stamp'[r] = clock
    BY <2>2, Rows, <1>1 DEF RelatedSave
  <2>11. unread' \subseteq unread \cup {r \in Shown : stamp'[r] = clock}
    BY <2>2, Rows DEF RelatedSave, Shown
  <2>4. \A r \in Row : stamp[r] \in Nat BY <1>1 DEF TypeOK, Time
  <2>5. clock \in Nat /\ since \in Nat BY <1>1 DEF TypeOK, Time
  <2>6. UNCHANGED <<clock, since, ahead, half>> BY DEF RelatedSave
  <2>7. Told'
    <3>1. ASSUME half = "no", NEW r \in unread' PROVE stamp'[r] >= since
      <4>1. r \in Row BY <1>2, Rows DEF TypeOK
      <4>2. CASE stamp'[r] = clock BY <4>2, <2>1, <2>5 DEF Good
      <4>3. CASE stamp'[r] = stamp[r] /\ stamp[r] # clock
        <5>1. r \in unread BY <4>3, <2>11, <3>1
        <5> QED BY <5>1, <4>3, <3>1, <2>1 DEF Good, Told
      <4> QED BY <4>1, <4>2, <4>3, <2>3
    <3> QED BY <3>1, <2>6 DEF Told
  <2>8. DraftNotOlder'
    BY <2>1, <2>2, <2>4, <2>5, <2>6, Rows DEF RelatedSave, Good, DraftNotOlder
  <2>9. AskedBefore' /\ Fresh'
    BY <1>1, <2>1, <2>6, OvertakeType DEF Good, AskedBefore, Fresh
  <2>10. since' <= clock' /\ \A r \in Row : stamp'[r] <= clock'
    BY <2>1, <2>3, <2>4, <2>5, <2>6 DEF Good
  <2> QED BY <2>7, <2>8, <2>9, <2>10 DEF Good
<1> QED BY <1>2, <1>3 DEF IInv

LEMMA UntrackedSaveKeeps ==
  ASSUME IInv, NEW shown \in {Shown, {"program"}}, UntrackedSave(shown) PROVE IInv'
<1>1. TypeOK /\ Noted("untracked") BY DEF IInv, UntrackedSave
<1>2. stray' \in Cause \cup {"none", "several"} /\ stray' # "none"
  BY <1>1, NotedCause DEF Cause
<1> QED BY <1>1, <1>2 DEF UntrackedSave, IInv, TypeOK, Shown

LEMMA LoadCountsKeeps == ASSUME IInv, NEW both \in BOOLEAN, LoadCounts(both) PROVE IInv'
<1>1. TypeOK /\ Noted("count") /\ Overtake BY DEF IInv, LoadCounts
<1>2. stray' \in Cause \cup {"none", "several"} /\ stray' # "none"
  BY <1>1, NotedCause DEF Cause
<1> QED BY <1>1, <1>2, OvertakeType DEF LoadCounts, IInv, TypeOK

---------------------------------------------------------------------------
(* The client and the clock.                                               *)

LEMMA PollKeeps == ASSUME IInv, Poll PROVE IInv'
<1>1. TypeOK BY DEF IInv
<1> DEFINE cause == IF request.at = "idle" THEN "none" ELSE "overlap"
<1>2. /\ stray' \in Cause \cup {"none", "several"}
      /\ stray' = "none" => stray = "none" /\ cause = "none"
  <2>1. cause \in Cause \cup {"none"} BY DEF Cause
  <2>2. Noted(cause) BY DEF Poll
  <2> HIDE DEF cause
  <2> QED BY <1>1, <2>1, <2>2, NotedCause
<1>3. TypeOK' BY <1>1, <1>2 DEF Poll, TypeOK
<1>4. ASSUME stray' = "none" PROVE Good'
  <2>1. Good /\ request.at = "idle" BY <1>2, <1>4 DEF IInv
  <2>2. half = "no" => unread' = {} BY <1>1, <2>1 DEF Poll, Listed, Good, Told, TypeOK
  <2>3. Told' BY <2>2 DEF Told, Poll
  <2>4. since' <= clock' BY <1>1 DEF Poll, TypeOK, Time
  <2> QED BY <2>1, <2>3, <2>4 DEF Poll, Good, AskedBefore, Fresh, DraftNotOlder
<1> QED BY <1>3, <1>4 DEF IInv

LEMMA TickKeeps == ASSUME IInv, Tick PROVE IInv'
<1>1. TypeOK BY DEF IInv
<1>2. TypeOK' BY <1>1 DEF Tick, TypeOK, Time
<1>3. ASSUME stray' = "none" PROVE Good'
  <2>1. Good BY <1>3 DEF Tick, IInv
  <2>2. /\ clock' = clock + 1 /\ clock \in Nat /\ since \in Nat /\ request.time \in Nat
        /\ \A r \in Row : stamp[r] \in Nat
    BY <1>1 DEF Tick, TypeOK, Time, Request
  <2>3. AskedBefore' BY <2>1, <2>2 DEF Tick, Good, AskedBefore
  <2>4. since' <= clock' /\ \A r \in Row : stamp'[r] <= clock'
    BY <2>1, <2>2 DEF Tick, Good
  <2> QED BY <2>1, <2>3, <2>4 DEF Tick, Good, Told, Fresh, DraftNotOlder
<1> QED BY <1>2, <1>3 DEF IInv

---------------------------------------------------------------------------
(* PATCH /course_runs/<key>/.                                              *)

LEMMA RunUpdateKeeps ==
  ASSUME IInv, NEW changed \in RunChange, NEW back, NEW goes, NEW t \in Moments,
         RunUpdate(changed, back, goes, t)
  PROVE  IInv'
<1> DEFINE edited == IF changed \in {"yes", "quiet"} THEN (ahead \cup {"run"}) \ back ELSE ahead
           saved  == IF changed = "yes" THEN All(t) ELSE stamp
           final  == IF goes = "all" THEN Copied(saved, edited, t) ELSE saved
           out    == IF goes = "all" THEN edited ELSE {}
           shows  == goes = "revert" \/ out # {} \/ changed = "lifted"
           told   == \A r \in Shown : final[r] = t
           cause  == CASE changed \in {"quiet", "lifted"} -> "quiet"
                       [] changed \in {"no", "yes"} /\ shows /\ (\E r \in Shown : final[r] # t) ->
                            "release"
                       [] OTHER -> "none"
<1>1. TypeOK /\ Working BY DEF IInv, RunUpdate
<1>2. t \in Time /\ request.time <= t /\ t <= clock BY DEF Moments
<1> USE DEF RunChange
<1>3. /\ stamp' = final
      /\ ahead' = edited \ out
      /\ unread' = IF shows THEN Shown ELSE unread
      /\ request' = Idle
      /\ UNCHANGED <<clock, since, half>>
      /\ goes = "revert" => changed = "yes"
      /\ back \subseteq {"run"}
  BY DEF RunUpdate
<1>4. /\ stray' \in Cause \cup {"none", "several"}
      /\ stray' = "none" => stray = "none" /\ (shows => told) /\ changed \in {"no", "yes"}
  <2>1. Noted(cause) BY DEF RunUpdate
  <2> HIDE DEF shows, final
  <2>2. cause \in Cause \cup {"none"} BY DEF Cause
  <2>3. cause = "none" => (shows => told) /\ changed \in {"no", "yes"} OBVIOUS
  <2> HIDE DEF cause, told
  <2> QED BY <1>1, <2>1, <2>2, <2>3, NotedCause
<1>5. saved \in [Row -> Time] BY <1>1, <1>2, AllType DEF TypeOK
<1>6. final \in [Row -> Time]
  <2> HIDE DEF saved, edited
  <2> QED BY <1>2, <1>5, CopiedType
<1>7. ahead' \subseteq Part /\ ~(Slugs \subseteq ahead')
  BY <1>1, <1>3 DEF TypeOK, Part, Slugs
<1>8. TypeOK'
  <2> HIDE DEF saved, edited, final, shows
  <2> QED BY <1>1, <1>3, <1>4, <1>6, <1>7, IdleType DEF TypeOK, Shown
<1>9. ASSUME stray' = "none" PROVE Good'
  <2>1. stray = "none" /\ Good /\ since <= t
    BY <1>1, <1>2, <1>4, <1>9 DEF IInv, Good, AskedBefore, Working, TypeOK, Time, Request
  <2>2. CASE final = All(t)
    <3> HIDE DEF saved, edited, final, shows
    <3> QED BY <1>2, <1>3, <1>8, <2>1, <2>2, IdleType, StampedAll
  <2>3. CASE final # All(t) /\ goes # "all"
    <3>1. final = stamp /\ ~shows BY <1>3, <1>4, <1>9, <2>3
    <3>2. "link" \in ahead => "link" \in ahead' BY <1>3, <2>3
    <3> HIDE DEF saved, edited, final, shows
    <3> QED BY <1>3, <2>1, <3>1, <3>2, IdleType
            DEF Good, Told, AskedBefore, Fresh, DraftNotOlder
  <2>4. CASE final # All(t) /\ goes = "all"
    <3>1. changed = "no"
      BY <2>4, <1>2, <1>4, <1>9, CopiedType, AllType, Rows DEF All, Copied
    <3>2. /\ stamp'["draft"] = stamp["draft"] /\ stamp'["official"] = stamp["draft"]
          /\ stamp'["program"] = stamp["program"]
      BY <1>1, <1>2, <1>3, <2>4, <3>1, CopiedType DEF TypeOK
    <3>3. \/ stamp["draft"] >= since /\ stamp["program"] >= since
          \/ stamp["draft"] >= stamp["official"] /\ unread' = unread
      <4>1. CASE shows
        <5>1. stamp'["official"] = t /\ stamp'["program"] = t
          BY <4>1, <1>3, <1>4, <1>9 DEF Shown
        <5> QED BY <5>1, <3>2, <2>1, <1>1, <1>2 DEF TypeOK, Time
      <4>2. CASE ~shows
        <5>1. ahead = {} BY <2>4, <3>1, <4>2
        <5> QED BY <5>1, <1>3, <4>2, <2>1 DEF Good, DraftNotOlder
      <4> QED BY <4>1, <4>2
    <3>4. /\ \A r \in Row : stamp[r] \in Nat
          /\ since \in Nat /\ clock \in Nat /\ unread \subseteq Shown /\ unread' \subseteq Shown
          /\ half' = half /\ since' = since /\ clock' = clock /\ request'.at = "idle"
      BY <1>1, <1>3, <1>8, IdleType DEF TypeOK, Time
    <3> HIDE DEF saved, edited, final, shows
    <3>5. Told'
      <4>1. CASE stamp["draft"] >= since /\ stamp["program"] >= since
        BY <4>1, <2>1, <3>2, <3>4, Rows DEF Told, Shown
      <4>2. CASE stamp["draft"] >= stamp["official"] /\ unread' = unread
        BY <4>2, <2>1, <3>2, <3>4, Rows DEF Good, Told, Shown
      <4> QED BY <4>1, <4>2, <3>3
    <3>6. DraftNotOlder' /\ AskedBefore' /\ Fresh'
      BY <2>1, <3>2, <3>4, Rows DEF DraftNotOlder, AskedBefore, Fresh, Good
    <3>7. since' <= clock' /\ \A r \in Row : stamp'[r] <= clock'
      BY <2>1, <3>2, <3>4, Rows DEF Good
    <3> QED BY <3>5, <3>6, <3>7 DEF Good
  <2> QED BY <2>2, <2>3, <2>4
<1> QED BY <1>8, <1>9 DEF IInv

---------------------------------------------------------------------------
(* PATCH /courses/<key>/.                                                  *)

LEMMA SavedType ==
  ASSUME TypeOK, NEW e, NEW reported \in BOOLEAN, NEW t \in Time
  PROVE  Saved(e, reported, t) \in [Row -> Time]
<1> DEFINE sold   == IF "price" \in e THEN All(t) ELSE stamp
           linked == IF e \cap {"related", "certificate"} # {} THEN Referring(sold, t) ELSE sold
           loaded == CASE "related" \in e -> linked["draft"]
                       [] "related" \notin e /\ reported -> sold["draft"]
                       [] OTHER -> request.draft
<1>1. sold \in [Row -> Time] BY AllType DEF TypeOK
<1>2. linked \in [Row -> Time]
  <2> HIDE DEF sold
  <2> QED BY <1>1, ReferringType
<1>3. loaded \in Time
  <2> HIDE DEF sold, linked
  <2> QED BY <1>1, <1>2, Rows DEF TypeOK, Request
<1>4. Saved(e, reported, t) =
        IF e \cap {"fields", "link"} # {} THEN [linked EXCEPT !["draft"] = t, !["program"] = t]
        ELSE [linked EXCEPT !["draft"] = loaded]
  BY DEF Saved
<1> HIDE DEF sold, linked, loaded
<1> QED BY <1>2, <1>3, <1>4, Rows

\* What the save of the draft row leaves, when it has forgotten no timestamp.
LEMMA SavedFresh ==
  ASSUME TypeOK, request.at = "work", Fresh, NEW e, NEW reported \in BOOLEAN,
         NEW t \in Time, ~Forgets(e, Saved(e, reported, t), t)
  PROVE  LET s == Saved(e, reported, t)
         IN  \/ s = stamp /\ "link" \notin e
             \/ s["draft"] = t /\ \A r \in Shown : s[r] \in {stamp[r], t}
<1> DEFINE sold   == IF "price" \in e THEN All(t) ELSE stamp
           linked == IF e \cap {"related", "certificate"} # {} THEN Referring(sold, t) ELSE sold
           loaded == CASE "related" \in e -> linked["draft"]
                       [] "related" \notin e /\ reported -> sold["draft"]
                       [] OTHER -> request.draft
           s      == Saved(e, reported, t)
<1>1. sold \in [Row -> Time] /\ \A r \in Shown : sold[r] \in {stamp[r], t}
  BY AllType, Rows DEF TypeOK
<1>2. /\ linked \in [Row -> Time]
      /\ \A r \in Shown : linked[r] \in {stamp[r], t}
      /\ e \cap {"related", "certificate"} = {} => linked = sold
  <2> HIDE DEF sold
  <2> QED BY <1>1, ReferringType
<1>3. s = IF e \cap {"fields", "link"} # {} THEN [linked EXCEPT !["draft"] = t, !["program"] = t]
          ELSE [linked EXCEPT !["draft"] = loaded]
  BY DEF Saved
<1>4. CASE e \cap {"fields", "link"} # {}
  <2> HIDE DEF sold, linked, loaded
  <2> QED BY <1>2, <1>3, <1>4, Rows DEF Shown
<1>5. CASE e \cap {"fields", "link"} = {} /\ e \cap {"price", "related", "certificate"} # {}
  <2>1. s["draft"] = t BY <1>5 DEF Forgets
  <2>2. \A r \in Shown : s[r] = linked[r]
    <3> HIDE DEF linked, loaded, s
    <3>1. s = [linked EXCEPT !["draft"] = loaded] BY <1>3, <1>5
    <3> QED BY <3>1, <1>2, Rows DEF Shown
  <2>3. s["draft"] = t /\ \A r \in Shown : s[r] \in {stamp[r], t}
    <3> HIDE DEF s, linked
    <3> QED BY <2>1, <2>2, <1>2
  <2> QED BY <2>3
<1>6. CASE e \cap {"fields", "link"} = {} /\ e \cap {"price", "related", "certificate"} = {}
  <2>1. linked = stamp /\ sold = stamp BY <1>6
  <2>2. loaded = stamp["draft"]
    <3>1. "related" \notin e BY <1>6
    <3> QED BY <2>1, <3>1 DEF Fresh
  <2>3. s = [stamp EXCEPT !["draft"] = stamp["draft"]]
    <3> HIDE DEF linked, loaded
    <3> QED BY <1>3, <1>6, <2>1, <2>2
  <2>4. s = stamp
    <3> HIDE DEF s
    <3> QED BY <2>3 DEF TypeOK
  <2> QED BY <2>4, <1>6
<1> QED BY <1>4, <1>5, <1>6

LEMMA CauseOfType ==
  ASSUME TypeOK, Working, NEW e, NEW out, NEW shows \in BOOLEAN, NEW s, NEW t
  PROVE  /\ CauseOf(e, out, shows, s, t) \in Cause \cup {"none"}
         /\ CauseOf(e, out, shows, s, t) = "none" =>
              /\ request.at = "work" /\ ~Forgets(e, s, t)
              /\ shows => \A r \in Shown : s[r] = t
<1>1. request.at \in {"work", "overtaken"} BY DEF TypeOK, Working, Request
<1>2. CASE request.at = "overtaken" BY <1>2 DEF CauseOf, Cause
<1>3. CASE request.at = "work" /\ Forgets(e, s, t) BY <1>3 DEF CauseOf, Cause
<1>4. CASE request.at = "work" /\ ~Forgets(e, s, t) /\ shows /\ (\E r \in Shown : s[r] # t)
  BY <1>4 DEF CauseOf, Cause
<1>5. CASE request.at = "work" /\ ~Forgets(e, s, t) /\ ~(shows /\ (\E r \in Shown : s[r] # t))
  BY <1>5 DEF CauseOf, Cause
<1> QED BY <1>1, <1>2, <1>3, <1>4, <1>5

LEMMA CourseUpdateKeeps ==
  ASSUME IInv, NEW e \in Edits, NEW back \in SUBSET e, NEW quiet \in Quiet(e, back),
         NEW reported \in BOOLEAN,
         NEW goes \in {"no", "slug", "all"}, NEW reverts \in BOOLEAN, NEW t \in Moments,
         CourseUpdate(e, back, quiet, reported, goes, reverts, t)
  PROVE  IInv'
<1> DEFINE loud   == e \ quiet
           edited == EditedDraft(e, back)
           out    == CASE goes = "all" -> edited [] goes = "slug" -> edited \cap Slugs
                       [] OTHER -> {}
           saved  == IF StampsAll(loud, back) THEN All(t) ELSE Saved(loud, reported, t)
           copied == IF goes = "all" THEN Copied(saved, edited, t) ELSE saved
           final  == IF reverts THEN All(t) ELSE copied
           shows  == \/ out # {} \/ reverts
                     \/ e \cap {"related", "certificate"} # {} /\ "link" \notin ahead
<1>1. TypeOK /\ Working BY DEF IInv, CourseUpdate
<1>2. t \in Time /\ request.time <= t /\ t <= clock BY DEF Moments
<1>3. /\ stamp' = final
      /\ ahead' = edited \ out
      /\ unread' = IF shows THEN Shown ELSE unread
      /\ request' = Idle
      /\ UNCHANGED <<clock, since, half>>
      /\ back \subseteq e
  BY DEF CourseUpdate
<1>4. /\ stray' \in Cause \cup {"none", "several"}
      /\ stray' = "none" =>
           /\ stray = "none" /\ request.at = "work"
           /\ ~Forgets(loud, final, t) /\ (shows => \A r \in Shown : final[r] = t)
  <2>1. Noted(IF quiet # {} THEN "quiet" ELSE CauseOf(loud, out, shows, final, t))
    BY DEF CourseUpdate
  <2>2. shows \in BOOLEAN OBVIOUS
  <2> HIDE DEF loud, out, shows, final
  <2>3. CauseOf(loud, out, shows, final, t) \in Cause \cup {"none"} BY <1>1, <2>2, CauseOfType
  <2>4. CASE quiet # {}
    <3>1. Noted("quiet") BY <2>1, <2>4
    <3>2. "quiet" \in Cause /\ "quiet" # "none" BY DEF Cause
    <3> QED BY <1>1, <3>1, <3>2, NotedCause
  <2>5. CASE quiet = {}
    <3>1. Noted(CauseOf(loud, out, shows, final, t)) BY <2>1, <2>5
    <3> QED BY <1>1, <2>2, <2>3, <3>1, CauseOfType, NotedCause
  <2> QED BY <2>4, <2>5
<1>5. saved \in [Row -> Time] BY <1>1, <1>2, AllType, SavedType
<1>6. copied \in [Row -> Time]
  <2> HIDE DEF saved, edited
  <2> QED BY <1>2, <1>5, CopiedType
<1>7. final \in [Row -> Time]
  <2> HIDE DEF copied
  <2> QED BY <1>2, <1>6, AllType
<1>8. edited \subseteq Part /\ ~(Slugs \subseteq edited)
  <2>1. e \subseteq Edit /\ ~(Slugs \subseteq e) OBVIOUS
  <2> QED BY <1>1, <2>1 DEF EditedDraft, TypeOK, Part, Slugs
<1>9. ahead' \subseteq Part /\ ~(Slugs \subseteq ahead')
  <2> HIDE DEF edited, out
  <2> QED BY <1>3, <1>8
<1>10. TypeOK'
  <2> HIDE DEF edited, out, saved, copied, final, shows
  <2> QED BY <1>1, <1>3, <1>4, <1>7, <1>9, IdleType DEF TypeOK, Shown
<1>11. ASSUME stray' = "none" PROVE Good'
  <2>1. stray = "none" /\ Good /\ since <= t /\ request.at = "work"
    BY <1>1, <1>2, <1>4, <1>11 DEF IInv, Good, AskedBefore, Working, TypeOK, Time, Request
  <2>2. CASE final = All(t)
    <3> HIDE DEF edited, out, saved, copied, final, shows
    <3> QED BY <1>2, <1>3, <1>10, <2>1, <2>2, IdleType, StampedAll
  <2>3. CASE final # All(t)
    <3> DEFINE s == Saved(loud, reported, t)
    <3>1. ~reverts /\ final = copied BY <2>3
    <3>2. saved = s /\ final["draft"] = s["draft"] /\ final["program"] = s["program"]
          /\ final["official"] = IF goes = "all" THEN s["draft"] ELSE s["official"]
      <4>1. saved # All(t)
        <5>1. saved = All(t) => copied = All(t)
          <6> HIDE DEF saved, edited
          <6> QED BY <1>2, CopiedAll
        <5> HIDE DEF saved, copied, final
        <5> QED BY <5>1, <3>1, <2>3
      <4>2. saved = s BY <4>1
      <4>3. goes = "all" => copied["draft"] = saved["draft"] /\ copied["program"] = saved["program"]
                             /\ copied["official"] = saved["draft"]
        <5>1. goes = "all" => copied = Copied(saved, edited, t) OBVIOUS
        <5> HIDE DEF saved, copied, edited, final
        <5> QED BY <5>1, <1>2, <1>5, <3>1, <2>3, CopiedType
      <4>4. goes # "all" => copied = saved OBVIOUS
      <4> HIDE DEF saved, copied, final, s
      <4> QED BY <4>2, <4>3, <4>4, <3>1
    <3>3. ~Forgets(loud, s, t)
      <4> HIDE DEF saved, final, s
      <4> QED BY <1>4, <1>11, <3>2 DEF Forgets
    <3>4. \/ s = stamp /\ "link" \notin e
          \/ /\ s["draft"] = t
             /\ s["program"] \in {stamp["program"], t} /\ s["official"] \in {stamp["official"], t}
      <4>1. \/ s = stamp /\ "link" \notin loud
            \/ s["draft"] = t /\ \A r \in Shown : s[r] \in {stamp[r], t}
        <5> HIDE DEF loud
        <5> QED BY <1>1, <1>2, <2>1, <3>3, SavedFresh DEF Good
      <4>2. "link" \notin quiet BY DEF Quiet
      <4> HIDE DEF s
      <4> QED BY <4>1, <4>2 DEF Shown
    <3>5. /\ stamp["draft"] \in Nat /\ stamp["official"] \in Nat /\ stamp["program"] \in Nat
          /\ t \in Nat /\ since \in Nat /\ clock \in Nat
          /\ stamp["draft"] <= t /\ stamp["official"] <= t /\ stamp["program"] <= t
      BY <1>1, <1>2, <2>1, Rows DEF TypeOK, Time, Good, Fresh, Request
    <3>6. "link" \in ahead /\ "link" \notin edited => "link" \in e
      BY <1>3 DEF EditedDraft, Slugs
    <3>7. goes # "all" => "link" \notin out BY DEF Slugs
    <3>8. ~shows /\ goes = "all" => edited = {} OBVIOUS
    <3>9. shows => final["official"] = t /\ final["program"] = t
      <4> HIDE DEF shows, final
      <4> QED BY <1>4, <1>11 DEF Shown
    <3> HIDE DEF loud, edited, out, saved, copied, final, shows, s
    <3>11. DraftNotOlder'
      <4>1. ASSUME goes # "all", "link" \notin ahead' PROVE s["draft"] >= s["official"]
        <5>1. "link" \notin ahead \/ "link" \in e BY <4>1, <1>3, <3>6, <3>7
        <5> QED BY <5>1, <2>1, <3>4, <3>5 DEF Good, DraftNotOlder
      <4>2. s["draft"] >= s["draft"] BY <3>4, <3>5
      <4> QED BY <4>1, <4>2, <1>3, <3>2 DEF DraftNotOlder
    <3>12. Told'
      <4>1. ASSUME shows PROVE final["official"] >= since /\ final["program"] >= since
        BY <4>1, <3>9, <2>1
      <4>2. ASSUME ~shows
            PROVE  final["official"] >= stamp["official"] /\ final["program"] >= stamp["program"]
        <5>1. CASE goes # "all" BY <5>1, <3>2, <3>4, <3>5
        <5>2. CASE goes = "all"
          <6>1. "link" \notin ahead \/ "link" \in e BY <5>2, <4>2, <3>6, <3>8
          <6> QED BY <6>1, <5>2, <2>1, <3>2, <3>4, <3>5 DEF Good, DraftNotOlder
        <5> QED BY <5>1, <5>2
      <4>3. CASE shows BY <4>1, <4>3, <1>3 DEF Told, Shown
      <4>4. CASE ~shows
        <5>1. final["official"] \in Nat /\ final["program"] \in Nat BY <3>2, <3>4, <3>5
        <5>2. unread' = unread /\ unread \subseteq {"official", "program"}
          BY <4>4, <1>1, <1>3 DEF TypeOK, Shown
        <5> QED BY <5>1, <5>2, <4>2, <4>4, <1>3, <2>1, <3>5 DEF Told, Good
      <4> QED BY <4>3, <4>4
    <3>13. since' <= clock' /\ \A r \in Row : stamp'[r] <= clock'
      <4>1. stamp'["draft"] <= clock /\ stamp'["official"] <= clock /\ stamp'["program"] <= clock
        BY <1>2, <1>3, <3>2, <3>4, <3>5
      <4> QED BY <4>1, <1>3, <2>1, Rows DEF Good
    <3>14. AskedBefore' /\ Fresh' BY <1>3, IdleType DEF AskedBefore, Fresh
    <3> QED BY <3>11, <3>12, <3>13, <3>14 DEF Good
  <2> QED BY <2>2, <2>3
<1> QED BY <1>10, <1>11 DEF IInv

---------------------------------------------------------------------------
(* The theorems.                                                           *)

LEMMA InitHolds == Init => IInv
BY IdleType, Rows DEF Init, IInv, TypeOK, Good, Told, AskedBefore, Fresh, DraftNotOlder, Time, Part,
   Slugs, Shown, Cause, Idle

LEMMA StepKeeps == IInv /\ [Next]_vars => IInv'
<1> SUFFICES ASSUME IInv, [Next]_vars PROVE IInv'
  OBVIOUS
<1>1. CASE RequestStep
  <2>1. CASE Begin \/ RequestFails BY <2>1, BeginKeeps, RequestFailsKeeps
  <2>2. ASSUME NEW t \in Moments, NEW e \in Edits, NEW reported \in BOOLEAN,
               NEW reverts \in BOOLEAN, NEW goes \in {"no", "slug", "all"},
               NEW back \in SUBSET e, NEW quiet \in Quiet(e, back),
               CourseUpdate(e, back, quiet, reported, goes, reverts, t)
        PROVE  IInv'
    BY <2>2, CourseUpdateKeeps
  <2>3. ASSUME NEW t \in Moments, NEW changed \in RunChange,
               NEW back \in SUBSET {"run"}, NEW goes \in {"no", "revert", "all"},
               RunUpdate(changed, back, goes, t)
        PROVE  IInv'
    BY <2>3, RunUpdateKeeps
  <2>4. ASSUME NEW t \in Moments, NEW rerun \in BOOLEAN, CreateRun(rerun, t) PROVE IInv'
    BY <2>4, CreateRunKeeps
  <2>5. ASSUME NEW t \in Moments, NEW changed \in BOOLEAN, ProgramSave(changed, t) PROVE IInv'
    BY <2>5, ProgramSaveKeeps
  <2>6. CASE \E t \in Moments : \E e \in Edits, reported, reverts \in BOOLEAN,
                                 goes \in {"no", "slug", "all"} :
               \E back \in SUBSET e : \E quiet \in Quiet(e, back) :
                 CourseUpdate(e, back, quiet, reported, goes, reverts, t)
    BY <2>2, <2>6
  <2>7. CASE \E t \in Moments : \E changed \in RunChange,
               back \in SUBSET {"run"}, goes \in {"no", "revert", "all"} :
                 RunUpdate(changed, back, goes, t)
    BY <2>3, <2>7
  <2> QED BY <1>1, <2>1, <2>4, <2>5, <2>6, <2>7 DEF RequestStep
<1>2. CASE CommandStep
  BY <1>2, PublishRunKeeps, SaveOfficialRunKeeps, SaveDraftRunKeeps, SaveOfficialRunOnlyKeeps,
     CommandDiesKeeps, ArchiveDraftKeeps, LoadNewRunKeeps, RelatedSaveKeeps, UntrackedSaveKeeps,
     LoadCountsKeeps DEF CommandStep
<1>3. CASE Poll BY <1>3, PollKeeps
<1>4. CASE Tick BY <1>4, TickKeeps
<1>5. CASE UNCHANGED vars
  BY <1>5 DEF vars, IInv, TypeOK, Good, Told, AskedBefore, Fresh, DraftNotOlder
<1> QED BY <1>1, <1>2, <1>3, <1>4, <1>5 DEF Next

LEMMA Invariance == Spec => []IInv
BY InitHolds, StepKeeps, PTL DEF Spec

\* For every clock and every choice of edits each variable keeps its type; the
\* draft has never both a new and an old slug waiting.
THEOREM FeedTypeCorrect == Spec => []TypeOK
<1>1. IInv => TypeOK BY DEF IInv
<1> QED BY <1>1, Invariance, PTL

\* Whatever courses, runs, programs and related objects are saved, published,
\* swept or loaded, in whatever order: until one of the causes occurs a client
\* that asks for everything since it asked last misses nothing.
THEOREM FeedMissesNothingThm == Spec => []FeedMissesNothing
<1>1. IInv => FeedMissesNothing BY DEF IInv, Good, FeedMissesNothing
<1> QED BY <1>1, Invariance, PTL

===========================================================================
