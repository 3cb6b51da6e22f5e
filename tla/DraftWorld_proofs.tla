------------------------- MODULE DraftWorld_proofs -------------------------
(***************************************************************************)
(* Proofs about DraftWorld, for every set of runs, requests and loader     *)
(* threads.                                                                *)
(***************************************************************************)
EXTENDS DraftWorld, TLAPS

USE DraftWorldAssumption

---------------------------------------------------------------------------
(* The inductive invariant.                                                *)

CourseInv ==
  /\ course = "none" =>
       /\ official = {} /\ \A q \in Request : request[q] = NoWork
       /\ \A l \in Loader : loader[l] = Resting
  /\ course \in {"none", "alone"} => AllFinished /\ stray = {}
  /\ course # "linked" => draft = {} /\ draftCanonical = NoRun /\ edited = "no"
  /\ course = "split" /\ "died" \notin stray => \E q \in Request : request[q].at = "link"

\* What one request knows: the course has its rows, the canonical run is among
\* those that are or will be copied, and so are all official ones unless a
\* loader came late; the draft rows are its own unless somebody came early.
RequestFacts(q) ==
  /\ request[q].at = "away" => request[q] = NoWork
  /\ request[q].at # "pair" => request[q].run = NoRun
  /\ request[q].seen \in official \cup {NoRun}
  /\ request[q].todo \subseteq official
  /\ request[q].at = "link" => course = "split"
  /\ request[q].at \in {"list", "copy", "pair"} => course = "linked"
  /\ request[q].at \in {"copy", "pair"} =>
       request[q].seen \in request[q].todo \cup paired \cup {NoRun}
  /\ request[q].at \in {"copy", "pair"} /\ "late" \notin stray =>
       official \subseteq paired \cup request[q].todo
  /\ request[q].at \in {"list", "copy", "pair"} /\ "late" \notin stray =>
       canonical = request[q].seen
  /\ Unfinished(q) /\ "early" \notin stray =>
       /\ edited = "no"
       /\ request[q].at \in {"link", "list"} => draft = {}
       /\ request[q].todo \cap draft \subseteq {request[q].run}

RequestInv ==
  /\ \A q \in Request : RequestFacts(q)
  /\ \A p, q \in Request : Unfinished(p) /\ Unfinished(q) => p = q

\* Only the thread that created the course sets its canonical run.
LoaderFacts(l) ==
  /\ loader[l].at = "idle" => loader[l] = Resting
  /\ loader[l].at = "create" /\ loader[l].drafts = "yes" =>
       /\ course = "linked"
       /\ "late" \notin stray /\ loader[l].run \in official => loader[l].run \in paired
  /\ loader[l].at = "officiate" => course = "linked" /\ loader[l].run \in draft
  /\ loader[l].at = "canonical" => loader[l].created = "yes" /\ loader[l].run \in official
  /\ loader[l].created = "yes" =>
       /\ loader[l].drafts = "no"
       /\ canonical = NoRun /\ \A q \in Request : request[q].seen = NoRun

LoaderInv ==
  /\ \A l \in Loader : LoaderFacts(l)
  /\ \A k, l \in Loader : loader[k].created = "yes" /\ loader[l].created = "yes" => k = l

\* An official run with a draft row has it linked, or is about to.
PairInv ==
  stray \cap {"died", "late"} = {} =>
    \A r \in draft \cap official :
      r \in paired \/ \E q \in Request : request[q].at = "pair" /\ request[q].run = r

IInv ==
  /\ TypeOK /\ CourseInv /\ RequestInv /\ LoaderInv /\ PairInv
  /\ WorldIsWhole /\ ClashOnlyIfEarly /\ DraftKeepsCanonical

---------------------------------------------------------------------------
(* The steps.                                                              *)

LEMMA TypeStep ==
  ASSUME IInv, [Next]_vars
  PROVE  TypeOK'
<1> USE DEF IInv, TypeOK, RequestInv, RequestFacts, LoaderInv, LoaderFacts, Builder, Stages,
  NoWork, LoaderState, Resting, Trouble
<1>1. ASSUME NEW q \in Request, Find(q) PROVE TypeOK'
  BY <1>1 DEF Find, GoesOn, officialVars, draftVars
<1>2. ASSUME NEW q \in Request, InsertCourse(q) PROVE TypeOK'
  BY <1>2 DEF InsertCourse, GoesOn, Ends, officialVars, draftVars
<1>3. ASSUME NEW q \in Request, LinkCourse(q) PROVE TypeOK'
  BY <1>3 DEF LinkCourse, GoesOn, Noted, officialVars, draftVars
<1>4. ASSUME NEW q \in Request, ListRuns(q) PROVE TypeOK'
  BY <1>4 DEF ListRuns, GoesOn, officialVars, draftVars
<1>5. ASSUME NEW q \in Request, NEW r \in Run, CopyNew(q, r) PROVE TypeOK'
  BY <1>5 DEF CopyNew, GoesOn, officialVars, draftVars
<1>6. ASSUME NEW q \in Request, NEW r \in Run, CopyClashes(q, r) PROVE TypeOK'
  BY <1>6 DEF CopyClashes, Ends, Noted, officialVars, draftVars
<1>7. ASSUME NEW q \in Request, PairRun(q) PROVE TypeOK'
  BY <1>7 DEF PairRun, GoesOn, officialVars, draftVars
<1>8. ASSUME NEW q \in Request, Finish(q) PROVE TypeOK'
  BY <1>8 DEF Finish, Ends, officialVars, draftVars
<1>9. ASSUME NEW q \in Request, Dies(q) PROVE TypeOK'
  BY <1>9 DEF Dies, Ends, Noted, officialVars, draftVars
<1>10. ASSUME NEW seen \in {canonical, NoRun}, SaveFirst(seen) PROVE TypeOK'
  BY <1>10 DEF SaveFirst, BuildAtOnce, Noted, officialVars, draftVars
<1>11. ASSUME NEW r \in Run, NEW seen \in {canonical, NoRun}, CreateFirst(r, seen) PROVE TypeOK'
  BY <1>11 DEF CreateFirst, BuildAtOnce, FirstOr, Noted, officialVars, draftVars
<1>12. ASSUME SaveAgain PROVE TypeOK'
  BY <1>12 DEF SaveAgain, Noted, officialVars, draftVars
<1>13. ASSUME NEW r \in Run, CreateAgain(r) PROVE TypeOK'
  BY <1>13 DEF CreateAgain, FirstOr, Noted, officialVars, draftVars
<1>14. ASSUME NEW r \in Run, Review(r) PROVE TypeOK'
  BY <1>14 DEF Review, Officiate, officialVars, draftVars
<1>15. ASSUME NEW l \in Loader, NEW r \in Run, FindCourse(l, r) PROVE TypeOK'
  BY <1>15 DEF FindCourse, officialVars, draftVars
<1>16. ASSUME NEW l \in Loader, LoadDraft(l) PROVE TypeOK'
  BY <1>16 DEF LoadDraft, Proceed, Noted, officialVars, draftVars
<1>17. ASSUME NEW l \in Loader, LoadOfficial(l) PROVE TypeOK'
  BY <1>17 DEF LoadOfficial, Proceed, Officiate, officialVars, draftVars
<1>18. ASSUME NEW l \in Loader, LoadAlone(l) PROVE TypeOK'
  BY <1>18 DEF LoadAlone, Proceed, Noted, officialVars, draftVars
<1>19. ASSUME NEW l \in Loader, SetCanonical(l) PROVE TypeOK'
  BY <1>19 DEF SetCanonical, Proceed, Noted, officialVars, draftVars
<1>20. ASSUME NEW l \in Loader, LoaderGivesUp(l) PROVE TypeOK'
  BY <1>20 DEF LoaderGivesUp, Proceed, officialVars, draftVars
<1>21. CASE UNCHANGED vars BY <1>21 DEF vars, officialVars, draftVars
<1> HIDE DEF IInv, TypeOK, RequestInv, RequestFacts, LoaderInv, LoaderFacts, Builder,
  Stages, NoWork, LoaderState, Resting, Trouble
<1> QED BY <1>1, <1>2, <1>3, <1>4, <1>5, <1>6, <1>7, <1>8, <1>9, <1>10, <1>11, <1>12, <1>13,
  <1>14, <1>15, <1>16, <1>17, <1>18, <1>19, <1>20, <1>21 DEF Next

LEMMA CourseStep ==
  ASSUME IInv, [Next]_vars
  PROVE  CourseInv'
<1> USE DEF IInv, TypeOK, CourseInv, RequestInv, RequestFacts, LoaderInv, LoaderFacts,
  AllFinished, Unfinished, Builder, Stages, NoWork, LoaderState, Resting, Trouble
<1>1. ASSUME NEW q \in Request, Find(q) PROVE CourseInv'
  BY <1>1 DEF Find, GoesOn, officialVars, draftVars
<1>2. ASSUME NEW q \in Request, InsertCourse(q) PROVE CourseInv'
  BY <1>2 DEF InsertCourse, GoesOn, Ends, officialVars, draftVars
<1>3. ASSUME NEW q \in Request, LinkCourse(q) PROVE CourseInv'
  BY <1>3 DEF LinkCourse, GoesOn, Noted, officialVars, draftVars
<1>4. ASSUME NEW q \in Request, ListRuns(q) PROVE CourseInv'
  BY <1>4 DEF ListRuns, GoesOn, officialVars, draftVars
<1>5. ASSUME NEW q \in Request, NEW r \in Run, CopyNew(q, r) PROVE CourseInv'
  BY <1>5 DEF CopyNew, GoesOn, officialVars, draftVars
<1>6. ASSUME NEW q \in Request, NEW r \in Run, CopyClashes(q, r) PROVE CourseInv'
  BY <1>6 DEF CopyClashes, Ends, Noted, officialVars, draftVars
<1>7. ASSUME NEW q \in Request, PairRun(q) PROVE CourseInv'
  BY <1>7 DEF PairRun, GoesOn, officialVars, draftVars
<1>8. ASSUME NEW q \in Request, Finish(q) PROVE CourseInv'
  BY <1>8 DEF Finish, Ends, officialVars, draftVars
<1>9. ASSUME NEW q \in Request, Dies(q) PROVE CourseInv'
  BY <1>9 DEF Dies, Ends, Noted, officialVars, draftVars
<1>10. ASSUME NEW seen \in {canonical, NoRun}, SaveFirst(seen) PROVE CourseInv'
  BY <1>10 DEF SaveFirst, BuildAtOnce, Noted, officialVars, draftVars
<1>11. ASSUME NEW r \in Run, NEW seen \in {canonical, NoRun}, CreateFirst(r, seen) PROVE CourseInv'
  BY <1>11 DEF CreateFirst, BuildAtOnce, FirstOr, Noted, officialVars, draftVars
<1>12. ASSUME SaveAgain PROVE CourseInv'
  BY <1>12 DEF SaveAgain, Noted, officialVars, draftVars
<1>13. ASSUME NEW r \in Run, CreateAgain(r) PROVE CourseInv'
  BY <1>13 DEF CreateAgain, FirstOr, Noted, officialVars, draftVars
<1>14. ASSUME NEW r \in Run, Review(r) PROVE CourseInv'
  BY <1>14 DEF Review, Officiate, officialVars, draftVars
<1>15. ASSUME NEW l \in Loader, NEW r \in Run, FindCourse(l, r) PROVE CourseInv'
  BY <1>15 DEF FindCourse, officialVars, draftVars
<1>16. ASSUME NEW l \in Loader, LoadDraft(l) PROVE CourseInv'
  BY <1>16 DEF LoadDraft, Proceed, Noted, officialVars, draftVars
<1>17. ASSUME NEW l \in Loader, LoadOfficial(l) PROVE CourseInv'
  BY <1>17 DEF LoadOfficial, Proceed, Officiate, officialVars, draftVars
<1>18. ASSUME NEW l \in Loader, LoadAlone(l) PROVE CourseInv'
  BY <1>18 DEF LoadAlone, Proceed, Noted, officialVars, draftVars
<1>19. ASSUME NEW l \in Loader, SetCanonical(l) PROVE CourseInv'
  BY <1>19 DEF SetCanonical, Proceed, Noted, officialVars, draftVars
<1>20. ASSUME NEW l \in Loader, LoaderGivesUp(l) PROVE CourseInv'
  BY <1>20 DEF LoaderGivesUp, Proceed, officialVars, draftVars
<1>21. CASE UNCHANGED vars BY <1>21 DEF vars, officialVars, draftVars
<1> HIDE DEF IInv, TypeOK, CourseInv, RequestInv, RequestFacts, LoaderInv, LoaderFacts,
  AllFinished, Unfinished, Builder, Stages, NoWork, LoaderState, Resting, Trouble
<1> QED BY <1>1, <1>2, <1>3, <1>4, <1>5, <1>6, <1>7, <1>8, <1>9, <1>10, <1>11, <1>12, <1>13,
  <1>14, <1>15, <1>16, <1>17, <1>18, <1>19, <1>20, <1>21 DEF Next

LEMMA RequestStep ==
  ASSUME IInv, [Next]_vars
  PROVE  RequestInv'
<1> USE DEF IInv, TypeOK, CourseInv, RequestInv, RequestFacts, LoaderInv, LoaderFacts,
  AllFinished, Unfinished, Builder, Stages, NoWork, LoaderState, Resting, Trouble
<1>1. ASSUME NEW q \in Request, Find(q) PROVE RequestInv'
  BY <1>1 DEF Find, GoesOn, officialVars, draftVars
<1>2. ASSUME NEW q \in Request, InsertCourse(q) PROVE RequestInv'
  <2>1. CASE course = "alone"
    <3>1. /\ course' = "split" /\ GoesOn(q, "link", {}, NoRun) /\ \A p \in Request : ~Unfinished(p)
          /\ UNCHANGED <<officialVars, draftVars, paired, loader, stray>>
      BY <1>2, <2>1 DEF InsertCourse
    <3>2. /\ request'[q].at = "link" /\ request'[q].seen = request[q].seen
          /\ request'[q].todo = {} /\ request'[q].run = NoRun
          /\ \A p \in Request : p # q => request'[p] = request[p]
      BY <3>1 DEF GoesOn
    <3>3. ASSUME NEW p \in Request PROVE RequestFacts(p)'
      <4>1. CASE p = q
        <5>1. draft' = {} /\ edited' = "no" /\ official' = official
          BY <2>1, <3>1 DEF officialVars, draftVars
        <5>2. request[q].seen \in official \cup {NoRun} OBVIOUS
        <5> HIDE DEF IInv, TypeOK, CourseInv, RequestInv, LoaderInv
        <5> QED BY <3>1, <3>2, <4>1, <5>1, <5>2
      <4>2. CASE p # q
        <5>1. /\ RequestFacts(p) /\ ~Unfinished(p) /\ request[p] \in Builder
              /\ request'[p] = request[p]
          BY <3>1, <3>2, <4>2
        <5> HIDE DEF IInv, TypeOK, CourseInv, RequestInv, LoaderInv
        <5> QED BY <3>1, <5>1 DEF officialVars, draftVars
      <4> QED BY <4>1, <4>2
    <3>4. \A p, o \in Request : (Unfinished(p) /\ Unfinished(o))' => p = o
      BY <3>1, <3>2
    <3> QED BY <3>3, <3>4
  <2>2. CASE course # "alone"
    <3>1. Ends(q) /\ UNCHANGED <<course, officialVars, draftVars, paired, loader, stray>>
      BY <1>2, <2>2 DEF InsertCourse
    <3>2. /\ request'[q] = NoWork
          /\ \A p \in Request : p # q => request'[p] = request[p]
      BY <3>1 DEF Ends
    <3>3. ASSUME NEW p \in Request PROVE RequestFacts(p)'
      <4>1. CASE p = q BY <3>1, <3>2, <4>1 DEF officialVars, draftVars
      <4>2. CASE p # q
        <5>1. RequestFacts(p) /\ request'[p] = request[p] BY <3>2, <4>2
        <5> HIDE DEF IInv, TypeOK, CourseInv, RequestInv, LoaderInv
        <5> QED BY <3>1, <5>1 DEF officialVars, draftVars
      <4> QED BY <4>1, <4>2
    <3>4. \A p, o \in Request : (Unfinished(p) /\ Unfinished(o))' => p = o
      BY <3>1, <3>2
    <3> QED BY <3>3, <3>4
  <2> QED BY <2>1, <2>2
<1>3. ASSUME NEW q \in Request, LinkCourse(q) PROVE RequestInv'
  BY <1>3 DEF LinkCourse, GoesOn, Noted, officialVars, draftVars
<1>4. ASSUME NEW q \in Request, ListRuns(q) PROVE RequestInv'
  BY <1>4 DEF ListRuns, GoesOn, officialVars, draftVars
<1>5. ASSUME NEW q \in Request, NEW r \in Run, CopyNew(q, r) PROVE RequestInv'
  BY <1>5 DEF CopyNew, GoesOn, officialVars, draftVars
<1>6. ASSUME NEW q \in Request, NEW r \in Run, CopyClashes(q, r) PROVE RequestInv'
  BY <1>6 DEF CopyClashes, Ends, Noted, officialVars, draftVars
<1>7. ASSUME NEW q \in Request, PairRun(q) PROVE RequestInv'
  BY <1>7 DEF PairRun, GoesOn, officialVars, draftVars
<1>8. ASSUME NEW q \in Request, Finish(q) PROVE RequestInv'
  BY <1>8 DEF Finish, Ends, officialVars, draftVars
<1>9. ASSUME NEW q \in Request, Dies(q) PROVE RequestInv'
  BY <1>9 DEF Dies, Ends, Noted, officialVars, draftVars
<1>10. ASSUME NEW seen \in {canonical, NoRun}, SaveFirst(seen) PROVE RequestInv'
  BY <1>10 DEF SaveFirst, BuildAtOnce, Noted, officialVars, draftVars
<1>11. ASSUME NEW r \in Run, NEW seen \in {canonical, NoRun}, CreateFirst(r, seen) PROVE RequestInv'
  BY <1>11 DEF CreateFirst, BuildAtOnce, FirstOr, Noted, officialVars, draftVars
<1>12. ASSUME SaveAgain PROVE RequestInv'
  BY <1>12 DEF SaveAgain, Noted, officialVars, draftVars
<1>13. ASSUME NEW r \in Run, CreateAgain(r) PROVE RequestInv'
  BY <1>13 DEF CreateAgain, FirstOr, Noted, officialVars, draftVars
<1>14. ASSUME NEW r \in Run, Review(r) PROVE RequestInv'
  BY <1>14 DEF Review, Officiate, officialVars, draftVars
<1>15. ASSUME NEW l \in Loader, NEW r \in Run, FindCourse(l, r) PROVE RequestInv'
  BY <1>15 DEF FindCourse, officialVars, draftVars
<1>16. ASSUME NEW l \in Loader, LoadDraft(l) PROVE RequestInv'
  BY <1>16 DEF LoadDraft, Proceed, Noted, officialVars, draftVars
<1>17. ASSUME NEW l \in Loader, LoadOfficial(l) PROVE RequestInv'
  BY <1>17 DEF LoadOfficial, Proceed, Officiate, officialVars, draftVars
<1>18. ASSUME NEW l \in Loader, LoadAlone(l) PROVE RequestInv'
  BY <1>18 DEF LoadAlone, Proceed, Noted, officialVars, draftVars
<1>19. ASSUME NEW l \in Loader, SetCanonical(l) PROVE RequestInv'
  BY <1>19 DEF SetCanonical, Proceed, Noted, officialVars, draftVars
<1>20. ASSUME NEW l \in Loader, LoaderGivesUp(l) PROVE RequestInv'
  BY <1>20 DEF LoaderGivesUp, Proceed, officialVars, draftVars
<1>21. CASE UNCHANGED vars BY <1>21 DEF vars, officialVars, draftVars
<1> HIDE DEF IInv, TypeOK, CourseInv, RequestInv, RequestFacts, LoaderInv, LoaderFacts,
  AllFinished, Unfinished, Builder, Stages, NoWork, LoaderState, Resting, Trouble
<1> QED BY <1>1, <1>2, <1>3, <1>4, <1>5, <1>6, <1>7, <1>8, <1>9, <1>10, <1>11, <1>12, <1>13,
  <1>14, <1>15, <1>16, <1>17, <1>18, <1>19, <1>20, <1>21 DEF Next

LEMMA LoaderStep ==
  ASSUME IInv, [Next]_vars
  PROVE  LoaderInv'
<1> USE DEF IInv, TypeOK, CourseInv, RequestInv, RequestFacts, LoaderInv, LoaderFacts,
  Builder, Stages, NoWork, LoaderState, Resting, Trouble
<1>1. ASSUME NEW q \in Request, Find(q) PROVE LoaderInv'
  BY <1>1 DEF Find, GoesOn, officialVars, draftVars
<1>2. ASSUME NEW q \in Request, InsertCourse(q) PROVE LoaderInv'
  BY <1>2 DEF InsertCourse, GoesOn, Ends, officialVars, draftVars
<1>3. ASSUME NEW q \in Request, LinkCourse(q) PROVE LoaderInv'
  BY <1>3 DEF LinkCourse, GoesOn, Noted, officialVars, draftVars
<1>4. ASSUME NEW q \in Request, ListRuns(q) PROVE LoaderInv'
  BY <1>4 DEF ListRuns, GoesOn, officialVars, draftVars
<1>5. ASSUME NEW q \in Request, NEW r \in Run, CopyNew(q, r) PROVE LoaderInv'
  BY <1>5 DEF CopyNew, GoesOn, officialVars, draftVars
<1>6. ASSUME NEW q \in Request, NEW r \in Run, CopyClashes(q, r) PROVE LoaderInv'
  BY <1>6 DEF CopyClashes, Ends, Noted, officialVars, draftVars
<1>7. ASSUME NEW q \in Request, PairRun(q) PROVE LoaderInv'
  BY <1>7 DEF PairRun, GoesOn, officialVars, draftVars
<1>8. ASSUME NEW q \in Request, Finish(q) PROVE LoaderInv'
  BY <1>8 DEF Finish, Ends, officialVars, draftVars
<1>9. ASSUME NEW q \in Request, Dies(q) PROVE LoaderInv'
  BY <1>9 DEF Dies, Ends, Noted, officialVars, draftVars
<1>10. ASSUME NEW seen \in {canonical, NoRun}, SaveFirst(seen) PROVE LoaderInv'
  BY <1>10 DEF SaveFirst, BuildAtOnce, Noted, officialVars, draftVars
<1>11. ASSUME NEW r \in Run, NEW seen \in {canonical, NoRun}, CreateFirst(r, seen) PROVE LoaderInv'
  BY <1>11 DEF CreateFirst, BuildAtOnce, FirstOr, Noted, officialVars, draftVars
<1>12. ASSUME SaveAgain PROVE LoaderInv'
  BY <1>12 DEF SaveAgain, Noted, officialVars, draftVars
<1>13. ASSUME NEW r \in Run, CreateAgain(r) PROVE LoaderInv'
  BY <1>13 DEF CreateAgain, FirstOr, Noted, officialVars, draftVars
<1>14. ASSUME NEW r \in Run, Review(r) PROVE LoaderInv'
  BY <1>14 DEF Review, Officiate, officialVars, draftVars
<1>15. ASSUME NEW l \in Loader, NEW r \in Run, FindCourse(l, r) PROVE LoaderInv'
  BY <1>15 DEF FindCourse, officialVars, draftVars
<1>16. ASSUME NEW l \in Loader, LoadDraft(l) PROVE LoaderInv'
  BY <1>16 DEF LoadDraft, Proceed, Noted, officialVars, draftVars
<1>17. ASSUME NEW l \in Loader, LoadOfficial(l) PROVE LoaderInv'
  BY <1>17 DEF LoadOfficial, Proceed, Officiate, officialVars, draftVars
<1>18. ASSUME NEW l \in Loader, LoadAlone(l) PROVE LoaderInv'
  BY <1>18 DEF LoadAlone, Proceed, Noted, officialVars, draftVars
<1>19. ASSUME NEW l \in Loader, SetCanonical(l) PROVE LoaderInv'
  BY <1>19 DEF SetCanonical, Proceed, Noted, officialVars, draftVars
<1>20. ASSUME NEW l \in Loader, LoaderGivesUp(l) PROVE LoaderInv'
  BY <1>20 DEF LoaderGivesUp, Proceed, officialVars, draftVars
<1>21. CASE UNCHANGED vars BY <1>21 DEF vars, officialVars, draftVars
<1> HIDE DEF IInv, TypeOK, CourseInv, RequestInv, RequestFacts, LoaderInv, LoaderFacts,
  Builder, Stages, NoWork, LoaderState, Resting, Trouble
<1> QED BY <1>1, <1>2, <1>3, <1>4, <1>5, <1>6, <1>7, <1>8, <1>9, <1>10, <1>11, <1>12, <1>13,
  <1>14, <1>15, <1>16, <1>17, <1>18, <1>19, <1>20, <1>21 DEF Next

LEMMA PairStep ==
  ASSUME IInv, [Next]_vars
  PROVE  PairInv'
<1> USE DEF IInv, TypeOK, CourseInv, RequestInv, RequestFacts, LoaderInv, LoaderFacts,
  PairInv, AllFinished, Unfinished, Builder, Stages, NoWork, LoaderState, Resting, Trouble
<1>1. ASSUME NEW q \in Request, Find(q) PROVE PairInv'
  BY <1>1 DEF Find, GoesOn, officialVars, draftVars
<1>2. ASSUME NEW q \in Request, InsertCourse(q) PROVE PairInv'
  BY <1>2 DEF InsertCourse, GoesOn, Ends, officialVars, draftVars
<1>3. ASSUME NEW q \in Request, LinkCourse(q) PROVE PairInv'
  BY <1>3 DEF LinkCourse, GoesOn, Noted, officialVars, draftVars
<1>4. ASSUME NEW q \in Request, ListRuns(q) PROVE PairInv'
  BY <1>4 DEF ListRuns, GoesOn, officialVars, draftVars
<1>5. ASSUME NEW q \in Request, NEW r \in Run, CopyNew(q, r) PROVE PairInv'
  BY <1>5 DEF CopyNew, GoesOn, officialVars, draftVars
<1>6. ASSUME NEW q \in Request, NEW r \in Run, CopyClashes(q, r) PROVE PairInv'
  BY <1>6 DEF CopyClashes, Ends, Noted, officialVars, draftVars
<1>7. ASSUME NEW q \in Request, PairRun(q) PROVE PairInv'
  BY <1>7 DEF PairRun, GoesOn, officialVars, draftVars
<1>8. ASSUME NEW q \in Request, Finish(q) PROVE PairInv'
  BY <1>8 DEF Finish, Ends, officialVars, draftVars
<1>9. ASSUME NEW q \in Request, Dies(q) PROVE PairInv'
  BY <1>9 DEF Dies, Ends, Noted, officialVars, draftVars
<1>10. ASSUME NEW seen \in {canonical, NoRun}, SaveFirst(seen) PROVE PairInv'
  BY <1>10 DEF SaveFirst, BuildAtOnce, Noted, officialVars, draftVars
<1>11. ASSUME NEW r \in Run, NEW seen \in {canonical, NoRun}, CreateFirst(r, seen) PROVE PairInv'
  BY <1>11 DEF CreateFirst, BuildAtOnce, FirstOr, Noted, officialVars, draftVars
<1>12. ASSUME SaveAgain PROVE PairInv'
  BY <1>12 DEF SaveAgain, Noted, officialVars, draftVars
<1>13. ASSUME NEW r \in Run, CreateAgain(r) PROVE PairInv'
  BY <1>13 DEF CreateAgain, FirstOr, Noted, officialVars, draftVars
<1>14. ASSUME NEW r \in Run, Review(r) PROVE PairInv'
  BY <1>14 DEF Review, Officiate, officialVars, draftVars
<1>15. ASSUME NEW l \in Loader, NEW r \in Run, FindCourse(l, r) PROVE PairInv'
  BY <1>15 DEF FindCourse, officialVars, draftVars
<1>16. ASSUME NEW l \in Loader, LoadDraft(l) PROVE PairInv'
  BY <1>16 DEF LoadDraft, Proceed, Noted, officialVars, draftVars
<1>17. ASSUME NEW l \in Loader, LoadOfficial(l) PROVE PairInv'
  BY <1>17 DEF LoadOfficial, Proceed, Officiate, officialVars, draftVars
<1>18. ASSUME NEW l \in Loader, LoadAlone(l) PROVE PairInv'
  BY <1>18 DEF LoadAlone, Proceed, Noted, officialVars, draftVars
<1>19. ASSUME NEW l \in Loader, SetCanonical(l) PROVE PairInv'
  BY <1>19 DEF SetCanonical, Proceed, Noted, officialVars, draftVars
<1>20. ASSUME NEW l \in Loader, LoaderGivesUp(l) PROVE PairInv'
  BY <1>20 DEF LoaderGivesUp, Proceed, officialVars, draftVars
<1>21. CASE UNCHANGED vars BY <1>21 DEF vars, officialVars, draftVars
<1> HIDE DEF IInv, TypeOK, CourseInv, RequestInv, RequestFacts, LoaderInv, LoaderFacts,
  PairInv, AllFinished, Unfinished, Builder, Stages, NoWork, LoaderState, Resting, Trouble
<1> QED BY <1>1, <1>2, <1>3, <1>4, <1>5, <1>6, <1>7, <1>8, <1>9, <1>10, <1>11, <1>12, <1>13,
  <1>14, <1>15, <1>16, <1>17, <1>18, <1>19, <1>20, <1>21 DEF Next

LEMMA WholeStep ==
  ASSUME IInv, [Next]_vars
  PROVE  WorldIsWhole'
<1> USE DEF IInv, TypeOK, CourseInv, RequestInv, RequestFacts, WorldIsWhole, AllFinished,
  Unfinished, Builder, Stages, NoWork, LoaderState, Resting, Trouble
<1>1. ASSUME NEW q \in Request, Find(q) PROVE WorldIsWhole'
  BY <1>1 DEF Find, GoesOn, officialVars, draftVars
<1>2. ASSUME NEW q \in Request, InsertCourse(q) PROVE WorldIsWhole'
  BY <1>2 DEF InsertCourse, GoesOn, Ends, officialVars, draftVars
<1>3. ASSUME NEW q \in Request, LinkCourse(q) PROVE WorldIsWhole'
  BY <1>3 DEF LinkCourse, GoesOn, Noted, officialVars, draftVars
<1>4. ASSUME NEW q \in Request, ListRuns(q) PROVE WorldIsWhole'
  BY <1>4 DEF ListRuns, GoesOn, officialVars, draftVars
<1>5. ASSUME NEW q \in Request, NEW r \in Run, CopyNew(q, r) PROVE WorldIsWhole'
  BY <1>5 DEF CopyNew, GoesOn, officialVars, draftVars
<1>6. ASSUME NEW q \in Request, NEW r \in Run, CopyClashes(q, r) PROVE WorldIsWhole'
  BY <1>6 DEF CopyClashes, Ends, Noted, officialVars, draftVars
<1>7. ASSUME NEW q \in Request, PairRun(q) PROVE WorldIsWhole'
  BY <1>7 DEF PairRun, GoesOn, officialVars, draftVars
<1>8. ASSUME NEW q \in Request, Finish(q) PROVE WorldIsWhole'
  <2>1. "late" \notin stray => official \subseteq paired BY <1>8 DEF Finish
  <2> QED BY <1>8, <2>1 DEF Finish, officialVars
<1>9. ASSUME NEW q \in Request, Dies(q) PROVE WorldIsWhole'
  BY <1>9 DEF Dies, Ends, Noted, officialVars, draftVars
<1>10. ASSUME NEW seen \in {canonical, NoRun}, SaveFirst(seen) PROVE WorldIsWhole'
  BY <1>10 DEF SaveFirst, BuildAtOnce, Noted, officialVars, draftVars
<1>11. ASSUME NEW r \in Run, NEW seen \in {canonical, NoRun}, CreateFirst(r, seen) PROVE WorldIsWhole'
  BY <1>11 DEF CreateFirst, BuildAtOnce, FirstOr, Noted, officialVars, draftVars
<1>12. ASSUME SaveAgain PROVE WorldIsWhole'
  BY <1>12 DEF SaveAgain, Noted, officialVars, draftVars
<1>13. ASSUME NEW r \in Run, CreateAgain(r) PROVE WorldIsWhole'
  BY <1>13 DEF CreateAgain, FirstOr, Noted, officialVars, draftVars
<1>14. ASSUME NEW r \in Run, Review(r) PROVE WorldIsWhole'
  BY <1>14 DEF Review, Officiate, officialVars, draftVars
<1>15. ASSUME NEW l \in Loader, NEW r \in Run, FindCourse(l, r) PROVE WorldIsWhole'
  BY <1>15 DEF FindCourse, officialVars, draftVars
<1>16. ASSUME NEW l \in Loader, LoadDraft(l) PROVE WorldIsWhole'
  BY <1>16 DEF LoadDraft, Proceed, Noted, officialVars, draftVars
<1>17. ASSUME NEW l \in Loader, LoadOfficial(l) PROVE WorldIsWhole'
  BY <1>17 DEF LoadOfficial, Proceed, Officiate, officialVars, draftVars
<1>18. ASSUME NEW l \in Loader, LoadAlone(l) PROVE WorldIsWhole'
  BY <1>18 DEF LoadAlone, Proceed, Noted, officialVars, draftVars
<1>19. ASSUME NEW l \in Loader, SetCanonical(l) PROVE WorldIsWhole'
  BY <1>19 DEF SetCanonical, Proceed, Noted, officialVars, draftVars
<1>20. ASSUME NEW l \in Loader, LoaderGivesUp(l) PROVE WorldIsWhole'
  BY <1>20 DEF LoaderGivesUp, Proceed, officialVars, draftVars
<1>21. CASE UNCHANGED vars BY <1>21 DEF vars, officialVars, draftVars
<1> HIDE DEF IInv, TypeOK, CourseInv, RequestInv, RequestFacts, WorldIsWhole, AllFinished,
  Unfinished, Builder, Stages, NoWork, LoaderState, Resting, Trouble
<1> QED BY <1>1, <1>2, <1>3, <1>4, <1>5, <1>6, <1>7, <1>8, <1>9, <1>10, <1>11, <1>12, <1>13,
  <1>14, <1>15, <1>16, <1>17, <1>18, <1>19, <1>20, <1>21 DEF Next

LEMMA ClashStep ==
  ASSUME IInv, [Next]_vars
  PROVE  ClashOnlyIfEarly'
<1> USE DEF IInv, TypeOK, RequestInv, RequestFacts, ClashOnlyIfEarly, Unfinished, Builder,
  Stages, NoWork, LoaderState, Resting, Trouble
<1>1. ASSUME NEW q \in Request, Find(q) PROVE ClashOnlyIfEarly'
  BY <1>1 DEF Find, GoesOn, officialVars, draftVars
<1>2. ASSUME NEW q \in Request, InsertCourse(q) PROVE ClashOnlyIfEarly'
  BY <1>2 DEF InsertCourse, GoesOn, Ends, officialVars, draftVars
<1>3. ASSUME NEW q \in Request, LinkCourse(q) PROVE ClashOnlyIfEarly'
  BY <1>3 DEF LinkCourse, GoesOn, Noted, officialVars, draftVars
<1>4. ASSUME NEW q \in Request, ListRuns(q) PROVE ClashOnlyIfEarly'
  BY <1>4 DEF ListRuns, GoesOn, officialVars, draftVars
<1>5. ASSUME NEW q \in Request, NEW r \in Run, CopyNew(q, r) PROVE ClashOnlyIfEarly'
  BY <1>5 DEF CopyNew, GoesOn, officialVars, draftVars
<1>6. ASSUME NEW q \in Request, NEW r \in Run, CopyClashes(q, r) PROVE ClashOnlyIfEarly'
  BY <1>6 DEF CopyClashes, Ends, Noted, officialVars, draftVars
<1>7. ASSUME NEW q \in Request, PairRun(q) PROVE ClashOnlyIfEarly'
  BY <1>7 DEF PairRun, GoesOn, officialVars, draftVars
<1>8. ASSUME NEW q \in Request, Finish(q) PROVE ClashOnlyIfEarly'
  BY <1>8 DEF Finish, Ends, officialVars, draftVars
<1>9. ASSUME NEW q \in Request, Dies(q) PROVE ClashOnlyIfEarly'
  BY <1>9 DEF Dies, Ends, Noted, officialVars, draftVars
<1>10. ASSUME NEW seen \in {canonical, NoRun}, SaveFirst(seen) PROVE ClashOnlyIfEarly'
  BY <1>10 DEF SaveFirst, BuildAtOnce, Noted, officialVars, draftVars
<1>11. ASSUME NEW r \in Run, NEW seen \in {canonical, NoRun}, CreateFirst(r, seen) PROVE ClashOnlyIfEarly'
  BY <1>11 DEF CreateFirst, BuildAtOnce, FirstOr, Noted, officialVars, draftVars
<1>12. ASSUME SaveAgain PROVE ClashOnlyIfEarly'
  BY <1>12 DEF SaveAgain, Noted, officialVars, draftVars
<1>13. ASSUME NEW r \in Run, CreateAgain(r) PROVE ClashOnlyIfEarly'
  BY <1>13 DEF CreateAgain, FirstOr, Noted, officialVars, draftVars
<1>14. ASSUME NEW r \in Run, Review(r) PROVE ClashOnlyIfEarly'
  BY <1>14 DEF Review, Officiate, officialVars, draftVars
<1>15. ASSUME NEW l \in Loader, NEW r \in Run, FindCourse(l, r) PROVE ClashOnlyIfEarly'
  BY <1>15 DEF FindCourse, officialVars, draftVars
<1>16. ASSUME NEW l \in Loader, LoadDraft(l) PROVE ClashOnlyIfEarly'
  BY <1>16 DEF LoadDraft, Proceed, Noted, officialVars, draftVars
<1>17. ASSUME NEW l \in Loader, LoadOfficial(l) PROVE ClashOnlyIfEarly'
  BY <1>17 DEF LoadOfficial, Proceed, Officiate, officialVars, draftVars
<1>18. ASSUME NEW l \in Loader, LoadAlone(l) PROVE ClashOnlyIfEarly'
  BY <1>18 DEF LoadAlone, Proceed, Noted, officialVars, draftVars
<1>19. ASSUME NEW l \in Loader, SetCanonical(l) PROVE ClashOnlyIfEarly'
  BY <1>19 DEF SetCanonical, Proceed, Noted, officialVars, draftVars
<1>20. ASSUME NEW l \in Loader, LoaderGivesUp(l) PROVE ClashOnlyIfEarly'
  BY <1>20 DEF LoaderGivesUp, Proceed, officialVars, draftVars
<1>21. CASE UNCHANGED vars BY <1>21 DEF vars, officialVars, draftVars
<1> HIDE DEF IInv, TypeOK, RequestInv, RequestFacts, ClashOnlyIfEarly, Unfinished, Builder,
  Stages, NoWork, LoaderState, Resting, Trouble
<1> QED BY <1>1, <1>2, <1>3, <1>4, <1>5, <1>6, <1>7, <1>8, <1>9, <1>10, <1>11, <1>12, <1>13,
  <1>14, <1>15, <1>16, <1>17, <1>18, <1>19, <1>20, <1>21 DEF Next

LEMMA CanonicalStep ==
  ASSUME IInv, [Next]_vars
  PROVE  DraftKeepsCanonical'
<1> USE DEF IInv, TypeOK, CourseInv, RequestInv, RequestFacts, LoaderInv, LoaderFacts,
  DraftKeepsCanonical, AllFinished, Unfinished, Builder, Stages, NoWork, LoaderState, Resting,
  Trouble
<1>1. ASSUME NEW q \in Request, Find(q) PROVE DraftKeepsCanonical'
  BY <1>1 DEF Find, GoesOn, officialVars, draftVars
<1>2. ASSUME NEW q \in Request, InsertCourse(q) PROVE DraftKeepsCanonical'
  BY <1>2 DEF InsertCourse, GoesOn, Ends, officialVars, draftVars
<1>3. ASSUME NEW q \in Request, LinkCourse(q) PROVE DraftKeepsCanonical'
  BY <1>3 DEF LinkCourse, GoesOn, Noted, officialVars, draftVars
<1>4. ASSUME NEW q \in Request, ListRuns(q) PROVE DraftKeepsCanonical'
  BY <1>4 DEF ListRuns, GoesOn, officialVars, draftVars
<1>5. ASSUME NEW q \in Request, NEW r \in Run, CopyNew(q, r) PROVE DraftKeepsCanonical'
  BY <1>5 DEF CopyNew, GoesOn, officialVars, draftVars
<1>6. ASSUME NEW q \in Request, NEW r \in Run, CopyClashes(q, r) PROVE DraftKeepsCanonical'
  BY <1>6 DEF CopyClashes, Ends, Noted, officialVars, draftVars
<1>7. ASSUME NEW q \in Request, PairRun(q) PROVE DraftKeepsCanonical'
  BY <1>7 DEF PairRun, GoesOn, officialVars, draftVars
<1>8. ASSUME NEW q \in Request, Finish(q) PROVE DraftKeepsCanonical'
  BY <1>8 DEF Finish, Ends, officialVars, draftVars
<1>9. ASSUME NEW q \in Request, Dies(q) PROVE DraftKeepsCanonical'
  BY <1>9 DEF Dies, Ends, Noted, officialVars, draftVars
<1>10. ASSUME NEW seen \in {canonical, NoRun}, SaveFirst(seen) PROVE DraftKeepsCanonical'
  BY <1>10 DEF SaveFirst, BuildAtOnce, Noted, officialVars, draftVars
<1>11. ASSUME NEW r \in Run, NEW seen \in {canonical, NoRun}, CreateFirst(r, seen) PROVE DraftKeepsCanonical'
  BY <1>11 DEF CreateFirst, BuildAtOnce, FirstOr, Noted, officialVars, draftVars
<1>12. ASSUME SaveAgain PROVE DraftKeepsCanonical'
  BY <1>12 DEF SaveAgain, Noted, officialVars, draftVars
<1>13. ASSUME NEW r \in Run, CreateAgain(r) PROVE DraftKeepsCanonical'
  BY <1>13 DEF CreateAgain, FirstOr, Noted, officialVars, draftVars
<1>14. ASSUME NEW r \in Run, Review(r) PROVE DraftKeepsCanonical'
  BY <1>14 DEF Review, Officiate, officialVars, draftVars
<1>15. ASSUME NEW l \in Loader, NEW r \in Run, FindCourse(l, r) PROVE DraftKeepsCanonical'
  BY <1>15 DEF FindCourse, officialVars, draftVars
<1>16. ASSUME NEW l \in Loader, LoadDraft(l) PROVE DraftKeepsCanonical'
  BY <1>16 DEF LoadDraft, Proceed, Noted, officialVars, draftVars
<1>17. ASSUME NEW l \in Loader, LoadOfficial(l) PROVE DraftKeepsCanonical'
  BY <1>17 DEF LoadOfficial, Proceed, Officiate, officialVars, draftVars
<1>18. ASSUME NEW l \in Loader, LoadAlone(l) PROVE DraftKeepsCanonical'
  BY <1>18 DEF LoadAlone, Proceed, Noted, officialVars, draftVars
<1>19. ASSUME NEW l \in Loader, SetCanonical(l) PROVE DraftKeepsCanonical'
  BY <1>19 DEF SetCanonical, Proceed, Noted, officialVars, draftVars
<1>20. ASSUME NEW l \in Loader, LoaderGivesUp(l) PROVE DraftKeepsCanonical'
  BY <1>20 DEF LoaderGivesUp, Proceed, officialVars, draftVars
<1>21. CASE UNCHANGED vars BY <1>21 DEF vars, officialVars, draftVars
<1> HIDE DEF IInv, TypeOK, CourseInv, RequestInv, RequestFacts, LoaderInv, LoaderFacts,
  DraftKeepsCanonical, AllFinished, Unfinished, Builder, Stages, NoWork, LoaderState, Resting,
  Trouble
<1> QED BY <1>1, <1>2, <1>3, <1>4, <1>5, <1>6, <1>7, <1>8, <1>9, <1>10, <1>11, <1>12, <1>13,
  <1>14, <1>15, <1>16, <1>17, <1>18, <1>19, <1>20, <1>21 DEF Next

---------------------------------------------------------------------------
(* The invariant.                                                          *)

LEMMA InitIInv ==
  ASSUME Init
  PROVE  IInv
<1> USE DEF Init
<1>1. TypeOK BY DEF TypeOK, NoWork, Builder, Stages, LoaderState, Resting, Trouble
<1>2. CourseInv BY DEF CourseInv, AllFinished, Unfinished, NoWork
<1>3. RequestInv BY DEF RequestInv, RequestFacts, Unfinished, NoWork
<1>4. LoaderInv BY DEF LoaderInv, LoaderFacts, Resting
<1>5. PairInv BY DEF PairInv
<1>6. WorldIsWhole /\ ClashOnlyIfEarly /\ DraftKeepsCanonical
  BY DEF WorldIsWhole, ClashOnlyIfEarly, DraftKeepsCanonical
<1> QED BY <1>1, <1>2, <1>3, <1>4, <1>5, <1>6 DEF IInv

LEMMA IInvInvariant == Spec => []IInv
<1>1. Init => IInv BY InitIInv
<1>2. IInv /\ [Next]_vars => IInv'
  BY TypeStep, CourseStep, RequestStep, LoaderStep, PairStep, WholeStep, ClashStep,
     CanonicalStep DEF IInv
<1> QED BY <1>1, <1>2, PTL DEF Spec

---------------------------------------------------------------------------
(* The theorems.                                                           *)

\* Rows, builders and loader threads keep their types; a linked row has both.
THEOREM DraftWorldTypeCorrect == Spec => []TypeOK
<1>1. IInv => TypeOK BY DEF IInv
<1> QED BY <1>1, IInvInvariant, PTL

\* ensure_draft_world copies every official run, unless a request died or met
\* another's rows, or a loader came late.
THEOREM WorldIsWholeThm == Spec => []WorldIsWhole
<1>1. IInv => WorldIsWhole BY DEF IInv
<1> QED BY <1>1, IInvInvariant, PTL

\* filter_drafts finds one row of the course and of each run, unless a request
\* died or a loader came late.
THEOREM LookupsFindOneThm == Spec => []LookupsFindOne
<1>1. IInv => LookupsFindOne
  BY DEF IInv, CourseInv, PairInv, LookupsFindOne, AllFinished, Unfinished
<1> QED BY <1>1, IInvInvariant, PTL

\* A build meets a draft row that it did not write only if somebody worked in the
\* world that it had not finished.
THEOREM ClashOnlyIfEarlyThm == Spec => []ClashOnlyIfEarly
<1>1. IInv => ClashOnlyIfEarly BY DEF IInv
<1> QED BY <1>1, IInvInvariant, PTL

\* The draft course has the canonical run of the official one when nothing went
\* wrong.
THEOREM DraftKeepsCanonicalThm == Spec => []DraftKeepsCanonical
<1>1. IInv => DraftKeepsCanonical BY DEF IInv
<1> QED BY <1>1, IInvInvariant, PTL

\* Writing the official row back with its draft version does not lose the
\* canonical run that the loader set, unless it was set after the row was read.
THEOREM CanonicalKeptThm == Spec => CanonicalKept
<1>1. ASSUME IInv, [Next]_vars, canonical # NoRun, "late" \notin stray'
      PROVE  canonical' = canonical
  <2>1. ASSUME NEW q \in Request, Find(q) PROVE canonical' = canonical
    BY <1>1, <2>1 DEF Find, officialVars, draftVars
  <2>2. ASSUME NEW q \in Request, InsertCourse(q) PROVE canonical' = canonical
    BY <1>1, <2>2 DEF InsertCourse, officialVars, draftVars
  <2>3. ASSUME NEW q \in Request, LinkCourse(q) PROVE canonical' = canonical
    BY <1>1, <2>3 DEF LinkCourse, Noted, officialVars, draftVars
  <2>4. ASSUME NEW q \in Request, ListRuns(q) PROVE canonical' = canonical
    BY <1>1, <2>4 DEF ListRuns, officialVars, draftVars
  <2>5. ASSUME NEW q \in Request, NEW r \in Run, CopyNew(q, r) PROVE canonical' = canonical
    BY <1>1, <2>5 DEF CopyNew, officialVars, draftVars
  <2>6. ASSUME NEW q \in Request, NEW r \in Run, CopyClashes(q, r) PROVE canonical' = canonical
    BY <1>1, <2>6 DEF CopyClashes, Noted, officialVars, draftVars
  <2>7. ASSUME NEW q \in Request, PairRun(q) PROVE canonical' = canonical
    BY <1>1, <2>7 DEF PairRun, officialVars, draftVars
  <2>8. ASSUME NEW q \in Request, Finish(q) PROVE canonical' = canonical
    BY <1>1, <2>8 DEF Finish, officialVars, draftVars
  <2>9. ASSUME NEW q \in Request, Dies(q) PROVE canonical' = canonical
    BY <1>1, <2>9 DEF Dies, Noted, officialVars, draftVars
  <2>10. ASSUME NEW seen \in {canonical, NoRun}, SaveFirst(seen) PROVE canonical' = canonical
    BY <1>1, <2>10 DEF SaveFirst, BuildAtOnce, Noted, officialVars, draftVars
  <2>11. ASSUME NEW r \in Run, NEW seen \in {canonical, NoRun}, CreateFirst(r, seen) PROVE canonical' = canonical
    BY <1>1, <2>11 DEF CreateFirst, BuildAtOnce, Noted, officialVars, draftVars
  <2>12. ASSUME SaveAgain PROVE canonical' = canonical
    BY <1>1, <2>12 DEF SaveAgain, Noted, officialVars, draftVars
  <2>13. ASSUME NEW r \in Run, CreateAgain(r) PROVE canonical' = canonical
    BY <1>1, <2>13 DEF CreateAgain, Noted, officialVars, draftVars
  <2>14. ASSUME NEW r \in Run, Review(r) PROVE canonical' = canonical
    BY <1>1, <2>14 DEF Review, officialVars, draftVars
  <2>15. ASSUME NEW l \in Loader, NEW r \in Run, FindCourse(l, r) PROVE canonical' = canonical
    BY <1>1, <2>15 DEF FindCourse, officialVars, draftVars
  <2>16. ASSUME NEW l \in Loader, LoadDraft(l) PROVE canonical' = canonical
    BY <1>1, <2>16 DEF LoadDraft, Noted, officialVars, draftVars
  <2>17. ASSUME NEW l \in Loader, LoadOfficial(l) PROVE canonical' = canonical
    BY <1>1, <2>17 DEF LoadOfficial, officialVars, draftVars
  <2>18. ASSUME NEW l \in Loader, LoadAlone(l) PROVE canonical' = canonical
    BY <1>1, <2>18 DEF LoadAlone, Noted, officialVars, draftVars
  <2>19. ASSUME NEW l \in Loader, SetCanonical(l) PROVE canonical' = canonical
    BY <1>1, <2>19 DEF SetCanonical, Noted, officialVars, draftVars, IInv, LoaderInv, LoaderFacts
  <2>20. ASSUME NEW l \in Loader, LoaderGivesUp(l) PROVE canonical' = canonical
    BY <1>1, <2>20 DEF LoaderGivesUp, officialVars, draftVars
  <2>21. CASE UNCHANGED vars BY <1>1, <2>21 DEF vars, officialVars, draftVars
  <2> QED BY <1>1, <2>1, <2>2, <2>3, <2>4, <2>5, <2>6, <2>7, <2>8, <2>9, <2>10, <2>11, <2>12,
    <2>13, <2>14, <2>15, <2>16, <2>17, <2>18, <2>19, <2>20, <2>21 DEF Next
<1>2. IInv /\ [Next]_vars => [canonical # NoRun /\ "late" \notin stray' => canonical' = canonical]_vars
  BY <1>1
<1> QED BY <1>2, IInvInvariant, PTL DEF Spec, CanonicalKept

\* Finishing the world does not overwrite what an editor saved in the draft row,
\* unless it was saved before the world was finished.
THEOREM EditsKeptThm == Spec => EditsKept
<1>1. ASSUME IInv, [Next]_vars, edited = "yes", "early" \notin stray
      PROVE  edited' = "yes"
  <2>1. ASSUME NEW q \in Request, Find(q) PROVE edited' = "yes"
    BY <1>1, <2>1 DEF Find, officialVars, draftVars
  <2>2. ASSUME NEW q \in Request, InsertCourse(q) PROVE edited' = "yes"
    BY <1>1, <2>2 DEF InsertCourse, officialVars, draftVars
  <2>3. ASSUME NEW q \in Request, LinkCourse(q) PROVE edited' = "yes"
    BY <1>1, <2>3 DEF LinkCourse, Noted, officialVars, draftVars
  <2>4. ASSUME NEW q \in Request, ListRuns(q) PROVE edited' = "yes"
    BY <1>1, <2>4 DEF ListRuns, officialVars, draftVars
  <2>5. ASSUME NEW q \in Request, NEW r \in Run, CopyNew(q, r) PROVE edited' = "yes"
    BY <1>1, <2>5 DEF CopyNew, officialVars, draftVars
  <2>6. ASSUME NEW q \in Request, NEW r \in Run, CopyClashes(q, r) PROVE edited' = "yes"
    BY <1>1, <2>6 DEF CopyClashes, Noted, officialVars, draftVars
  <2>7. ASSUME NEW q \in Request, PairRun(q) PROVE edited' = "yes"
    BY <1>1, <2>7 DEF PairRun, officialVars, draftVars
  <2>8. ASSUME NEW q \in Request, Finish(q) PROVE edited' = "yes"
    BY <1>1, <2>8 DEF Finish, officialVars, draftVars, IInv, RequestInv, RequestFacts, Unfinished
  <2>9. ASSUME NEW q \in Request, Dies(q) PROVE edited' = "yes"
    BY <1>1, <2>9 DEF Dies, Noted, officialVars, draftVars
  <2>10. ASSUME NEW seen \in {canonical, NoRun}, SaveFirst(seen) PROVE edited' = "yes"
    BY <1>1, <2>10 DEF SaveFirst, BuildAtOnce, Noted, officialVars, draftVars
  <2>11. ASSUME NEW r \in Run, NEW seen \in {canonical, NoRun}, CreateFirst(r, seen) PROVE edited' = "yes"
    BY <1>1, <2>11 DEF CreateFirst, BuildAtOnce, Noted, officialVars, draftVars
  <2>12. ASSUME SaveAgain PROVE edited' = "yes"
    BY <1>1, <2>12 DEF SaveAgain, Noted, officialVars, draftVars
  <2>13. ASSUME NEW r \in Run, CreateAgain(r) PROVE edited' = "yes"
    BY <1>1, <2>13 DEF CreateAgain, Noted, officialVars, draftVars
  <2>14. ASSUME NEW r \in Run, Review(r) PROVE edited' = "yes"
    BY <1>1, <2>14 DEF Review, officialVars, draftVars
  <2>15. ASSUME NEW l \in Loader, NEW r \in Run, FindCourse(l, r) PROVE edited' = "yes"
    BY <1>1, <2>15 DEF FindCourse, officialVars, draftVars
  <2>16. ASSUME NEW l \in Loader, LoadDraft(l) PROVE edited' = "yes"
    BY <1>1, <2>16 DEF LoadDraft, Noted, officialVars, draftVars
  <2>17. ASSUME NEW l \in Loader, LoadOfficial(l) PROVE edited' = "yes"
    BY <1>1, <2>17 DEF LoadOfficial, officialVars, draftVars
  <2>18. ASSUME NEW l \in Loader, LoadAlone(l) PROVE edited' = "yes"
    BY <1>1, <2>18 DEF LoadAlone, Noted, officialVars, draftVars
  <2>19. ASSUME NEW l \in Loader, SetCanonical(l) PROVE edited' = "yes"
    BY <1>1, <2>19 DEF SetCanonical, Noted, officialVars, draftVars
  <2>20. ASSUME NEW l \in Loader, LoaderGivesUp(l) PROVE edited' = "yes"
    BY <1>1, <2>20 DEF LoaderGivesUp, officialVars, draftVars
  <2>21. CASE UNCHANGED vars BY <1>1, <2>21 DEF vars, officialVars, draftVars
  <2> QED BY <1>1, <2>1, <2>2, <2>3, <2>4, <2>5, <2>6, <2>7, <2>8, <2>9, <2>10, <2>11, <2>12,
    <2>13, <2>14, <2>15, <2>16, <2>17, <2>18, <2>19, <2>20, <2>21 DEF Next
<1>2. IInv /\ [Next]_vars => [edited = "yes" /\ "early" \notin stray => edited' = "yes"]_vars
  BY <1>1
<1> QED BY <1>2, IInvInvariant, PTL DEF Spec, EditsKept

---------------------------------------------------------------------------
(* Damage stays.  ensure_draft_world returns the draft version at once if   *)
(* there is one, and nobody else links rows that are there.                 *)

\* The course has got its draft row, and no request is at work on the world.
AtRest == AllFinished /\ course \in {"split", "linked"}

\* The official run r was left out of the draft world.
Lost(r) == AtRest /\ course = "linked" /\ r \in official \ paired

\* The draft row of the course was never linked.
Torn == AtRest /\ course = "split"

\* Whoever comes to a world at rest leaves the rows of the course as they are and
\* links no official run that is not linked.
LEMMA RestStep ==
  ASSUME IInv, [Next]_vars, AtRest
  PROVE  AllFinished' /\ course' = course /\ (official \ paired) \subseteq (official' \ paired')
<1> DEFINE Kept == course' = course /\ (official \ paired) \subseteq (official' \ paired')
           Still == AllFinished' /\ Kept
<1>a. request' = request /\ Kept => Still
  BY DEF AtRest, AllFinished, Unfinished
<1>b. ASSUME NEW q \in Request, Ends(q), Kept PROVE Still
  BY <1>b DEF IInv, TypeOK, Ends, NoWork, AtRest, AllFinished, Unfinished
<1>c. \A q \in Request : request[q].at \notin {"link", "list", "copy", "pair"}
  BY DEF AtRest, AllFinished, Unfinished
<1>1. ASSUME NEW q \in Request, Find(q) PROVE Still
  BY <1>1 DEF Find, IInv, TypeOK, Builder, Stages, officialVars, AtRest, AllFinished, Unfinished
<1>2. ASSUME NEW q \in Request, InsertCourse(q) PROVE Still
  BY <1>2, <1>b, <1>c DEF InsertCourse, officialVars, AtRest
<1>3. ASSUME NEW q \in Request, LinkCourse(q) PROVE Still
  BY <1>3, <1>c DEF LinkCourse
<1>4. ASSUME NEW q \in Request, ListRuns(q) PROVE Still
  BY <1>4, <1>c DEF ListRuns
<1>5. ASSUME NEW q \in Request, NEW r \in Run, CopyNew(q, r) PROVE Still
  BY <1>5, <1>c DEF CopyNew
<1>6. ASSUME NEW q \in Request, NEW r \in Run, CopyClashes(q, r) PROVE Still
  BY <1>6, <1>c DEF CopyClashes
<1>7. ASSUME NEW q \in Request, PairRun(q) PROVE Still
  BY <1>7, <1>c DEF PairRun
<1>8. ASSUME NEW q \in Request, Finish(q) PROVE Still
  BY <1>8, <1>c DEF Finish
<1>9. ASSUME NEW q \in Request, Dies(q) PROVE Still
  BY <1>9, <1>b, <1>c DEF Dies, officialVars, AtRest
<1>10. ASSUME NEW seen \in {canonical, NoRun}, SaveFirst(seen) PROVE Still
  BY <1>10 DEF SaveFirst, BuildAtOnce, AtRest
<1>11. ASSUME NEW r \in Run, NEW seen \in {canonical, NoRun}, CreateFirst(r, seen) PROVE Still
  BY <1>11 DEF CreateFirst, BuildAtOnce, AtRest
<1>12. ASSUME SaveAgain PROVE Still
  BY <1>12, <1>a DEF SaveAgain, officialVars
<1>13. ASSUME NEW r \in Run, CreateAgain(r) PROVE Still
  BY <1>13, <1>a DEF CreateAgain, officialVars
<1>14. ASSUME NEW r \in Run, Review(r) PROVE Still
  BY <1>14, <1>a DEF Review, Officiate
<1>15. ASSUME NEW l \in Loader, NEW r \in Run, FindCourse(l, r) PROVE Still
  BY <1>15, <1>a DEF FindCourse, officialVars, AtRest
<1>16. ASSUME NEW l \in Loader, LoadDraft(l) PROVE Still
  BY <1>16, <1>a DEF LoadDraft, officialVars
<1>17. ASSUME NEW l \in Loader, LoadOfficial(l) PROVE Still
  BY <1>17, <1>a DEF LoadOfficial, Officiate
<1>18. ASSUME NEW l \in Loader, LoadAlone(l) PROVE Still
  BY <1>18, <1>a DEF LoadAlone
<1>19. ASSUME NEW l \in Loader, SetCanonical(l) PROVE Still
  BY <1>19, <1>a DEF SetCanonical
<1>20. ASSUME NEW l \in Loader, LoaderGivesUp(l) PROVE Still
  BY <1>20, <1>a DEF LoaderGivesUp, officialVars
<1>21. ASSUME UNCHANGED vars PROVE Still
  BY <1>21, <1>a DEF vars, officialVars
<1> HIDE DEF Still
<1>22. Still
  BY <1>1, <1>2, <1>3, <1>4, <1>5, <1>6, <1>7, <1>8, <1>9, <1>10, <1>11, <1>12, <1>13,
    <1>14, <1>15, <1>16, <1>17, <1>18, <1>19, <1>20, <1>21 DEF Next
<1> QED BY <1>22 DEF Still

\* An official run that a finished draft world lacks is never linked, so it can
\* never be edited or reviewed again: ensure_draft_world does not copy what an
\* earlier call left out, and the loader links only what it makes official.
THEOREM LostForGood == Spec => \A r \in Run : [](Lost(r) => []Lost(r))
<1> SUFFICES ASSUME NEW r \in Run PROVE Spec => [](Lost(r) => []Lost(r))
  OBVIOUS
<1>1. IInv /\ [Next]_vars /\ Lost(r) => Lost(r)'
  BY RestStep DEF Lost, AtRest
<1> QED BY <1>1, IInvInvariant, PTL DEF Spec

\* A course whose draft row was not linked when the build died keeps its two
\* unlinked rows: the next build runs into the draft row that is there.
THEOREM TornForGood == Spec => [](Torn => []Torn)
<1>1. IInv /\ [Next]_vars /\ Torn => Torn'
  BY RestStep DEF Torn, AtRest
<1> QED BY <1>1, IInvInvariant, PTL DEF Spec
---------------------------------------------------------------------------
(* DraftWorld implements DraftAtOnce.                                      *)

\* Until something goes wrong an unfinished world has draft rows of official runs
\* alone, so that the finished one has nothing else.
DraftIsCopied == ~AllFinished /\ stray = {} => draft \subseteq official

LEMMA CopiedStep ==
  ASSUME IInv, DraftIsCopied, [Next]_vars
  PROVE  DraftIsCopied'
<1> USE DEF DraftIsCopied
<1>a. request' = request => AllFinished' = AllFinished
  BY DEF AllFinished, Unfinished
<1>b. ASSUME NEW q \in Request, Ends(q), AllFinished PROVE AllFinished'
  BY <1>b DEF IInv, TypeOK, Ends, NoWork, AllFinished, Unfinished
<1>c. ASSUME NEW q \in Request, request[q].at \in {"link", "list", "copy", "pair"}
      PROVE  ~AllFinished
  BY <1>c DEF AllFinished, Unfinished
<1>d. course # "linked" => draft = {}
  BY DEF IInv, CourseInv
<1>1. ASSUME NEW q \in Request, Find(q) PROVE DraftIsCopied'
  BY <1>1, <1>d DEF Find, officialVars, draftVars, IInv, TypeOK, Builder, Stages, AllFinished, Unfinished
<1>2. ASSUME NEW q \in Request, InsertCourse(q) PROVE DraftIsCopied'
  BY <1>2, <1>b, <1>d DEF InsertCourse, officialVars, draftVars
<1>3. ASSUME NEW q \in Request, LinkCourse(q) PROVE DraftIsCopied'
  BY <1>3, <1>c DEF LinkCourse, Noted, officialVars, draftVars
<1>4. ASSUME NEW q \in Request, ListRuns(q) PROVE DraftIsCopied'
  BY <1>4, <1>c DEF ListRuns, officialVars, draftVars
<1>5. ASSUME NEW q \in Request, NEW r \in Run, CopyNew(q, r) PROVE DraftIsCopied'
  BY <1>5, <1>c DEF CopyNew, officialVars, IInv, RequestInv, RequestFacts
<1>6. ASSUME NEW q \in Request, NEW r \in Run, CopyClashes(q, r) PROVE DraftIsCopied'
  BY <1>6, <1>c DEF CopyClashes, Noted, officialVars, draftVars
<1>7. ASSUME NEW q \in Request, PairRun(q) PROVE DraftIsCopied'
  BY <1>7, <1>c DEF PairRun, officialVars, draftVars
<1>8. ASSUME NEW q \in Request, Finish(q) PROVE DraftIsCopied'
  BY <1>8, <1>c DEF Finish, officialVars
<1>9. ASSUME NEW q \in Request, Dies(q) PROVE DraftIsCopied'
  BY <1>9, <1>b DEF Dies, Noted, officialVars, draftVars
<1>10. ASSUME NEW seen \in {canonical, NoRun}, SaveFirst(seen) PROVE DraftIsCopied'
  BY <1>10, <1>a DEF SaveFirst, BuildAtOnce, IInv, CourseInv
<1>11. ASSUME NEW r \in Run, NEW seen \in {canonical, NoRun}, CreateFirst(r, seen) PROVE DraftIsCopied'
  BY <1>11, <1>a DEF CreateFirst, BuildAtOnce, IInv, CourseInv
<1>12. ASSUME SaveAgain PROVE DraftIsCopied'
  BY <1>12, <1>a DEF SaveAgain, Noted, officialVars
<1>13. ASSUME NEW r \in Run, CreateAgain(r) PROVE DraftIsCopied'
  BY <1>13, <1>a DEF CreateAgain, Noted, officialVars
<1>14. ASSUME NEW r \in Run, Review(r) PROVE DraftIsCopied'
  BY <1>14, <1>a DEF Review, Officiate, draftVars
<1>15. ASSUME NEW l \in Loader, NEW r \in Run, FindCourse(l, r) PROVE DraftIsCopied'
  BY <1>15, <1>a DEF FindCourse, officialVars, draftVars
<1>16. ASSUME NEW l \in Loader, LoadDraft(l) PROVE DraftIsCopied'
  BY <1>16, <1>a DEF LoadDraft, Noted, officialVars
<1>17. ASSUME NEW l \in Loader, LoadOfficial(l) PROVE DraftIsCopied'
  BY <1>17, <1>a DEF LoadOfficial, Officiate, draftVars
<1>18. ASSUME NEW l \in Loader, LoadAlone(l) PROVE DraftIsCopied'
  BY <1>18, <1>a DEF LoadAlone, Noted, draftVars
<1>19. ASSUME NEW l \in Loader, SetCanonical(l) PROVE DraftIsCopied'
  BY <1>19, <1>a DEF SetCanonical, Noted, draftVars
<1>20. ASSUME NEW l \in Loader, LoaderGivesUp(l) PROVE DraftIsCopied'
  BY <1>20, <1>a DEF LoaderGivesUp, officialVars, draftVars
<1>21. ASSUME UNCHANGED vars PROVE DraftIsCopied'
  BY <1>21, <1>a DEF vars, officialVars, draftVars
<1> HIDE DEF DraftIsCopied
<1> QED BY <1>1, <1>2, <1>3, <1>4, <1>5, <1>6, <1>7, <1>8, <1>9, <1>10, <1>11, <1>12,
  <1>13, <1>14, <1>15, <1>16, <1>17, <1>18, <1>19, <1>20, <1>21 DEF Next

LEMMA DraftIsCopiedInvariant == Spec => [](IInv /\ DraftIsCopied)
<1>1. Init => DraftIsCopied BY DEF Init, DraftIsCopied
<1>2. IInv /\ DraftIsCopied /\ [Next]_vars => DraftIsCopied'
  BY CopiedStep
<1> QED BY <1>1, <1>2, IInvInvariant, PTL DEF Spec

\* Nobody can tell two states apart that show the same rows.
LEMMA ShowsNothing ==
  ASSUME stray = {}, stray' = {}, Finished' <=> Finished,
         course' = "none" <=> course = "none",
         official' = official, canonical' = canonical,
         Finished => UNCHANGED <<draft, draftCanonical, edited, paired>>
  PROVE  UNCHANGED World!rows
BY DEF World!rows, CourseShown

LEMMA StepMaps ==
  ASSUME IInv, DraftIsCopied, [Next]_vars
  PROVE  World!Next \/ UNCHANGED World!rows
<1> DEFINE Maps == World!Next \/ UNCHANGED World!rows
           Builds(q) == request[q].at \in {"link", "list", "copy", "pair"}
<1>a. stray' # {} => Maps
  BY DEF World!Next, World!Break, CourseShown
<1>b. request' = request => AllFinished' = AllFinished
  BY DEF AllFinished, Unfinished
<1>c. ASSUME NEW q \in Request, Builds(q) PROVE ~Finished /\ course # "none"
  BY <1>c DEF Finished, AllFinished, Unfinished, IInv, RequestInv, RequestFacts
<1>d. ASSUME NEW q \in Request, Builds(q)' PROVE ~Finished'
  BY <1>d DEF Finished, AllFinished, Unfinished
<1>e. ASSUME NEW q \in Request, ~Builds(q), ~Builds(q)',
             \A p \in Request : p # q => request'[p] = request[p]
      PROVE  AllFinished' = AllFinished
  BY <1>e DEF AllFinished, Unfinished
<1>f. ASSUME NEW q \in Request, Builds(q), Builds(q)', course' # "none", stray = {}, stray' = {},
             official' = official, canonical' = canonical
      PROVE  Maps
  BY <1>c, <1>d, <1>f, ShowsNothing
<1>g. ASSUME AllFinished' = AllFinished, stray' = {}, course' = course,
             UNCHANGED <<officialVars, draftVars, paired, stray>>
      PROVE  Maps
  BY <1>g, ShowsNothing DEF Finished, officialVars, draftVars
<1>h. course = "alone" => AllFinished /\ ~Finished
  BY DEF IInv, CourseInv, Finished
<1>i. /\ stray = {} /\ Finished => CourseShown = "linked"
      /\ stray = {} /\ course = "alone" => CourseShown = "alone"
      /\ stray = {} /\ ~Finished /\ course # "none" => CourseShown = "alone"
      /\ stray = {} /\ course = "none" => CourseShown = "none"
  BY DEF CourseShown, Finished
<1>j. /\ stray' = {} /\ Finished' => CourseShown' = "linked"
      /\ stray' = {} /\ course' = "alone" => CourseShown' = "alone"
  BY DEF CourseShown, Finished
<1>t. TypeOK BY DEF IInv
<1>1. ASSUME NEW q \in Request, Find(q), stray' = {} PROVE Maps
  <2>1. ~Builds(q) /\ ~Builds(q)' /\ \A p \in Request : p # q => request'[p] = request[p]
    BY <1>1, <1>t DEF Find, TypeOK, NoWork
  <2> QED BY <1>1, <1>e, <1>g, <2>1 DEF Find
<1>2. ASSUME NEW q \in Request, InsertCourse(q), stray' = {} PROVE Maps
  <2>1. CASE course = "alone"
    <3>1. ~Finished' /\ course' # "none" /\ stray = {}
      BY <1>2, <2>1 DEF InsertCourse, Finished
    <3> QED BY <1>2, <1>h, <2>1, <3>1, ShowsNothing DEF InsertCourse, officialVars
  <2>2. CASE course # "alone"
    <3>1. ~Builds(q) /\ ~Builds(q)' /\ \A p \in Request : p # q => request'[p] = request[p]
      BY <1>2, <2>2, <1>t DEF InsertCourse, Ends, TypeOK, NoWork
    <3> QED BY <1>2, <1>e, <1>g, <2>2, <3>1 DEF InsertCourse
  <2> QED BY <2>1, <2>2
<1>3. ASSUME NEW q \in Request, LinkCourse(q), stray' = {} PROVE Maps
  <2>1. Builds(q) /\ Builds(q)' /\ stray = {} /\ canonical' = canonical
    BY <1>3, <1>t DEF LinkCourse, GoesOn, Noted, TypeOK
  <2> QED BY <1>3, <1>f, <2>1 DEF LinkCourse
<1>4. ASSUME NEW q \in Request, ListRuns(q), stray' = {} PROVE Maps
  <2>1. Builds(q) /\ Builds(q)'
    BY <1>4, <1>t DEF ListRuns, GoesOn, TypeOK
  <2> QED BY <1>4, <1>c, <1>f, <2>1 DEF ListRuns, officialVars
<1>5. ASSUME NEW q \in Request, NEW r \in Run, CopyNew(q, r), stray' = {} PROVE Maps
  <2>1. Builds(q) /\ Builds(q)'
    BY <1>5, <1>t DEF CopyNew, GoesOn, TypeOK
  <2> QED BY <1>5, <1>c, <1>f, <2>1 DEF CopyNew, officialVars
<1>6. ASSUME NEW q \in Request, NEW r \in Run, CopyClashes(q, r), stray' = {} PROVE Maps
  BY <1>6 DEF CopyClashes, Noted
<1>7. ASSUME NEW q \in Request, PairRun(q), stray' = {} PROVE Maps
  <2>1. Builds(q) /\ Builds(q)'
    BY <1>7, <1>t DEF PairRun, GoesOn, TypeOK
  <2> QED BY <1>7, <1>c, <1>f, <2>1 DEF PairRun, officialVars
<1>8. ASSUME NEW q \in Request, Finish(q), stray' = {} PROVE Maps
  <2>1. Builds(q) /\ course = "linked" /\ stray = {} /\ course' = "linked"
    BY <1>8 DEF Finish, IInv, RequestInv, RequestFacts
  <2>2. AllFinished'
    BY <1>8, <2>1, <1>t DEF Finish, Ends, NoWork, TypeOK, AllFinished, Unfinished, IInv, RequestInv
  <2>3. official = paired /\ draft = official /\ canonical = request[q].seen
    <3>1. ~AllFinished BY <2>1 DEF AllFinished, Unfinished
    <3>2. official \subseteq paired /\ canonical = request[q].seen
      BY <1>8, <2>1 DEF Finish, IInv, RequestInv, RequestFacts
    <3>3. paired \subseteq official \cap draft BY <1>t DEF TypeOK
    <3> QED BY <2>1, <3>1, <3>2, <3>3 DEF DraftIsCopied
  <2>4. ~Finished /\ Finished' BY <1>c, <2>1, <2>2 DEF Finished
  <2>5. CourseShown = "alone" /\ CourseShown' = "linked"
    BY <1>8, <1>i, <1>j, <2>1, <2>4
  <2>6. /\ draft' = official /\ paired' = official /\ draftCanonical' = canonical
        /\ edited' = "no" /\ official' = official /\ canonical' = canonical
    BY <1>8, <2>3 DEF Finish, officialVars
  <2>7. World!Build({})
    BY <2>4, <2>5, <2>6 DEF World!Build
  <2> QED BY <2>7 DEF World!Next
<1>9. ASSUME NEW q \in Request, Dies(q), stray' = {} PROVE Maps
  <2>1. ~Builds(q)
    BY <1>9 DEF Dies, Noted, Unfinished
  <2>2. ~Builds(q)' /\ \A p \in Request : p # q => request'[p] = request[p]
    BY <1>9, <1>t DEF Dies, Ends, TypeOK, NoWork
  <2>3. stray' = stray BY <1>9 DEF Dies, Noted
  <2> QED BY <1>9, <1>e, <1>g, <2>1, <2>2, <2>3 DEF Dies
<1>10. ASSUME NEW seen \in {canonical, NoRun}, SaveFirst(seen), stray' = {} PROVE Maps
  <2>1. /\ course = "alone" /\ course' = "linked" /\ stray = {} /\ canonical = seen
        /\ official' = official /\ canonical' = canonical /\ paired' = official
        /\ draft' = official /\ draftCanonical' = canonical
        /\ edited' \in {"no", "yes"} /\ request' = request
    BY <1>10, <1>t DEF SaveFirst, BuildAtOnce, Noted, TypeOK
  <2>2. AllFinished' /\ ~Finished /\ Finished'
    BY <1>b, <1>h, <2>1 DEF Finished
  <2>3. CourseShown = "alone" /\ CourseShown' = "linked"
    BY <1>10, <1>i, <1>j, <2>1, <2>2
  <2>4. World!Build({})
    BY <2>1, <2>2, <2>3 DEF World!Build, World!FirstOr, FirstOr
  <2> QED BY <2>4 DEF World!Next
<1>11. ASSUME NEW r \in Run, NEW seen \in {canonical, NoRun}, CreateFirst(r, seen), stray' = {} PROVE Maps
  <2>1. /\ course = "alone" /\ course' = "linked" /\ stray = {} /\ canonical = seen
        /\ official' = official /\ canonical' = canonical /\ paired' = official
        /\ draft' = official \cup {r} /\ draftCanonical' = FirstOr(canonical, r)
        /\ edited' \in {"no", "yes"} /\ request' = request /\ r \notin official
    BY <1>11, <1>t DEF CreateFirst, BuildAtOnce, Noted, TypeOK
  <2>2. AllFinished' /\ ~Finished /\ Finished'
    BY <1>b, <1>h, <2>1 DEF Finished
  <2>3. CourseShown = "alone" /\ CourseShown' = "linked"
    BY <1>11, <1>i, <1>j, <2>1, <2>2
  <2>4. World!Build({r})
    BY <2>1, <2>2, <2>3 DEF World!Build, World!FirstOr, FirstOr
  <2> QED BY <2>4 DEF World!Next
<1>12. ASSUME SaveAgain, stray' = {} PROVE Maps
  <2>1. Finished /\ Finished' /\ stray = {}
    BY <1>12, <1>b DEF SaveAgain, Noted, Finished
  <2>2. CourseShown = "linked" /\ CourseShown' = "linked"
    BY <1>12, <1>i, <1>j, <2>1
  <2>3. World!Save
    BY <1>12, <2>1, <2>2 DEF World!Save, SaveAgain, officialVars
  <2> QED BY <2>3 DEF World!Next
<1>13. ASSUME NEW r \in Run, CreateAgain(r), stray' = {} PROVE Maps
  <2>1. Finished /\ Finished' /\ stray = {}
    BY <1>13, <1>b DEF CreateAgain, Noted, Finished
  <2>2. CourseShown = "linked" /\ CourseShown' = "linked"
    BY <1>13, <1>i, <1>j, <2>1
  <2>3. World!Create(r)
    BY <1>13, <2>1, <2>2 DEF World!Create, World!FirstOr, FirstOr, CreateAgain, officialVars
  <2> QED BY <2>3 DEF World!Next
<1>14. ASSUME NEW r \in Run, Review(r), stray' = {} PROVE Maps
  <2>1. Finished /\ Finished' /\ stray = {}
    BY <1>14, <1>b DEF Review, DraftIsCopied, Finished
  <2>2. CourseShown = "linked" /\ CourseShown' = "linked"
    BY <1>14, <1>i, <1>j, <2>1
  <2>3. World!MakeOfficial(r)
    BY <1>14, <2>1, <2>2 DEF World!MakeOfficial, Review, Officiate, draftVars
  <2> QED BY <2>3 DEF World!Next
<1>15. ASSUME NEW l \in Loader, NEW r \in Run, FindCourse(l, r), stray' = {} PROVE Maps
  <2>1. CASE course = "none"
    <3>1. /\ CourseShown = "none" /\ CourseShown' = "alone" /\ ~Finished /\ ~Finished'
          /\ official' = official /\ canonical' = canonical
      BY <1>15, <1>i, <1>j, <2>1 DEF FindCourse, Finished, officialVars
    <3>2. World!Appear
      BY <3>1 DEF World!Appear
    <3> QED BY <3>2 DEF World!Next
  <2>2. CASE course # "none"
    BY <1>15, <1>b, <1>g, <2>2 DEF FindCourse
  <2> QED BY <2>1, <2>2
<1>16. ASSUME NEW l \in Loader, LoadDraft(l), stray' = {} PROVE Maps
  <2> DEFINE r == loader[l].run
  <2>1. Finished /\ Finished' /\ stray = {}
    BY <1>16, <1>b DEF LoadDraft, Noted, Finished, IInv, LoaderInv, LoaderFacts
  <2>2. CourseShown = "linked" /\ CourseShown' = "linked"
    BY <1>16, <1>i, <1>j, <2>1
  <2>3. r \in Run /\ r \notin official \cup draft
    BY <1>16, <1>t, <2>1 DEF LoadDraft, TypeOK, IInv, LoaderInv, LoaderFacts
  <2>4. /\ draft' = draft \cup {r}
        /\ UNCHANGED <<official, canonical, draftCanonical, edited, paired>>
    BY <1>16 DEF LoadDraft, officialVars
  <2>5. World!Create(r)
    BY <2>1, <2>2, <2>3, <2>4 DEF World!Create
  <2> QED BY <2>3, <2>5 DEF World!Next
<1>17. ASSUME NEW l \in Loader, LoadOfficial(l), stray' = {} PROVE Maps
  <2> DEFINE r == loader[l].run
  <2>1. /\ stray = {} /\ course = "linked" /\ course' = "linked" /\ r \in Run /\ r \in draft
        /\ official' = official \cup {r} /\ paired' = paired \cup {r}
        /\ canonical' = canonical /\ UNCHANGED <<draft, draftCanonical, edited>>
    BY <1>17, <1>t DEF LoadOfficial, Officiate, TypeOK, draftVars, IInv, LoaderInv, LoaderFacts
  <2>2. Finished' <=> Finished
    BY <1>17, <1>b, <2>1 DEF LoadOfficial, Finished
  <2>3. CASE r \in official
    <3>1. official' = official /\ paired' = paired
      BY <1>17, <2>1, <2>3 DEF LoadOfficial
    <3> QED BY <1>17, <2>1, <2>2, <3>1, ShowsNothing
  <2>4. CASE r \notin official
    <3>1. Finished
      BY <2>1, <2>4 DEF DraftIsCopied, Finished
    <3>2. CourseShown = "linked" /\ CourseShown' = "linked"
      BY <1>17, <1>i, <1>j, <2>1, <2>2, <3>1
    <3>3. World!MakeOfficial(r)
      BY <2>1, <2>2, <2>4, <3>1, <3>2 DEF World!MakeOfficial
    <3> QED BY <2>1, <3>3 DEF World!Next
  <2> QED BY <2>3, <2>4
<1>18. ASSUME NEW l \in Loader, LoadAlone(l), stray' = {} PROVE Maps
  <2> DEFINE r == loader[l].run
  <2>1. /\ stray = {} /\ course = "alone" /\ course' = "alone" /\ r \in Run
        /\ r \notin official /\ official' = official \cup {r} /\ canonical' = canonical
    BY <1>18, <1>t DEF LoadAlone, Noted, TypeOK, draftVars, IInv, LoaderInv, LoaderFacts
  <2>2. ~Finished /\ ~Finished' /\ CourseShown = "alone" /\ CourseShown' = "alone"
    BY <1>18, <1>i, <1>j, <2>1 DEF Finished
  <2>3. World!Load(r)
    BY <2>1, <2>2 DEF World!Load
  <2> QED BY <2>1, <2>3 DEF World!Next
<1>19. ASSUME NEW l \in Loader, SetCanonical(l), stray' = {} PROVE Maps
  <2> DEFINE r == loader[l].run
  <2>1. /\ stray = {} /\ course = "alone" /\ course' = "alone" /\ r \in Run
        /\ r \in official /\ official' = official /\ canonical' = r
    BY <1>19, <1>t DEF SetCanonical, Noted, TypeOK, draftVars, IInv, LoaderInv, LoaderFacts
  <2>2. ~Finished /\ ~Finished' /\ CourseShown = "alone" /\ CourseShown' = "alone"
    BY <1>19, <1>i, <1>j, <2>1 DEF Finished
  <2>3. World!SetCanonical(r)
    BY <2>1, <2>2 DEF World!SetCanonical
  <2> QED BY <2>1, <2>3 DEF World!Next
<1>20. ASSUME NEW l \in Loader, LoaderGivesUp(l), stray' = {} PROVE Maps
  BY <1>20, <1>b, <1>g DEF LoaderGivesUp
<1>21. ASSUME UNCHANGED vars, stray' = {} PROVE Maps
  BY <1>21, <1>b, <1>g DEF vars
<1> HIDE DEF Maps
<1>22. Maps BY <1>a, <1>1, <1>2, <1>3, <1>4, <1>5, <1>6, <1>7, <1>8, <1>9, <1>10, <1>11,
    <1>12, <1>13, <1>14, <1>15, <1>16, <1>17, <1>18, <1>19, <1>20, <1>21 DEF Next
<1> QED BY <1>22 DEF Maps

LEMMA InitMaps ==
  ASSUME Init
  PROVE  World!Init
BY DEF Init, World!Init, CourseShown, Finished, AllFinished, Unfinished, NoWork

\* To who looks at the rows of a course between builds, a draft world that is made
\* row by row appears in one step and whole, with the canonical run, however the
\* steps of other requests and of the loader fall between its own: until a
\* request dies or clashes, somebody works in an unfinished world, or a row is
\* written that was read too long ago.
THEOREM BuiltAtOnceThm == Spec => BuiltAtOnce
<1>1. Init => World!Init BY InitMaps
<1>2. IInv /\ DraftIsCopied /\ [Next]_vars => [World!Next]_World!rows
  BY StepMaps
<1> QED BY <1>1, <1>2, DraftIsCopiedInvariant, PTL DEF Spec, BuiltAtOnce, World!Spec
===========================================================================
