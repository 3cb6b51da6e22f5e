----------------------- MODULE CourseUrlSlugs_proofs -----------------------
(* Proofs about the URL slugs, for any courses, runs and slugs.            *)
EXTENDS CourseUrlSlugs, TLAPS

USE SlugAssumption

LEMMA EntryFacts ==
  ASSUME NEW e \in Entry
  PROVE  /\ e = Free <=> e.course = NoCourse
         /\ e.course \in Course \cup {NoCourse}
         /\ e = Free <=> e.row = "none"
         /\ e.row \in {"none", "draft", "official"}
         /\ e.row = "official" => e \in [course: Course, row: {"official"}, flags: SUBSET Flags]
         /\ e.row = "draft" => e = OfDraft(e.course)
BY DEF Entry, Free, OfDraft

LEMMA MakeEntry ==
  ASSUME NEW c \in Course
  PROVE  /\ Free \in Entry /\ OfDraft(c) \in Entry /\ OfOfficial(c) \in Entry /\ Redirect(c) \in Entry
         /\ OfDraft(c).course = c /\ OfDraft(c).row = "draft"
         /\ OfOfficial(c).course = c /\ OfOfficial(c).row = "official" /\ OfOfficial(c).flags = Flags
         /\ Redirect(c).course = c /\ Redirect(c).row = "official" /\ Redirect(c).flags = {}
         /\ Free.course = NoCourse /\ Free.row = "none"
BY DEF Entry, Free, OfDraft, OfOfficial, Redirect, Flags

LEMMA MarkFacts ==
  ASSUME NEW e \in Entry, e.row = "official", NEW match \in BOOLEAN
  PROVE  LET m == MarkOnDraft(e, match) IN
         /\ m \in Entry /\ m.course = e.course /\ m.row = "official"
         /\ "is_active" \in m.flags <=> "is_active" \in e.flags
         /\ "is_active_on_draft" \in m.flags <=> match
PROOF
<1>1. e \in [course: Course, row: {"official"}, flags: SUBSET Flags]
  BY EntryFacts
<1>2. MarkOnDraft(e, match) \in [course: Course, row: {"official"}, flags: SUBSET Flags]
  BY <1>1 DEF MarkOnDraft, Flags
<1>3. MarkOnDraft(e, match).flags =
        IF match THEN e.flags \cup {"is_active_on_draft"} ELSE e.flags \ {"is_active_on_draft"}
  BY <1>1 DEF MarkOnDraft
<1>4. MarkOnDraft(e, match).course = e.course
  BY <1>1 DEF MarkOnDraft
<1> QED
  BY <1>2, <1>3, <1>4 DEF Entry

\* What set_active_url_slug does to the table when it is called on a draft row.
LEMMA SetDraftFacts ==
  ASSUME NEW t \in [Slug -> Entry], NEW c \in Course, NEW s \in Slug, Available(t, c, s)
  PROVE  LET u == SetDraftSlug(t, c, s) IN
         /\ u \in [Slug -> Entry]
         /\ DraftSlugs(u, c) = {s}
         /\ OfficialSlugs(u, c) = OfficialSlugs(t, c)
         /\ OfficialHistory(u, c) = OfficialHistory(t, c)
         /\ u[s].course = c
         /\ \A d \in Course \ {c} :
              /\ DraftHistory(u, d) = DraftHistory(t, d)
              /\ OfficialHistory(u, d) = OfficialHistory(t, d)
              /\ DraftSlugs(u, d) = DraftSlugs(t, d)
              /\ OfficialSlugs(u, d) = OfficialSlugs(t, d)
PROOF
<1> DEFINE u == SetDraftSlug(t, c, s)
<1>1. \A x \in Slug :
        /\ x \in OfficialHistory(t, c) => u[x] = MarkOnDraft(t[x], x = s)
        /\ x \notin OfficialHistory(t, c) /\ x = s => u[x] = OfDraft(c)
        /\ x \in DraftHistory(t, c) \ {s} => u[x] = Free
        /\ x # s /\ t[x].course # c => u[x] = t[x]
  BY DEF SetDraftSlug, OfficialHistory, DraftHistory
<1>2. \A x \in Slug : t[x] \in Entry
  OBVIOUS
<1>3. \A x \in Slug : x \in OfficialHistory(t, c) =>
        /\ u[x] \in Entry /\ u[x].course = c /\ u[x].row = "official"
        /\ "is_active" \in u[x].flags <=> "is_active" \in t[x].flags
        /\ "is_active_on_draft" \in u[x].flags <=> x = s
  <2> SUFFICES ASSUME NEW x \in Slug, x \in OfficialHistory(t, c)
               PROVE  /\ u[x] \in Entry /\ u[x].course = c /\ u[x].row = "official"
                      /\ "is_active" \in u[x].flags <=> "is_active" \in t[x].flags
                      /\ "is_active_on_draft" \in u[x].flags <=> x = s
    OBVIOUS
  <2>1. t[x] \in Entry /\ t[x].course = c /\ t[x].row = "official"
    BY <1>2 DEF OfficialHistory
  <2>2. u[x] = MarkOnDraft(t[x], x = s) /\ (x = s) \in BOOLEAN
    BY <1>1
  <2> HIDE DEF u
  <2> QED
    BY <2>1, <2>2, MarkFacts
<1>4. \A x \in Slug : t[x].course = c => x \in OfficialHistory(t, c) \/ x \in DraftHistory(t, c)
  BY <1>2, EntryFacts DEF OfficialHistory, DraftHistory
<1>5. u \in [Slug -> Entry]
  <2>1. u = [x \in Slug |-> u[x]]
    BY DEF SetDraftSlug
  <2>2. \A x \in Slug : u[x] \in Entry
    BY <1>1, <1>2, <1>3, <1>4, MakeEntry
  <2> QED
    BY <2>1, <2>2
<1>6. OfficialHistory(u, c) = OfficialHistory(t, c)
  <2>1. \A x \in Slug : x \notin OfficialHistory(t, c) => ~(u[x].course = c /\ u[x].row = "official")
    BY <1>1, <1>4, MakeEntry
  <2> QED
    BY <2>1, <1>3 DEF OfficialHistory
<1>7. OfficialSlugs(u, c) = OfficialSlugs(t, c)
  BY <1>3, <1>6 DEF OfficialSlugs, OfficialHistory
<1>8. DraftHistory(u, c) = IF s \in OfficialHistory(t, c) THEN {} ELSE {s}
  <2>1. \A x \in Slug : x \in OfficialHistory(t, c) => u[x].row # "draft"
    BY <1>3
  <2>2. \A x \in Slug : x # s /\ x \notin OfficialHistory(t, c) => ~(u[x].course = c /\ u[x].row = "draft")
    BY <1>1, <1>4, MakeEntry
  <2>3. s \notin OfficialHistory(t, c) => u[s].course = c /\ u[s].row = "draft"
    BY <1>1, MakeEntry
  <2> QED
    BY <2>1, <2>2, <2>3 DEF DraftHistory
<1>9. DraftSlugs(u, c) = {s}
  <2>1. CASE s \in OfficialHistory(t, c)
    <3>1. \A x \in OfficialHistory(u, c) : ("is_active_on_draft" \in u[x].flags) <=> x = s
      BY <1>3, <1>6 DEF OfficialHistory
    <3> QED
      BY <2>1, <3>1, <1>6, <1>8 DEF DraftSlugs
  <2>2. CASE s \notin OfficialHistory(t, c)
    BY <2>2, <1>8 DEF DraftSlugs
  <2> QED
    BY <2>1, <2>2
<1>10. u[s].course = c
  BY <1>1, <1>3, MakeEntry
<1>11. ASSUME NEW d \in Course \ {c}
       PROVE  /\ DraftHistory(u, d) = DraftHistory(t, d)
              /\ OfficialHistory(u, d) = OfficialHistory(t, d)
              /\ DraftSlugs(u, d) = DraftSlugs(t, d)
              /\ OfficialSlugs(u, d) = OfficialSlugs(t, d)
  <2>1. \A x \in Slug : t[x].course = d => u[x] = t[x]
    BY <1>1 DEF Available
  <2>2. \A x \in Slug : u[x].course = d => t[x].course = d
    BY <1>1, <1>3, <1>4, <1>10, MakeEntry
  <2>3. DraftHistory(u, d) = DraftHistory(t, d)
    BY <2>1, <2>2 DEF DraftHistory
  <2>4. OfficialHistory(u, d) = OfficialHistory(t, d)
    BY <2>1, <2>2 DEF OfficialHistory
  <2>5. \A x \in OfficialHistory(t, d) : u[x] = t[x]
    BY <2>1 DEF OfficialHistory
  <2> QED
    BY <2>3, <2>4, <2>5 DEF DraftSlugs, OfficialSlugs
<1> QED
  BY <1>5, <1>6, <1>7, <1>9, <1>10, <1>11

\* ... and when it is called on an official row.
LEMMA SetOfficialFacts ==
  ASSUME NEW t \in [Slug -> Entry], NEW c \in Course, NEW s \in Slug, Available(t, c, s)
  PROVE  LET u == SetOfficialSlug(t, c, s) IN
         /\ u \in [Slug -> Entry]
         /\ DraftHistory(u, c) = {}
         /\ DraftSlugs(u, c) = {s}
         /\ OfficialSlugs(u, c) = {s}
         /\ OfficialHistory(u, c) = OfficialHistory(t, c) \cup {s}
         /\ \A d \in Course \ {c} :
              /\ DraftHistory(u, d) = DraftHistory(t, d)
              /\ OfficialHistory(u, d) = OfficialHistory(t, d)
              /\ DraftSlugs(u, d) = DraftSlugs(t, d)
              /\ OfficialSlugs(u, d) = OfficialSlugs(t, d)
PROOF
<1> DEFINE u == SetOfficialSlug(t, c, s)
<1>1. \A x \in Slug : t[x] \in Entry
  OBVIOUS
<1>2. \A x \in Slug : t[x].course = c => x \in OfficialHistory(t, c) \/ x \in DraftHistory(t, c)
  BY <1>1, EntryFacts DEF OfficialHistory, DraftHistory
<1>3. \A x \in Slug : ~(x \in OfficialHistory(t, c) /\ x \in DraftHistory(t, c))
  BY DEF OfficialHistory, DraftHistory
<1>4. \A x \in Slug :
        /\ x = s => u[x] = OfOfficial(c)
        /\ x # s /\ x \in DraftHistory(t, c) => u[x] = Free
        /\ x # s /\ x \in OfficialHistory(t, c) => u[x] = Redirect(c)
        /\ x # s /\ t[x].course # c => u[x] = t[x]
  <2>1. \A x \in Slug : t[x].course # c => x \notin OfficialHistory(t, c) /\ x \notin DraftHistory(t, c)
    BY DEF OfficialHistory, DraftHistory
  <2> QED
    BY <2>1, <1>3 DEF SetOfficialSlug
<1>5. u = [x \in Slug |-> u[x]]
  BY DEF SetOfficialSlug
<1> HIDE DEF u
<1>6. \A x \in Slug : u[x] \in Entry
  BY <1>1, <1>2, <1>4, MakeEntry
<1>7. u \in [Slug -> Entry]
  BY <1>5, <1>6
<1>8. DraftHistory(u, c) = {}
  BY <1>2, <1>4, MakeEntry DEF DraftHistory
<1>9. \A x \in Slug : x \in OfficialHistory(u, c) <=> x = s \/ x \in OfficialHistory(t, c)
  <2>1. \A x \in Slug : x = s \/ x \in OfficialHistory(t, c) => u[x].course = c /\ u[x].row = "official"
    BY <1>4, MakeEntry
  <2>2. \A x \in Slug : x # s /\ x \notin OfficialHistory(t, c) => u[x].course # c
    BY <1>2, <1>4, MakeEntry
  <2> QED
    BY <2>1, <2>2 DEF OfficialHistory
<1>10. OfficialHistory(u, c) = OfficialHistory(t, c) \cup {s}
  BY <1>9 DEF OfficialHistory
<1>11. u[s].flags = Flags /\ \A x \in OfficialHistory(u, c) \ {s} : u[x].flags = {}
  BY <1>4, <1>10, MakeEntry DEF OfficialHistory
<1>12. DraftSlugs(u, c) = {s} /\ OfficialSlugs(u, c) = {s}
  BY <1>8, <1>10, <1>11 DEF DraftSlugs, OfficialSlugs, Flags
<1>13. ASSUME NEW d \in Course \ {c}
       PROVE  /\ DraftHistory(u, d) = DraftHistory(t, d)
              /\ OfficialHistory(u, d) = OfficialHistory(t, d)
              /\ DraftSlugs(u, d) = DraftSlugs(t, d)
              /\ OfficialSlugs(u, d) = OfficialSlugs(t, d)
  <2>1. \A x \in Slug : t[x].course = d => u[x] = t[x]
    BY <1>4 DEF Available
  <2>2. \A x \in Slug : u[x].course = d => t[x].course = d
    BY <1>2, <1>4, MakeEntry
  <2>3. DraftHistory(u, d) = DraftHistory(t, d)
    BY <2>1, <2>2 DEF DraftHistory
  <2>4. OfficialHistory(u, d) = OfficialHistory(t, d)
    BY <2>1, <2>2 DEF OfficialHistory
  <2>5. \A x \in OfficialHistory(t, d) : u[x] = t[x]
    BY <2>1 DEF OfficialHistory
  <2> QED
    BY <2>3, <2>4, <2>5 DEF DraftSlugs, OfficialSlugs
<1> QED
  BY <1>7, <1>8, <1>10, <1>12, <1>13 DEF u

---------------------------------------------------------------------------
(* Every step but the removal of redirects moves the slugs of one course.  *)

Single(ss) == \E s \in Slug : ss = {s}

Others(t, u, c) ==
  \A d \in Course \ {c} :
    /\ DraftHistory(u, d) = DraftHistory(t, d)
    /\ OfficialHistory(u, d) = OfficialHistory(t, d)
    /\ DraftSlugs(u, d) = DraftSlugs(t, d)
    /\ OfficialSlugs(u, d) = OfficialSlugs(t, d)

\* A course the catalog has a slug for shows one to its editor.
Backed(t, c) == OfficialSlugs(t, c) # {} => DraftSlugs(t, c) # {}

GoodStep(t, u, c) ==
  /\ u \in [Slug -> Entry]
  /\ AtMostOne(DraftSlugs(t, c)) => AtMostOne(DraftSlugs(u, c))
  /\ AtMostOne(OfficialSlugs(t, c)) => AtMostOne(OfficialSlugs(u, c))
  /\ DraftSlugs(t, c) # {} => DraftSlugs(u, c) # {}
  /\ OfficialSlugs(t, c) # {} => OfficialSlugs(u, c) # {}
  /\ Backed(t, c) => Backed(u, c)
  /\ OfficialHistory(t, c) \subseteq OfficialHistory(u, c)
  /\ Others(t, u, c)

LEMMA SingleFacts ==
  ASSUME NEW ss, Single(ss)
  PROVE  AtMostOne(ss) /\ ss # {}
BY DEF Single, AtMostOne

LEMMA GoodTransitive ==
  ASSUME NEW t, NEW u, NEW v, NEW c, GoodStep(t, u, c), GoodStep(u, v, c)
  PROVE  GoodStep(t, v, c)
BY DEF GoodStep, Others

LEMMA GoodReflexive ==
  ASSUME NEW t \in [Slug -> Entry], NEW c
  PROVE  GoodStep(t, t, c)
BY DEF GoodStep, Others

LEMMA SetDraftIsGood ==
  ASSUME NEW t \in [Slug -> Entry], NEW c \in Course, NEW s \in Slug, Available(t, c, s)
  PROVE  LET u == SetDraftSlug(t, c, s) IN
         /\ GoodStep(t, u, c) /\ Single(DraftSlugs(u, c)) /\ Available(u, c, s)
         /\ OfficialHistory(u, c) = OfficialHistory(t, c)
PROOF
<1> DEFINE u == SetDraftSlug(t, c, s)
<1>1. /\ u \in [Slug -> Entry]
      /\ DraftSlugs(u, c) = {s}
      /\ OfficialSlugs(u, c) = OfficialSlugs(t, c)
      /\ OfficialHistory(u, c) = OfficialHistory(t, c)
      /\ u[s].course = c
      /\ Others(t, u, c)
  BY SetDraftFacts DEF Others
<1> HIDE DEF u
<1>2. Single(DraftSlugs(u, c))
  BY <1>1 DEF Single
<1>3. Available(u, c, s)
  BY <1>1 DEF Available
<1> QED
  BY <1>1, <1>2, <1>3, SingleFacts DEF GoodStep, Backed, u

LEMMA SetOfficialIsGood ==
  ASSUME NEW t \in [Slug -> Entry], NEW c \in Course, NEW s \in Slug, Available(t, c, s)
  PROVE  LET u == SetOfficialSlug(t, c, s) IN
         /\ GoodStep(t, u, c)
         /\ Single(DraftSlugs(u, c))
         /\ Single(OfficialSlugs(u, c))
         /\ DraftSlugs(u, c) = OfficialSlugs(u, c)
         /\ DraftHistory(u, c) = {}
PROOF
<1> DEFINE u == SetOfficialSlug(t, c, s)
<1>1. /\ u \in [Slug -> Entry]
      /\ DraftHistory(u, c) = {}
      /\ DraftSlugs(u, c) = {s}
      /\ OfficialSlugs(u, c) = {s}
      /\ OfficialHistory(t, c) \subseteq OfficialHistory(u, c)
      /\ Others(t, u, c)
  BY SetOfficialFacts DEF Others
<1> HIDE DEF u
<1>2. Single(DraftSlugs(u, c)) /\ Single(OfficialSlugs(u, c))
  BY <1>1 DEF Single
<1> QED
  BY <1>1, <1>2, SingleFacts DEF GoodStep, Backed, u

LEMMA SetBothIsGood ==
  ASSUME NEW t \in [Slug -> Entry], NEW c \in Course, NEW s \in Slug, Available(t, c, s)
  PROVE  LET u == SetOfficialSlug(SetDraftSlug(t, c, s), c, s) IN
         /\ GoodStep(t, u, c)
         /\ Single(DraftSlugs(u, c))
         /\ Single(OfficialSlugs(u, c))
         /\ DraftSlugs(u, c) = OfficialSlugs(u, c)
PROOF
<1>1. SetDraftSlug(t, c, s) \in [Slug -> Entry]
  BY SetDraftFacts
<1> QED
  BY <1>1, SetDraftIsGood, SetOfficialIsGood, GoodTransitive

LEMMA PromotionSlugIsOwn ==
  ASSUME NEW t \in [Slug -> Entry], NEW c, NEW s \in PromotionSlugs(t, c)
  PROVE  s \in Slug /\ Available(t, c, s)
BY DEF PromotionSlugs, DraftSlugs, DraftHistory, OfficialHistory, Available, Free

LEMMA RedirectFacts ==
  ASSUME NEW t \in [Slug -> Entry], NEW r \in Run
  PROVE  LET u == WithRedirect(t, r) IN
         /\ GoodStep(t, u, CourseOf[r])
         /\ DraftHistory(u, CourseOf[r]) = DraftHistory(t, CourseOf[r])
         /\ DraftSlugs(u, CourseOf[r]) = DraftSlugs(t, CourseOf[r])
         /\ OfficialSlugs(u, CourseOf[r]) = OfficialSlugs(t, CourseOf[r])
         /\ /\ Available(t, CourseOf[r], RunSlug[r])
            /\ RunSlug[r] \notin DraftHistory(t, CourseOf[r])
            => RunSlug[r] \in OfficialHistory(u, CourseOf[r])
PROOF
<1> DEFINE u == WithRedirect(t, r)
           c == CourseOf[r]
           s == RunSlug[r]
<1>1. c \in Course /\ s \in Slug
  OBVIOUS
<1>2. t[s] \in Entry
  BY <1>1
<1>3. CASE t[s] # Free
  <2>1. u = t
    BY <1>3 DEF WithRedirect
  <2>2. t[s].course # NoCourse /\ t[s].row \in {"draft", "official"}
    BY <1>2, <1>3, EntryFacts
  <2> QED
    BY <1>1, <2>1, <2>2, GoodReflexive DEF Available, OfficialHistory, DraftHistory
<1>4. CASE t[s] = Free
  <2>1. u = [t EXCEPT ![s] = Redirect(c)]
    BY <1>4 DEF WithRedirect
  <2>2. /\ u \in [Slug -> Entry]
        /\ u[s].course = c /\ u[s].row = "official" /\ u[s].flags = {}
        /\ \A x \in Slug \ {s} : u[x] = t[x]
    BY <1>1, <2>1, MakeEntry
  <2>3. t[s].course = NoCourse /\ t[s].row = "none"
    BY <1>1, <1>4, MakeEntry
  <2> HIDE DEF u
  <2>4. \A d \in Course : DraftHistory(u, d) = DraftHistory(t, d)
    BY <2>2, <2>3 DEF DraftHistory
  <2>5. OfficialHistory(u, c) = OfficialHistory(t, c) \cup {s}
    BY <1>1, <2>2, <2>3 DEF OfficialHistory
  <2>6. \A d \in Course \ {c} : OfficialHistory(u, d) = OfficialHistory(t, d)
    BY <2>2, <2>3 DEF OfficialHistory
  <2>7. \A d \in Course : s \notin OfficialHistory(t, d)
    BY <2>3 DEF OfficialHistory
  <2>8. \A d \in Course : OfficialSlugs(u, d) = OfficialSlugs(t, d)
    <3>1. ASSUME NEW d \in Course, NEW x \in Slug
          PROVE  x \in OfficialSlugs(u, d) <=> x \in OfficialSlugs(t, d)
      BY <1>1, <2>2, <2>5, <2>6, <2>7 DEF OfficialSlugs
    <3> QED
      BY <3>1 DEF OfficialSlugs, OfficialHistory
  <2>9. \A d \in Course : DraftSlugs(u, d) = DraftSlugs(t, d)
    <3>1. ASSUME NEW d \in Course, NEW x \in Slug
          PROVE  x \in OfficialHistory(u, d) /\ "is_active_on_draft" \in u[x].flags
                 <=> x \in OfficialHistory(t, d) /\ "is_active_on_draft" \in t[x].flags
      BY <1>1, <2>2, <2>5, <2>6, <2>7
    <3>2. \A d \in Course :
            {x \in OfficialHistory(u, d) : "is_active_on_draft" \in u[x].flags}
              = {x \in OfficialHistory(t, d) : "is_active_on_draft" \in t[x].flags}
      BY <3>1 DEF OfficialHistory
    <3> QED
      BY <2>4, <3>2 DEF DraftSlugs
  <2> QED
    BY <1>1, <2>2, <2>4, <2>5, <2>6, <2>8, <2>9 DEF GoodStep, Backed, Others, u
<1> QED
  BY <1>3, <1>4

LEMMA RemovalFacts ==
  ASSUME NEW ss, RemoveRedirects(ss), entry \in [Slug -> Entry]
  PROVE  /\ entry' \in [Slug -> Entry]
         /\ \A c \in Course : /\ DraftHistory(entry', c) = DraftHistory(entry, c)
                              /\ DraftSlugs(entry', c) = DraftSlugs(entry, c)
                              /\ OfficialSlugs(entry', c) = OfficialSlugs(entry, c)
                              /\ OfficialHistory(entry', c) = OfficialHistory(entry, c) \ ss
PROOF
<1>1. /\ ss \subseteq Slug
      /\ \A x \in ss : entry[x] # Free /\ entry[x].flags = {}
      /\ \A x \in Slug : entry'[x] = IF x \in ss THEN Free ELSE entry[x]
      /\ entry' = [x \in Slug |-> IF x \in ss THEN Free ELSE entry[x]]
  BY DEF RemoveRedirects
<1>2. entry' \in [Slug -> Entry]
  BY <1>1 DEF Entry
<1>3. \A x \in ss : entry[x].row = "official"
  <2>1. ASSUME NEW x \in ss PROVE entry[x].row = "official"
    <3>1. entry[x] \in Entry
      BY <1>1
    <3>2. OfDraft(entry[x].course).flags # {}
      BY DEF OfDraft
    <3> QED
      BY <1>1, <3>1, <3>2, EntryFacts
  <2> QED
    BY <2>1
<1>4. Free.course = NoCourse
  BY DEF Free
<1>5. \A c \in Course : DraftHistory(entry', c) = DraftHistory(entry, c)
  BY <1>1, <1>3, <1>4 DEF DraftHistory
<1>6. \A c \in Course : OfficialHistory(entry', c) = OfficialHistory(entry, c) \ ss
  BY <1>1, <1>4 DEF OfficialHistory
<1>7. \A c \in Course : OfficialSlugs(entry', c) = OfficialSlugs(entry, c)
  BY <1>1, <1>6 DEF OfficialSlugs, OfficialHistory
<1>8. \A c \in Course :
        {x \in OfficialHistory(entry', c) : "is_active_on_draft" \in entry'[x].flags}
          = {x \in OfficialHistory(entry, c) : "is_active_on_draft" \in entry[x].flags}
  BY <1>1, <1>6 DEF OfficialHistory
<1>9. \A c \in Course : DraftSlugs(entry', c) = DraftSlugs(entry, c)
  BY <1>5, <1>8 DEF DraftSlugs
<1> QED
  BY <1>2, <1>5, <1>6, <1>7, <1>9

---------------------------------------------------------------------------
(* The shape of a step.                                                    *)

\* The slugs of course c move, if any does; no slug comes into the catalog but
\* with an active one, and no other course begins at an editor.
MoveOf(c) ==
  /\ GoodStep(entry, entry', c)
  /\ officials \subseteq officials'
  /\ OfficialSlugs(entry', c) # {} \/ OfficialHistory(entry', c) = OfficialHistory(entry, c)
  /\ \A d \in created' \ loaded' : d \in created \ loaded \/ (d = c /\ DraftSlugs(entry', c) # {})

\* A run that is Reviewed or went live, or waits for its redirect, has a course
\* in the catalog, and a command moves an official slug only there.
RunsInCatalog ==
  /\ \A r \in Run : status[r] \in {Reviewed, Published} => CourseOf[r] \in officials
  /\ \A r \in unredirected : CourseOf[r] \in officials
  /\ \A c \in Course, s \in Slug : moving = <<c, s>> => c \in officials

\* ... and its course has a slug there.
Live(r) == status[r] \in {Reviewed, Published} \/ r \in unredirected
RunsServed == \A r \in Run : Live(r) => OfficialSlugs(entry, CourseOf[r]) # {}

LEMMA PromotionMoves ==
  ASSUME TypeOK, NEW c \in Course, NEW s \in Slug, PromotesTo(c, s)
  PROVE  /\ SetOfficialSlug(entry, c, s) \in [Slug -> Entry]
         /\ GoodStep(entry, SetOfficialSlug(entry, c, s), c)
         /\ Single(OfficialSlugs(SetOfficialSlug(entry, c, s), c))
         /\ DraftSlugs(SetOfficialSlug(entry, c, s), c) = OfficialSlugs(SetOfficialSlug(entry, c, s), c)
         /\ DraftHistory(SetOfficialSlug(entry, c, s), c) = {}
         /\ officials' = officials \cup {c}
BY SetOfficialIsGood DEF PromotesTo, TypeOK, GoodStep

\* What a PATCH does to the table before it makes the course official again.
LEMMA EditMoves ==
  ASSUME TypeOK, NEW c \in Course, NEW s \in Slug \cup {NoSlug}, NEW isDraft \in BOOLEAN,
         s # NoSlug => Available(entry, c, s)
  PROVE  LET t == EditedTable(c, s, isDraft) IN
         /\ t \in [Slug -> Entry]
         /\ GoodStep(entry, t, c)
         /\ s # NoSlug => Single(DraftSlugs(t, c))
         /\ PushesSlug(c, isDraft) /\ s # NoSlug => DraftSlugs(t, c) = OfficialSlugs(t, c)
         /\ OfficialSlugs(t, c) # {} \/ OfficialHistory(t, c) = OfficialHistory(entry, c)
PROOF
<1> DEFINE t == EditedTable(c, s, isDraft)
<1>1. CASE s = NoSlug
  BY <1>1, GoodReflexive DEF EditedTable, TypeOK
<1>2. CASE s # NoSlug /\ PushesSlug(c, isDraft)
  <2>1. t = SetOfficialSlug(SetDraftSlug(entry, c, s), c, s) /\ s \in Slug
    BY <1>2 DEF EditedTable
  <2> QED
    BY <1>2, <2>1, SetBothIsGood, SingleFacts DEF TypeOK, GoodStep, PushesSlug
<1>3. CASE s # NoSlug /\ ~PushesSlug(c, isDraft)
  <2>1. t = SetDraftSlug(entry, c, s) /\ s \in Slug
    BY <1>3 DEF EditedTable
  <2> QED
    BY <1>3, <2>1, SetDraftIsGood DEF TypeOK, GoodStep
<1> QED
  BY <1>1, <1>2, <1>3

LEMMA StepShape ==
  ASSUME TypeOK, RunsInCatalog, RunsServed, Next
  PROVE  \/ \E c \in Course : MoveOf(c)
         \/ \E ss \in SUBSET Slug : RemoveRedirects(ss)
         \/ UNCHANGED <<entry, created, officials, loaded>>
PROOF
<1> USE DEF TypeOK
<1>1. ASSUME NEW r \in Run, NEW s \in Slug, SubmitRun(r, s)
      PROVE  \/ MoveOf(CourseOf[r])
             \/ UNCHANGED <<entry, created, officials, loaded>>
  <2>1. CASE UNCHANGED entry
    BY <1>1, <2>1 DEF SubmitRun
  <2>2. CASE Available(entry, CourseOf[r], s) /\ entry' = SetOnBoth(entry, CourseOf[r], s)
    BY <1>1, <2>2, SetDraftIsGood, SetBothIsGood, SingleFacts DEF SubmitRun, SetOnBoth, MoveOf
  <2> QED
    BY <1>1, <2>1, <2>2 DEF SubmitRun
<1>2. ASSUME NEW r \in Run, Approve(r)
      PROVE  MoveOf(CourseOf[r])
  BY <1>2, PromotionMoves, SingleFacts DEF Approve, MoveOf
<1>3. ASSUME NEW r \in Run, ApproveAndPublish(r)
      PROVE  MoveOf(CourseOf[r])
  <2> DEFINE c == CourseOf[r]
  <2>1. PICK s \in Slug : PromotesTo(c, s) /\ entry' = WithRedirect(SetOfficialSlug(entry, c, s), r)
    BY <1>3 DEF ApproveAndPublish
  <2> DEFINE t == SetOfficialSlug(entry, c, s)
  <2>2. /\ t \in [Slug -> Entry] /\ GoodStep(entry, t, c) /\ OfficialSlugs(t, c) # {}
        /\ officials' = officials \cup {c}
    BY <2>1, PromotionMoves, SingleFacts
  <2>3. GoodStep(t, entry', c)
    BY <2>1, <2>2, RedirectFacts
  <2> HIDE DEF t
  <2>4. GoodStep(entry, entry', c) /\ OfficialSlugs(entry', c) # {}
    BY <2>2, <2>3, GoodTransitive DEF GoodStep
  <2> QED
    BY <1>3, <2>2, <2>4 DEF ApproveAndPublish, MoveOf
<1>4. ASSUME NEW r \in Run, AddRedirect(r) \/ BackfillRedirect(r)
      PROVE  \/ MoveOf(CourseOf[r])
             \/ UNCHANGED <<entry, created, officials, loaded>>
  <2>1. OfficialSlugs(entry, CourseOf[r]) # {}
    BY <1>4 DEF AddRedirect, BackfillRedirect, RunsServed, Live
  <2> QED
    BY <1>4, <2>1, RedirectFacts DEF AddRedirect, BackfillRedirect, MoveOf
<1>5. ASSUME NEW r \in Run, WithdrawRun(r) \/ PublishRun(r)
      PROVE  UNCHANGED <<entry, created, officials, loaded>>
  BY <1>5 DEF WithdrawRun, PublishRun
<1>6. ASSUME NEW c \in Course, NEW s \in Slug, CreateCourse(c, s)
      PROVE  MoveOf(c)
  <2>1. Available(entry, c, s)
    BY <1>6 DEF CreateCourse, Available, Free
  <2> QED
    BY <1>6, <2>1, SetDraftIsGood, SingleFacts DEF CreateCourse, MoveOf
<1>7. ASSUME NEW c \in Course, NEW s \in Slug, MoveDraft(c, s)
      PROVE  MoveOf(c)
  BY <1>7, SetDraftIsGood DEF MoveDraft, MoveOf
<1>8. ASSUME NEW c \in Course, NEW s \in Slug, MoveOfficial(c, s)
      PROVE  \/ MoveOf(c)
             \/ UNCHANGED <<entry, created, officials, loaded>>
  BY <1>8, SetOfficialIsGood, SingleFacts DEF MoveOfficial, MoveOf
<1>9. ASSUME NEW c \in Course, NEW s \in Slug \cup {NoSlug},
             NEW isDraft \in BOOLEAN, NEW changed \in BOOLEAN, NEW live \in BOOLEAN,
             EditCourse(c, s, isDraft, changed, live)
      PROVE  MoveOf(c)
  <2> DEFINE t == EditedTable(c, s, isDraft)
  <2>1. /\ t \in [Slug -> Entry] /\ GoodStep(entry, t, c)
        /\ OfficialSlugs(t, c) # {} \/ OfficialHistory(t, c) = OfficialHistory(entry, c)
    BY <1>9, EditMoves DEF EditCourse
  <2>2. CASE entry' = t
    BY <1>9, <2>1, <2>2 DEF EditCourse, MoveOf
  <2>3. ASSUME NEW p \in PromotionSlugs(t, c), entry' = SetOfficialSlug(t, c, p)
        PROVE  GoodStep(entry, entry', c) /\ OfficialSlugs(entry', c) # {}
    <3> HIDE DEF t
    <3>1. p \in Slug /\ Available(t, c, p)
      BY <2>1, PromotionSlugIsOwn
    <3> QED
      BY <2>1, <2>3, <3>1, SetOfficialIsGood, SingleFacts, GoodTransitive
  <2> QED
    BY <1>9, <2>2, <2>3 DEF EditCourse, MoveOf
<1>10. ASSUME NEW c \in Course, Republish(c)
       PROVE  MoveOf(c)
  BY <1>10, PromotionMoves, SingleFacts DEF Republish, MoveOf
<1>11. ASSUME NEW c \in Course, LoadCourse(c) \/ EnsureDraft(c)
       PROVE  MoveOf(c)
  <2>1. GoodStep(entry, entry', c) /\ OfficialHistory(entry', c) = OfficialHistory(entry, c)
    BY <1>11, GoodReflexive DEF LoadCourse, EnsureDraft
  <2> QED
    BY <1>11, <2>1 DEF LoadCourse, EnsureDraft, MoveOf
<1>12. CommandDies => UNCHANGED <<entry, created, officials, loaded>>
  BY DEF CommandDies
<1>13. RunStep => \/ \E c \in Course : MoveOf(c)
                  \/ UNCHANGED <<entry, created, officials, loaded>>
  BY <1>1, <1>2, <1>3, <1>4, <1>5 DEF RunStep
<1>14. CourseStep => \/ \E c \in Course : MoveOf(c)
                     \/ UNCHANGED <<entry, created, officials, loaded>>
  BY <1>6, <1>7, <1>8, <1>9, <1>10, <1>11 DEF CourseStep
<1> QED
  BY <1>12, <1>13, <1>14 DEF Next

---------------------------------------------------------------------------
(* Type correctness and one active slug per course.                        *)

\* Only runs of existing courses have left Unpublished.
RunsHaveCourses == \A r \in Run : status[r] # Unpublished => CourseOf[r] \in created

SlugInv == TypeOK /\ RunsHaveCourses /\ RunsInCatalog /\ RunsServed /\ OneActiveSlug

LEMMA SlugInvInit == Init => SlugInv
PROOF
<1> SUFFICES ASSUME Init PROVE SlugInv
  OBVIOUS
<1>1. TypeOK
  BY DEF Init, TypeOK, Entry, Status
<1>2. RunsHaveCourses /\ RunsInCatalog /\ RunsServed
  BY DEF Init, RunsHaveCourses, RunsInCatalog, RunsServed, Live, Unpublished, Reviewed, Published
<1>3. \A c \in Course : DraftSlugs(entry, c) = {} /\ OfficialSlugs(entry, c) = {}
  BY DEF Init, DraftSlugs, OfficialSlugs, DraftHistory, OfficialHistory, Free
<1>4. OneActiveSlug
  BY <1>2, <1>3 DEF Init, OneActiveSlug, AtMostOne, RunsServed, Live
<1> QED
  BY <1>1, <1>2, <1>4 DEF SlugInv

\* The other variables keep their types, and a run in review has a course.
StatusOK ==
  /\ created \subseteq Course
  /\ officials \subseteq Course
  /\ loaded \subseteq Course
  /\ officials \subseteq created \cup loaded
  /\ status \in [Run -> Status]
  /\ moving \in {<<>>} \cup (Course \X Slug)
  /\ unredirected \subseteq Run
  /\ redirected \subseteq Run
  /\ disturbed \in {"no", "yes"}
  /\ RunsHaveCourses
  /\ RunsInCatalog

LEMMA StatusStep ==
  ASSUME StatusOK, Next
  PROVE  StatusOK'
PROOF
<1> USE DEF StatusOK, RunsHaveCourses, RunsInCatalog, Status, Alongside
<1>1. ASSUME NEW r \in Run, NEW s \in Slug, SubmitRun(r, s) PROVE StatusOK'
  BY <1>1 DEF SubmitRun, InReview, Reviewed, Published
<1>2. ASSUME NEW r \in Run, Approve(r) PROVE StatusOK'
  BY <1>2 DEF Approve, PromotesTo, InReview, Reviewed, Published, Unpublished
<1>3. ASSUME NEW r \in Run, ApproveAndPublish(r) PROVE StatusOK'
  BY <1>3 DEF ApproveAndPublish, PromotesTo, InReview, Reviewed, Published, Unpublished
<1>4. ASSUME NEW r \in Run, WithdrawRun(r) PROVE StatusOK'
  BY <1>4 DEF WithdrawRun, Unpublished, Reviewed, Published
<1>5. ASSUME NEW r \in Run, PublishRun(r) PROVE StatusOK'
  BY <1>5 DEF PublishRun, Published, Reviewed, Unpublished
<1>6. ASSUME NEW r \in Run, AddRedirect(r) \/ BackfillRedirect(r) PROVE StatusOK'
  BY <1>6 DEF AddRedirect, BackfillRedirect
<1>7. ASSUME NEW c \in Course, NEW s \in Slug,
             CreateCourse(c, s) \/ MoveDraft(c, s) \/ MoveOfficial(c, s) PROVE StatusOK'
  BY <1>7 DEF CreateCourse, MoveDraft, MoveOfficial
<1>8. ASSUME NEW c \in Course, NEW s \in Slug \cup {NoSlug},
             NEW isDraft \in BOOLEAN, NEW changed \in BOOLEAN, NEW live \in BOOLEAN,
             EditCourse(c, s, isDraft, changed, live)
      PROVE  StatusOK'
  BY <1>8 DEF EditCourse, RunsOf, Unpublished, Reviewed, Published
<1>9. ASSUME NEW c \in Course, LoadCourse(c) \/ EnsureDraft(c) PROVE StatusOK'
  BY <1>9 DEF LoadCourse, EnsureDraft
<1>10. ASSUME NEW c \in Course, Republish(c) PROVE StatusOK'
  BY <1>10 DEF Republish, PromotesTo
<1>11. ASSUME NEW ss \in SUBSET Slug, RemoveRedirects(ss) PROVE StatusOK'
  BY <1>11 DEF RemoveRedirects
<1>12. ASSUME CommandDies PROVE StatusOK'
  BY <1>12 DEF CommandDies
<1> QED
  BY <1>1, <1>2, <1>3, <1>4, <1>5, <1>6, <1>7, <1>8, <1>9, <1>10, <1>11, <1>12
     DEF Next, RunStep, CourseStep

\* A run becomes Reviewed or goes live with the promotion of its course.
LEMMA NewlyServed ==
  ASSUME TypeOK, Next, NEW q \in Run, ~Live(q), Live(q)'
  PROVE  OfficialSlugs(entry', CourseOf[q]) # {}
PROOF
<1> USE DEF TypeOK, Live
<1>1. ASSUME NEW r \in Run, Approve(r)
      PROVE  OfficialSlugs(entry', CourseOf[q]) # {}
  <2>1. q = r
    BY <1>1 DEF Approve
  <2> QED
    BY <1>1, <2>1, PromotionMoves, SingleFacts DEF Approve
<1>2. ASSUME NEW r \in Run, ApproveAndPublish(r)
      PROVE  OfficialSlugs(entry', CourseOf[q]) # {}
  <2>1. q = r
    BY <1>2 DEF ApproveAndPublish
  <2>2. PICK s \in Slug : /\ PromotesTo(CourseOf[r], s)
                          /\ entry' = WithRedirect(SetOfficialSlug(entry, CourseOf[r], s), r)
    BY <1>2 DEF ApproveAndPublish
  <2> QED
    BY <2>1, <2>2, PromotionMoves, SingleFacts, RedirectFacts
<1>3. ASSUME NEW r \in Run, NEW s \in Slug, SubmitRun(r, s) PROVE FALSE
  BY <1>3 DEF SubmitRun, InReview, Reviewed, Published
<1>4. ASSUME NEW r \in Run, WithdrawRun(r) PROVE FALSE
  BY <1>4 DEF WithdrawRun, Unpublished, Reviewed, Published
<1>5. ASSUME NEW r \in Run, PublishRun(r) \/ AddRedirect(r) \/ BackfillRedirect(r) PROVE FALSE
  BY <1>5 DEF PublishRun, AddRedirect, BackfillRedirect
<1>6. ASSUME NEW c \in Course, NEW s \in Slug,
             CreateCourse(c, s) \/ MoveDraft(c, s) \/ MoveOfficial(c, s) PROVE FALSE
  BY <1>6 DEF CreateCourse, MoveDraft, MoveOfficial
<1>7. ASSUME NEW c \in Course, NEW s \in Slug \cup {NoSlug},
             NEW isDraft \in BOOLEAN, NEW changed \in BOOLEAN, NEW live \in BOOLEAN,
             EditCourse(c, s, isDraft, changed, live)
      PROVE  FALSE
  BY <1>7 DEF EditCourse, Unpublished, Reviewed, Published
<1>8. ASSUME NEW c \in Course, LoadCourse(c) \/ EnsureDraft(c) \/ Republish(c) PROVE FALSE
  BY <1>8 DEF LoadCourse, EnsureDraft, Republish
<1>9. ASSUME NEW ss \in SUBSET Slug, RemoveRedirects(ss) PROVE FALSE
  BY <1>9 DEF RemoveRedirects
<1>10. ~CommandDies
  BY DEF CommandDies
<1> QED
  BY <1>1, <1>2, <1>3, <1>4, <1>5, <1>6, <1>7, <1>8, <1>9, <1>10
     DEF Next, RunStep, CourseStep

LEMMA OneActiveSlugDef ==
  ASSUME RunsServed
  PROVE  OneActiveSlug <=> /\ \A c \in Course : /\ AtMostOne(DraftSlugs(entry, c))
                                                /\ AtMostOne(OfficialSlugs(entry, c))
                                                /\ Backed(entry, c)
                           /\ \A c \in created \ loaded : DraftSlugs(entry, c) # {}
BY DEF OneActiveSlug, RunsServed, Live, Backed

LEMMA OneActiveSlugNext ==
  ASSUME RunsServed',
         \A c \in Course : /\ AtMostOne(DraftSlugs(entry', c))
                           /\ AtMostOne(OfficialSlugs(entry', c))
                           /\ Backed(entry', c),
         \A c \in created' \ loaded' : DraftSlugs(entry', c) # {}
  PROVE  OneActiveSlug'
BY DEF OneActiveSlug, RunsServed, Live, Backed

LEMMA SlugInvStep ==
  ASSUME SlugInv, [Next]_vars
  PROVE  SlugInv'
PROOF
<1>1. CASE UNCHANGED vars
  <2>1. TypeOK' /\ RunsHaveCourses' /\ RunsInCatalog'
    BY <1>1 DEF vars, SlugInv, TypeOK, RunsHaveCourses, RunsInCatalog
  <2>2. \A c : /\ DraftSlugs(entry', c) = DraftSlugs(entry, c)
                /\ OfficialSlugs(entry', c) = OfficialSlugs(entry, c)
    BY <1>1 DEF vars
  <2>3. RunsServed'
    BY <1>1, <2>2 DEF vars, SlugInv, RunsServed, Live
  <2>4. OneActiveSlug'
    BY <1>1, <2>2 DEF vars, SlugInv, OneActiveSlug
  <2> QED
    BY <2>1, <2>3, <2>4 DEF SlugInv
<1>2. CASE Next
  <2>1. StatusOK'
    BY <1>2, StatusStep DEF SlugInv, TypeOK, StatusOK
  <2> DEFINE Kept(c) == /\ AtMostOne(DraftSlugs(entry', c))
                        /\ AtMostOne(OfficialSlugs(entry', c))
                        /\ Backed(entry', c)
                        /\ OfficialSlugs(entry, c) # {} => OfficialSlugs(entry', c) # {}
  <2>2. /\ entry' \in [Slug -> Entry]
        /\ \A c \in Course : Kept(c)
        /\ \A c \in created' \ loaded' : DraftSlugs(entry', c) # {}
    <3>1. /\ \A c \in Course : /\ AtMostOne(DraftSlugs(entry, c))
                               /\ AtMostOne(OfficialSlugs(entry, c))
                               /\ Backed(entry, c)
          /\ \A c \in created \ loaded : DraftSlugs(entry, c) # {}
          /\ entry \in [Slug -> Entry] /\ created \subseteq Course
      BY OneActiveSlugDef DEF SlugInv, TypeOK
    <3>2. CASE UNCHANGED <<entry, created, officials, loaded>>
      BY <3>1, <3>2
    <3>3. ASSUME NEW ss \in SUBSET Slug, RemoveRedirects(ss) PROVE <2>2
      <4>1. UNCHANGED <<created, loaded>>
        BY <3>3 DEF RemoveRedirects
      <4>2. /\ entry' \in [Slug -> Entry]
            /\ \A c \in Course : /\ DraftSlugs(entry', c) = DraftSlugs(entry, c)
                                 /\ OfficialSlugs(entry', c) = OfficialSlugs(entry, c)
        BY <3>1, <3>3, RemovalFacts
      <4> QED
        BY <3>1, <4>1, <4>2 DEF Backed
    <3>4. ASSUME NEW c \in Course, MoveOf(c) PROVE <2>2
      <4>1. entry' \in [Slug -> Entry] /\ Kept(c)
        BY <3>1, <3>4 DEF MoveOf, GoodStep
      <4>2. \A d \in Course \ {c} : /\ DraftSlugs(entry', d) = DraftSlugs(entry, d)
                                    /\ OfficialSlugs(entry', d) = OfficialSlugs(entry, d)
        BY <3>4 DEF MoveOf, GoodStep, Others
      <4>3. \A d \in Course \ {c} : Kept(d)
        BY <3>1, <4>2 DEF Backed
      <4>4. DraftSlugs(entry, c) # {} => DraftSlugs(entry', c) # {}
        BY <3>4 DEF MoveOf, GoodStep
      <4>5. \A d \in created' \ loaded' : DraftSlugs(entry', d) # {}
        BY <3>1, <3>4, <4>2, <4>4 DEF MoveOf
      <4> HIDE DEF Kept
      <4> QED
        BY <4>1, <4>3, <4>5
    <3> QED
      BY <1>2, <3>2, <3>3, <3>4, StepShape DEF SlugInv
  <2>3. RunsServed'
    <3>1. ASSUME NEW r \in Run, Live(r)' PROVE OfficialSlugs(entry', CourseOf[r]) # {}
      BY <1>2, <2>2, <3>1, NewlyServed DEF SlugInv, RunsServed
    <3> QED
      BY <3>1 DEF RunsServed, Live
  <2>4. OneActiveSlug'
    BY <2>2, <2>3, OneActiveSlugNext
  <2>5. TypeOK' /\ RunsHaveCourses' /\ RunsInCatalog'
    BY <2>1, <2>2 DEF TypeOK, StatusOK
  <2> QED
    BY <2>3, <2>4, <2>5 DEF SlugInv
<1> QED
  BY <1>1, <1>2

\* The tables hold what their types say whatever edits, approvals, slug
\* commands and crashes happen.
THEOREM SlugTypeCorrect == Spec => []TypeOK
PROOF
<1>1. SlugInv => TypeOK
  BY DEF SlugInv
<1> QED
  BY <1>1, SlugInvInit, SlugInvStep, PTL DEF Spec

\* A course never has two slugs for its draft row or two for the catalog, and has
\* none only while it came from Studio and none of its runs was ever approved.
THEOREM OneActiveSlugThm == Spec => []OneActiveSlug
PROOF
<1>1. SlugInv => OneActiveSlug
  BY DEF SlugInv
<1> QED
  BY <1>1, SlugInvInit, SlugInvStep, PTL DEF Spec

\* No step but the removal of redirects takes a slug out of the history of an
\* official course.
THEOREM HistoryIsKeptThm == Spec => HistoryIsKept
PROOF
<1> DEFINE Kept == \A c \in Course :
                     (\A ss \in SUBSET Slug : ~RemoveRedirects(ss))
                       => OfficialHistory(entry, c) \subseteq OfficialHistory(entry', c)
<1>1. SlugInv /\ [Next]_vars => [Kept]_vars
  <2> SUFFICES ASSUME SlugInv, Next, \A ss \in SUBSET Slug : ~RemoveRedirects(ss),
                      NEW c \in Course
               PROVE  OfficialHistory(entry, c) \subseteq OfficialHistory(entry', c)
    OBVIOUS
  <2>1. CASE UNCHANGED entry
    BY <2>1 DEF OfficialHistory
  <2>2. ASSUME NEW d \in Course, MoveOf(d)
        PROVE  OfficialHistory(entry, c) \subseteq OfficialHistory(entry', c)
    BY <2>2 DEF MoveOf, GoodStep, Others
  <2> QED
    BY <2>1, <2>2, StepShape DEF SlugInv
<1> QED
  BY <1>1, SlugInvInit, SlugInvStep, PTL DEF Spec, HistoryIsKept

---------------------------------------------------------------------------
(* What holds when commands neither overlap requests nor die: the slug of a *)
(* run that waits to go live is served, and redirects stay.                 *)

Synced(c) == DraftSlugs(entry, c) = OfficialSlugs(entry, c)

\* Between the two transactions of a slug command only its course is exempt.
WaitingRunsSynced ==
  \A r \in Run : status[r] = Reviewed =>
    /\ CourseOf[r] \in officials
    /\ (\A s \in Slug : moving # <<CourseOf[r], s>>) => Synced(CourseOf[r])

\* The slug a command is moving has reached the draft row, and the official
\* row of the run a command is redirecting speaks for the draft row too.
CommandsMidway ==
  /\ \A c \in Course, s \in Slug : moving = <<c, s>> => Available(entry, c, s)
  /\ moving = <<>> \/ unredirected = {}
  /\ \A r \in unredirected : DraftHistory(entry, CourseOf[r]) = {}

UrlsKept == \A r \in redirected : RunSlug[r] \in OfficialHistory(entry, CourseOf[r])

Undisturbed == WaitingRunsSynced /\ CommandsMidway /\ UrlsKept

AloneInv == SlugInv /\ (disturbed = "no" => Undisturbed)

LEMMA SetOfficialAvailable ==
  ASSUME NEW t \in [Slug -> Entry], NEW c \in Course, NEW s \in Slug, NEW x \in Slug,
         Available(t, c, x)
  PROVE  Available(SetOfficialSlug(t, c, s), c, x)
PROOF
<1>1. SetOfficialSlug(t, c, s)[x] \in {OfOfficial(c), Free, Redirect(c), t[x]}
  BY DEF SetOfficialSlug
<1> QED
  BY <1>1, MakeEntry DEF Available

LEMMA HistoriesDisjoint ==
  ASSUME NEW c \in Course, Synced(c), OfficialSlugs(entry, c) # {}
  PROVE  DraftHistory(entry, c) = {}
BY DEF Synced, DraftSlugs, OfficialSlugs, DraftHistory, OfficialHistory

LEMMA MoveKeepsUrls ==
  ASSUME NEW c \in Course, MoveOf(c), UrlsKept, redirected \subseteq Run,
         redirected' = redirected
  PROVE  UrlsKept'
BY DEF MoveOf, GoodStep, Others, UrlsKept

\* A step that moves one course, leaves it synced if one of its runs waits, and
\* makes no other run wait.
LEMMA MoveKeepsSynced ==
  ASSUME NEW c \in Course, MoveOf(c), WaitingRunsSynced, status' \in [Run -> Status],
         \A r \in Run : status'[r] = Reviewed => status[r] = Reviewed \/ CourseOf[r] = c,
         \A r \in Run : status'[r] = Reviewed /\ CourseOf[r] = c =>
           /\ c \in officials'
           /\ (\A s \in Slug : moving' # <<c, s>>) => Synced(c)',
         \A d \in Course \ {c}, s \in Slug : moving = <<d, s>> => moving' = <<d, s>>
  PROVE  WaitingRunsSynced'
PROOF
<1> SUFFICES ASSUME NEW r \in Run, status'[r] = Reviewed
             PROVE  /\ CourseOf[r] \in officials'
                    /\ (\A s \in Slug : moving' # <<CourseOf[r], s>>) => Synced(CourseOf[r])'
  BY DEF WaitingRunsSynced
<1>1. CASE CourseOf[r] = c
  BY <1>1
<1>2. CASE CourseOf[r] # c
  <2>1. status[r] = Reviewed /\ CourseOf[r] \in Course \ {c}
    BY <1>2
  <2>2. Synced(CourseOf[r]) => Synced(CourseOf[r])'
    BY <2>1 DEF MoveOf, GoodStep, Others, Synced
  <2> QED
    BY <2>1, <2>2 DEF WaitingRunsSynced, MoveOf
<1> QED
  BY <1>1, <1>2

\* A step that leaves the table and the commands alone and lets no run wait.
LEMMA StatusOnlyKeeps ==
  ASSUME WaitingRunsSynced, CommandsMidway, UrlsKept,
         UNCHANGED <<entry, moving, unredirected, redirected>>, officials \subseteq officials',
         \A r \in Run : status'[r] = Reviewed => status[r] = Reviewed
  PROVE  WaitingRunsSynced' /\ CommandsMidway' /\ UrlsKept'
BY DEF WaitingRunsSynced, CommandsMidway, UrlsKept, Synced, DraftSlugs, OfficialSlugs,
       DraftHistory, OfficialHistory, Available

LEMMA IdleMidway ==
  ASSUME moving' = <<>>, unredirected' = {}
  PROVE  CommandsMidway'
BY DEF CommandsMidway

LEMMA AloneStep ==
  ASSUME SlugInv, Undisturbed, Next, disturbed' = "no"
  PROVE  WaitingRunsSynced' /\ CommandsMidway' /\ UrlsKept'
PROOF
<1> USE DEF Undisturbed
<1>0. /\ TypeOK /\ SlugInv /\ redirected \subseteq Run /\ entry \in [Slug -> Entry]
      /\ status' \in [Run -> Status]
      /\ \A r \in Run : Live(r) => OfficialSlugs(entry, CourseOf[r]) # {}
      /\ RunsInCatalog
      /\ Alongside => moving = <<>> /\ unredirected = {}
  BY SlugInvStep DEF SlugInv, TypeOK, RunsServed, Alongside, Idle
<1>1. ASSUME NEW r \in Run, NEW s \in Slug, SubmitRun(r, s)
      PROVE  WaitingRunsSynced' /\ CommandsMidway' /\ UrlsKept'
  <2>1. /\ status' = [status EXCEPT ![r] = InReview]
        /\ UNCHANGED <<created, loaded, officials, moving, unredirected, redirected>>
        /\ moving = <<>> /\ unredirected = {}
    BY <1>0, <1>1 DEF SubmitRun
  <2>2. \A q \in Run : status'[q] = Reviewed => status[q] = Reviewed
    BY <1>0, <2>1 DEF TypeOK, InReview, Reviewed
  <2>3. CASE UNCHANGED entry
    BY <2>1, <2>2, <2>3, StatusOnlyKeeps
  <2>4. CASE Available(entry, CourseOf[r], s) /\ entry' = SetOnBoth(entry, CourseOf[r], s)
    <3> DEFINE c == CourseOf[r]
    <3>1. MoveOf(c)
      BY <1>0, <2>1, <2>4, SetDraftIsGood, SetBothIsGood, SingleFacts DEF SetOnBoth, MoveOf
    <3>2. c \in officials => Synced(c)'
      BY <1>0, <2>4, SetBothIsGood DEF SetOnBoth, Synced
    <3>3. WaitingRunsSynced'
      BY <1>0, <2>1, <2>2, <3>1, <3>2, MoveKeepsSynced DEF WaitingRunsSynced
    <3> QED
      BY <1>0, <2>1, <3>1, <3>3, MoveKeepsUrls, IdleMidway
  <2> QED
    BY <1>1, <2>3, <2>4 DEF SubmitRun
<1>2. ASSUME NEW r \in Run, Approve(r)
      PROVE  WaitingRunsSynced' /\ CommandsMidway' /\ UrlsKept'
  <2> DEFINE c == CourseOf[r]
  <2>1. PICK s \in Slug : PromotesTo(c, s) /\ entry' = SetOfficialSlug(entry, c, s)
    BY <1>2 DEF Approve
  <2>2. MoveOf(c) /\ Synced(c)' /\ c \in officials'
    BY <1>0, <1>2, <2>1, PromotionMoves, SingleFacts DEF Approve, MoveOf, Synced
  <2>3. /\ moving = <<>> /\ unredirected = {}
        /\ UNCHANGED <<moving, unredirected, redirected>>
        /\ \A q \in Run : q # r => status'[q] = status[q]
    BY <1>0, <1>2 DEF Approve, TypeOK
  <2>4. WaitingRunsSynced'
    BY <1>0, <2>2, <2>3, MoveKeepsSynced
  <2> QED
    BY <1>0, <2>2, <2>3, <2>4, MoveKeepsUrls, IdleMidway
<1>3. ASSUME NEW r \in Run, ApproveAndPublish(r)
      PROVE  WaitingRunsSynced' /\ CommandsMidway' /\ UrlsKept'
  <2> DEFINE c == CourseOf[r]
  <2>1. PICK s \in Slug : PromotesTo(c, s) /\ entry' = WithRedirect(SetOfficialSlug(entry, c, s), r)
    BY <1>3 DEF ApproveAndPublish
  <2> DEFINE t == SetOfficialSlug(entry, c, s)
  <2>2. /\ t \in [Slug -> Entry] /\ GoodStep(entry, t, c) /\ OfficialSlugs(t, c) # {}
        /\ DraftSlugs(t, c) = OfficialSlugs(t, c) /\ DraftHistory(t, c) = {}
        /\ officials' = officials \cup {c}
    BY <1>0, <2>1, PromotionMoves, SingleFacts
  <2>3. Available(t, c, RunSlug[r])
    BY <1>0, <1>3, SetOfficialAvailable DEF ApproveAndPublish
  <2>4. entry' = WithRedirect(t, r)
    BY <2>1
  <2> HIDE DEF t
  <2>5. /\ GoodStep(t, entry', c)
        /\ DraftSlugs(entry', c) = DraftSlugs(t, c)
        /\ OfficialSlugs(entry', c) = OfficialSlugs(t, c)
        /\ RunSlug[r] \in OfficialHistory(entry', c)
    BY <2>2, <2>3, <2>4, RedirectFacts
  <2>6. GoodStep(entry, entry', c) /\ OfficialSlugs(entry', c) # {} /\ Synced(c)'
    BY <2>2, <2>5, GoodTransitive DEF Synced
  <2>7. MoveOf(c)
    BY <1>3, <2>2, <2>6 DEF ApproveAndPublish, MoveOf
  <2>8. /\ moving = <<>> /\ unredirected = {}
        /\ UNCHANGED <<moving, unredirected>>
        /\ redirected' = redirected \cup {r}
        /\ \A q \in Run : q # r => status'[q] = status[q]
    BY <1>0, <1>3 DEF ApproveAndPublish, TypeOK
  <2>9. WaitingRunsSynced'
    BY <1>0, <2>2, <2>6, <2>7, <2>8, MoveKeepsSynced
  <2>10. UrlsKept'
    BY <1>0, <2>5, <2>7, <2>8 DEF UrlsKept, MoveOf, GoodStep, Others
  <2> QED
    BY <2>8, <2>9, <2>10, IdleMidway
<1>4. ASSUME NEW r \in Run, AddRedirect(r) \/ BackfillRedirect(r)
      PROVE  WaitingRunsSynced' /\ CommandsMidway' /\ UrlsKept'
  <2> DEFINE c == CourseOf[r]
  <2>1. moving = <<>> /\ moving' = <<>> /\ unredirected' = {}
    BY <1>4 DEF AddRedirect, BackfillRedirect, CommandsMidway, Idle
  <2>2. UNCHANGED <<created, loaded, officials, status>>
    BY <1>4 DEF AddRedirect, BackfillRedirect
  <2>3. CASE UNCHANGED <<entry, redirected>>
    BY <2>1, <2>2, <2>3, IdleMidway
       DEF WaitingRunsSynced, UrlsKept, Synced, DraftSlugs, OfficialSlugs, DraftHistory, OfficialHistory
  <2> DEFINE Redirects == /\ entry' = WithRedirect(entry, r)
                          /\ redirected' = redirected \cup {r}
                          /\ Available(entry, c, RunSlug[r])
                          /\ RunSlug[r] \notin DraftHistory(entry, c)
  <2>4. CASE Redirects
    <3>1. /\ GoodStep(entry, entry', c)
          /\ DraftSlugs(entry', c) = DraftSlugs(entry, c)
          /\ OfficialSlugs(entry', c) = OfficialSlugs(entry, c)
          /\ RunSlug[r] \in OfficialHistory(entry', c)
      BY <1>0, <2>4, RedirectFacts
    <3>2. MoveOf(c)
      <4>1. OfficialSlugs(entry, c) # {}
        BY <1>0, <1>4 DEF AddRedirect, BackfillRedirect, Live
      <4> QED
        BY <2>2, <3>1, <4>1 DEF MoveOf
    <3>3. WaitingRunsSynced'
      BY <1>0, <2>1, <2>2, <3>1, <3>2, MoveKeepsSynced DEF WaitingRunsSynced, Synced
    <3>4. UrlsKept'
      BY <1>0, <2>4, <3>1, <3>2 DEF UrlsKept, MoveOf, GoodStep, Others
    <3> QED
      BY <2>1, <3>3, <3>4, IdleMidway
  <2>5. ASSUME AddRedirect(r), Available(entry, c, RunSlug[r]) PROVE Redirects
    BY <2>5 DEF AddRedirect, CommandsMidway
  <2>6. ASSUME BackfillRedirect(r) PROVE Redirects
    BY <2>6, MakeEntry DEF BackfillRedirect, Available, DraftHistory
  <2> QED
    BY <1>4, <2>3, <2>4, <2>5, <2>6 DEF AddRedirect
<1>5. ASSUME NEW r \in Run, WithdrawRun(r)
      PROVE  WaitingRunsSynced' /\ CommandsMidway' /\ UrlsKept'
  BY <1>0, <1>5, StatusOnlyKeeps DEF WithdrawRun, TypeOK, Unpublished, Reviewed
<1>6. ASSUME NEW r \in Run, PublishRun(r)
      PROVE  WaitingRunsSynced' /\ CommandsMidway' /\ UrlsKept'
  <2>1. /\ moving = <<>> /\ unredirected' = {r} /\ status[r] = Reviewed
        /\ status' = [status EXCEPT ![r] = Published]
        /\ UNCHANGED <<entry, created, loaded, officials, moving, redirected>>
    BY <1>6 DEF PublishRun, Idle
  <2>2. DraftHistory(entry, CourseOf[r]) = {}
    <3>1. CourseOf[r] \in officials /\ Synced(CourseOf[r]) /\ Live(r)
      BY <2>1 DEF WaitingRunsSynced, Live
    <3> QED
      BY <1>0, <3>1, HistoriesDisjoint
  <2>3. CommandsMidway'
    BY <2>1, <2>2 DEF CommandsMidway, DraftHistory
  <2>4. \A q \in Run : status'[q] = Reviewed => status[q] = Reviewed
    BY <1>0, <2>1 DEF TypeOK, Published, Reviewed
  <2>5. WaitingRunsSynced' /\ UrlsKept'
    BY <2>1, <2>4 DEF WaitingRunsSynced, UrlsKept, Synced, DraftSlugs, OfficialSlugs,
       DraftHistory, OfficialHistory
  <2> QED
    BY <2>3, <2>5
<1>7. ASSUME NEW c \in Course, NEW s \in Slug, CreateCourse(c, s)
      PROVE  WaitingRunsSynced' /\ CommandsMidway' /\ UrlsKept'
  <2>1. c \notin created /\ c \notin officials
    BY <1>7 DEF CreateCourse
  <2>2. MoveOf(c)
    <3>1. Available(entry, c, s)
      BY <1>7 DEF CreateCourse, Available, Free
    <3> QED
      BY <1>0, <1>7, <3>1, SetDraftIsGood, SingleFacts DEF CreateCourse, MoveOf
  <2>3. /\ moving = <<>> /\ unredirected = {}
        /\ UNCHANGED <<officials, status, moving, unredirected, redirected>>
    BY <1>0, <1>7 DEF CreateCourse
  <2>4. WaitingRunsSynced'
    BY <1>0, <2>1, <2>2, <2>3, MoveKeepsSynced DEF WaitingRunsSynced
  <2> QED
    BY <1>0, <2>2, <2>3, <2>4, MoveKeepsUrls, IdleMidway
<1>8. ASSUME NEW c \in Course, NEW s \in Slug, MoveDraft(c, s)
      PROVE  WaitingRunsSynced' /\ CommandsMidway' /\ UrlsKept'
  <2>1. /\ moving = <<>> /\ unredirected = {}
        /\ UNCHANGED <<created, loaded, officials, status, unredirected, redirected>>
        /\ moving' = IF c \in officials THEN <<c, s>> ELSE <<>>
        /\ entry' = SetDraftSlug(entry, c, s) /\ Available(entry, c, s)
    BY <1>8 DEF MoveDraft, Idle
  <2>2. MoveOf(c) /\ Available(entry', c, s)
    BY <1>0, <2>1, SetDraftIsGood DEF MoveOf
  <2>3. \A r \in Run : status'[r] = Reviewed /\ CourseOf[r] = c =>
           /\ c \in officials'
           /\ (\A x \in Slug : moving' # <<c, x>>) => Synced(c)'
    BY <2>1 DEF WaitingRunsSynced
  <2>4. \A d \in Course \ {c}, x \in Slug : moving = <<d, x>> => moving' = <<d, x>>
    BY <2>1
  <2>5. WaitingRunsSynced'
    BY <1>0, <2>1, <2>2, <2>3, <2>4, MoveKeepsSynced
  <2>6. CommandsMidway'
    BY <2>1, <2>2 DEF CommandsMidway
  <2> QED
    BY <1>0, <2>1, <2>2, <2>5, <2>6, MoveKeepsUrls
<1>9. ASSUME NEW c \in Course, NEW s \in Slug, MoveOfficial(c, s)
      PROVE  WaitingRunsSynced' /\ CommandsMidway' /\ UrlsKept'
  <2>1. /\ moving = <<c, s>> /\ moving' = <<>> /\ unredirected = {}
        /\ UNCHANGED <<created, loaded, officials, status, unredirected, redirected>>
        /\ Available(entry, c, s)
        /\ entry' = SetOfficialSlug(entry, c, s)
    BY <1>9 DEF MoveOfficial, CommandsMidway
  <2>2. MoveOf(c) /\ Synced(c)'
    BY <1>0, <2>1, SetOfficialIsGood, SingleFacts DEF MoveOf, Synced
  <2>3. \A d \in Course \ {c}, x \in Slug : moving = <<d, x>> => moving' = <<d, x>>
    BY <2>1
  <2>4. WaitingRunsSynced'
    BY <1>0, <2>1, <2>2, <2>3, MoveKeepsSynced DEF WaitingRunsSynced
  <2> QED
    BY <1>0, <2>1, <2>2, <2>4, MoveKeepsUrls, IdleMidway
<1>10. ASSUME NEW c \in Course, NEW s \in Slug \cup {NoSlug},
              NEW isDraft \in BOOLEAN, NEW changed \in BOOLEAN, NEW live \in BOOLEAN,
              EditCourse(c, s, isDraft, changed, live)
       PROVE  WaitingRunsSynced' /\ CommandsMidway' /\ UrlsKept'
  <2> DEFINE t == EditedTable(c, s, isDraft)
  <2>1. /\ t \in [Slug -> Entry] /\ GoodStep(entry, t, c)
        /\ PushesSlug(c, isDraft) /\ s # NoSlug => DraftSlugs(t, c) = OfficialSlugs(t, c)
        /\ OfficialSlugs(t, c) # {} \/ OfficialHistory(t, c) = OfficialHistory(entry, c)
        /\ s = NoSlug => t = entry
    BY <1>0, <1>10, EditMoves DEF EditCourse, EditedTable
  <2>2. /\ moving = <<>> /\ unredirected = {}
        /\ UNCHANGED <<created, loaded, officials, moving, unredirected, redirected>>
        /\ \A q \in Run : status'[q] = Reviewed => status[q] = Reviewed
    BY <1>0, <1>10 DEF EditCourse, Unpublished, Reviewed
  <2>3. \A r \in Run : status'[r] = Reviewed /\ CourseOf[r] = c
                         => c \in officials /\ DraftSlugs(t, c) = OfficialSlugs(t, c)
    <3>1. ASSUME NEW r \in Run, status[r] = Reviewed, CourseOf[r] = c
          PROVE  c \in officials /\ DraftSlugs(t, c) = OfficialSlugs(t, c)
      <4>1. c \in officials /\ Synced(c) /\ PushesSlug(c, isDraft)
        BY <2>2, <3>1 DEF WaitingRunsSynced, PushesSlug, RunsOf
      <4> QED
        BY <2>1, <4>1 DEF Synced
    <3> QED
      BY <2>2, <3>1
  <2>4. CASE entry' = t
    <3>1. MoveOf(c)
      BY <2>1, <2>2, <2>4 DEF MoveOf
    <3>2. WaitingRunsSynced'
      BY <1>0, <2>2, <2>3, <2>4, <3>1, MoveKeepsSynced DEF Synced
    <3> QED
      BY <1>0, <2>2, <3>1, <3>2, MoveKeepsUrls, IdleMidway
  <2>5. ASSUME NEW p \in PromotionSlugs(t, c), entry' = SetOfficialSlug(t, c, p)
        PROVE  WaitingRunsSynced' /\ CommandsMidway' /\ UrlsKept'
    <3> HIDE DEF t
    <3>1. p \in Slug /\ Available(t, c, p)
      BY <2>1, PromotionSlugIsOwn
    <3>2. GoodStep(t, entry', c) /\ Synced(c)' /\ OfficialSlugs(entry', c) # {}
      BY <2>1, <2>5, <3>1, SetOfficialIsGood, SingleFacts DEF Synced
    <3>3. MoveOf(c)
      BY <2>1, <2>2, <3>2, GoodTransitive DEF MoveOf
    <3>4. WaitingRunsSynced'
      BY <1>0, <2>2, <2>3, <3>2, <3>3, MoveKeepsSynced
    <3> QED
      BY <1>0, <2>2, <3>3, <3>4, MoveKeepsUrls, IdleMidway
  <2> QED
    BY <1>10, <2>4, <2>5 DEF EditCourse
<1>11. ASSUME NEW c \in Course, Republish(c)
       PROVE  WaitingRunsSynced' /\ CommandsMidway' /\ UrlsKept'
  <2>1. PICK s \in Slug : PromotesTo(c, s) /\ entry' = SetOfficialSlug(entry, c, s)
    BY <1>11 DEF Republish
  <2>2. MoveOf(c) /\ Synced(c)' /\ c \in officials'
    BY <1>0, <1>11, <2>1, PromotionMoves, SingleFacts DEF Republish, MoveOf, Synced
  <2>3. /\ moving = <<>> /\ unredirected = {}
        /\ UNCHANGED <<status, moving, unredirected, redirected>>
    BY <1>0, <1>11 DEF Republish
  <2>4. WaitingRunsSynced'
    BY <1>0, <2>2, <2>3, MoveKeepsSynced
  <2> QED
    BY <1>0, <2>2, <2>3, <2>4, MoveKeepsUrls, IdleMidway
<1>12. ASSUME NEW ss \in SUBSET Slug, RemoveRedirects(ss)
       PROVE  WaitingRunsSynced' /\ CommandsMidway' /\ UrlsKept'
  <2>1. /\ moving' = <<>> /\ unredirected' = {} /\ moving = <<>>
        /\ UNCHANGED <<officials, status>>
        /\ redirected' = {r \in redirected : RunSlug[r] \notin ss}
    BY <1>12 DEF RemoveRedirects, Idle
  <2>2. \A c \in Course : /\ DraftSlugs(entry', c) = DraftSlugs(entry, c)
                          /\ OfficialSlugs(entry', c) = OfficialSlugs(entry, c)
                          /\ OfficialHistory(entry', c) = OfficialHistory(entry, c) \ ss
    BY <1>0, <1>12, RemovalFacts
  <2>3. WaitingRunsSynced'
    BY <2>1, <2>2 DEF WaitingRunsSynced, Synced
  <2>4. UrlsKept'
    BY <1>0, <2>1, <2>2 DEF UrlsKept
  <2> QED
    BY <2>1, <2>3, <2>4, IdleMidway
<1>13. ~CommandDies
  BY DEF CommandDies
<1>14. ASSUME NEW c \in Course, LoadCourse(c) \/ EnsureDraft(c)
       PROVE  WaitingRunsSynced' /\ CommandsMidway' /\ UrlsKept'
  BY <1>14, StatusOnlyKeeps DEF LoadCourse, EnsureDraft
<1>15. ASSUME RunStep PROVE WaitingRunsSynced' /\ CommandsMidway' /\ UrlsKept'
  BY <1>15, <1>1, <1>2, <1>3, <1>4, <1>5, <1>6 DEF RunStep
<1>16. ASSUME CourseStep PROVE WaitingRunsSynced' /\ CommandsMidway' /\ UrlsKept'
  BY <1>16, <1>7, <1>8, <1>9, <1>10, <1>11, <1>14 DEF CourseStep
<1> QED
  BY <1>12, <1>13, <1>15, <1>16 DEF Next

LEMMA DisturbedForGood ==
  ASSUME TypeOK, Next, disturbed' = "no"
  PROVE  disturbed = "no"
PROOF
<1> USE DEF Alongside
<1>1. RunStep => disturbed = "no"
  BY DEF RunStep, SubmitRun, Approve, ApproveAndPublish, WithdrawRun, PublishRun,
         AddRedirect, BackfillRedirect
<1>2. CourseStep => disturbed = "no"
  BY DEF CourseStep, CreateCourse, LoadCourse, EnsureDraft, MoveDraft, MoveOfficial, EditCourse, Republish
<1>3. (\E ss \in SUBSET Slug : RemoveRedirects(ss)) => disturbed = "no"
  BY DEF RemoveRedirects
<1>4. ~CommandDies
  BY DEF CommandDies
<1> QED
  BY <1>1, <1>2, <1>3, <1>4 DEF Next

LEMMA AloneInvStep ==
  /\ Init => AloneInv
  /\ AloneInv /\ [Next]_vars => AloneInv'
PROOF
<1>1. Init => AloneInv
  <2> SUFFICES ASSUME Init PROVE AloneInv
    OBVIOUS
  <2>1. WaitingRunsSynced
    BY DEF Init, WaitingRunsSynced, Unpublished, Reviewed
  <2>2. CommandsMidway /\ UrlsKept
    BY DEF Init, CommandsMidway, UrlsKept
  <2> QED
    BY <2>1, <2>2, SlugInvInit DEF AloneInv, Undisturbed
<1>2. ASSUME AloneInv, UNCHANGED vars PROVE AloneInv'
  <2>1. SlugInv'
    BY <1>2, SlugInvStep DEF AloneInv
  <2>2. ASSUME disturbed = "no" PROVE WaitingRunsSynced' /\ CommandsMidway' /\ UrlsKept'
    BY <1>2, <2>2, StatusOnlyKeeps DEF AloneInv, Undisturbed, vars
  <2> QED
    BY <1>2, <2>1, <2>2 DEF AloneInv, Undisturbed, vars
<1>3. ASSUME AloneInv, Next PROVE AloneInv'
  <2>1. SlugInv'
    BY <1>3, SlugInvStep DEF AloneInv
  <2>2. ASSUME disturbed' = "no" PROVE WaitingRunsSynced' /\ CommandsMidway' /\ UrlsKept'
    <3>1. disturbed = "no"
      BY <1>3, <2>2, DisturbedForGood DEF AloneInv, SlugInv
    <3> QED
      BY <1>3, <2>2, <3>1, AloneStep DEF AloneInv
  <2> QED
    BY <2>1, <2>2 DEF AloneInv, Undisturbed
<1> QED
  BY <1>1, <1>2, <1>3

\* Until a command dies or a request comes inside one, the catalog serves the
\* slug the editor sees for as long as a run waits to go live.
THEOREM ReviewedSlugIsServedThm == Spec => []ReviewedSlugIsServed
PROOF
<1>1. AloneInv => ReviewedSlugIsServed
  BY DEF AloneInv, Undisturbed, WaitingRunsSynced, ReviewedSlugIsServed, Synced
<1> QED
  BY <1>1, AloneInvStep, PTL DEF Spec

\* Under the same conditions the redirect of a published run stays in the
\* history of the official course until an operator removes it.
THEOREM RunUrlStaysThm == Spec => []RunUrlStays
PROOF
<1>1. AloneInv => RunUrlStays
  BY DEF AloneInv, Undisturbed, UrlsKept, RunUrlStays
<1> QED
  BY <1>1, AloneInvStep, PTL DEF Spec

---------------------------------------------------------------------------
(* Refinement: the table implements the urls of the catalog.               *)

\* What a visitor sees is settled by the histories of the official rows.
LeadsToTheOwner ==
  /\ LeadsTo \in [Slug -> Course \cup {NoCourse}]
  /\ \A x \in Slug, c \in Course : LeadsTo[x] = c <=> x \in OfficialHistory(entry, c)

LEMMA LeadsToIs == entry \in [Slug -> Entry] => LeadsToTheOwner
PROOF
<1> SUFFICES ASSUME entry \in [Slug -> Entry] PROVE LeadsToTheOwner
  OBVIOUS
<1>1. \A x \in Slug : LeadsTo[x] = IF entry[x].row = "official" THEN entry[x].course ELSE NoCourse
  BY DEF LeadsTo
<1>2. \A x \in Slug : LeadsTo[x] \in Course \cup {NoCourse}
  BY <1>1, EntryFacts
<1>3. \A x \in Slug, c \in Course : LeadsTo[x] = c <=> x \in OfficialHistory(entry, c)
  BY <1>1 DEF OfficialHistory
<1>4. LeadsTo = [x \in Slug |-> LeadsTo[x]]
  BY DEF LeadsTo
<1> HIDE DEF LeadsTo
<1> QED
  BY <1>2, <1>3, <1>4 DEF LeadsToTheOwner

LEMMA LeadsToIsNext == (entry \in [Slug -> Entry])' => LeadsToTheOwner'
BY LeadsToIs, PTL

LEMMA ServedAtIs ==
  ASSUME OneActiveSlug, NEW c \in Course
  PROVE  /\ OfficialSlugs(entry, c) # {}
              => ServedAt[c] \in Slug /\ OfficialSlugs(entry, c) = {ServedAt[c]}
         /\ OfficialSlugs(entry, c) = {} => ServedAt[c] = NoSlug
PROOF
<1>1. ServedAt[c] = IF OfficialSlugs(entry, c) = {} THEN NoSlug
                    ELSE CHOOSE s \in Slug : s \in OfficialSlugs(entry, c)
  BY DEF ServedAt
<1>2. OfficialSlugs(entry, c) \subseteq Slug
  BY DEF OfficialSlugs, OfficialHistory
<1>3. \A s, x \in OfficialSlugs(entry, c) : s = x
  BY DEF OneActiveSlug, AtMostOne
<1> HIDE DEF ServedAt
<1>4. ASSUME OfficialSlugs(entry, c) # {}
      PROVE  ServedAt[c] \in Slug /\ ServedAt[c] \in OfficialSlugs(entry, c)
  BY <1>1, <1>2, <1>4
<1> QED
  BY <1>1, <1>3, <1>4

LEMMA ServedAtIsNext ==
  ASSUME OneActiveSlug', NEW c \in Course, OfficialSlugs(entry', c) # {}
  PROVE  ServedAt'[c] \in Slug /\ OfficialSlugs(entry', c) = {ServedAt'[c]}
PROOF
<1>1. ServedAt'[c] = CHOOSE s \in Slug : s \in OfficialSlugs(entry', c)
  BY DEF ServedAt
<1>2. OfficialSlugs(entry', c) \subseteq Slug
  BY DEF OfficialSlugs, OfficialHistory
<1>3. \A s, x \in OfficialSlugs(entry', c) : s = x
  BY DEF OneActiveSlug, AtMostOne
<1> HIDE DEF ServedAt
<1>4. ServedAt'[c] \in Slug /\ ServedAt'[c] \in OfficialSlugs(entry', c)
  BY <1>1, <1>2
<1> QED
  BY <1>3, <1>4

LEMMA CatalogInit == Init => Catalog!Init
BY DEF Init, Catalog!Init, LeadsTo, ServedAt, OfficialSlugs, OfficialHistory, Free

LEMMA ServeStep ==
  ASSUME SlugInv, SlugInv', NEW c \in Course, MoveOf(c)
  PROVE  Catalog!Next \/ UNCHANGED <<LeadsTo, ServedAt>>
PROOF
<1>1. /\ entry \in [Slug -> Entry] /\ entry' \in [Slug -> Entry]
      /\ OneActiveSlug /\ OneActiveSlug'
  BY DEF SlugInv, TypeOK
<1>2. /\ LeadsTo \in [Slug -> Course \cup {NoCourse}]
      /\ LeadsTo' \in [Slug -> Course \cup {NoCourse}]
      /\ \A x \in Slug, d \in Course : LeadsTo[x] = d <=> x \in OfficialHistory(entry, d)
      /\ \A x \in Slug, d \in Course : LeadsTo'[x] = d <=> x \in OfficialHistory(entry', d)
  <2>1. (entry \in [Slug -> Entry])'
    BY <1>1
  <2> QED
    BY <1>1, <2>1, LeadsToIs, LeadsToIsNext DEF LeadsToTheOwner
<1>3. \A d \in Course \ {c}, x \in Slug : LeadsTo'[x] = d <=> LeadsTo[x] = d
  BY <1>2 DEF MoveOf, GoodStep, Others
<1>4. \A x \in Slug : LeadsTo[x] = c => LeadsTo'[x] = c
  BY <1>2 DEF MoveOf, GoodStep
<1>5. \A d \in Course \ {c} : ServedAt'[d] = ServedAt[d]
  <2> SUFFICES ASSUME NEW d \in Course \ {c} PROVE ServedAt'[d] = ServedAt[d]
    OBVIOUS
  <2>1. OfficialSlugs(entry', d) = OfficialSlugs(entry, d)
    BY DEF MoveOf, GoodStep, Others
  <2> QED
    BY <2>1 DEF ServedAt
<1>6. ServedAt = [d \in Course |-> ServedAt[d]] /\ ServedAt' = [d \in Course |-> ServedAt'[d]]
  BY DEF ServedAt
<1>7. CASE OfficialSlugs(entry', c) # {}
  <2>1. ServedAt'[c] \in Slug /\ OfficialSlugs(entry', c) = {ServedAt'[c]}
    BY <1>1, <1>7, ServedAtIsNext
  <2> DEFINE s == ServedAt'[c]
             ss == OfficialHistory(entry', c)
  <2>2. ss \in SUBSET Slug /\ s \in ss
    BY <2>1 DEF OfficialSlugs, OfficialHistory
  <2>3. \A x \in ss : LeadsTo[x] \in {NoCourse, c}
    BY <1>2, <1>3, <2>2
  <2>4. \A x \in Slug : LeadsTo'[x] = IF x \in ss THEN c ELSE LeadsTo[x]
    BY <1>2, <1>3, <1>4
  <2>5. LeadsTo' = [x \in Slug |-> IF x \in ss THEN c ELSE LeadsTo[x]]
    BY <1>2, <2>4
  <2>6. LeadsTo'[s] = c
    BY <2>2, <2>4
  <2>7. ServedAt' = [ServedAt EXCEPT ![c] = s]
    BY <1>5, <1>6
  <2> QED
    BY <2>1, <2>2, <2>3, <2>5, <2>6, <2>7 DEF Catalog!Next, Catalog!Serve
<1>8. CASE OfficialSlugs(entry', c) = {}
  <2>1. OfficialHistory(entry', c) = OfficialHistory(entry, c) /\ OfficialSlugs(entry, c) = {}
    BY <1>8 DEF MoveOf, GoodStep
  <2>2. ServedAt'[c] = ServedAt[c]
    BY <1>8, <2>1 DEF ServedAt
  <2>3. \A x \in Slug, d \in Course : LeadsTo'[x] = d <=> LeadsTo[x] = d
    BY <1>2, <1>3, <2>1
  <2>4. LeadsTo' = LeadsTo
    BY <1>2, <2>3
  <2>5. ServedAt' = ServedAt
    BY <1>5, <1>6, <2>2
  <2> QED
    BY <2>4, <2>5
<1> QED
  BY <1>7, <1>8

LEMMA RetireStep ==
  ASSUME SlugInv, NEW ss \in SUBSET Slug, RemoveRedirects(ss)
  PROVE  Catalog!Next
PROOF
<1>1. /\ entry \in [Slug -> Entry] /\ OneActiveSlug
      /\ \A x \in ss : entry[x].flags = {}
      /\ entry' = [x \in Slug |-> IF x \in ss THEN Free ELSE entry[x]]
  BY DEF SlugInv, TypeOK, RemoveRedirects
<1>2. \A c \in Course : ServedAt[c] \notin ss
  <2> SUFFICES ASSUME NEW c \in Course, OfficialSlugs(entry, c) # {} PROVE ServedAt[c] \notin ss
    BY <1>1, ServedAtIs
  <2>1. ServedAt[c] \in OfficialSlugs(entry, c)
    BY <1>1, ServedAtIs
  <2> QED
    BY <1>1, <2>1 DEF OfficialSlugs
<1>3. LeadsTo' = [x \in Slug |-> IF x \in ss THEN NoCourse ELSE LeadsTo[x]]
  <2>1. \A x \in Slug : LeadsTo'[x] = IF x \in ss THEN NoCourse ELSE LeadsTo[x]
    BY <1>1 DEF LeadsTo, Free
  <2>2. LeadsTo' = [x \in Slug |-> LeadsTo'[x]]
    BY DEF LeadsTo
  <2> QED
    BY <2>1, <2>2
<1>4. UNCHANGED ServedAt
  <2>1. \A c \in Course : OfficialSlugs(entry', c) = OfficialSlugs(entry, c)
    BY <1>1, RemovalFacts
  <2>2. ASSUME NEW c \in Course PROVE ServedAt'[c] = ServedAt[c]
    <3>1. OfficialSlugs(entry', c) = OfficialSlugs(entry, c)
      BY <2>1
    <3> QED
      BY <3>1 DEF ServedAt
  <2>3. ServedAt = [c \in Course |-> ServedAt[c]] /\ ServedAt' = [c \in Course |-> ServedAt'[c]]
    BY DEF ServedAt
  <2> QED
    BY <2>2, <2>3
<1> QED
  BY <1>2, <1>3, <1>4 DEF Catalog!Next, Catalog!Retire

LEMMA CatalogStep ==
  ASSUME SlugInv, [Next]_vars
  PROVE  [Catalog!Next]_(Catalog!urls)
PROOF
<1>1. SlugInv'
  BY SlugInvStep
<1>2. CASE UNCHANGED entry
  BY <1>2 DEF Catalog!urls, LeadsTo, ServedAt, OfficialSlugs, OfficialHistory
<1>3. CASE Next
  <2>1. ASSUME NEW c \in Course, MoveOf(c) PROVE [Catalog!Next]_(Catalog!urls)
    BY <1>1, <2>1, ServeStep DEF Catalog!urls
  <2>2. ASSUME NEW ss \in SUBSET Slug, RemoveRedirects(ss) PROVE [Catalog!Next]_(Catalog!urls)
    BY <2>2, RetireStep
  <2> QED
    BY <1>2, <1>3, <2>1, <2>2, StepShape DEF SlugInv
<1> QED
  BY <1>2, <1>3 DEF vars

\* The table of slugs implements the promises of CatalogUrls, whatever requests
\* overlap and whatever commands die.
THEOREM KeepsCatalogPromisesThm == Spec => KeepsCatalogPromises
PROOF
<1>1. Spec => Catalog!Init /\ [][Catalog!Next]_(Catalog!urls)
  BY SlugInvInit, SlugInvStep, CatalogInit, CatalogStep, PTL DEF Spec
<1> QED
  BY <1>1 DEF KeepsCatalogPromises, Catalog!Spec
=============================================================================
