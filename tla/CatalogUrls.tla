---------------------------- MODULE CatalogUrls ----------------------------
(***************************************************************************)
(* What the slugs promise the visitors of the catalog: a slug leads to one *)
(* course at most, a course that has a slug is served at one of the slugs  *)
(* that lead to it ever after, and a slug changes hands only after an      *)
(* operator has removed it as a redirect.  CourseUrlSlugs implements this. *)
(***************************************************************************)
CONSTANTS
  Course, Slug,
  NoCourse,    \* where a slug leads that the catalog does not know
  NoSlug       \* the slug of a course that the catalog has no slug for

VARIABLES
  leads,       \* leads[s]: the course the page of slug s shows or redirects to
  active       \* active[c]: the slug at which course c is served

urls == <<leads, active>>

Init ==
  /\ leads = [s \in Slug |-> NoCourse]
  /\ active = [c \in Course |-> NoSlug]

\* Course c is served at s; the slugs ss are its own or were nobody's.
Serve(c, s, ss) ==
  /\ \A x \in ss : leads[x] \in {NoCourse, c}
  /\ leads' = [x \in Slug |-> IF x \in ss THEN c ELSE leads[x]]
  /\ leads'[s] = c
  /\ active' = [active EXCEPT ![c] = s]

\* Redirects are removed; the slugs that serve a course stay.
Retire(ss) ==
  /\ \A c \in Course : active[c] \notin ss
  /\ leads' = [x \in Slug |-> IF x \in ss THEN NoCourse ELSE leads[x]]
  /\ UNCHANGED active

Next ==
  \/ \E c \in Course, s \in Slug, ss \in SUBSET Slug : Serve(c, s, ss)
  \/ \E ss \in SUBSET Slug : Retire(ss)

Spec == Init /\ [][Next]_urls

===========================================================================
