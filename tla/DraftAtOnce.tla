----------------------------- MODULE DraftAtOnce -----------------------------
(***************************************************************************)
(* What an editor may count on when a course gets its draft rows: as if    *)
(* the whole draft world were made in one step, with a linked draft row    *)
(* for the course and for every official run, and the canonical run.       *)
(*                                                                         *)
(* The promise ends with the first trouble, after which the course is      *)
(* broken and its rows may be anything.  DraftWorld implements this.       *)
(***************************************************************************)
CONSTANTS Run, NoRun

VARIABLES
  course,          \* none, alone (official), linked (with its drafts), broken
  official,        \* runs with an official row
  draft,           \* runs with a draft row
  paired,          \* runs with both, linked
  canonical,       \* the canonical run of the official course
  draftCanonical,  \* ... and of the draft course
  edited           \* has an editor saved the draft course?

rows == <<course, official, draft, paired, canonical, draftCanonical, edited>>

Init ==
  /\ course = "none"
  /\ official = {} /\ draft = {} /\ paired = {}
  /\ canonical = NoRun /\ draftCanonical = NoRun
  /\ edited = "no"

---------------------------------------------------------------------------
(* A course without drafts.                                                *)

Appear ==
  /\ course = "none"
  /\ course' = "alone"
  /\ UNCHANGED <<official, draft, paired, canonical, draftCanonical, edited>>

Load(r) ==
  /\ course = "alone"
  /\ r \notin official
  /\ official' = official \cup {r}
  /\ UNCHANGED <<course, draft, paired, canonical, draftCanonical, edited>>

SetCanonical(r) ==
  /\ course = "alone"
  /\ r \in official
  /\ canonical' = r
  /\ UNCHANGED <<course, official, draft, paired, draftCanonical, edited>>

FirstOr(was, r) == IF was = NoRun THEN r ELSE was

\* The draft world is made, and with it goes what the request is for: an edit of
\* the course, a run or its update, a comment.
Build(created) ==
  /\ course = "alone"
  /\ created \cap official = {}
  /\ course' = "linked"
  /\ draft' = official \cup created
  /\ paired' = official
  /\ \/ created = {} /\ draftCanonical' = canonical
     \/ \E r \in created : created = {r} /\ draftCanonical' = FirstOr(canonical, r)
  /\ edited' \in {"no", "yes"}
  /\ UNCHANGED <<official, canonical>>

---------------------------------------------------------------------------
(* A course with its drafts.                                               *)

Save ==
  /\ course = "linked"
  /\ edited' = "yes"
  /\ UNCHANGED <<course, official, draft, paired, canonical, draftCanonical>>

\* An editor creates a run, or the loader does, which sets no canonical run.
Create(r) ==
  /\ course = "linked"
  /\ r \notin official \cup draft
  /\ draft' = draft \cup {r}
  /\ draftCanonical' \in {draftCanonical, FirstOr(draftCanonical, r)}
  /\ UNCHANGED <<course, official, paired, canonical, edited>>

MakeOfficial(r) ==
  /\ course = "linked"
  /\ r \in draft \ official
  /\ official' = official \cup {r}
  /\ paired' = paired \cup {r}
  /\ UNCHANGED <<course, draft, canonical, draftCanonical, edited>>

Break == course' = "broken"

---------------------------------------------------------------------------
Next ==
  \/ Appear \/ Save \/ Break
  \/ \E created \in {{}} \cup {{r} : r \in Run} : Build(created)
  \/ \E r \in Run : Load(r) \/ SetCanonical(r) \/ Create(r) \/ MakeOfficial(r)

Spec == Init /\ [][Next]_rows
===========================================================================
