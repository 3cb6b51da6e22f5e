---------------------------- MODULE SearchIndex ----------------------------
(***************************************************************************)
(* Rotation of the Elasticsearch index of one search document              *)
(* (update_index, remove_unused_indexes, search_index, ElasticsearchUtils).*)
(*                                                                         *)
(* Search reads through an alias.  update_index creates an index named     *)
(* after the current second, fills it, compares it with the one behind the *)
(* alias and moves the alias.  remove_unused_indexes deletes indexes the   *)
(* alias does not point to.  Every call to Elasticsearch is a step.        *)
(*                                                                         *)
(* The documents of one execution share nothing but its life: another      *)
(* document can only make it die.  Deleting an index deletes its alias; a  *)
(* bulk write to an index that is gone creates it with a dynamic mapping;  *)
(* an alias moves atomically, to an existing index only.                   *)
(***************************************************************************)
EXTENDS Naturals, FiniteSets

CONSTANTS
  Job,         \* executions of update_index that may overlap
  Unchecked,   \* those with --disable-change-limit
  Retention,   \* ELASTICSEARCH_DSL_INDEX_RETENTION_LIMIT
  Percent,     \* INDEX_SIZE_CHANGE_THRESHOLD, in percent
  MaxTime,     \* bound on the seconds in which an index is created
  MaxRecords   \* bound on the rows of the table

ASSUME SearchAssumption ==
  /\ Unchecked \subseteq Job
  /\ Retention \in Nat
  /\ Percent \in Nat
  /\ MaxTime \in Nat \ {0}
  /\ MaxRecords \in Nat

Time == 1..MaxTime     \* an index is named by the second of its creation
NoIndex == 0

VARIABLES
  now,         \* the current second
  records,     \* number of rows to be indexed
  index,       \* index[t]: mapping and number of documents of the index named t
  alias,       \* the index the alias points to, or NoIndex
  job,         \* what each execution of update_index remembers
  purge,       \* what remove_unused_indexes remembers
  overlapped   \* history: has anything else written or moved indexes during a job?

esVars == <<index, alias>>
vars   == <<now, records, index, alias, job, purge, overlapped>>

Missing  == [mapping |-> "none", count |-> 0]
Index    == [mapping: {"none", "keyword", "dynamic"}, count: Nat]
Idle     == [at |-> "idle", name |-> NoIndex, previous |-> 0, written |-> 0]
JobState == [at: {"idle", "filling", "sane"},
             name: {NoIndex} \cup Time, previous: Nat, written: Nat]
NoPurge  == [at |-> "idle", seen |-> {}, victims |-> {}, current |-> NoIndex]
PurgeState == [at: {"idle", "listed", "chosen"}, seen: SUBSET Time,
               victims: SUBSET Time, current: {NoIndex} \cup Time]

TypeOK ==
  /\ now \in Time
  /\ records \in Nat
  /\ index \in [Time -> Index]
  /\ alias \in {NoIndex} \cup Time
  /\ job \in [Job -> JobState]
  /\ \A j \in Job : job[j].at # "idle" => job[j].name \in Time
  /\ purge \in PurgeState
  /\ overlapped \in {"no", "yes"}

Init ==
  /\ now = 1
  /\ records = 0
  /\ index = [t \in Time |-> Missing]
  /\ alias = NoIndex
  /\ job = [j \in Job |-> Idle]
  /\ purge = NoPurge
  /\ overlapped = "no"

Exists(t) == t # NoIndex /\ index[t].mapping # "none"
Existing  == {t \in Time : Exists(t)}

\* Mutant: the mapping of the document is not sent along.
NewMutant == [mapping |-> "text", count |-> 0]

New == [mapping |-> "keyword", count |-> 0]

\* Anything that happens while another job runs disturbs it.
Alongside(j) ==
  overlapped' = IF \A k \in Job \ {j} : job[k].at = "idle" THEN overlapped ELSE "yes"

---------------------------------------------------------------------------
(* The table and the clock.                                                *)

RecordsChange(n) ==
  /\ n # records
  /\ records' = n
  /\ UNCHANGED <<now, index, alias, job, purge, overlapped>>

Tick ==
  /\ now < MaxTime
  /\ now' = now + 1
  /\ UNCHANGED <<records, index, alias, job, purge, overlapped>>

---------------------------------------------------------------------------
(* search_index and install_es_indexes, by an operator.                    *)

AllQuiet == overlapped' = IF \A k \in Job : job[k].at = "idle" THEN overlapped ELSE "yes"

\* --create, and install_es_indexes where there is no alias: an empty index, and
\* the alias to it at once.
CreateEmpty ==
  /\ ~Exists(now)
  /\ index' = [index EXCEPT ![now] = New]
  /\ alias' = now
  /\ AllQuiet
  /\ UNCHANGED <<now, records, job, purge>>

\* --populate writes through the alias.
PopulateServed ==
  /\ alias # NoIndex
  /\ index[alias].count < records
  /\ index' = [index EXCEPT ![alias] = [mapping |-> index[alias].mapping, count |-> records]]
  /\ AllQuiet
  /\ UNCHANGED <<now, records, alias, job, purge>>

\* --delete: the index behind the alias.
DeleteServed ==
  /\ alias # NoIndex
  /\ index' = [index EXCEPT ![alias] = Missing]
  /\ alias' = NoIndex
  /\ AllQuiet
  /\ UNCHANGED <<now, records, job, purge>>

---------------------------------------------------------------------------
(* update_index.                                                           *)

JobIs(j, at, name, previous, written) ==
  job' = [job EXCEPT ![j] = [at |-> at, name |-> name, previous |-> previous, written |-> written]]

\* Mutant: an index of that name is taken as it is.
PrepareMutant(j) ==
  /\ job[j].at = "idle"
  /\ alias # NoIndex
  /\ index' = [index EXCEPT ![now] = New]
  /\ JobIs(j, "filling", now, index[alias].count, 0)
  /\ Alongside(j)
  /\ UNCHANGED <<now, records, alias, purge>>

\* get_record_count through the alias, which fails without one, and
\* prepare_backend_index, which fails when the name is taken.
Prepare(j) ==
  /\ job[j].at = "idle"
  /\ alias # NoIndex
  /\ ~Exists(now)
  /\ index' = [index EXCEPT ![now] = New]
  /\ JobIs(j, "filling", now, index[alias].count, 0)
  /\ Alongside(j)
  /\ UNCHANGED <<now, records, alias, purge>>

\* _populate: one batch, to the index by its name, whether or not it exists.
WriteBatch(j) ==
  LET t == job[j].name IN
  /\ job[j].at = "filling"
  /\ job[j].written < records
  /\ index' = [index EXCEPT ![t] = [mapping |-> IF Exists(t) THEN index[t].mapping ELSE "dynamic",
                                    count |-> index[t].count + 1]]
  /\ JobIs(j, "filling", t, job[j].previous, job[j].written + 1)
  /\ UNCHANGED <<now, records, alias, purge, overlapped>>

Filled(j) == job[j].at = "filling" /\ job[j].written >= records

\* percentage_change(current, previous) < INDEX_SIZE_CHANGE_THRESHOLD, where a
\* change from nothing counts as 100 percent.
Change(m, n) == IF m > n THEN m - n ELSE n - m
Sane(current, previous) ==
  \/ current = previous /\ Percent > 0
  \/ previous = 0 /\ current # 0 /\ Percent > 100
  \/ previous # 0 /\ 100 * Change(current, previous) < Percent * previous

\* Mutants of the check: without the aggregation_key spot check, without the count.
IsSaneUnmappedMutant(j) == Sane(index[job[j].name].count, job[j].previous)
IsSaneUncountedMutant(j) == index[job[j].name].mapping = "keyword"

\* sanity_check_new_index: the counts, and the mapping of aggregation_key.
IsSane(j) ==
  /\ Sane(index[job[j].name].count, job[j].previous)
  /\ index[job[j].name].mapping = "keyword"

CheckPasses(j) ==
  /\ Filled(j)
  /\ Exists(job[j].name)
  /\ j \in Unchecked \/ IsSane(j)
  /\ JobIs(j, "sane", job[j].name, job[j].previous, job[j].written)
  /\ UNCHANGED <<now, records, index, alias, purge, overlapped>>

\* The index stays behind without an alias, and the command ends in an error.
CheckFails(j) ==
  /\ Filled(j)
  /\ j \notin Unchecked
  /\ Exists(job[j].name)
  /\ ~IsSane(j)
  /\ job' = [job EXCEPT ![j] = Idle]
  /\ UNCHANGED <<now, records, index, alias, purge, overlapped>>

\* ElasticsearchUtils.set_alias, all or nothing.
SetAlias(j) ==
  /\ job[j].at = "sane"
  /\ Exists(job[j].name)
  /\ alias' = job[j].name
  /\ job' = [job EXCEPT ![j] = Idle]
  /\ UNCHANGED <<now, records, index, purge, overlapped>>

\* Killed, or a call raises: the index or the alias is gone, or another
\* document of the same execution fails.
JobDies(j) ==
  /\ job[j].at # "idle"
  /\ job' = [job EXCEPT ![j] = Idle]
  /\ UNCHANGED <<now, records, index, alias, purge, overlapped>>

---------------------------------------------------------------------------
(* remove_unused_indexes.                                                  *)

PurgeList ==
  /\ purge.at = "idle"
  /\ purge' = [at |-> "listed", seen |-> Existing, victims |-> {}, current |-> NoIndex]
  /\ UNCHANGED <<now, records, index, alias, job, overlapped>>

Unused(seen, current) == seen \ {current}

\* Mutant: the current index is not taken off the list.
VictimsMutant(seen, current) ==
  {vs \in SUBSET seen : Cardinality(vs) + Retention = Cardinality(seen)}

\* list(set(...) - set(...)) comes in any order: as many as are too many, but
\* any of them.
Victims(seen, current) ==
  {vs \in SUBSET Unused(seen, current) :
     Cardinality(vs) + Retention = Cardinality(Unused(seen, current))}

PurgeChoose ==
  /\ purge.at = "listed"
  /\ \/ \E vs \in Victims(purge.seen, alias) :
          /\ vs # {}
          /\ purge' = [at |-> "chosen", seen |-> {}, victims |-> vs, current |-> alias]
     \/ /\ Cardinality(Unused(purge.seen, alias)) <= Retention
        /\ purge' = NoPurge
  /\ UNCHANGED <<now, records, index, alias, job, overlapped>>

\* One call deletes them all, and nothing when one of them is gone.
PurgeDelete ==
  /\ purge.at = "chosen"
  /\ purge' = NoPurge
  /\ \/ /\ purge.victims \subseteq Existing
        /\ index' = [t \in Time |-> IF t \in purge.victims THEN Missing ELSE index[t]]
        /\ alias' = IF alias \in purge.victims THEN NoIndex ELSE alias
     \/ /\ ~(purge.victims \subseteq Existing)
        /\ UNCHANGED esVars
  /\ UNCHANGED <<now, records, job, overlapped>>

---------------------------------------------------------------------------
JobStep(j) ==
  \/ Prepare(j) \/ WriteBatch(j)
  \/ CheckPasses(j) \/ CheckFails(j) \/ SetAlias(j)
  \/ JobDies(j)

Next ==
  \/ \E n \in 0..MaxRecords : RecordsChange(n)
  \/ Tick
  \/ CreateEmpty \/ PopulateServed \/ DeleteServed
  \/ \E j \in Job : JobStep(j)
  \/ PurgeList \/ PurgeChoose \/ PurgeDelete

Spec == Init /\ [][Next]_vars

---------------------------------------------------------------------------
(* What the rotation promises.                                             *)

\* Although indexes are purged while they are filled, and bulk writes bring
\* them back with a wrong mapping and without the documents they had, a checked
\* job that runs alone serves only an index that holds all it has written.  (Two
\* jobs can get the same name when a purge comes between them in one second.)
ServesWhatItWrote ==
  [][\A j \in Job \ Unchecked :
       SetAlias(j) /\ overlapped = "no" =>
         index[alias'] = [mapping |-> "keyword", count |-> job[j].written]]_vars

\* What a checked job serves differs from what is served at that moment by less
\* than the threshold, as long as nothing else moved the alias or wrote to it.
ChangesLittle ==
  [][\A j \in Job \ Unchecked :
       SetAlias(j) /\ overlapped = "no" /\ alias # NoIndex =>
         Sane(index[alias'].count, index[alias].count)]_vars

\* The alias moves to younger indexes only, as long as jobs do not overlap.
NeverGoesBack ==
  [][\A j \in Job : SetAlias(j) /\ overlapped = "no" => alias' > alias]_vars

\* A purge takes the search down only if the alias has moved since the purge
\* looked it up: the index that was current then, or is being filled, may go,
\* but not the one that is served all the while.
PurgeSparesCurrent ==
  [][PurgeDelete /\ alias' # alias => alias # purge.current]_vars
===========================================================================
