------------------------- MODULE SearchIndex_proofs -------------------------
(***************************************************************************)
(* What the rotation of the search index promises, for any number of jobs, *)
(* seconds and rows.                                                       *)
(***************************************************************************)
EXTENDS SearchIndex, TLAPS

USE SearchAssumption DEF Time, NoIndex

\* The alias points to an index that is there; nothing is named after a second
\* to come; a purge has taken the current index off its list.
AliasLives == alias # NoIndex => index[alias].mapping # "none"

NamesArePast == alias <= now /\ \A j \in Job : job[j].name <= now

CurrentIsSpared == purge.current \notin purge.victims

\* As long as nothing has disturbed a job, it is the only one, the alias is
\* where it found it, its index holds what it has written unless it was purged,
\* and an index that was purged and came back has not passed the check.
Undisturbed(j) ==
  /\ \A k \in Job \ {j} : job[k].at = "idle"
  /\ alias < job[j].name
  /\ alias # NoIndex => index[alias].count = job[j].previous
  /\ index[job[j].name].mapping = "keyword" => index[job[j].name].count = job[j].written
  /\ job[j].at = "sane" /\ j \notin Unchecked /\ index[job[j].name].mapping # "none"
       => /\ index[job[j].name].mapping = "keyword"
          /\ Sane(index[job[j].name].count, job[j].previous)

Alone == overlapped = "no" => \A j \in Job : job[j].at # "idle" => Undisturbed(j)

SearchInv ==
  /\ TypeOK
  /\ AliasLives
  /\ NamesArePast
  /\ CurrentIsSpared
  /\ Alone

---------------------------------------------------------------------------
LEMMA InitInv == Init => SearchInv
BY DEF Init, SearchInv, TypeOK, AliasLives, NamesArePast, CurrentIsSpared, Alone,
       Missing, Index, Idle, JobState, NoPurge, PurgeState

LEMMA NewIsIndex == New \in Index /\ Missing \in Index
BY DEF New, Missing, Index

\* Steps of the table and the clock.
LEMMA EnvironmentStep ==
  ASSUME SearchInv, Tick \/ \E n \in 0..MaxRecords : RecordsChange(n)
  PROVE  SearchInv'
PROOF
<1>1. CASE Tick
  <2>1. TypeOK'
    BY <1>1 DEF SearchInv, TypeOK, Tick
  <2>2. NamesArePast'
    <3>1. now \in Nat /\ now' = now + 1 /\ alias \in Nat /\ \A j \in Job : job[j].name \in Nat
      BY <1>1 DEF SearchInv, TypeOK, Tick, JobState
    <3> QED
      BY <1>1, <3>1 DEF SearchInv, NamesArePast, Tick
  <2>3. AliasLives' /\ CurrentIsSpared' /\ Alone'
    BY <1>1 DEF SearchInv, Tick, AliasLives, CurrentIsSpared, Alone, Undisturbed
  <2> QED
    BY <2>1, <2>2, <2>3 DEF SearchInv
<1>2. CASE \E n \in 0..MaxRecords : RecordsChange(n)
  BY <1>2 DEF SearchInv, TypeOK, RecordsChange, NamesArePast, AliasLives, CurrentIsSpared,
              Alone, Undisturbed
<1> QED
  BY <1>1, <1>2

---------------------------------------------------------------------------
(* The operator's commands: beside a job they count as a disturbance.      *)

LEMMA QuietAlone ==
  ASSUME TypeOK, AllQuiet, job' = job
  PROVE  Alone'
BY DEF AllQuiet, Alone, TypeOK

LEMMA OperatorStep ==
  ASSUME SearchInv, CreateEmpty \/ PopulateServed \/ DeleteServed
  PROVE  SearchInv'
PROOF
<1>1. Alone'
  BY QuietAlone DEF SearchInv, CreateEmpty, PopulateServed, DeleteServed
<1>2. overlapped' \in {"no", "yes"}
  BY DEF SearchInv, TypeOK, CreateEmpty, PopulateServed, DeleteServed, AllQuiet
<1>3. CASE CreateEmpty
  <2>1. now \in Time /\ now \in Nat
    BY DEF SearchInv, TypeOK
  <2>2. index' \in [Time -> Index] /\ index'[now] = New
    BY <1>3, <2>1, NewIsIndex DEF SearchInv, TypeOK, CreateEmpty
  <2> QED
    BY <1>1, <1>2, <1>3, <2>1, <2>2
    DEF SearchInv, TypeOK, CreateEmpty, AliasLives, NamesArePast, CurrentIsSpared, New
<1>4. CASE PopulateServed
  <2>1. alias \in Time /\ index[alias] \in Index /\ records \in Nat
    BY <1>4 DEF SearchInv, TypeOK, PopulateServed
  <2>2. [mapping |-> index[alias].mapping, count |-> records] \in Index
    BY <2>1 DEF Index
  <2>3. index' \in [Time -> Index] /\ index'[alias].mapping = index[alias].mapping
    BY <1>4, <2>1, <2>2 DEF SearchInv, TypeOK, PopulateServed
  <2> QED
    BY <1>1, <1>2, <1>4, <2>3
    DEF SearchInv, TypeOK, PopulateServed, AliasLives, NamesArePast, CurrentIsSpared
<1>5. CASE DeleteServed
  <2>1. index' \in [Time -> Index]
    BY <1>5, NewIsIndex DEF SearchInv, TypeOK, DeleteServed
  <2> QED
    BY <1>1, <1>2, <1>5, <2>1
    DEF SearchInv, TypeOK, DeleteServed, AliasLives, NamesArePast, CurrentIsSpared
<1> QED
  BY <1>3, <1>4, <1>5

---------------------------------------------------------------------------
(* update_index.                                                           *)

LEMMA JobFacts ==
  ASSUME TypeOK, NEW j \in Job, NEW at, NEW name, NEW previous, NEW written,
         JobIs(j, at, name, previous, written),
         at \in {"filling", "sane"}, name \in Time, previous \in Nat, written \in Nat
  PROVE  /\ job' \in [Job -> JobState]
         /\ \A k \in Job : job'[k].at # "idle" => job'[k].name \in Time
         /\ job'[j] = [at |-> at, name |-> name, previous |-> previous, written |-> written]
         /\ \A k \in Job \ {j} : job'[k] = job[k]
PROOF
<1>1. [at |-> at, name |-> name, previous |-> previous, written |-> written] \in JobState
  BY DEF JobState
<1> QED
  BY <1>1 DEF TypeOK, JobIs

LEMMA PrepareInv ==
  ASSUME SearchInv, NEW j \in Job, Prepare(j)
  PROVE  SearchInv'
PROOF
<1>1. /\ now \in Time /\ now \in Nat /\ alias \in Time /\ alias \in Nat
      /\ index[alias].count \in Nat
      /\ alias <= now
      /\ index[alias].mapping # "none" /\ index[now].mapping = "none"
  BY DEF SearchInv, TypeOK, Prepare, Exists, AliasLives, NamesArePast, Index
<1>2. alias < now
  BY <1>1
<1>3. /\ index' \in [Time -> Index]
      /\ index'[now] = New
      /\ index'[alias] = index[alias]
  BY <1>1, <1>2, NewIsIndex DEF SearchInv, TypeOK, Prepare
<1>4. /\ job' \in [Job -> JobState]
      /\ \A k \in Job : job'[k].at # "idle" => job'[k].name \in Time
      /\ job'[j] = [at |-> "filling", name |-> now, previous |-> index[alias].count, written |-> 0]
      /\ \A k \in Job \ {j} : job'[k] = job[k]
  BY <1>1, JobFacts DEF SearchInv, Prepare
<1>5. TypeOK'
  BY <1>3, <1>4 DEF SearchInv, TypeOK, Prepare, Alongside
<1>6. NamesArePast' /\ AliasLives' /\ CurrentIsSpared'
  BY <1>1, <1>3, <1>4 DEF SearchInv, Prepare, NamesArePast, AliasLives, CurrentIsSpared
<1>7. Alone'
  <2> SUFFICES ASSUME overlapped' = "no", NEW k \in Job, job'[k].at # "idle"
               PROVE  Undisturbed(k)'
    BY DEF Alone
  <2>1. \A i \in Job \ {j} : job[i].at = "idle"
    BY DEF Prepare, Alongside
  <2>2. k = j
    BY <1>4, <2>1
  <2> QED
    BY <1>1, <1>2, <1>3, <1>4, <2>1, <2>2 DEF Prepare, Undisturbed, New
<1> QED
  BY <1>5, <1>6, <1>7 DEF SearchInv

LEMMA WriteBatchInv ==
  ASSUME SearchInv, NEW j \in Job, WriteBatch(j)
  PROVE  SearchInv'
PROOF
<1> DEFINE t == job[j].name
           m == IF Exists(t) THEN index[t].mapping ELSE "dynamic"
<1>1. /\ t \in Time /\ index[t] \in Index /\ index[t].count \in Nat
      /\ job[j].previous \in Nat /\ job[j].written \in Nat
  BY DEF SearchInv, TypeOK, WriteBatch, JobState, Index
<1>2. m \in {"keyword", "dynamic"} /\ (m = "keyword" => index[t].mapping = "keyword")
  BY <1>1 DEF Exists, Index
<1> HIDE DEF m
<1>3. index' = [index EXCEPT ![t] = [mapping |-> m, count |-> index[t].count + 1]]
  BY DEF WriteBatch, m
<1>4. [mapping |-> m, count |-> index[t].count + 1] \in Index
  BY <1>1, <1>2 DEF Index
<1>5. /\ index' \in [Time -> Index]
      /\ index'[t] = [mapping |-> m, count |-> index[t].count + 1]
      /\ \A x \in Time \ {t} : index'[x] = index[x]
  BY <1>1, <1>3, <1>4 DEF SearchInv, TypeOK
<1>6. /\ job' \in [Job -> JobState]
      /\ \A k \in Job : job'[k].at # "idle" => job'[k].name \in Time
      /\ job'[j] = [at |-> "filling", name |-> t, previous |-> job[j].previous, written |-> job[j].written + 1]
      /\ \A k \in Job \ {j} : job'[k] = job[k]
  BY <1>1, JobFacts DEF SearchInv, WriteBatch
<1>7. TypeOK'
  BY <1>5, <1>6 DEF SearchInv, TypeOK, WriteBatch
<1>8. NamesArePast' /\ CurrentIsSpared'
  BY <1>6 DEF SearchInv, WriteBatch, NamesArePast, CurrentIsSpared
<1>9. AliasLives'
  <2>1. alias' = alias /\ alias \in {0} \cup Time
    BY DEF SearchInv, TypeOK, WriteBatch
  <2>2. CASE alias = t
    BY <1>2, <1>5, <2>1, <2>2 DEF AliasLives
  <2>3. CASE alias # t
    BY <1>5, <2>1, <2>3 DEF SearchInv, AliasLives
  <2> QED
    BY <2>2, <2>3
<1>10. Alone'
  <2> SUFFICES ASSUME overlapped' = "no", NEW k \in Job, job'[k].at # "idle"
               PROVE  Undisturbed(k)'
    BY DEF Alone
  <2>1. overlapped = "no" /\ alias' = alias /\ job[j].at # "idle"
    BY DEF WriteBatch
  <2>2. Undisturbed(j)
    BY <2>1 DEF SearchInv, Alone
  <2>3. k = j
    BY <1>6, <2>2 DEF Undisturbed
  <2>4. alias < t /\ alias \in {0} \cup Time
    BY <2>2 DEF SearchInv, TypeOK, Undisturbed
  <2>5. alias # 0 => index'[alias] = index[alias]
    BY <1>1, <1>5, <2>4
  <2>6. m = "keyword" => index[t].count = job[j].written
    BY <1>2, <2>2 DEF Undisturbed
  <2> QED
    BY <1>5, <1>6, <2>1, <2>2, <2>3, <2>4, <2>5, <2>6 DEF Undisturbed
<1> QED
  BY <1>7, <1>8, <1>9, <1>10 DEF SearchInv

LEMMA CheckPassesInv ==
  ASSUME SearchInv, NEW j \in Job, CheckPasses(j)
  PROVE  SearchInv'
PROOF
<1>1. job[j].name \in Time /\ job[j].previous \in Nat /\ job[j].written \in Nat /\ job[j].at # "idle"
  BY DEF SearchInv, TypeOK, CheckPasses, Filled, JobState
<1>2. /\ job' \in [Job -> JobState]
      /\ \A k \in Job : job'[k].at # "idle" => job'[k].name \in Time
      /\ job'[j] = [at |-> "sane", name |-> job[j].name, previous |-> job[j].previous, written |-> job[j].written]
      /\ \A k \in Job \ {j} : job'[k] = job[k]
  BY <1>1, JobFacts DEF SearchInv, CheckPasses
<1>3. TypeOK'
  BY <1>2 DEF SearchInv, TypeOK, CheckPasses
<1>4. NamesArePast' /\ CurrentIsSpared' /\ AliasLives'
  BY <1>2 DEF SearchInv, CheckPasses, NamesArePast, CurrentIsSpared, AliasLives
<1>5. Alone'
  <2> SUFFICES ASSUME overlapped' = "no", NEW k \in Job, job'[k].at # "idle"
               PROVE  Undisturbed(k)'
    BY DEF Alone
  <2>1. Undisturbed(j) /\ alias' = alias /\ index' = index
    BY <1>1 DEF SearchInv, Alone, CheckPasses
  <2>2. k = j
    BY <1>2, <2>1 DEF Undisturbed
  <2>3. j \notin Unchecked => IsSane(j)
    BY DEF CheckPasses
  <2> QED
    BY <1>2, <2>1, <2>2, <2>3 DEF Undisturbed, IsSane
<1> QED
  BY <1>3, <1>4, <1>5 DEF SearchInv

\* A job ends: its check failed, it moved the alias, or it died.
LEMMA JobEnds ==
  ASSUME SearchInv, NEW j \in Job, CheckFails(j) \/ SetAlias(j) \/ JobDies(j)
  PROVE  SearchInv'
PROOF
<1>1. /\ job' \in [Job -> JobState]
      /\ \A k \in Job : job'[k].at # "idle" => job'[k].name \in Time
      /\ job'[j] = Idle
      /\ \A k \in Job \ {j} : job'[k] = job[k]
  <2>1. job' = [job EXCEPT ![j] = Idle]
    BY DEF CheckFails, SetAlias, JobDies
  <2>2. Idle \in JobState /\ Idle.at = "idle"
    BY DEF Idle, JobState
  <2> QED
    BY <2>1, <2>2 DEF SearchInv, TypeOK
<1>2. /\ index' = index /\ now' = now /\ records' = records /\ purge' = purge
      /\ overlapped' = overlapped
      /\ alias' = alias \/ (alias' = job[j].name /\ job[j].at # "idle" /\ Exists(job[j].name))
  BY DEF CheckFails, SetAlias, JobDies
<1>2a. job[j].at # "idle"
  BY DEF CheckFails, SetAlias, JobDies, Filled
<1>3. TypeOK'
  BY <1>1, <1>2 DEF SearchInv, TypeOK
<1>4. NamesArePast' /\ CurrentIsSpared' /\ AliasLives'
  BY <1>1, <1>2 DEF SearchInv, TypeOK, NamesArePast, CurrentIsSpared, AliasLives, Exists, Idle
<1>5. Alone'
  <2> SUFFICES ASSUME overlapped' = "no", NEW k \in Job, job'[k].at # "idle"
               PROVE  FALSE
    BY DEF Alone
  <2>1. k # j /\ job[k].at # "idle"
    BY <1>1 DEF Idle
  <2>2. Undisturbed(k)
    BY <1>2, <2>1 DEF SearchInv, Alone
  <2> QED
    BY <1>2a, <2>1, <2>2 DEF Undisturbed
<1> QED
  BY <1>3, <1>4, <1>5 DEF SearchInv

---------------------------------------------------------------------------
(* remove_unused_indexes.                                                  *)

LEMMA PurgeStep ==
  ASSUME SearchInv, PurgeList \/ PurgeChoose \/ PurgeDelete
  PROVE  SearchInv'
PROOF
<1>1. CASE PurgeList
  <2>1. purge' \in PurgeState /\ CurrentIsSpared'
    BY <1>1 DEF PurgeList, PurgeState, Existing, CurrentIsSpared
  <2> QED
    BY <1>1, <2>1 DEF SearchInv, TypeOK, PurgeList, NamesArePast, AliasLives, Alone, Undisturbed
<1>2. CASE PurgeChoose
  <2>1. purge' \in PurgeState /\ CurrentIsSpared'
    <3>1. CASE purge' = NoPurge
      BY <3>1 DEF NoPurge, PurgeState, CurrentIsSpared
    <3>2. CASE purge' # NoPurge
      <4>1. PICK vs \in Victims(purge.seen, alias) :
              purge' = [at |-> "chosen", seen |-> {}, victims |-> vs, current |-> alias]
        BY <1>2, <3>2 DEF PurgeChoose
      <4>2. vs \subseteq purge.seen \ {alias} /\ purge.seen \subseteq Time /\ alias \in {0} \cup Time
        BY DEF SearchInv, TypeOK, PurgeState, Victims, Unused
      <4> QED
        BY <4>1, <4>2 DEF PurgeState, CurrentIsSpared
    <3> QED
      BY <3>1, <3>2
  <2> QED
    BY <1>2, <2>1 DEF SearchInv, TypeOK, PurgeChoose, NamesArePast, AliasLives, Alone, Undisturbed
<1>3. CASE PurgeDelete
  <2>1. purge' \in PurgeState /\ CurrentIsSpared'
    BY <1>3 DEF PurgeDelete, NoPurge, PurgeState, CurrentIsSpared
  <2>2. \A t \in Time : index'[t] = index[t] \/ index'[t] = Missing
    BY <1>3 DEF SearchInv, TypeOK, PurgeDelete, esVars
  <2>3. index' \in [Time -> Index]
    BY <1>3, NewIsIndex DEF SearchInv, TypeOK, PurgeDelete, esVars
  <2>4. /\ alias' = alias \/ alias' = 0
        /\ alias' # 0 => alias' = alias /\ index'[alias] = index[alias]
    BY <1>3 DEF SearchInv, TypeOK, PurgeDelete, esVars
  <2>5. job' = job /\ now' = now /\ records' = records /\ overlapped' = overlapped
    BY <1>3 DEF PurgeDelete
  <2>6. TypeOK'
    BY <2>1, <2>3, <2>4, <2>5 DEF SearchInv, TypeOK
  <2>7. NamesArePast' /\ AliasLives'
    BY <2>4, <2>5 DEF SearchInv, TypeOK, NamesArePast, AliasLives
  <2>8. Alone'
    <3> SUFFICES ASSUME overlapped = "no", NEW k \in Job, job[k].at # "idle"
                 PROVE  Undisturbed(k)'
      BY <2>5 DEF Alone
    <3>1. Undisturbed(k) /\ job[k].name \in Time
      BY DEF SearchInv, TypeOK, Alone
    <3>2. index'[job[k].name] = index[job[k].name] \/ index'[job[k].name] = Missing
      BY <2>2, <3>1
    <3>3. alias' < job[k].name
      BY <2>4, <3>1 DEF Undisturbed
    <3> QED
      BY <2>4, <2>5, <3>1, <3>2, <3>3 DEF Undisturbed, Missing
  <2> QED
    BY <2>1, <2>6, <2>7, <2>8 DEF SearchInv
<1> QED
  BY <1>1, <1>2, <1>3

---------------------------------------------------------------------------
LEMMA InvStep == SearchInv /\ [Next]_vars => SearchInv'
PROOF
<1> SUFFICES ASSUME SearchInv, [Next]_vars PROVE SearchInv'
  OBVIOUS
<1>1. CASE UNCHANGED vars
  BY <1>1 DEF vars, SearchInv, TypeOK, AliasLives, NamesArePast, CurrentIsSpared, Alone, Undisturbed
<1>2. CASE Tick \/ \E n \in 0..MaxRecords : RecordsChange(n)
  BY <1>2, EnvironmentStep
<1>3. CASE CreateEmpty \/ PopulateServed \/ DeleteServed
  BY <1>3, OperatorStep
<1>4. ASSUME NEW j \in Job, JobStep(j) PROVE SearchInv'
  BY <1>4, PrepareInv, WriteBatchInv, CheckPassesInv, JobEnds DEF JobStep
<1>5. CASE PurgeList \/ PurgeChoose \/ PurgeDelete
  BY <1>5, PurgeStep
<1> QED
  BY <1>1, <1>2, <1>3, <1>4, <1>5 DEF Next

LEMMA InvAlways == Spec => []SearchInv
BY InitInv, InvStep, PTL DEF Spec

\* Every variable of the rotation keeps its type.
THEOREM SearchTypeCorrect == Spec => []TypeOK
PROOF
<1>1. SearchInv => TypeOK
  BY DEF SearchInv
<1> QED
  BY <1>1, InvAlways, PTL

\* For any number of jobs and rows: a checked job that runs alone serves only an
\* index that holds all it has written.
THEOREM ServesWhatItWroteThm == Spec => ServesWhatItWrote
PROOF
<1>1. SearchInv /\ [Next]_vars =>
        [\A j \in Job \ Unchecked :
           SetAlias(j) /\ overlapped = "no" =>
             index[alias'] = [mapping |-> "keyword", count |-> job[j].written]]_vars
  <2> SUFFICES ASSUME SearchInv, NEW j \in Job \ Unchecked, SetAlias(j), overlapped = "no"
               PROVE  index[alias'] = [mapping |-> "keyword", count |-> job[j].written]
    OBVIOUS
  <2>1. Undisturbed(j) /\ job[j].at = "sane" /\ alias' = job[j].name
    BY DEF SearchInv, Alone, SetAlias
  <2>2. index[alias'].mapping = "keyword" /\ index[alias'].count = job[j].written
    BY <2>1 DEF Undisturbed, SetAlias, Exists
  <2>3. index[alias'] \in Index
    BY <2>1 DEF SearchInv, TypeOK
  <2> QED
    BY <2>2, <2>3 DEF Index
<1> QED
  BY <1>1, InvAlways, PTL DEF Spec, ServesWhatItWrote

\* ... which differs from what is served at that moment by less than the threshold.
THEOREM ChangesLittleThm == Spec => ChangesLittle
PROOF
<1>1. SearchInv /\ [Next]_vars =>
        [\A j \in Job \ Unchecked :
           SetAlias(j) /\ overlapped = "no" /\ alias # NoIndex =>
             Sane(index[alias'].count, index[alias].count)]_vars
  <2> SUFFICES ASSUME SearchInv, NEW j \in Job \ Unchecked, SetAlias(j), overlapped = "no",
                      alias # NoIndex
               PROVE  Sane(index[alias'].count, index[alias].count)
    OBVIOUS
  <2>1. Undisturbed(j) /\ job[j].at = "sane" /\ alias' = job[j].name
    BY DEF SearchInv, Alone, SetAlias
  <2> QED
    BY <2>1 DEF Undisturbed, SetAlias, Exists
<1> QED
  BY <1>1, InvAlways, PTL DEF Spec, ChangesLittle

\* The alias moves to younger indexes only, as long as jobs do not overlap.
THEOREM NeverGoesBackThm == Spec => NeverGoesBack
PROOF
<1>1. SearchInv /\ [Next]_vars =>
        [\A j \in Job : SetAlias(j) /\ overlapped = "no" => alias' > alias]_vars
  <2> SUFFICES ASSUME SearchInv, NEW j \in Job, SetAlias(j), overlapped = "no"
               PROVE  alias' > alias
    OBVIOUS
  <2>1. Undisturbed(j) /\ alias' = job[j].name /\ job[j].name \in Time /\ alias \in {0} \cup Time
    BY DEF SearchInv, TypeOK, Alone, SetAlias
  <2> QED
    BY <2>1 DEF Undisturbed
<1> QED
  BY <1>1, InvAlways, PTL DEF Spec, NeverGoesBack

\* A purge takes the search down only if the alias has moved since it looked.
THEOREM PurgeSparesCurrentThm == Spec => PurgeSparesCurrent
PROOF
<1>1. SearchInv /\ [Next]_vars =>
        [PurgeDelete /\ alias' # alias => alias # purge.current]_vars
  BY DEF SearchInv, CurrentIsSpared, PurgeDelete, esVars
<1> QED
  BY <1>1, InvAlways, PTL DEF Spec, PurgeSparesCurrent

---------------------------------------------------------------------------
(* Without an alias.                                                        *)

\* Searches fail, and no execution of update_index is at work.
Outage == alias = NoIndex /\ \A j \in Job : job[j].at = "idle"

\* No scheduled command repairs an outage: update_index counts the records through
\* the alias before it does anything else, so what a purge has begun is ended only
\* by the operator's search_index --create or install_es_indexes.
THEOREM OperatorEndsOutage == Spec => [][Outage /\ ~CreateEmpty => Outage']_vars
PROOF
<1>1. SearchInv /\ [Next]_vars => [Outage /\ ~CreateEmpty => Outage']_vars
  <2> SUFFICES ASSUME SearchInv, Next, Outage, ~CreateEmpty PROVE Outage'
    OBVIOUS
  <2>1. ASSUME NEW n \in 0..MaxRecords, RecordsChange(n) PROVE Outage'
    BY <2>1 DEF RecordsChange, Outage
  <2>2. CASE Tick BY <2>2 DEF Tick, Outage
  <2>3. CASE PopulateServed \/ DeleteServed BY <2>3 DEF PopulateServed, DeleteServed, Outage
  <2>4. ASSUME NEW j \in Job, JobStep(j) PROVE Outage'
    BY <2>4 DEF JobStep, Prepare, WriteBatch, CheckPasses, CheckFails, Filled, SetAlias, JobDies, Outage
  <2>5. CASE PurgeList \/ PurgeChoose BY <2>5 DEF PurgeList, PurgeChoose, Outage
  <2>6. CASE PurgeDelete BY <2>6 DEF PurgeDelete, esVars, Outage, NoIndex
  <2> QED BY <2>1, <2>2, <2>3, <2>4, <2>5, <2>6 DEF Next
<1> QED
  BY <1>1, InvAlways, PTL DEF Spec
===========================================================================
