-------------------------- MODULE ApiCache_proofs --------------------------
(***************************************************************************)
(* Proofs about ApiCache.  A time taken but not yet set is used by nobody  *)
(* (TimesAreFresh), so that setting it as the timestamp invalidates        *)
(* everything older; CacheInv adds the bounds on what has been read.       *)
(***************************************************************************)
EXTENDS ApiCache, TLAPS

\* Nothing is cached, kept or asked for under time t.
Unused(t) ==
  /\ stamp # t
  /\ cached[t] = None
  /\ \A r \in Reader : reader[r].at # "timed" => reader[r].key # t

\* Every process has its own time, and no later time has been seen yet.
TimesAreFresh ==
  /\ \A w \in Writer : writer[w].at = "timed" =>
       writer[w].time <= clock /\ Unused(writer[w].time)
  /\ \A r \in Reader : reader[r].at = "timed" =>
       reader[r].key <= clock /\ Unused(reader[r].key)
  /\ \A v, w \in Writer :
       writer[v].at = "timed" /\ writer[w].at = "timed" /\ v # w =>
         writer[v].time # writer[w].time
  /\ \A q, r \in Reader :
       reader[q].at = "timed" /\ reader[r].at = "timed" /\ q # r =>
         reader[q].key # reader[r].key
  /\ \A w \in Writer, r \in Reader :
       writer[w].at = "timed" /\ reader[r].at = "timed" =>
         writer[w].time # reader[r].key
  /\ \A t \in Stamp : t > clock => Unused(t)

\* What has been read lies between the last invalidation and the database.
ReadsAreFresh ==
  /\ \A k \in Stamp : invalidated[k] <= db /\ cached[k] <= db
  /\ \A k \in Stamp : cached[k] # None => cached[k] >= invalidated[k]
  /\ \A r \in Reader : reader[r].at \in {"queried", "answered"} =>
       /\ reader[r].key \in Stamp
       /\ reader[r].seen \in invalidated[reader[r].key]..db

CacheInv == TypeOK /\ TimesAreFresh /\ ReadsAreFresh

LEMMA InitCacheInv == Init => CacheInv
  BY ApiCacheAssumption
  DEF Init, CacheInv, TypeOK, TimesAreFresh, ReadsAreFresh, Unused, WriterState, ReaderState,
      Answered, InFlight, Stamp, None

LEMMA StepTypeOK == ASSUME TypeOK, [Next]_vars PROVE TypeOK'
<1> USE ApiCacheAssumption
      DEF TypeOK, WriterState, ReaderState, Answered, InFlight, Stamp, None, WriterIs, ReaderIs, Goes
<1>1. ASSUME NEW w \in Writer, NEW from \in SUBSET {"idle", "open", "committed", "loading"}, ReadsTime(w, from)
      PROVE  TypeOK'
  BY <1>1 DEF ReadsTime
<1>2. ASSUME NEW w \in Writer, SetsStamp(w) PROVE TypeOK'
  <2>1. writer' \in [Writer -> WriterState] /\ writer'[w].at # "timed"
    BY <1>2 DEF SetsStamp
  <2>2. /\ stamp' \in Stamp /\ invalidated' \in [Stamp -> Nat]
        /\ unannounced' \in {"no", "yes"}
    BY <1>2 DEF SetsStamp, SetStamp
  <2> QED BY <1>2, <2>1, <2>2 DEF SetsStamp
<1>3. ASSUME NEW w \in Writer, Commit(w) PROVE TypeOK'
  BY <1>3 DEF Commit, NewVersion
<1>4. ASSUME NEW w \in Writer, Rollback(w) PROVE TypeOK'
  BY <1>4 DEF Rollback
<1>5. ASSUME NEW w \in Writer, SaveRow(w) PROVE TypeOK'
  BY <1>5 DEF SaveRow, NewVersion
<1>6. ASSUME NEW w \in Writer, LoadRow(w) PROVE TypeOK'
  BY <1>6 DEF LoadRow, NewVersion
<1>7. ASSUME NEW w \in Writer, LoaderDies(w) PROVE TypeOK'
  BY <1>7 DEF LoaderDies
<1>8. ASSUME WriterStep PROVE TypeOK'
  BY <1>1, <1>2, <1>3, <1>4, <1>5, <1>6, <1>7, <1>8 DEF WriterStep, Save, RowSaved, FinishLoad
<1>9. ASSUME NEW r \in Reader, ReadStamp(r) PROVE TypeOK'
  BY <1>9 DEF ReadStamp
<1>10. ASSUME NEW r \in Reader, MissStamp(r) PROVE TypeOK'
  BY <1>10 DEF MissStamp
<1>11. ASSUME NEW r \in Reader, AddStamp(r) PROVE TypeOK'
  <2>1. stamp' \in Stamp
    BY <1>11 DEF AddStamp, SetStamp
  <2>2. invalidated' \in [Stamp -> Nat] /\ unannounced' \in {"no", "yes"}
    <3>1. CASE stamp = 0
      <4>1. reader[r].key \in Stamp
        BY <1>11 DEF AddStamp
      <4>2. /\ invalidated' = [invalidated EXCEPT ![reader[r].key] = db]
            /\ unannounced' = "no"
        BY <1>11, <3>1 DEF AddStamp, SetStamp
      <4> QED BY <4>1, <4>2
    <3>2. CASE stamp # 0
      BY <1>11, <3>2 DEF AddStamp
    <3> QED BY <3>1, <3>2
  <2> QED BY <1>11, <2>1, <2>2 DEF AddStamp
<1>12. ASSUME NEW r \in Reader, Hit(r) PROVE TypeOK'
  BY <1>12 DEF Hit
<1>13. ASSUME NEW r \in Reader, Miss(r) PROVE TypeOK'
  BY <1>13 DEF Miss
<1>14. ASSUME NEW r \in Reader, Query(r) PROVE TypeOK'
  BY <1>14 DEF Query
<1>15. ASSUME NEW r \in Reader, Store(r) PROVE TypeOK'
  <2>1. cached' \in [Stamp -> Nat]
    BY <1>15 DEF Store
  <2> QED BY <1>15, <2>1 DEF Store
<1>16. ASSUME ReaderStep PROVE TypeOK'
  BY <1>9, <1>10, <1>11, <1>12, <1>13, <1>14, <1>15, <1>16 DEF ReaderStep
<1>17. ASSUME EvictStamp PROVE TypeOK'
  BY <1>17 DEF EvictStamp
<1>18. ASSUME NEW k \in Stamp, EvictResponse(k) PROVE TypeOK'
  BY <1>18 DEF EvictResponse
<1>19. ASSUME UNCHANGED vars PROVE TypeOK'
  BY <1>19 DEF vars
<1> QED BY <1>8, <1>16, <1>17, <1>18, <1>19 DEF Next

\* A process that takes the time gets one that nobody uses.
LEMMA WriterTakesTime ==
  ASSUME CacheInv, TypeOK', NEW w \in Writer, NEW from, ReadsTime(w, from)
  PROVE  TimesAreFresh'
<1> DEFINE now == clock + 1
<1>1. clock' = now /\ now \in Stamp /\ Unused(now)
  BY ApiCacheAssumption DEF ReadsTime, CacheInv, TypeOK, TimesAreFresh, Stamp, None
<1>2. \A t : Unused(t)' <=> Unused(t)
  BY DEF ReadsTime, Unused
<1>3. reader' = reader /\ \A v \in Writer \ {w} : writer'[v] = writer[v]
  BY DEF ReadsTime, WriterIs, CacheInv, TypeOK
<1>4. writer'[w].at = "timed" /\ writer'[w].time = now
  BY <1>1 DEF ReadsTime, WriterIs, CacheInv, TypeOK
<1>5. /\ clock \in Nat
      /\ \A v \in Writer : writer[v].at = "timed" => writer[v].time \in Nat /\ writer[v].time <= clock
      /\ \A r \in Reader : reader[r].at = "timed" => reader[r].key \in Nat /\ reader[r].key <= clock
  BY DEF CacheInv, TypeOK, TimesAreFresh, InFlight, Stamp, None
<1>6. TimesAreFresh
  BY DEF CacheInv
<1> QED
  <2>1. \A v \in Writer : writer'[v].at = "timed" =>
          writer'[v].time <= clock' /\ Unused(writer[v].time)'
    BY <1>1, <1>2, <1>3, <1>4, <1>5, <1>6 DEF TimesAreFresh
  <2>2. \A r \in Reader : reader'[r].at = "timed" =>
          reader'[r].key <= clock' /\ Unused(reader[r].key)'
    BY <1>1, <1>2, <1>3, <1>5, <1>6 DEF TimesAreFresh
  <2>3. \A u, v \in Writer :
          writer'[u].at = "timed" /\ writer'[v].at = "timed" /\ u # v =>
            writer'[u].time # writer'[v].time
    BY <1>3, <1>4, <1>5, <1>6 DEF TimesAreFresh
  <2>4. \A v \in Writer, r \in Reader :
          writer'[v].at = "timed" /\ reader'[r].at = "timed" =>
            writer'[v].time # reader'[r].key
    BY <1>3, <1>4, <1>5, <1>6 DEF TimesAreFresh
  <2>5. \A t \in Stamp : t > clock' => Unused(t)'
    BY <1>1, <1>2, <1>5, <1>6 DEF TimesAreFresh, Stamp
  <2> QED BY <1>3, <1>6, <2>1, <2>2, <2>3, <2>4, <2>5 DEF TimesAreFresh

LEMMA ReaderTakesTime ==
  ASSUME CacheInv, TypeOK', NEW r \in Reader, MissStamp(r)
  PROVE  TimesAreFresh'
<1> USE DEF CacheInv, TypeOK, ReaderState, WriterState, Answered, InFlight, Stamp, None, MissStamp, ReaderIs
<1>1. clock' = clock + 1 /\ clock' \in Stamp /\ Unused(clock')
  BY ApiCacheAssumption DEF TimesAreFresh
<1>2. \A q \in Reader \ {r} : reader'[q] = reader[q]
  OBVIOUS
<1>3. reader'[r].at = "timed" /\ reader'[r].key = clock'
  BY <1>1
<1>4. \A t \in Stamp : Unused(t) => Unused(t)'
  BY <1>2, <1>3 DEF Unused
<1> QED BY <1>1, <1>2, <1>3, <1>4 DEF TimesAreFresh

\* A step that takes no time, and gives no time taken to anybody.
LEMMA NoTimeTaken ==
  ASSUME CacheInv, TypeOK', clock' = clock,
         \A w \in Writer : writer'[w].at = "timed" => writer'[w] = writer[w],
         \A r \in Reader : reader'[r].at = "timed" => reader'[r] = reader[r],
         \A t \in Stamp :
           /\ Unused(t)
           /\ \/ t > clock
              \/ \E w \in Writer : writer'[w].at = "timed" /\ writer'[w].time = t
              \/ \E r \in Reader : reader'[r].at = "timed" /\ reader'[r].key = t
           => Unused(t)'
  PROVE  TimesAreFresh'
<1>1. \A w \in Writer : writer'[w].at = "timed" => writer'[w].time \in Stamp
  BY DEF TypeOK
<1>2. \A r \in Reader : reader'[r].at = "timed" => reader'[r].key \in Stamp
  BY DEF TypeOK, InFlight
<1> QED BY <1>1, <1>2 DEF CacheInv, TimesAreFresh

LEMMA StepTimesAreFresh == ASSUME CacheInv, [Next]_vars, TypeOK' PROVE TimesAreFresh'
<1> USE DEF CacheInv, TypeOK, WriterState, ReaderState, Answered, InFlight, None, WriterIs, ReaderIs, Goes
<1>1. ASSUME NEW w \in Writer, SetsStamp(w) PROVE TimesAreFresh'
  <2>1. clock' = clock /\ cached' = cached /\ reader' = reader /\ stamp' = writer[w].time
    BY <1>1 DEF SetsStamp, SetStamp
  <2>2. writer'[w].at # "timed" /\ \A v \in Writer \ {w} : writer'[v] = writer[v]
    BY <1>1 DEF SetsStamp
  <2>3. writer[w].at = "timed" /\ writer[w].time \in Stamp /\ writer[w].time <= clock
    BY <1>1 DEF SetsStamp, TimesAreFresh
  <2>4. \A t \in Stamp : Unused(t) /\ t # writer[w].time => Unused(t)'
    BY <2>1 DEF Unused
  <2> QED BY <2>1, <2>2, <2>3, <2>4, NoTimeTaken DEF TimesAreFresh, Stamp
<1>2. ASSUME NEW w \in Writer, Commit(w) \/ Rollback(w) \/ SaveRow(w) \/ LoadRow(w) \/ LoaderDies(w)
      PROVE  TimesAreFresh'
  <2>1. clock' = clock /\ cached' = cached /\ reader' = reader /\ stamp' = stamp
    BY <1>2 DEF Commit, Rollback, SaveRow, LoadRow, LoaderDies
  <2>2. writer'[w].at # "timed" /\ \A v \in Writer \ {w} : writer'[v] = writer[v]
    BY <1>2 DEF Commit, Rollback, SaveRow, LoadRow, LoaderDies
  <2>3. \A t \in Stamp : Unused(t) => Unused(t)'
    BY <2>1 DEF Unused
  <2> QED BY <2>1, <2>2, <2>3, NoTimeTaken
<1>3. ASSUME WriterStep PROVE TimesAreFresh'
  BY <1>1, <1>2, <1>3, WriterTakesTime DEF WriterStep, Save, RowSaved, FinishLoad
<1>4. ASSUME NEW r \in Reader, AddStamp(r) PROVE TimesAreFresh'
  <2>1. clock' = clock /\ cached' = cached /\ writer' = writer
    BY <1>4 DEF AddStamp
  <2>2. reader'[r].at = "keyed" /\ reader'[r].key = stamp'
        /\ \A q \in Reader \ {r} : reader'[q] = reader[q]
    BY <1>4 DEF AddStamp
  <2>3. stamp' \in {stamp, reader[r].key}
    BY <1>4 DEF AddStamp, SetStamp
  <2>4. reader[r].at = "timed" /\ reader[r].key \in Stamp /\ reader[r].key <= clock
    BY <1>4 DEF AddStamp, TimesAreFresh
  <2>5. \A t \in Stamp : Unused(t) /\ t # reader[r].key => Unused(t)'
    BY <2>1, <2>2, <2>3 DEF Unused
  <2>6. \A w \in Writer : writer[w].at = "timed" => writer[w].time # reader[r].key
    BY <2>4 DEF TimesAreFresh
  <2>7. \A q \in Reader \ {r} : reader[q].at = "timed" => reader[q].key # reader[r].key
    BY <2>4 DEF TimesAreFresh
  <2>8. \A t \in Stamp : t > clock => t # reader[r].key
    BY <2>4 DEF Stamp
  <2> QED BY <2>1, <2>2, <2>5, <2>6, <2>7, <2>8, NoTimeTaken
<1>5. ASSUME NEW r \in Reader, ReadStamp(r) \/ Hit(r) \/ Miss(r) \/ Query(r) \/ Store(r)
      PROVE  TimesAreFresh'
  <2>1. clock' = clock /\ writer' = writer /\ stamp' = stamp
    BY <1>5 DEF ReadStamp, Hit, Miss, Query, Store
  <2>2. reader'[r].at # "timed" /\ \A q \in Reader \ {r} : reader'[q] = reader[q]
    BY <1>5 DEF ReadStamp, Hit, Miss, Query, Store
  <2>3. reader'[r].key = stamp \/ (reader[r].at # "timed" /\ reader'[r].key = reader[r].key)
    BY <1>5 DEF ReadStamp, Hit, Miss, Query, Store
  <2>4. \A t \in Stamp : cached'[t] = cached[t] \/ (reader[r].at # "timed" /\ t = reader[r].key)
    BY <1>5 DEF ReadStamp, Hit, Miss, Query, Store
  <2>5. \A t \in Stamp : Unused(t) => Unused(t)'
    BY <2>1, <2>2, <2>3, <2>4 DEF Unused
  <2> QED BY <2>1, <2>2, <2>5, NoTimeTaken
<1>6. ASSUME ReaderStep PROVE TimesAreFresh'
  BY <1>4, <1>5, <1>6, ReaderTakesTime DEF ReaderStep
<1>7. ASSUME EvictStamp \/ (\E k \in Stamp : EvictResponse(k)) \/ UNCHANGED vars PROVE TimesAreFresh'
  <2>1. clock' = clock /\ writer' = writer /\ reader' = reader /\ stamp' \in {stamp, None}
    BY <1>7 DEF EvictStamp, EvictResponse, vars
  <2>2. \A t \in Stamp : cached'[t] \in {cached[t], None}
    BY <1>7 DEF EvictStamp, EvictResponse, vars
  <2>3. \A t \in Stamp : Unused(t) => Unused(t)'
    BY <2>1, <2>2 DEF Unused, Stamp
  <2> QED BY <2>1, <2>3, NoTimeTaken
<1> QED BY <1>3, <1>6, <1>7 DEF Next

\* Setting a timestamp nobody has used leaves nothing older under it.
LEMMA SetStampReads ==
  ASSUME CacheInv, TypeOK', NEW t \in Stamp, Unused(t), SetStamp(t),
         db' = db, cached' = cached,
         \A r \in Reader : \/ reader'[r] = reader[r]
                          \/ reader'[r].at = "keyed"
  PROVE  ReadsAreFresh'
<1>1. /\ invalidated'[t] = db
      /\ \A k \in Stamp \ {t} : invalidated'[k] = invalidated[k]
      /\ db \in Nat /\ cached[t] = None
  BY DEF SetStamp, CacheInv, TypeOK, Unused
<1>2. \A k \in Stamp : invalidated'[k] <= db' /\ cached'[k] <= db'
  BY <1>1 DEF CacheInv, ReadsAreFresh
<1>3. \A k \in Stamp : cached'[k] # None => cached'[k] >= invalidated'[k]
  BY <1>1 DEF CacheInv, ReadsAreFresh
<1>4. ASSUME NEW r \in Reader, reader'[r].at \in {"queried", "answered"}
      PROVE  /\ reader'[r].key \in Stamp
             /\ reader'[r].seen \in invalidated'[reader'[r].key]..db'
  <2>1. reader'[r] = reader[r] /\ reader[r].key # t
    BY <1>4 DEF Unused
  <2> QED BY <1>1, <1>4, <2>1 DEF CacheInv, ReadsAreFresh
<1> QED BY <1>2, <1>3, <1>4 DEF ReadsAreFresh

LEMMA StepReadsAreFresh == ASSUME CacheInv, [Next]_vars, TypeOK' PROVE ReadsAreFresh'
<1> USE DEF CacheInv
<1>1. ASSUME NEW w \in Writer, SetsStamp(w) PROVE ReadsAreFresh'
  <2>1. writer[w].time \in Stamp /\ Unused(writer[w].time)
    BY <1>1 DEF SetsStamp, Goes, TypeOK, TimesAreFresh
  <2> QED BY <1>1, <2>1, SetStampReads DEF SetsStamp
<1>2. ASSUME invalidated' = invalidated, cached' = cached, reader' = reader, db' \in {db, db + 1}
      PROVE  ReadsAreFresh'
  <2>1. db \in Nat /\ \A k \in Stamp : cached[k] \in Nat /\ invalidated[k] \in Nat
    BY DEF TypeOK
  <2>2. \A r \in Reader : reader[r].seen \in Nat
    BY DEF TypeOK, ReaderState
  <2> QED BY <1>2, <2>1, <2>2 DEF ReadsAreFresh
<1>3. ASSUME WriterStep PROVE ReadsAreFresh'
  BY <1>1, <1>2, <1>3
  DEF WriterStep, Save, RowSaved, FinishLoad, ReadsTime, Commit, Rollback, SaveRow, LoadRow,
      LoaderDies, NewVersion
<1>4. ASSUME NEW r \in Reader, AddStamp(r) PROVE ReadsAreFresh'
  <2>1. \A q \in Reader : reader'[q] = reader[q] \/ reader'[q].at = "keyed"
    BY <1>4 DEF AddStamp, ReaderIs, TypeOK
  <2>2. CASE stamp = None
    <3>1. reader[r].key \in Stamp /\ Unused(reader[r].key)
      BY <1>4 DEF AddStamp, TypeOK, InFlight, TimesAreFresh
    <3> QED BY <1>4, <2>1, <2>2, <3>1, SetStampReads DEF AddStamp
  <2>3. CASE stamp # None
    BY <1>4, <2>1, <2>3 DEF AddStamp, ReadsAreFresh
  <2> QED BY <2>2, <2>3
<1>5. ASSUME NEW r \in Reader, invalidated' = invalidated, db' = db,
             \A q \in Reader \ {r} : reader'[q] = reader[q],
             cached' = cached,
             reader'[r].at \in {"queried", "answered"} =>
               /\ reader'[r].key \in Stamp
               /\ reader'[r].seen \in invalidated[reader'[r].key]..db
      PROVE  ReadsAreFresh'
  BY <1>5 DEF ReadsAreFresh
<1>6. ASSUME NEW r \in Reader, ReadStamp(r) \/ MissStamp(r) \/ Miss(r) PROVE ReadsAreFresh'
  <2>1. reader'[r].at \in {"keyed", "timed", "missed"} /\ \A q \in Reader \ {r} : reader'[q] = reader[q]
    BY <1>6 DEF ReadStamp, MissStamp, Miss, ReaderIs, TypeOK
  <2> QED BY <1>5, <1>6, <2>1 DEF ReadStamp, MissStamp, Miss
<1>7. ASSUME NEW r \in Reader, Hit(r) PROVE ReadsAreFresh'
  <2>1. /\ reader[r].key \in Stamp
        /\ reader'[r].key = reader[r].key /\ reader'[r].seen = cached[reader[r].key]
        /\ \A q \in Reader \ {r} : reader'[q] = reader[q]
    BY <1>7 DEF Hit, ReaderIs, TypeOK, InFlight
  <2>2. cached[reader[r].key] \in invalidated[reader[r].key]..db
    BY <1>7, <2>1 DEF Hit, ReadsAreFresh, TypeOK
  <2> QED BY <1>5, <1>7, <2>1, <2>2 DEF Hit
<1>8. ASSUME NEW r \in Reader, Query(r) PROVE ReadsAreFresh'
  <2>1. /\ reader[r].key \in Stamp
        /\ reader'[r].key = reader[r].key /\ reader'[r].seen = db
        /\ \A q \in Reader \ {r} : reader'[q] = reader[q]
    BY <1>8 DEF Query, ReaderIs, TypeOK, InFlight
  <2>2. db \in invalidated[reader[r].key]..db
    BY <2>1 DEF ReadsAreFresh, TypeOK
  <2> QED BY <1>5, <1>8, <2>1, <2>2 DEF Query
<1>9. ASSUME NEW r \in Reader, Store(r) PROVE ReadsAreFresh'
  <2>1. /\ reader[r].key \in Stamp
        /\ reader'[r].key = reader[r].key /\ reader'[r].seen = reader[r].seen
        /\ \A q \in Reader \ {r} : reader'[q] = reader[q]
    BY <1>9 DEF Store, ReaderIs, TypeOK, InFlight
  <2>2. reader[r].seen \in invalidated[reader[r].key]..db
    BY <1>9 DEF Store, ReadsAreFresh
  <2>3. \A k \in Stamp : cached'[k] = IF k = reader[r].key THEN reader[r].seen ELSE cached[k]
    BY <1>9 DEF Store, TypeOK
  <2>4. db' = db /\ invalidated' = invalidated
    BY <1>9 DEF Store
  <2>5. \A k \in Stamp : cached'[k] <= db /\ (cached'[k] # None => cached'[k] >= invalidated[k])
    BY <2>1, <2>2, <2>3 DEF ReadsAreFresh
  <2>6. ASSUME NEW q \in Reader, reader'[q].at \in {"queried", "answered"}
        PROVE  reader'[q].key \in Stamp /\ reader'[q].seen \in invalidated[reader'[q].key]..db
    <3>1. CASE q = r
      BY <2>1, <2>2, <3>1
    <3>2. CASE q # r
      BY <2>1, <2>6, <3>2 DEF ReadsAreFresh
    <3> QED BY <3>1, <3>2
  <2> QED BY <2>4, <2>5, <2>6 DEF ReadsAreFresh
<1>10. ASSUME ReaderStep PROVE ReadsAreFresh'
  BY <1>4, <1>6, <1>7, <1>8, <1>9, <1>10 DEF ReaderStep
<1>11. ASSUME EvictStamp PROVE ReadsAreFresh'
  BY <1>11, <1>2 DEF EvictStamp
<1>12. ASSUME NEW k \in Stamp, EvictResponse(k) PROVE ReadsAreFresh'
  <2>1. \A j \in Stamp : cached'[j] = IF j = k THEN None ELSE cached[j]
    BY <1>12 DEF EvictResponse, TypeOK
  <2>2. None <= db
    BY DEF TypeOK, None
  <2> QED BY <1>12, <2>1, <2>2 DEF EvictResponse, ReadsAreFresh
<1>13. ASSUME UNCHANGED vars PROVE ReadsAreFresh'
  BY <1>13, <1>2 DEF vars
<1> QED BY <1>3, <1>10, <1>11, <1>12, <1>13 DEF Next

LEMMA CacheInvHolds == Spec => []CacheInv
<1>1. CacheInv /\ [Next]_vars => CacheInv'
  BY StepTypeOK, StepTimesAreFresh, StepReadsAreFresh DEF CacheInv
<1> QED BY InitCacheInv, <1>1, PTL DEF Spec

---------------------------------------------------------------------------
\* Every variable keeps its type; a request past its first cache lookup has a
\* timestamp in its key (ApiTimestampKeyBit.get_data never returns None).
THEOREM CacheTypeCorrect == Spec => []TypeOK
BY CacheInvHolds, PTL DEF CacheInv

\* For any number of requests and writers of each kind: no cached or sent
\* response is older than what was committed when its timestamp was set
\* (set_api_timestamp, CompressedCacheResponse.process_cache_response).
THEOREM NothingBeforeInvalidationThm == Spec => []NothingBeforeInvalidation
<1>1. CacheInv => NothingBeforeInvalidation
  BY DEF CacheInv, TypeOK, ReadsAreFresh, NothingBeforeInvalidation, ReaderState
<1> QED BY CacheInvHolds, <1>1, PTL

---------------------------------------------------------------------------
\* Somebody who has saved still has to set the timestamp, or it is current,
\* unless a transaction or a loader has committed since it was set.
StampFollows ==
  stamp # None /\ unannounced = "no" =>
    \/ invalidated[stamp] = db
    \/ \E w \in Autocommit : writer[w].at \in {"committed", "timed"}

LEMMA StepStampFollows ==
  ASSUME CacheInv, CacheInv', StampFollows, [Next]_vars
  PROVE  StampFollows'
<1> USE DEF CacheInv, TypeOK, WriterIs, Goes
<1>1. ASSUME NEW w \in Autocommit, writer'[w].at \in {"committed", "timed"} PROVE StampFollows'
  BY <1>1 DEF StampFollows
<1>2. ASSUME NEW w \in Writer, SetsStamp(w) PROVE StampFollows'
  <2>1. writer[w].time \in Stamp
    BY <1>2 DEF SetsStamp
  <2> QED BY <1>2, <2>1 DEF SetsStamp, SetStamp, StampFollows
<1>3. ASSUME WriterStep PROVE StampFollows'
  <2>1. PICK w \in Writer : \/ Save(w) \/ FinishLoad(w)
                           \/ Commit(w) \/ LoadRow(w)
                           \/ SaveRow(w) \/ RowSaved(w)
                           \/ Rollback(w) \/ LoaderDies(w)
                           \/ SetsStamp(w)
    BY <1>3 DEF WriterStep
  <2>2. CASE SaveRow(w) \/ RowSaved(w)
    BY <1>1, <2>2 DEF SaveRow, RowSaved, ReadsTime
  <2>3. CASE Commit(w) \/ LoadRow(w)
    BY <2>3 DEF Commit, LoadRow, StampFollows
  \* Nobody else leaves the writers that still have to set the timestamp.
  <2>4. CASE Save(w) \/ FinishLoad(w) \/ Rollback(w) \/ LoaderDies(w)
    <3>1. UNCHANGED <<db, stamp, invalidated, unannounced>>
      BY <2>4 DEF Save, FinishLoad, ReadsTime, Rollback, LoaderDies
    <3>2. \A v \in Writer \ {w} : writer'[v] = writer[v]
      BY <2>4 DEF Save, FinishLoad, ReadsTime, Rollback, LoaderDies
    <3>3. writer[w].at \in {"committed", "timed"} => writer'[w].at = "timed"
      BY <2>4 DEF Save, FinishLoad, ReadsTime, Rollback, LoaderDies
    <3> QED BY <3>1, <3>2, <3>3 DEF StampFollows, Writer
  <2> QED BY <1>2, <2>1, <2>2, <2>3, <2>4
<1>4. ASSUME NEW r \in Reader, AddStamp(r) PROVE StampFollows'
  <2>1. reader[r].key \in Stamp
    BY <1>4 DEF AddStamp, InFlight
  <2>2. CASE stamp = None
    BY <1>4, <2>1, <2>2 DEF AddStamp, SetStamp, StampFollows
  <2>3. CASE stamp # None
    BY <1>4, <2>3 DEF AddStamp, StampFollows
  <2> QED BY <2>2, <2>3
<1>5. ASSUME UNCHANGED <<db, writer, invalidated, unannounced>>, stamp' \in {stamp, None} PROVE StampFollows'
  BY <1>5 DEF StampFollows
<1> QED BY <1>3, <1>4, <1>5
        DEF Next, ReaderStep, ReadStamp, MissStamp, Hit, Miss, Query, Store, EvictStamp, EvictResponse, vars

\* For any number of requests and writers of each kind: what the cache answers
\* is what the database holds, unless an autocommit writer still has to set the
\* timestamp or a transaction or loader has committed without one since.
THEOREM AnnouncedIsCurrentThm == Spec => []AnnouncedIsCurrent
<1>1. Init => StampFollows
  BY DEF Init, StampFollows
<1>2. CacheInv /\ CacheInv' /\ StampFollows /\ [Next]_vars => StampFollows'
  BY StepStampFollows
<1>3. CacheInv /\ StampFollows => AnnouncedIsCurrent
  <2> SUFFICES ASSUME CacheInv, StampFollows, unannounced = "no", stamp # None,
                      \A w \in Autocommit : writer[w].at = "idle"
               PROVE  cached[stamp] \in {None, db}
    BY DEF AnnouncedIsCurrent
  <2>1. stamp \in Stamp /\ invalidated[stamp] = db
    BY DEF CacheInv, TypeOK, StampFollows
  <2> QED BY <2>1 DEF CacheInv, TypeOK, ReadsAreFresh
<1> QED BY CacheInvHolds, <1>1, <1>2, <1>3, PTL DEF Spec
============================================================================
