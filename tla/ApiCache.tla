----------------------------- MODULE ApiCache -----------------------------
(***************************************************************************)
(* The API response cache (api/cache.py, course_metadata/signals.py).      *)
(*                                                                         *)
(* The key of a cached response holds the value of api_timestamp when the  *)
(* request arrived.  post_save and post_delete receivers set api_timestamp *)
(* to the time, so that no request uses the older keys again; nothing ever *)
(* expires (DEFAULT_CACHE_RESPONSE_TIMEOUT is None).                       *)
(*                                                                         *)
(* A write request saves inside a transaction: the receiver runs BEFORE    *)
(* the commit.  A command saves in autocommit mode: it runs after (Django  *)
(* deletes inside a transaction of its own, in a command too).  The        *)
(* data loaders disconnect the receivers and set the timestamp once at the *)
(* end.  The model follows one cached URL; its data is a version number.   *)
(***************************************************************************)
EXTENDS Naturals

CONSTANTS
  Reader,         \* GET requests
  Transactional,  \* writers whose saves happen inside transaction.atomic()
  Autocommit,     \* writers that save row by row
  Loader,         \* refresh_course_metadata and the importers
  MaxVersion,     \* bound on the versions of the data
  MaxClock        \* bound on the distinct values of time.time()

ASSUME ApiCacheAssumption ==
  /\ MaxVersion \in Nat \ {0}
  /\ MaxClock \in Nat \ {0}

Writer == Transactional \cup Autocommit \cup Loader
Stamp  == 1..MaxClock
None   == 0               \* no timestamp in the cache, no response cached

VARIABLES
  db,          \* version of the committed data
  clock,       \* the last value time.time() returned
  stamp,       \* api_timestamp in the cache, or None
  cached,      \* cached[k]: version of the response cached under timestamp k
  writer,      \* where each writer is, and the time it has read
  reader,      \* where each request is, its key, and the version it answers with
  invalidated, \* history: what was committed when timestamp k was set
  unannounced  \* history: was the last commit of a transaction or a loader
               \* followed by no timestamp so far?

vars == <<db, clock, stamp, cached, writer, reader, invalidated, unannounced>>

WriterState == [at: {"idle", "timed", "open", "committed", "loading"}, time: {None} \cup Stamp]
Answered    == {"new", "answered"}
InFlight    == {"timed", "keyed", "missed", "queried"}
ReaderState == [at: Answered \cup InFlight, key: {None} \cup Stamp, seen: Nat]

TypeOK ==
  /\ db \in Nat
  /\ clock \in {None} \cup Stamp
  /\ stamp \in {None} \cup Stamp
  /\ cached \in [Stamp -> Nat]
  /\ writer \in [Writer -> WriterState]
  /\ \A w \in Writer : writer[w].at = "timed" => writer[w].time \in Stamp
  /\ reader \in [Reader -> ReaderState]
  /\ \A r \in Reader : reader[r].at \in InFlight => reader[r].key \in Stamp
  /\ invalidated \in [Stamp -> Nat]
  /\ unannounced \in {"no", "yes"}

Init ==
  /\ db = 1
  /\ clock = None
  /\ stamp = None
  /\ cached = [k \in Stamp |-> None]
  /\ writer = [w \in Writer |-> [at |-> "idle", time |-> None]]
  /\ reader = [r \in Reader |-> [at |-> "new", key |-> None, seen |-> None]]
  /\ invalidated = [k \in Stamp |-> None]
  /\ unannounced = "no"

WriterIs(w, at, time)    == writer' = [writer EXCEPT ![w] = [at |-> at, time |-> time]]
Goes(w, from, to)        == writer[w].at = from /\ WriterIs(w, to, None)
ReaderIs(r, at, key, seen) == reader' = [reader EXCEPT ![r] = [at |-> at, key |-> key, seen |-> seen]]

NewVersion == db < MaxVersion /\ db' = db + 1

SetStamp(t) ==
  /\ stamp' = t
  /\ invalidated' = [invalidated EXCEPT ![t] = db]
  /\ unannounced' = "no"

---------------------------------------------------------------------------
(* Writers.                                                                *)

\* set_api_timestamp: time.time() ...
ReadsTime(w, from) ==
  /\ writer[w].at \in from
  /\ clock < MaxClock
  /\ clock' = clock + 1
  /\ WriterIs(w, "timed", clock + 1)
  /\ UNCHANGED <<db, stamp, cached, reader, invalidated, unannounced>>

\* ... and cache.set, another process may come in between.
SetsStamp(w) ==
  /\ Goes(w, "timed", IF w \in Transactional THEN "open" ELSE "idle")
  /\ SetStamp(writer[w].time)
  /\ UNCHANGED <<db, clock, cached, reader>>

\* A save inside a transaction: the receiver runs at once.  There may be more.
Save(w) == w \in Transactional /\ ReadsTime(w, {"idle", "open"})

Commit(w) ==
  /\ w \in Transactional
  /\ Goes(w, "open", "idle")
  /\ NewVersion
  /\ unannounced' = "yes"
  /\ UNCHANGED <<clock, stamp, cached, reader, invalidated>>

Rollback(w) ==
  /\ w \in Transactional
  /\ Goes(w, "open", "idle")
  /\ UNCHANGED <<db, clock, stamp, cached, reader, invalidated, unannounced>>

\* A save in autocommit mode is visible before the receiver runs.
SaveRow(w) ==
  /\ w \in Autocommit
  /\ Goes(w, "idle", "committed")
  /\ NewVersion
  /\ UNCHANGED <<clock, stamp, cached, reader, invalidated, unannounced>>

RowSaved(w) == w \in Autocommit /\ ReadsTime(w, {"committed"})

\* A loader with its receivers disconnected.
LoadRow(w) ==
  /\ w \in Loader
  /\ writer[w].at \in {"idle", "loading"}
  /\ WriterIs(w, "loading", None)
  /\ NewVersion
  /\ unannounced' = "yes"
  /\ UNCHANGED <<clock, stamp, cached, reader, invalidated>>

FinishLoad(w) == w \in Loader /\ ReadsTime(w, {"loading"})

\* Killed, or an exception before the last statement.
LoaderDies(w) ==
  /\ w \in Loader
  /\ Goes(w, "loading", "idle")
  /\ UNCHANGED <<db, clock, stamp, cached, reader, invalidated, unannounced>>

---------------------------------------------------------------------------
(* Readers.                                                                *)

\* Mutant: a timestamp that was evicted is not replaced.
ReadStampMutant(r) ==
  /\ reader[r].at \in Answered
  /\ ReaderIs(r, "keyed", stamp, None)
  /\ UNCHANGED <<db, clock, stamp, cached, writer, invalidated, unannounced>>

\* calculate_key: cache.get_or_set(API_TIMESTAMP_KEY, time.time) finds one ...
ReadStamp(r) ==
  /\ reader[r].at \in Answered
  /\ stamp # None
  /\ ReaderIs(r, "keyed", stamp, None)
  /\ UNCHANGED <<db, clock, stamp, cached, writer, invalidated, unannounced>>

\* ... or none: it takes the time ...
MissStamp(r) ==
  /\ reader[r].at \in Answered
  /\ stamp = None
  /\ clock < MaxClock
  /\ clock' = clock + 1
  /\ ReaderIs(r, "timed", clock + 1, None)
  /\ UNCHANGED <<db, stamp, cached, writer, invalidated, unannounced>>

\* ... and adds it, unless another process came first.
AddStamp(r) ==
  /\ reader[r].at = "timed"
  /\ IF stamp = None THEN SetStamp(reader[r].key) ELSE UNCHANGED <<stamp, invalidated, unannounced>>
  /\ ReaderIs(r, "keyed", stamp', None)
  /\ UNCHANGED <<db, clock, cached, writer>>

Hit(r) ==
  /\ reader[r].at = "keyed"
  /\ cached[reader[r].key] # None
  /\ ReaderIs(r, "answered", reader[r].key, cached[reader[r].key])
  /\ UNCHANGED <<db, clock, stamp, cached, writer, invalidated, unannounced>>

Miss(r) ==
  /\ reader[r].at = "keyed"
  /\ cached[reader[r].key] = None
  /\ ReaderIs(r, "missed", reader[r].key, None)
  /\ UNCHANGED <<db, clock, stamp, cached, writer, invalidated, unannounced>>

\* The view reads what is committed and renders the response.
Query(r) ==
  /\ reader[r].at = "missed"
  /\ ReaderIs(r, "queried", reader[r].key, db)
  /\ UNCHANGED <<db, clock, stamp, cached, writer, invalidated, unannounced>>

\* Mutant: the key is calculated again after the response was rendered.
StoreMutant(r) ==
  /\ reader[r].at = "queried"
  /\ ReaderIs(r, "answered", reader[r].key, reader[r].seen)
  /\ cached' = [cached EXCEPT ![stamp] = reader[r].seen]
  /\ UNCHANGED <<db, clock, stamp, writer, invalidated, unannounced>>

Store(r) ==
  /\ reader[r].at = "queried"
  /\ ReaderIs(r, "answered", reader[r].key, reader[r].seen)
  /\ cached' = [cached EXCEPT ![reader[r].key] = reader[r].seen]
  /\ UNCHANGED <<db, clock, stamp, writer, invalidated, unannounced>>

\* The cache server may drop any key.
EvictStamp ==
  /\ stamp # None
  /\ stamp' = None
  /\ UNCHANGED <<db, clock, cached, writer, reader, invalidated, unannounced>>

EvictResponse(k) ==
  /\ cached[k] # None
  /\ cached' = [cached EXCEPT ![k] = None]
  /\ UNCHANGED <<db, clock, stamp, writer, reader, invalidated, unannounced>>

---------------------------------------------------------------------------
WriterStep ==
  \E w \in Writer :
    \/ Save(w) \/ Commit(w) \/ Rollback(w)
    \/ SaveRow(w) \/ RowSaved(w)
    \/ LoadRow(w) \/ FinishLoad(w) \/ LoaderDies(w)
    \/ SetsStamp(w)

ReaderStep ==
  \E r \in Reader :
    \/ ReadStamp(r) \/ MissStamp(r) \/ AddStamp(r)
    \/ Hit(r) \/ Miss(r) \/ Query(r) \/ Store(r)

Next ==
  \/ WriterStep
  \/ ReaderStep
  \/ EvictStamp
  \/ \E k \in Stamp : EvictResponse(k)

Spec == Init /\ [][Next]_vars

---------------------------------------------------------------------------
(* What the cache promises.                                                *)

\* No response, cached or sent, is older than the data that was committed when
\* the timestamp in its key was set: setting the timestamp makes everything
\* committed before visible, in any interleaving with requests in flight.
NothingBeforeInvalidation ==
  /\ \A k \in Stamp : cached[k] # None => cached[k] >= invalidated[k]
  /\ \A r \in Reader : reader[r].at = "answered" => reader[r].seen >= invalidated[reader[r].key]

\* When no autocommit writer is between its save and its receiver, and no
\* transaction or loader has committed since the timestamp was set, what the
\* cache answers is what the database holds.
AnnouncedIsCurrent ==
  (\A w \in Autocommit : writer[w].at = "idle") /\ stamp # None /\ unannounced = "no"
    => cached[stamp] \in {None, db}

\* The receivers "ensure correctness of the API": when nobody is writing, what
\* the cache answers is what the database holds.
CachedIsCurrent ==
  (\A w \in Writer : writer[w].at = "idle") /\ stamp # None
    => cached[stamp] \in {None, db}
===========================================================================
