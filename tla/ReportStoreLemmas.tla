------------------------- MODULE ReportStoreLemmas -------------------------
(***************************************************************************)
(* Lemmas about the operations of the checkpoint store, for every number   *)
(* of jobs, connections, keys and responses, and for every capacity and    *)
(* bound.  They hold for any caller; ReportStoreProofs uses them for the   *)
(* store under arbitrary clients.                                          *)
(***************************************************************************)
EXTENDS ReportJobStore, FiniteSetTheorems, TLAPS

-----------------------------------------------------------------------------
(* Lemmas about deadlines *)

(* The later of two deadlines is a deadline, and neither is after it. *)
LEMMA LaterType ==
    ASSUME NEW a \in Deadlines, NEW b \in Deadlines
    PROVE  /\ Later(a, b) \in Deadlines
           /\ Later(a, b) >= a /\ Later(a, b) >= b
BY StoreConstants DEF Later, Deadlines

(* A deadline that has not passed is kept as it is. *)
LEMMA LiveType ==
    ASSUME NEW d \in Deadlines, now \in 0..MaxTime
    PROVE  /\ Live(d) \in Deadlines
           /\ d > now => Live(d) = d
BY StoreConstants DEF Live, Deadlines, NoDeadline

(* Folding the stored deadline into a job gives a job, which differs from  *)
(* the job in its deadline only, and whose deadline covers every deadline  *)
(* folded into it that has not passed.                                     *)
LEMMA ThrottledJob ==
    ASSUME StoreTypeOK,
           NEW job \in ReportJob, NEW table \in [Connections -> Deadlines],
           NEW previous \in Deadlines
    PROVE  LET result == WithConnectionThrottle(job, table, previous) IN
           /\ result \in ReportJob
           /\ result.id = job.id
           /\ result.revision = job.revision
           /\ result.connectionKey = job.connectionKey
           /\ result.status = job.status
           /\ result.completedRequests = job.completedRequests
           /\ result.savedBytes = job.savedBytes
           /\ result.timings = job.timings
           /\ \A d \in {job.retryAt, previous, table[job.connectionKey]} :
                  d > now => result.retryAt >= d
<1> DEFINE first == Later(job.retryAt, previous)
           all == Later(first, table[job.connectionKey])
           result == WithConnectionThrottle(job, table, previous)
<1>1. /\ job.retryAt \in Deadlines
      /\ table[job.connectionKey] \in Deadlines
  BY DEF ReportJob
<1>2. first \in Deadlines /\ first >= job.retryAt /\ first >= previous
  BY <1>1, LaterType
<1>3. all \in Deadlines /\ all >= first /\ all >= table[job.connectionKey]
  BY <1>1, <1>2, LaterType
<1>4. Live(all) \in Deadlines /\ (all > now => Live(all) = all)
  BY <1>3, LiveType DEF StoreTypeOK
<1>5. result = [job EXCEPT !.retryAt = Live(all)]
  BY DEF WithConnectionThrottle
<1>6. /\ result \in ReportJob
      /\ result.id = job.id
      /\ result.revision = job.revision
      /\ result.connectionKey = job.connectionKey
      /\ result.status = job.status
      /\ result.completedRequests = job.completedRequests
      /\ result.savedBytes = job.savedBytes
      /\ result.timings = job.timings
      /\ result.retryAt = Live(all)
  <2> HIDE DEF all, result
  <2> QED BY <1>4, <1>5 DEF ReportJob
<1>7. ASSUME NEW d \in {job.retryAt, previous, table[job.connectionKey]}, d > now
      PROVE  result.retryAt >= d
  <2>1. d \in Nat /\ all \in Nat /\ first \in Nat /\ now \in Nat
        /\ job.retryAt \in Nat /\ previous \in Nat /\ table[job.connectionKey] \in Nat
    BY <1>1, <1>2, <1>3, StoreConstants DEF Deadlines, StoreTypeOK
  <2>2. all >= d
    <3> HIDE DEF all, first
    <3> QED BY <1>2, <1>3, <1>7, <2>1
  <2>3. all > now
    <3> HIDE DEF all
    <3> QED BY <1>7, <2>1, <2>2
  <2> HIDE DEF all, result
  <2> QED BY <1>4, <1>6, <2>2, <2>3
<1> QED BY <1>6, <1>7

(* Writing the deadline of a job changes one throttle record. *)
LEMMA PersistType ==
    ASSUME NEW table \in [Connections -> Deadlines], NEW job \in ReportJob
    PROVE  /\ Persist(table, job) \in [Connections -> Deadlines]
           /\ Persist(table, job)[job.connectionKey] = job.retryAt
           /\ \A connection \in Connections \ {job.connectionKey} :
                  Persist(table, job)[connection] = table[connection]
BY DEF Persist, ReportJob

-----------------------------------------------------------------------------
(* What the operations write *)

(* The deadline an operation carries from the saved job is a throttle record. *)
LEMMA CarriedType ==
    ASSUME StoreTypeOK
    PROVE  /\ CarriedThrottles \in [Connections -> Deadlines]
           /\ \A connection \in Connections :
                  Deadline(connection) > now =>
                      CarriedThrottles[connection] >= Deadline(connection)
<1>1. CASE latest = NoJob
  BY <1>1, StoreConstants DEF CarriedThrottles, StoreTypeOK, Deadline, Deadlines
<1>2. CASE latest # NoJob
  <2> DEFINE carried == WithConnectionThrottle(latest, throttles, NoDeadline)
  <2>1. latest \in ReportJob /\ throttles \in [Connections -> Deadlines]
    BY <1>2 DEF StoreTypeOK
  <2>2. NoDeadline \in Deadlines
    BY StoreConstants DEF NoDeadline, Deadlines
  <2>3. /\ carried \in ReportJob
        /\ carried.connectionKey = latest.connectionKey
        /\ latest.retryAt > now => carried.retryAt >= latest.retryAt
        /\ throttles[latest.connectionKey] > now =>
               carried.retryAt >= throttles[latest.connectionKey]
    BY <2>1, <2>2, ThrottledJob
  <2>4. CarriedThrottles = Persist(throttles, carried)
    BY <1>2 DEF CarriedThrottles
  <2>5. /\ CarriedThrottles \in [Connections -> Deadlines]
        /\ CarriedThrottles[latest.connectionKey] = carried.retryAt
        /\ \A connection \in Connections \ {latest.connectionKey} :
               CarriedThrottles[connection] = throttles[connection]
    <3> HIDE DEF carried
    <3> QED BY <2>1, <2>3, <2>4, PersistType
  <2>6. ASSUME NEW connection \in Connections, Deadline(connection) > now
        PROVE  CarriedThrottles[connection] >= Deadline(connection)
    <3>1. throttles[connection] \in Nat /\ latest.retryAt \in Nat /\ now \in Nat
      BY <2>1, StoreConstants DEF StoreTypeOK, Deadlines, ReportJob
    <3> HIDE DEF carried
    <3>2. CASE connection = latest.connectionKey
      BY <1>2, <2>3, <2>5, <2>6, <3>1, <3>2 DEF Deadline, Later
    <3>3. CASE connection # latest.connectionKey
      BY <2>5, <2>6, <3>1, <3>3 DEF Deadline
    <3> QED BY <3>2, <3>3
  <2> QED BY <2>5, <2>6
<1> QED BY <1>1, <1>2

(* A write of the saved job: a job on the same connection whose deadline   *)
(* covers the deadlines of the store, together with its throttle record.   *)
CoversDeadlines(job) ==
    /\ job \in ReportJob
    /\ job.connectionKey = latest.connectionKey
    /\ latest.retryAt > now => job.retryAt >= latest.retryAt
    /\ throttles[job.connectionKey] > now => job.retryAt >= throttles[job.connectionKey]

LEMMA SavedType ==
    ASSUME StoreTypeOK, NEW job \in ReportJob, IsCurrent(job)
    PROVE  /\ CoversDeadlines(Saved(job))
           /\ Saved(job).id = latest.id
           /\ Saved(job).revision = latest.revision + 1
           /\ Saved(job).timings = latest.timings
           /\ Saved(job).completedRequests = latest.completedRequests
           /\ Saved(job).savedBytes = latest.savedBytes
<1>1. /\ latest \in ReportJob
      /\ throttles \in [Connections -> Deadlines]
      /\ latest.retryAt \in Deadlines
  BY DEF StoreTypeOK, IsCurrent, ReportJob
<1>2. NextRevision(job) \in ReportJob
  BY <1>1 DEF NextRevision, ReportJob
<1>3. /\ NextRevision(job).revision = latest.revision + 1
      /\ NextRevision(job).id = job.id
      /\ NextRevision(job).connectionKey = job.connectionKey
      /\ NextRevision(job).timings = job.timings
      /\ NextRevision(job).completedRequests = job.completedRequests
      /\ NextRevision(job).savedBytes = job.savedBytes
  BY DEF NextRevision, ReportJob
<1> QED BY <1>1, <1>2, <1>3, ThrottledJob DEF Saved, CoversDeadlines, IsCurrent

LEMMA CheckpointedType ==
    ASSUME StoreTypeOK, NEW job \in ReportJob, NEW key \in Keys,
           NEW response \in Responses, IsCurrent(job)
    PROVE  LET written == Checkpointed(job, key, response) IN
           /\ CoversDeadlines(written)
           /\ written.id = latest.id
           /\ written.revision = latest.revision + 1
           /\ written.timings = [latest.timings EXCEPT ![ApiOf[key]] = @ + 1]
           /\ written.completedRequests = latest.completedRequests + 1
           /\ written.savedBytes = latest.savedBytes + ByteLength[response]
<1> DEFINE timings == [latest.timings EXCEPT ![ApiOf[key]] = @ + 1]
           requests == latest.completedRequests + 1
           bytes == latest.savedBytes + ByteLength[response]
           next == NextRevision(job)
           counted == [next EXCEPT !.completedRequests = requests,
                                   !.savedBytes = bytes,
                                   !.timings = timings]
<1>1. /\ latest \in ReportJob
      /\ throttles \in [Connections -> Deadlines]
      /\ latest.retryAt \in Deadlines
      /\ ApiOf[key] \in Apis
      /\ ByteLength[response] \in Nat
  BY StoreConstants DEF StoreTypeOK, IsCurrent, ReportJob
<1>2. timings \in [Apis -> Nat] /\ requests \in Nat /\ bytes \in Nat
  BY <1>1 DEF ReportJob
<1>3. /\ next \in ReportJob
      /\ next.revision = latest.revision + 1
      /\ next.id = job.id
      /\ next.connectionKey = job.connectionKey
  BY <1>1 DEF NextRevision, ReportJob
<1>4. /\ counted \in ReportJob
      /\ counted.revision = latest.revision + 1
      /\ counted.id = job.id
      /\ counted.connectionKey = job.connectionKey
      /\ counted.timings = timings
      /\ counted.completedRequests = requests
      /\ counted.savedBytes = bytes
  <2> HIDE DEF timings, requests, bytes, next
  <2> QED BY <1>2, <1>3 DEF ReportJob
<1>5. Checkpointed(job, key, response) =
          WithConnectionThrottle(counted, throttles, latest.retryAt)
  BY DEF Checkpointed
<1> HIDE DEF counted
<1> QED BY <1>1, <1>4, <1>5, ThrottledJob DEF CoversDeadlines, IsCurrent

LEMMA RecoveredType ==
    ASSUME StoreTypeOK, NEW job \in ReportJob, IsCurrent(job)
    PROVE  /\ CoversDeadlines(Recovered(job))
           /\ AfterRecovery(job) \in ReportJob
           /\ AfterRecovery(job).retryAt = Recovered(job).retryAt
           /\ AfterRecovery(job).id = latest.id
           /\ AfterRecovery(job).connectionKey = latest.connectionKey
           /\ AfterRecovery(job) # latest => AfterRecovery(job).revision = latest.revision + 1
           /\ AfterRecovery(job).timings = latest.timings
           /\ AfterRecovery(job).completedRequests = latest.completedRequests
           /\ AfterRecovery(job).savedBytes = latest.savedBytes
<1>1. /\ latest \in ReportJob
      /\ throttles \in [Connections -> Deadlines]
      /\ job.retryAt \in Deadlines
  BY DEF StoreTypeOK, IsCurrent, ReportJob
<1>2. /\ CoversDeadlines(Recovered(job))
      /\ Recovered(job) \in ReportJob
      /\ Recovered(job).id = latest.id
      /\ Recovered(job).connectionKey = latest.connectionKey
      /\ Recovered(job).timings = latest.timings
      /\ Recovered(job).completedRequests = latest.completedRequests
      /\ Recovered(job).savedBytes = latest.savedBytes
  BY <1>1, ThrottledJob DEF Recovered, CoversDeadlines
<1>3. CASE Recovered(job).retryAt = latest.retryAt
  BY <1>1, <1>2, <1>3 DEF AfterRecovery
<1>4. CASE Recovered(job).retryAt # latest.retryAt
  <2>1. AfterRecovery(job) = [Recovered(job) EXCEPT !.revision = latest.revision + 1]
    BY <1>4 DEF AfterRecovery, NextRevision
  <2>2. latest.revision + 1 \in Nat
    BY <1>1 DEF ReportJob
  <2> QED BY <1>2, <2>1, <2>2 DEF ReportJob
<1> QED BY <1>2, <1>3, <1>4

-----------------------------------------------------------------------------
(* The invariant of the store *)

StoreInv ==
    /\ StoreTypeOK
    /\ IsFiniteSet(journal)
    /\ CountersMatchJournal

LEMMA StoreInitInv == StoreInit => StoreInv
<1> SUFFICES ASSUME StoreInit PROVE StoreInv
  OBVIOUS
<1>1. StoreTypeOK
  BY StoreConstants
  DEF StoreInit, StoreTypeOK, NewJob, ReportJob, Deadlines, NoDeadline, Statuses
<1>2. IsFiniteSet(journal) /\ journal = {} /\ Cardinality({}) = 0
  BY FS_EmptySet DEF StoreInit
<1>3. \A api \in Apis : EntriesOf(api) = {}
  BY <1>2 DEF EntriesOf
<1>4. latest # NoJob =>
         /\ latest.timings = [api \in Apis |-> 0]
         /\ latest.completedRequests = 0
  BY DEF StoreInit, NewJob
<1>5. CountersMatchJournal
  BY <1>2, <1>3, <1>4 DEF CountersMatchJournal, Apis
<1> QED BY <1>1, <1>2, <1>5 DEF StoreInv

(* Creating a job starts an empty journal with zero counters. *)
LEMMA CreateInv ==
    ASSUME StoreInv, NEW job \in ReportJob, Create(job)
    PROVE  StoreInv'
<1>1. /\ CarriedThrottles \in [Connections -> Deadlines]
      /\ NoDeadline \in Deadlines
  BY CarriedType, StoreConstants DEF StoreInv, NoDeadline, Deadlines
<1>2. /\ latest' \in ReportJob
      /\ latest'.timings = job.timings
      /\ latest'.completedRequests = job.completedRequests
  BY <1>1, ThrottledJob DEF Create, Created, StoreInv
<1>3. throttles' \in [Connections -> Deadlines]
  BY <1>1, <1>2, PersistType DEF Create
<1>4. StoreTypeOK'
  BY <1>2, <1>3 DEF StoreTypeOK, StoreInv, Create
<1>5. IsFiniteSet(journal') /\ journal' = {} /\ Cardinality({}) = 0
  BY FS_EmptySet DEF Create
<1>6. \A api \in Apis : EntriesOf(api)' = {}
  BY <1>5 DEF EntriesOf
<1>7. CountersMatchJournal'
  BY <1>2, <1>5, <1>6 DEF CountersMatchJournal, Create, IsNewJob, Apis
<1> QED BY <1>4, <1>5, <1>7 DEF StoreInv

(* A write that keeps id, counters and journal keeps the invariant. *)
LEMMA RewriteInv ==
    ASSUME StoreInv, latest # NoJob, latest' \in ReportJob,
           latest'.id = latest.id,
           latest'.timings = latest.timings,
           latest'.completedRequests = latest.completedRequests,
           throttles' \in [Connections -> Deadlines],
           UNCHANGED <<journal, now>>
    PROVE  StoreInv'
<1>1. StoreTypeOK'
  BY DEF StoreInv, StoreTypeOK
<1>2. \A api \in Apis : EntriesOf(api)' = EntriesOf(api)
  BY DEF EntriesOf
<1>3. latest' # NoJob
  BY StoreConstants
<1>4. CountersMatchJournal'
  BY <1>2, <1>3 DEF StoreInv, CountersMatchJournal
<1> QED BY <1>1, <1>4 DEF StoreInv

(* Saving a job keeps the invariant. *)
LEMMA SaveInv ==
    ASSUME StoreInv, NEW job \in ReportJob, Save(job)
    PROVE  StoreInv'
<1>1. /\ latest # NoJob
      /\ IsCurrent(job)
      /\ latest' = Saved(job)
      /\ throttles' = Persist(throttles, Saved(job))
      /\ UNCHANGED <<journal, now>>
  BY DEF Save, IsCurrent
<1>2. /\ latest' \in ReportJob
      /\ latest'.id = latest.id
      /\ latest'.timings = latest.timings
      /\ latest'.completedRequests = latest.completedRequests
  BY <1>1, SavedType DEF StoreInv, CoversDeadlines
<1>3. throttles' \in [Connections -> Deadlines]
  BY <1>1, <1>2, PersistType DEF StoreInv, StoreTypeOK
<1> QED BY <1>1, <1>2, <1>3, RewriteInv

(* Checkpointing a saved key again keeps the invariant. *)
LEMMA CheckpointAgainInv ==
    ASSUME StoreInv, NEW job \in ReportJob, NEW key \in Keys,
           NEW response \in Responses, CheckpointAgain(job, key, response)
    PROVE  StoreInv'
<1>1. /\ latest # NoJob
      /\ IsCurrent(job)
      /\ latest' = AfterRecovery(job)
      /\ throttles' = Persist(throttles, Recovered(job))
      /\ UNCHANGED <<journal, now>>
  BY DEF CheckpointAgain, IsCurrent
<1>2. /\ latest' \in ReportJob
      /\ latest'.id = latest.id
      /\ latest'.timings = latest.timings
      /\ latest'.completedRequests = latest.completedRequests
      /\ Recovered(job) \in ReportJob
  BY <1>1, RecoveredType DEF StoreInv, CoversDeadlines
<1>3. throttles' \in [Connections -> Deadlines]
  BY <1>1, <1>2, PersistType DEF StoreInv, StoreTypeOK
<1> QED BY <1>1, <1>2, <1>3, RewriteInv

(* A new checkpoint adds one entry and counts it once, for its API. *)
LEMMA CheckpointNewInv ==
    ASSUME StoreInv, NEW job \in ReportJob, NEW key \in Keys,
           NEW response \in Responses, CheckpointNew(job, key, response)
    PROVE  StoreInv'
<1> DEFINE entry == [jobId |-> job.id, key |-> key, response |-> response]
           api == ApiOf[key]
<1>1. /\ latest # NoJob
      /\ latest \in ReportJob
      /\ IsCurrent(job)
      /\ job.id = latest.id
      /\ SavedEntries(job.id, key) = {}
      /\ journal' = journal \cup {entry}
      /\ latest' = Checkpointed(job, key, response)
      /\ throttles' = Persist(throttles, Checkpointed(job, key, response))
      /\ now' = now
  BY DEF CheckpointNew, IsCurrent, StoreInv, StoreTypeOK
<1>2. api \in Apis
  BY StoreConstants
<1>3. /\ latest' \in ReportJob
      /\ latest'.id = latest.id
      /\ latest'.timings = [latest.timings EXCEPT ![api] = @ + 1]
      /\ latest'.completedRequests = latest.completedRequests + 1
  BY <1>1, CheckpointedType DEF StoreInv, CoversDeadlines
<1>4. throttles' \in [Connections -> Deadlines]
  BY <1>1, <1>3, PersistType DEF StoreInv, StoreTypeOK
<1>5. entry \in JournalEntry /\ entry.key = key /\ entry.jobId = latest.id
  BY <1>1 DEF JournalEntry, ReportJob
<1>6. StoreTypeOK'
  BY <1>1, <1>3, <1>4, <1>5 DEF StoreTypeOK, StoreInv
<1>7. IsFiniteSet(journal')
  BY <1>1, FS_AddElement DEF StoreInv
<1>8. \A e \in journal : e.key # key
  BY <1>1 DEF SavedEntries, StoreInv, CountersMatchJournal
<1>9. \A e1, e2 \in journal' : e1.key = e2.key => e1 = e2
  BY <1>1, <1>5, <1>8 DEF StoreInv, CountersMatchJournal
<1>10. ASSUME NEW a \in Apis
       PROVE  latest'.timings[a] = Cardinality(EntriesOf(a)')
  <2>1. /\ IsFiniteSet(EntriesOf(a))
        /\ latest.timings[a] = Cardinality(EntriesOf(a))
        /\ latest.timings \in [Apis -> Nat]
    BY <1>1, FS_Subset DEF EntriesOf, StoreInv, CountersMatchJournal, ReportJob
  <2>2. CASE a = api
    <3>1. EntriesOf(a)' = EntriesOf(a) \cup {entry}
      BY <1>1, <1>5, <2>2 DEF EntriesOf
    <3>2. entry \notin EntriesOf(a)
      BY <1>5, <1>8 DEF EntriesOf
    <3>3. Cardinality(EntriesOf(a)') = Cardinality(EntriesOf(a)) + 1
      BY <2>1, <3>1, <3>2, FS_AddElement
    <3> QED BY <1>3, <2>1, <2>2, <3>3
  <2>3. CASE a # api
    <3>1. EntriesOf(a)' = EntriesOf(a)
      BY <1>1, <1>5, <2>3 DEF EntriesOf
    <3> QED BY <1>3, <2>1, <2>3, <3>1
  <2> QED BY <2>2, <2>3
<1>11. latest'.completedRequests = latest'.timings["v2"] + latest'.timings["v3"]
  <2>1. /\ latest.completedRequests = latest.timings["v2"] + latest.timings["v3"]
        /\ latest.timings \in [Apis -> Nat]
        /\ "v2" \in Apis /\ "v3" \in Apis
    BY <1>1 DEF StoreInv, CountersMatchJournal, ReportJob, Apis
  <2>2. api = "v2" \/ api = "v3"
    BY <1>2 DEF Apis
  <2> HIDE DEF api
  <2> QED BY <1>2, <1>3, <2>1, <2>2
<1>12. CountersMatchJournal'
  <2>1. \A e \in journal' : e.jobId = latest'.id
    BY <1>1, <1>3, <1>5 DEF StoreInv, CountersMatchJournal
  <2>2. latest' # NoJob
    BY <1>3, StoreConstants
  <2> QED BY <1>9, <1>10, <1>11, <2>1, <2>2 DEF CountersMatchJournal
<1> QED BY <1>6, <1>7, <1>12 DEF StoreInv

(* Deleting the job deletes its journal. *)
LEMMA DeleteInv ==
    ASSUME StoreInv, NEW jobId, Delete(jobId)
    PROVE  StoreInv'
<1>1. latest' = NoJob /\ journal' = {} /\ now' = now
  BY DEF Delete
<1>2. throttles' \in [Connections -> Deadlines]
  BY CarriedType DEF Delete, StoreInv
<1> QED BY <1>1, <1>2, FS_EmptySet DEF StoreInv, StoreTypeOK, CountersMatchJournal

(* The clock does not touch the store. *)
LEMMA TickInv ==
    ASSUME StoreInv, Tick
    PROVE  StoreInv'
<1>1. now' \in 0..MaxTime
  BY StoreConstants DEF Tick, StoreInv, StoreTypeOK
<1>2. \A api \in Apis : EntriesOf(api)' = EntriesOf(api)
  BY DEF Tick, EntriesOf
<1> QED BY <1>1, <1>2 DEF Tick, StoreInv, StoreTypeOK, CountersMatchJournal

(* A step that changes no variable of the store keeps its invariant. *)
LEMMA IdleInv ==
    ASSUME StoreInv, UNCHANGED storeVars
    PROVE  StoreInv'
<1>1. \A api \in Apis : EntriesOf(api)' = EntriesOf(api)
  BY DEF storeVars, EntriesOf
<1> QED BY <1>1 DEF storeVars, StoreInv, StoreTypeOK, CountersMatchJournal

-----------------------------------------------------------------------------
(* The bytes of the journal *)

(* The bytes of one entry are as many as the length of its response. *)
BytesOf(entry) == {entry} \X (1..ByteLength[entry.response])

LEMMA BytesOfEntry ==
    ASSUME NEW entry \in JournalEntry
    PROVE  /\ IsFiniteSet(BytesOf(entry))
           /\ Cardinality(BytesOf(entry)) = ByteLength[entry.response]
<1> DEFINE length == ByteLength[entry.response]
           places == 1..length
<1>1. length \in Nat
  BY StoreConstants DEF JournalEntry
<1>2. IsFiniteSet(places) /\ Cardinality(places) = length
  <2> HIDE DEF length
  <2> QED BY <1>1, FS_Interval
<1>3. IsFiniteSet({entry}) /\ Cardinality({entry}) = 1
  BY FS_Singleton
<1>4. BytesOf(entry) = {entry} \X places
  BY DEF BytesOf
<1> HIDE DEF length, places
<1>5. /\ IsFiniteSet({entry} \X places)
      /\ Cardinality({entry} \X places) = Cardinality({entry}) * Cardinality(places)
  BY <1>2, <1>3, FS_Product, Zenon
<1>6. Cardinality({entry}) * Cardinality(places) = length
  BY <1>1, <1>2, <1>3
<1> QED BY <1>4, <1>5, <1>6 DEF length

(* What the store holds of bytes: finitely many, as many as the saved job  *)
(* accounts for.                                                           *)
BytesInv ==
    /\ IsFiniteSet(StoredBytes)
    /\ BytesMatchJournal

(* An empty journal of a job that accounts for nothing, or of no job. *)
LEMMA EmptyBytes ==
    ASSUME journal = {}, latest = NoJob \/ latest.savedBytes = 0
    PROVE  BytesInv
<1>1. StoredBytes = {}
  BY DEF StoredBytes
<1>2. IsFiniteSet({}) /\ Cardinality({}) = 0 /\ 0 <= MaxJobBytes
  BY FS_EmptySet, StoreConstants
<1> QED BY <1>1, <1>2 DEF BytesInv, BytesMatchJournal

LEMMA InitBytes == StoreInit => BytesInv
BY EmptyBytes DEF StoreInit, NewJob

LEMMA CreateBytes ==
    ASSUME StoreInv, NEW job \in ReportJob, Create(job)
    PROVE  BytesInv'
<1>1. /\ CarriedThrottles \in [Connections -> Deadlines]
      /\ NoDeadline \in Deadlines
  BY CarriedType, StoreConstants DEF StoreInv, NoDeadline, Deadlines
<1>2. journal' = {} /\ latest'.savedBytes = 0
  BY <1>1, ThrottledJob DEF Create, Created, IsNewJob, StoreInv
<1>3. StoredBytes' = {}
  BY <1>2 DEF StoredBytes
<1>4. IsFiniteSet({}) /\ Cardinality({}) = 0 /\ 0 <= MaxJobBytes
  BY FS_EmptySet, StoreConstants
<1> QED BY <1>2, <1>3, <1>4 DEF BytesInv, BytesMatchJournal

LEMMA DeleteBytes ==
    ASSUME NEW jobId, Delete(jobId)
    PROVE  BytesInv'
<1>1. journal' = {} /\ latest' = NoJob
  BY DEF Delete
<1>2. StoredBytes' = {}
  BY <1>1 DEF StoredBytes
<1> QED BY <1>1, <1>2, FS_EmptySet DEF BytesInv, BytesMatchJournal

(* A write that keeps the journal and what the job accounts for. *)
LEMMA RewriteBytes ==
    ASSUME BytesInv, latest # NoJob, latest'.savedBytes = latest.savedBytes,
           journal' = journal
    PROVE  BytesInv'
BY DEF BytesInv, BytesMatchJournal, StoredBytes

LEMMA IdleBytes ==
    ASSUME BytesInv, UNCHANGED <<latest, journal>>
    PROVE  BytesInv'
BY DEF BytesInv, BytesMatchJournal, StoredBytes

(* A checkpoint of a new key adds the bytes of its response to both, and   *)
(* only where they fit.                                                    *)
LEMMA CheckpointBytes ==
    ASSUME StoreInv, BytesInv, NEW job \in ReportJob, NEW key \in Keys,
           NEW response \in Responses, CheckpointNew(job, key, response)
    PROVE  BytesInv'
<1> DEFINE entry == [jobId |-> job.id, key |-> key, response |-> response]
<1>1. /\ latest # NoJob /\ latest \in ReportJob
      /\ IsCurrent(job)
      /\ SavedEntries(job.id, key) = {}
      /\ HasCapacity(response)
      /\ journal' = journal \cup {entry}
      /\ latest' = Checkpointed(job, key, response)
  BY DEF CheckpointNew, IsCurrent, StoreInv, StoreTypeOK
<1>2. latest'.savedBytes = latest.savedBytes + ByteLength[response]
  <2>1. LET written == Checkpointed(job, key, response) IN
        /\ CoversDeadlines(written)
        /\ written.id = latest.id
        /\ written.revision = latest.revision + 1
        /\ written.timings = [latest.timings EXCEPT ![ApiOf[key]] = @ + 1]
        /\ written.completedRequests = latest.completedRequests + 1
        /\ written.savedBytes = latest.savedBytes + ByteLength[response]
    BY <1>1, CheckpointedType DEF StoreInv
  <2>2. Checkpointed(job, key, response).savedBytes = latest.savedBytes + ByteLength[response]
    BY <2>1, Zenon
  <2> QED BY <1>1, <2>2
<1>3. entry \in JournalEntry /\ entry \notin journal /\ entry.response = response
  BY <1>1 DEF SavedEntries, JournalEntry, ReportJob
<1>4. /\ IsFiniteSet(BytesOf(entry))
      /\ Cardinality(BytesOf(entry)) = ByteLength[response]
  BY <1>3, BytesOfEntry
<1> HIDE DEF entry
<1>5. StoredBytes' = StoredBytes \cup BytesOf(entry)
  BY <1>1 DEF StoredBytes, BytesOf
<1>6. StoredBytes \cap BytesOf(entry) = {}
  BY <1>3 DEF StoredBytes, BytesOf
<1>7. IsFiniteSet(StoredBytes) /\ Cardinality(StoredBytes) = latest.savedBytes
  BY <1>1 DEF BytesInv, BytesMatchJournal
<1>8. /\ IsFiniteSet(StoredBytes')
      /\ Cardinality(StoredBytes') =
             Cardinality(StoredBytes) + Cardinality(BytesOf(entry)) - Cardinality({})
  BY <1>4, <1>5, <1>6, <1>7, FS_Union
<1>9. Cardinality(StoredBytes') = latest'.savedBytes
  <2>1. latest.savedBytes \in Nat /\ ByteLength[response] \in Nat
    BY <1>1, StoreConstants DEF ReportJob
  <2> QED BY <1>2, <1>4, <1>7, <1>8, <2>1, FS_EmptySet
<1>10. latest'.savedBytes <= MaxJobBytes
  BY <1>1, <1>2 DEF HasCapacity
<1> QED BY <1>8, <1>9, <1>10 DEF BytesInv, BytesMatchJournal

(* Every write of the current job keeps the bytes in step. *)
LEMMA WriteBytes ==
    ASSUME StoreInv, BytesInv, NEW job \in ReportJob,
           \/ Save(job)
           \/ \E key \in Keys, response \in Responses : Checkpoint(job, key, response)
    PROVE  BytesInv'
<1>1. CASE Save(job)
  <2>1. IsCurrent(job) /\ latest # NoJob /\ latest' = Saved(job) /\ journal' = journal
    BY <1>1 DEF Save, IsCurrent
  <2>2. latest'.savedBytes = latest.savedBytes
    BY <2>1, SavedType DEF StoreInv
  <2> QED BY <2>1, <2>2, RewriteBytes
<1>2. ASSUME NEW key \in Keys, NEW response \in Responses,
             CheckpointAgain(job, key, response)
      PROVE  BytesInv'
  <2>1. IsCurrent(job) /\ latest # NoJob /\ latest' = AfterRecovery(job) /\ journal' = journal
    BY <1>2 DEF CheckpointAgain, IsCurrent
  <2>2. latest'.savedBytes = latest.savedBytes
    BY <2>1, RecoveredType DEF StoreInv
  <2> QED BY <2>1, <2>2, RewriteBytes
<1> QED BY <1>1, <1>2, CheckpointBytes DEF Checkpoint

-----------------------------------------------------------------------------
(* Deadlines of the connections *)

(* The deadline of a connection is at least its throttle record. *)
LEMMA DeadlineType ==
    ASSUME StoreTypeOK, NEW connection \in Connections
    PROVE  /\ Deadline(connection) \in Deadlines
           /\ Deadline(connection) >= throttles[connection]
           /\ latest # NoJob /\ latest.connectionKey = connection =>
                  Deadline(connection) >= latest.retryAt
<1>1. throttles[connection] \in Deadlines
      /\ throttles[connection] >= throttles[connection]
  BY StoreConstants DEF StoreTypeOK, Deadlines
<1>2. CASE latest # NoJob /\ latest.connectionKey = connection
  <2>1. latest.retryAt \in Deadlines
    BY <1>2 DEF StoreTypeOK, ReportJob
  <2>2. Deadline(connection) = Later(latest.retryAt, throttles[connection])
    BY <1>2 DEF Deadline
  <2> QED BY <1>1, <2>1, <2>2, LaterType
<1>3. CASE ~(latest # NoJob /\ latest.connectionKey = connection)
  BY <1>1, <1>3 DEF Deadline
<1> QED BY <1>2, <1>3

(* A write that persists a job covering the deadlines loses none of them. *)
LEMMA PersistedDeadlines ==
    ASSUME StoreTypeOK, StoreTypeOK', latest # NoJob, now' = now,
           NEW job, CoversDeadlines(job), throttles' = Persist(throttles, job)
    PROVE  NoDeadlineLost
<1> SUFFICES ASSUME NEW c \in Connections, Deadline(c) > now
             PROVE  Deadline(c)' >= Deadline(c)
  BY DEF NoDeadlineLost
<1>1. /\ throttles \in [Connections -> Deadlines]
      /\ throttles' \in [Connections -> Deadlines]
      /\ latest \in ReportJob /\ latest.retryAt \in Deadlines
      /\ job \in ReportJob /\ job.connectionKey = latest.connectionKey
      /\ job.retryAt \in Deadlines
      /\ now \in Nat
  BY StoreConstants DEF StoreTypeOK, CoversDeadlines, ReportJob
<1>2. Deadline(c)' \in Deadlines /\ Deadline(c)' >= throttles'[c]
  <2>1. /\ Later(latest'.retryAt, throttles'[c]) >= throttles'[c]
        /\ Later(latest'.retryAt, throttles'[c]) \in Deadlines
     \/ latest' = NoJob
    BY <1>1, LaterType DEF StoreTypeOK, ReportJob
  <2>2. throttles'[c] \in Deadlines /\ throttles'[c] >= throttles'[c]
    BY <1>1, StoreConstants DEF Deadlines
  <2> QED BY <2>1, <2>2 DEF Deadline
<1>3. throttles'[c] >= Deadline(c)
  <2>1. CASE c = job.connectionKey
    <3>1. throttles'[c] = job.retryAt
      BY <1>1, <2>1, PersistType
    <3> QED BY <1>1, <2>1, <3>1, StoreConstants
            DEF CoversDeadlines, Deadline, Later, Deadlines
  <2>2. CASE c # job.connectionKey
    <3>1. throttles'[c] = throttles[c]
      BY <1>1, <2>2, PersistType
    <3> QED BY <1>1, <2>2, <3>1, StoreConstants DEF Deadline, Deadlines
  <2> QED BY <2>1, <2>2
<1>4. Deadline(c) \in Deadlines /\ throttles'[c] \in Deadlines
  BY <1>1, DeadlineType
<1> QED BY <1>2, <1>3, <1>4, StoreConstants DEF Deadlines

LEMMA CreateDeadlines ==
    ASSUME StoreInv, StoreInv', NEW job \in ReportJob, Create(job)
    PROVE  NoDeadlineLost
<1> SUFFICES ASSUME NEW c \in Connections, Deadline(c) > now
             PROVE  Deadline(c)' >= Deadline(c)
  BY DEF NoDeadlineLost, Create
<1> DEFINE carried == CarriedThrottles
           created == Created(job)
<1>1. /\ carried \in [Connections -> Deadlines]
      /\ carried[c] >= Deadline(c)
  BY CarriedType DEF StoreInv
<1>2. /\ created \in ReportJob
      /\ created.connectionKey = job.connectionKey
      /\ carried[job.connectionKey] > now => created.retryAt >= carried[job.connectionKey]
  BY <1>1, ThrottledJob, StoreConstants DEF Created, StoreInv, NoDeadline, Deadlines
<1>3. throttles' = Persist(carried, created) /\ latest' = created /\ now' = now
  BY DEF Create
<1> HIDE DEF carried, created
<1>4. /\ throttles' \in [Connections -> Deadlines]
      /\ Deadline(c) \in Deadlines
      /\ now \in Nat
      /\ Later(latest'.retryAt, throttles'[c]) >= throttles'[c]
      /\ Later(latest'.retryAt, throttles'[c]) \in Deadlines
  BY <1>2, <1>3, LaterType, DeadlineType, StoreConstants DEF StoreInv, StoreTypeOK, ReportJob
<1>5. throttles'[c] >= Deadline(c)
  <2>1. CASE c = job.connectionKey
    <3>1. throttles'[c] = created.retryAt
      BY <1>1, <1>2, <1>3, <2>1, PersistType
    <3>2. carried[c] > now /\ created.retryAt \in Nat /\ carried[c] \in Nat
      BY <1>1, <1>2, <1>4, StoreConstants DEF Deadlines, ReportJob
    <3> QED BY <1>1, <1>2, <1>4, <2>1, <3>1, <3>2, StoreConstants DEF Deadlines
  <2>2. CASE c # job.connectionKey
    <3>1. throttles'[c] = carried[c]
      BY <1>1, <1>2, <1>3, <2>2, PersistType
    <3> QED BY <1>1, <3>1
  <2> QED BY <2>1, <2>2
<1>6. Deadline(c)' >= throttles'[c] /\ Deadline(c)' \in Deadlines /\ throttles'[c] \in Deadlines
  <2>1. throttles'[c] \in Deadlines /\ throttles'[c] >= throttles'[c]
    BY <1>4, StoreConstants DEF Deadlines
  <2> QED BY <1>4, <2>1 DEF Deadline
<1> QED BY <1>4, <1>5, <1>6, StoreConstants DEF Deadlines

LEMMA DeleteDeadlines ==
    ASSUME StoreInv, StoreInv', NEW jobId, Delete(jobId)
    PROVE  NoDeadlineLost
<1> SUFFICES ASSUME NEW c \in Connections, Deadline(c) > now
             PROVE  Deadline(c)' >= Deadline(c)
  BY DEF NoDeadlineLost, Delete
<1>1. throttles'[c] >= Deadline(c)
  BY CarriedType DEF StoreInv, Delete
<1>2. Deadline(c)' = throttles'[c]
  BY DEF Deadline, Delete
<1> QED BY <1>1, <1>2

(* A step that leaves the job and the throttles alone keeps the deadlines. *)
LEMMA IdleDeadlines ==
    ASSUME StoreInv, UNCHANGED <<latest, throttles>>
    PROVE  NoDeadlineLost
<1> SUFFICES ASSUME NEW c \in Connections
             PROVE  Deadline(c)' >= Deadline(c)
  BY DEF NoDeadlineLost
<1>1. Deadline(c)' = Deadline(c)
  BY DEF Deadline
<1>2. Deadline(c) \in Nat
  BY DeadlineType, StoreConstants DEF StoreInv, Deadlines
<1> QED BY <1>1, <1>2

(* No write of the current job loses a deadline. *)
LEMMA WriteDeadlines ==
    ASSUME StoreInv, StoreInv', NEW job \in ReportJob,
           \/ Save(job)
           \/ \E key \in Keys, response \in Responses : Checkpoint(job, key, response)
    PROVE  NoDeadlineLost
<1>1. CASE Save(job)
  <2>1. IsCurrent(job) /\ latest # NoJob
        /\ throttles' = Persist(throttles, Saved(job)) /\ now' = now
    BY <1>1 DEF Save, IsCurrent
  <2>2. CoversDeadlines(Saved(job))
    BY <2>1, SavedType DEF StoreInv
  <2> QED BY <2>1, <2>2, PersistedDeadlines DEF StoreInv
<1>2. ASSUME NEW key \in Keys, NEW response \in Responses,
             CheckpointNew(job, key, response)
      PROVE  NoDeadlineLost
  <2>1. IsCurrent(job) /\ latest # NoJob
        /\ throttles' = Persist(throttles, Checkpointed(job, key, response)) /\ now' = now
    BY <1>2 DEF CheckpointNew, IsCurrent
  <2>2. CoversDeadlines(Checkpointed(job, key, response))
    BY <2>1, CheckpointedType DEF StoreInv
  <2> QED BY <2>1, <2>2, PersistedDeadlines DEF StoreInv
<1>3. ASSUME NEW key \in Keys, NEW response \in Responses,
             CheckpointAgain(job, key, response)
      PROVE  NoDeadlineLost
  <2>1. IsCurrent(job) /\ latest # NoJob
        /\ throttles' = Persist(throttles, Recovered(job)) /\ now' = now
    BY <1>3 DEF CheckpointAgain, IsCurrent
  <2>2. CoversDeadlines(Recovered(job))
    BY <2>1, RecoveredType DEF StoreInv
  <2> QED BY <2>1, <2>2, PersistedDeadlines DEF StoreInv
<1> QED BY <1>1, <1>2, <1>3 DEF Checkpoint

(* A write of the current job keeps its connection, and from then on the   *)
(* deadline of the connection is the one on the job.                       *)
LEMMA WrittenDeadline ==
    ASSUME StoreInv, StoreInv', NEW job \in ReportJob,
           \/ Save(job)
           \/ \E key \in Keys, response \in Responses : Checkpoint(job, key, response)
    PROVE  /\ latest # NoJob /\ latest \in ReportJob /\ now' = now
           /\ latest' # NoJob /\ latest' \in ReportJob
           /\ latest'.connectionKey = latest.connectionKey
           /\ \A c \in Connections :
                  c = latest.connectionKey => Deadline(c)' = latest'.retryAt
           /\ latest' = latest =>
                  \A c \in Connections : Deadline(c)' <= Deadline(c)
<1>1. StoreTypeOK /\ IsCurrent(job) /\ latest \in ReportJob /\ latest # NoJob
  BY DEF Save, Checkpoint, CheckpointNew, CheckpointAgain, IsCurrent, StoreInv, StoreTypeOK
<1>2. PICK written : /\ CoversDeadlines(written)
                     /\ throttles' = Persist(throttles, written) /\ now' = now
                     /\ latest' \in ReportJob /\ latest'.retryAt = written.retryAt
                     /\ latest'.connectionKey = latest.connectionKey
  <2>1. CASE Save(job)
    BY <1>1, <2>1, SavedType DEF Save, CoversDeadlines
  <2>2. ASSUME NEW key \in Keys, NEW response \in Responses,
               CheckpointNew(job, key, response)
        PROVE  /\ CoversDeadlines(Checkpointed(job, key, response))
               /\ throttles' = Persist(throttles, Checkpointed(job, key, response))
               /\ now' = now /\ latest' = Checkpointed(job, key, response)
    BY <1>1, <2>2, CheckpointedType DEF CheckpointNew
  <2>3. ASSUME NEW key \in Keys, NEW response \in Responses,
               CheckpointAgain(job, key, response)
        PROVE  /\ CoversDeadlines(Recovered(job))
               /\ throttles' = Persist(throttles, Recovered(job)) /\ now' = now
               /\ latest' \in ReportJob /\ latest'.retryAt = Recovered(job).retryAt
               /\ latest'.connectionKey = latest.connectionKey
    BY <1>1, <2>3, RecoveredType DEF CheckpointAgain
  <2>4. CASE \E key \in Keys, response \in Responses : CheckpointNew(job, key, response)
    BY <2>2, <2>4 DEF CoversDeadlines
  <2>5. CASE \E key \in Keys, response \in Responses : CheckpointAgain(job, key, response)
    BY <2>3, <2>5
  <2> QED BY <2>1, <2>4, <2>5 DEF Checkpoint
<1>3. latest' # NoJob
  BY <1>2, StoreConstants
<1>4. /\ throttles \in [Connections -> Deadlines] /\ written \in ReportJob
      /\ written.connectionKey = latest.connectionKey
      /\ latest'.retryAt \in Nat /\ latest.retryAt \in Nat
  BY <1>1, <1>2, StoreConstants DEF StoreTypeOK, CoversDeadlines, ReportJob, Deadlines
<1>5. /\ throttles'[latest.connectionKey] = latest'.retryAt
      /\ \A c \in Connections \ {latest.connectionKey} : throttles'[c] = throttles[c]
  BY <1>2, <1>4, PersistType
<1>6. ASSUME NEW c \in Connections, c = latest.connectionKey
      PROVE  Deadline(c)' = latest'.retryAt
  <2>1. Deadline(c)' = Later(latest'.retryAt, throttles'[c])
    BY <1>2, <1>3, <1>6 DEF Deadline
  <2> QED BY <1>4, <1>5, <1>6, <2>1 DEF Later
<1>7. ASSUME latest' = latest, NEW c \in Connections PROVE Deadline(c)' <= Deadline(c)
  <2>1. Deadline(c) \in Nat
    BY <1>1, DeadlineType, StoreConstants DEF Deadlines
  <2>2. CASE c = latest.connectionKey
    BY <1>1, <1>4, <1>6, <1>7, <2>1, <2>2, DeadlineType
  <2>3. CASE c # latest.connectionKey
    <3>1. Deadline(c)' = throttles'[c] /\ Deadline(c) = throttles[c]
      BY <1>2, <2>3 DEF Deadline
    <3> QED BY <1>5, <2>1, <2>3, <3>1
  <2> QED BY <2>2, <2>3
<1> QED BY <1>1, <1>2, <1>3, <1>6, <1>7

(* Once the deadline of its connection has passed, a save without a        *)
(* deadline leaves none.                                                   *)
LEMMA ClearedDeadline ==
    ASSUME StoreInv, NEW job \in ReportJob, Save(job), job.retryAt = NoDeadline,
           Deadline(latest.connectionKey) <= now
    PROVE  latest'.retryAt = NoDeadline
<1>1. /\ StoreTypeOK /\ IsCurrent(job) /\ latest \in ReportJob /\ latest # NoJob
      /\ latest' = Saved(job)
  BY DEF Save, IsCurrent, StoreInv, StoreTypeOK
<1> DEFINE table == throttles[latest.connectionKey]
<1>2. /\ latest.retryAt \in Nat /\ table \in Nat /\ now \in Nat
      /\ latest.connectionKey \in Connections
  BY <1>1, StoreConstants DEF StoreTypeOK, ReportJob, Deadlines
<1>3. Deadline(latest.connectionKey) = Later(latest.retryAt, table)
  BY <1>1 DEF Deadline
<1>4. NextRevision(job).retryAt = NoDeadline
      /\ NextRevision(job).connectionKey = latest.connectionKey
      /\ NextRevision(job) \in ReportJob
  BY <1>1 DEF NextRevision, ReportJob, IsCurrent
<1>5. latest'.retryAt = Live(Later(Later(NoDeadline, latest.retryAt), table))
  BY <1>1, <1>4 DEF Saved, WithConnectionThrottle, ReportJob
<1> HIDE DEF table
<1>6. Later(Later(NoDeadline, latest.retryAt), table) <= now
  BY <1>2, <1>3 DEF Later, NoDeadline
<1>7. Later(Later(NoDeadline, latest.retryAt), table) \in Nat
  BY <1>2 DEF Later, NoDeadline
<1> QED BY <1>2, <1>5, <1>6, <1>7 DEF Live

-----------------------------------------------------------------------------
(* The shape of a write: the same job at the next revision, or unchanged. *)
LEMMA WriteShape ==
    ASSUME StoreInv, NEW job \in ReportJob,
           \/ Save(job)
           \/ \E key \in Keys, response \in Responses : Checkpoint(job, key, response)
    PROVE  /\ latest \in ReportJob /\ latest # NoJob
           /\ latest' \in ReportJob
           /\ latest'.id = latest.id
           /\ latest'.connectionKey = latest.connectionKey
           /\ latest' # latest => latest'.revision = latest.revision + 1
           /\ journal \subseteq journal'
           /\ journal' # journal =>
                  /\ latest'.completedRequests = latest.completedRequests + 1
                  /\ latest' # latest
<1>1. IsCurrent(job) /\ latest \in ReportJob /\ latest # NoJob
  BY DEF Save, Checkpoint, CheckpointNew, CheckpointAgain, IsCurrent, StoreInv, StoreTypeOK
<1>2. CASE Save(job)
  BY <1>1, <1>2, SavedType DEF Save, StoreInv, CoversDeadlines
<1>3. ASSUME NEW key \in Keys, NEW response \in Responses,
             CheckpointNew(job, key, response)
      PROVE  /\ latest' \in ReportJob
             /\ latest'.id = latest.id
             /\ latest'.connectionKey = latest.connectionKey
             /\ latest'.revision = latest.revision + 1
             /\ journal \subseteq journal'
             /\ latest'.completedRequests = latest.completedRequests + 1
  <2>1. latest' = Checkpointed(job, key, response) /\ journal \subseteq journal'
    BY <1>3 DEF CheckpointNew
  <2>2. StoreTypeOK /\ IsCurrent(job)
    BY <1>1 DEF StoreInv
  <2>3. CoversDeadlines(Checkpointed(job, key, response))
        /\ Checkpointed(job, key, response).id = latest.id
        /\ Checkpointed(job, key, response).revision = latest.revision + 1
        /\ Checkpointed(job, key, response).completedRequests = latest.completedRequests + 1
    <3>1. LET written == Checkpointed(job, key, response) IN
          /\ CoversDeadlines(written)
          /\ written.id = latest.id
          /\ written.revision = latest.revision + 1
          /\ written.timings = [latest.timings EXCEPT ![ApiOf[key]] = @ + 1]
          /\ written.completedRequests = latest.completedRequests + 1
          /\ written.savedBytes = latest.savedBytes + ByteLength[response]
      BY <2>2, CheckpointedType
    <3> QED BY <3>1, Zenon
  <2> QED BY <2>1, <2>3 DEF CoversDeadlines
<1>4. ASSUME NEW key \in Keys, NEW response \in Responses,
             CheckpointAgain(job, key, response)
      PROVE  /\ latest' \in ReportJob
             /\ latest'.id = latest.id
             /\ latest'.connectionKey = latest.connectionKey
             /\ latest' # latest => latest'.revision = latest.revision + 1
             /\ journal' = journal
  BY <1>1, <1>4, RecoveredType DEF CheckpointAgain, StoreInv
<1>5. latest.completedRequests \in Nat
  BY <1>1 DEF ReportJob
<1> QED BY <1>1, <1>2, <1>3, <1>4, <1>5 DEF Checkpoint, Save
=============================================================================
