--------------------------- MODULE ReportJobStore ---------------------------
(***************************************************************************)
(* The IndexedDB checkpoint store of a resumable report                    *)
(* (src/reports/resumable/reportJobStore.ts): one saved job, the journal   *)
(* of its completed API responses, and one throttle deadline for each      *)
(* connection.  Every operation of the store is one IndexedDB transaction, *)
(* hence one action here.                                                  *)
(*                                                                         *)
(* This module gives the operations.  ReportStoreClients closes them with  *)
(* arbitrary clients, ReportCollection with the browser tabs of the        *)
(* program.                                                                *)
(***************************************************************************)
EXTENDS Naturals, FiniteSets

CONSTANTS
    JobIds,        \* job ids (crypto.randomUUID)
    Connections,   \* instance type and base URL of a connection
    Keys,          \* canonical request keys of a report
    Responses,     \* 2xx response bodies
    ApiOf,         \* the API of a key, the first element of the key
    ByteLength,    \* the stored size of a response
    MaxJobBytes,   \* MAX_JOB_BYTES
    MaxTime,       \* bound of the clock
    MaxRevision,   \* bound of the revision of a job
    NoJob          \* the value of the LATEST slot of an empty store

Apis == {"v2", "v3"}
Statuses == {"paused", "running", "failed", "complete"}
NoDeadline == 0
Deadlines == 0..MaxTime

ReportJob ==
    [id: JobIds, revision: Nat, connectionKey: Connections, status: Statuses,
     completedRequests: Nat, savedBytes: Nat, timings: [Apis -> Nat],
     retryAt: Deadlines]

JournalEntry == [jobId: JobIds, key: Keys, response: Responses]

ASSUME StoreConstants ==
    /\ ApiOf \in [Keys -> Apis]
    /\ ByteLength \in [Responses -> Nat]
    /\ MaxJobBytes \in Nat
    /\ MaxTime \in Nat
    /\ MaxRevision \in Nat
    /\ NoJob \notin ReportJob

VARIABLES
    latest,     \* object store "jobs", slot LATEST
    journal,    \* object store "responses"
    throttles,  \* object store "throttles", NoDeadline for an absent record
    now         \* Date.now()

storeVars == <<latest, journal, throttles, now>>

-----------------------------------------------------------------------------
(* Deadlines of a connection *)

(* Mutant: deadlines are added up. *)
LaterAddsUp(a, b) == a + b

Later(a, b) == IF a < b THEN b ELSE a

(* A deadline that has passed is dropped. *)
Live(deadline) == IF deadline > now THEN deadline ELSE NoDeadline

(* The job with the latest of its own, the previous and the stored deadline. *)
WithConnectionThrottle(job, table, previous) ==
    [job EXCEPT !.retryAt =
        Live(Later(Later(job.retryAt, previous), table[job.connectionKey]))]

(* The throttle records once such a job is written with persist = true. *)
Persist(table, job) == [table EXCEPT ![job.connectionKey] = job.retryAt]

-----------------------------------------------------------------------------
(* Guards on a job submitted by a client *)

(* createReportJob: no request of the new job is answered yet. *)
IsNewJob(job) ==
    /\ job.revision = 0
    /\ job.completedRequests = 0
    /\ job.savedBytes = 0
    /\ job.timings = [api \in Apis |-> 0]

(* Mutants: the job's identity, or its revision, is not compared. *)
IsCurrentAnyJob(job) ==
    /\ latest # NoJob
    /\ latest.revision = job.revision
    /\ latest.connectionKey = job.connectionKey
    /\ latest.completedRequests = job.completedRequests
    /\ latest.savedBytes = job.savedBytes
    /\ latest.timings = job.timings

IsCurrentAnyRevision(job) ==
    /\ latest # NoJob
    /\ latest.id = job.id
    /\ latest.connectionKey = job.connectionKey
    /\ latest.completedRequests = job.completedRequests
    /\ latest.savedBytes = job.savedBytes
    /\ latest.timings = job.timings

(* currentJob: the saved job is the one the client read, at the revision   *)
(* the client read, with its identity and its counters untouched.          *)
IsCurrent(job) ==
    /\ latest # NoJob
    /\ latest.id = job.id
    /\ latest.revision = job.revision
    /\ latest.connectionKey = job.connectionKey
    /\ latest.completedRequests = job.completedRequests
    /\ latest.savedBytes = job.savedBytes
    /\ latest.timings = job.timings

NextRevision(job) == [job EXCEPT !.revision = latest.revision + 1]

SavedEntries(jobId, key) ==
    {entry \in journal : entry.jobId = jobId /\ entry.key = key}

-----------------------------------------------------------------------------
(* The transactions *)

(* What load() returns. *)
Loaded ==
    IF latest = NoJob THEN NoJob
    ELSE WithConnectionThrottle(latest, throttles, NoDeadline)

(* Mutant: the deadline of an older database is not carried over. *)
CarriedThrottlesForgets == throttles

(* create(): the deadline of the job that is replaced outlives it. *)
CarriedThrottles ==
    IF latest = NoJob THEN throttles
    ELSE Persist(throttles, WithConnectionThrottle(latest, throttles, NoDeadline))

Created(job) == WithConnectionThrottle(job, CarriedThrottles, NoDeadline)

Create(job) ==
    /\ IsNewJob(job)
    /\ latest' = Created(job)
    /\ journal' = {}
    /\ throttles' = Persist(CarriedThrottles, Created(job))
    /\ UNCHANGED now

(* save(): a new revision without a response. *)
Saved(job) ==
    WithConnectionThrottle(NextRevision(job), throttles, latest.retryAt)

Save(job) ==
    /\ IsCurrent(job)
    /\ latest.revision < MaxRevision
    /\ latest' = Saved(job)
    /\ throttles' = Persist(throttles, Saved(job))
    /\ UNCHANGED <<journal, now>>

(* Mutant: a checkpoint counts without a new revision. *)
CheckpointedSameRevision(job, key, response) ==
    WithConnectionThrottle(
        [job EXCEPT
            !.completedRequests = latest.completedRequests + 1,
            !.savedBytes = latest.savedBytes + ByteLength[response],
            !.timings = [latest.timings EXCEPT ![ApiOf[key]] = @ + 1]],
        throttles, latest.retryAt)

(* checkpoint() of a key that has no saved response: the response, the     *)
(* counters and the deadline are written together.                         *)
Checkpointed(job, key, response) ==
    WithConnectionThrottle(
        [NextRevision(job) EXCEPT
            !.completedRequests = latest.completedRequests + 1,
            !.savedBytes = latest.savedBytes + ByteLength[response],
            !.timings = [latest.timings EXCEPT ![ApiOf[key]] = @ + 1]],
        throttles, latest.retryAt)

(* Mutant: the response itself is not counted against the capacity. *)
HasCapacityBefore(response) == latest.savedBytes <= MaxJobBytes

HasCapacity(response) ==
    latest.savedBytes + ByteLength[response] <= MaxJobBytes

(* Mutant: a newer response replaces the saved one. *)
CheckpointNewReplaces(job, key, response) ==
    /\ IsCurrent(job)
    /\ HasCapacity(response)
    /\ latest.revision < MaxRevision
    /\ journal' = (journal \ SavedEntries(job.id, key))
                    \cup {[jobId |-> job.id, key |-> key, response |-> response]}
    /\ latest' = Checkpointed(job, key, response)
    /\ throttles' = Persist(throttles, Checkpointed(job, key, response))
    /\ UNCHANGED now

CheckpointNew(job, key, response) ==
    /\ IsCurrent(job)
    /\ SavedEntries(job.id, key) = {}
    /\ HasCapacity(response)
    /\ latest.revision < MaxRevision
    /\ journal' = journal \cup {[jobId |-> job.id, key |-> key, response |-> response]}
    /\ latest' = Checkpointed(job, key, response)
    /\ throttles' = Persist(throttles, Checkpointed(job, key, response))
    /\ UNCHANGED now

(* checkpoint() of a key already saved with the same response: nothing is  *)
(* counted again, only a later deadline of the client is kept.  A key      *)
(* saved with another response is refused.                                 *)
Recovered(job) == WithConnectionThrottle(latest, throttles, job.retryAt)

(* Mutant: a response that is saved again is counted again. *)
AfterRecoveryCountsAgain(job) ==
    [NextRevision(Recovered(job)) EXCEPT !.completedRequests = @ + 1]

AfterRecovery(job) ==
    IF Recovered(job).retryAt = latest.retryAt THEN latest
    ELSE NextRevision(Recovered(job))

CheckpointAgain(job, key, response) ==
    /\ IsCurrent(job)
    /\ SavedEntries(job.id, key) # {}
    /\ \A entry \in SavedEntries(job.id, key) : entry.response = response
    /\ latest.revision < MaxRevision
    /\ latest' = AfterRecovery(job)
    /\ throttles' = Persist(throttles, Recovered(job))
    /\ UNCHANGED <<journal, now>>

Checkpoint(job, key, response) ==
    \/ CheckpointNew(job, key, response)
    \/ CheckpointAgain(job, key, response)

(* delete(): the deadline of the deleted job outlives it. *)
Delete(jobId) ==
    /\ latest # NoJob
    /\ latest.id = jobId
    /\ latest' = NoJob
    /\ journal' = {}
    /\ throttles' = CarriedThrottles
    /\ UNCHANGED now

Tick ==
    /\ now < MaxTime
    /\ now' = now + 1
    /\ UNCHANGED <<latest, journal, throttles>>

-----------------------------------------------------------------------------
NewJob(id, connection, deadline) ==
    [id |-> id, revision |-> 0, connectionKey |-> connection, status |-> "paused",
     completedRequests |-> 0, savedBytes |-> 0, timings |-> [api \in Apis |-> 0],
     retryAt |-> deadline]

(* The store is empty, or it was written by an older version of the        *)
(* program, which kept the deadline on the job only.                       *)
StoreInit ==
    /\ latest \in {NoJob} \cup
           {NewJob(id, connection, deadline) :
               id \in JobIds, connection \in Connections, deadline \in Deadlines}
    /\ journal = {}
    /\ throttles = [connection \in Connections |-> NoDeadline]
    /\ now = 0

StoreTypeOK ==
    /\ latest \in {NoJob} \cup ReportJob
    /\ journal \in SUBSET JournalEntry
    /\ throttles \in [Connections -> Deadlines]
    /\ now \in 0..MaxTime

-----------------------------------------------------------------------------
EntriesOf(api) == {entry \in journal : ApiOf[entry.key] = api}

(* The counters of the saved job describe the journal: every entry belongs *)
(* to the saved job, there is one entry for a key, and the number of       *)
(* entries of each API and their total are the counters that load() checks *)
(* before it trusts a job (reportJobStore.ts:209) and that the progress    *)
(* and the remaining time are computed from.                               *)
CountersMatchJournal ==
    /\ latest = NoJob => journal = {}
    /\ latest # NoJob =>
        /\ \A entry \in journal : entry.jobId = latest.id
        /\ \A e1, e2 \in journal : e1.key = e2.key => e1 = e2
        /\ \A api \in Apis : latest.timings[api] = Cardinality(EntriesOf(api))
        /\ latest.completedRequests = latest.timings["v2"] + latest.timings["v3"]

(* The bytes of the journal, each one named by its entry and its place.    *)
StoredBytes ==
    UNION {{entry} \X (1..ByteLength[entry.response]) : entry \in journal}

(* The bytes the job accounts for are the bytes of the journal and stay    *)
(* within the capacity of 128 MiB.                                         *)
BytesMatchJournal ==
    latest # NoJob =>
        /\ latest.savedBytes = Cardinality(StoredBytes)
        /\ latest.savedBytes <= MaxJobBytes

(* The deadline before which the API must not be called on a connection.   *)
Deadline(connection) ==
    IF latest # NoJob /\ latest.connectionKey = connection
    THEN Later(latest.retryAt, throttles[connection])
    ELSE throttles[connection]

(* A deadline that has not passed is never shortened or lost, whatever     *)
(* operation runs: replacing or discarding the job, a stale retryAt in a   *)
(* client, an upgrade of the database.                                     *)
NoDeadlineLost ==
    \A connection \in Connections :
        Deadline(connection) > now' => Deadline(connection)' >= Deadline(connection)

(* While a job stays in the store its revision grows with every change,    *)
(* and its journal only grows: a saved response is never replaced.         *)
JournalOnlyGrows ==
    latest # NoJob /\ latest' # NoJob /\ latest'.id = latest.id /\ latest'.revision # 0 =>
        /\ journal \subseteq journal'
        /\ latest' # latest => latest'.revision > latest.revision
        /\ journal' # journal => latest'.completedRequests > latest.completedRequests
=============================================================================
