------------------------- MODULE ReportStoreClients -------------------------
(***************************************************************************)
(* The checkpoint store under any number of clients.  A client submits a   *)
(* job it once received from the store, with the status and the deadline   *)
(* it likes: nothing is assumed about locks or about the order in which    *)
(* the clients call, so a snapshot may be arbitrarily old.                 *)
(***************************************************************************)
EXTENDS ReportJobStore

VARIABLE snapshots  \* the jobs the store has handed out

vars == <<storeVars, snapshots>>

(* A client changes the status and the deadline of a snapshot: the only    *)
(* fields the callers of save and checkpoint change.                       *)
Changed(job, status, deadline) ==
    [job EXCEPT !.status = status, !.retryAt = deadline]

Submitted ==
    {Changed(job, status, deadline) :
        job \in snapshots, status \in Statuses, deadline \in Deadlines}

(* Of a snapshot, only what the client cannot change is kept. *)
Snapshot(job) == Changed(job, "paused", NoDeadline)

HandOut(job) == snapshots' = snapshots \cup {Snapshot(job)}

Init ==
    /\ StoreInit
    /\ snapshots = {}

ClientLoad ==
    /\ latest # NoJob
    /\ HandOut(Loaded)
    /\ UNCHANGED storeVars

(* Job ids are unique: an id that was handed out is not created again. *)
ClientCreate ==
    \E id \in JobIds, connection \in Connections :
        /\ \A job \in snapshots : job.id # id
        /\ latest # NoJob => latest.id # id
        /\ Create(NewJob(id, connection, NoDeadline))
        /\ HandOut(latest')

ClientSave == \E job \in Submitted : Save(job) /\ HandOut(latest')

ClientCheckpoint ==
    \E job \in Submitted, key \in Keys, response \in Responses :
        Checkpoint(job, key, response) /\ HandOut(latest')

ClientDelete ==
    \E id \in JobIds : Delete(id) /\ UNCHANGED snapshots

Next ==
    \/ ClientLoad
    \/ ClientCreate
    \/ ClientSave
    \/ ClientCheckpoint
    \/ ClientDelete
    \/ Tick /\ UNCHANGED snapshots

Spec == Init /\ [][Next]_vars

-----------------------------------------------------------------------------
TypeOK ==
    /\ StoreTypeOK
    /\ snapshots \in SUBSET ReportJob

(* A snapshot with the revision of the saved job has its counters and its  *)
(* identity: the revision alone tells a client that nothing has changed.   *)
RevisionIdentifiesJob ==
    \A job \in snapshots :
        latest # NoJob /\ job.id = latest.id =>
            /\ job.revision <= latest.revision
            /\ job.connectionKey = latest.connectionKey
            /\ job.revision = latest.revision =>
                   /\ job.timings = latest.timings
                   /\ job.completedRequests = latest.completedRequests
                   /\ job.savedBytes = latest.savedBytes

(* A job that is replaced or deleted never comes back, whatever a client   *)
(* that still holds it submits later.                                      *)
GoneStaysGone ==
    latest' # NoJob /\ (latest = NoJob \/ latest.id # latest'.id) =>
        \A job \in snapshots : job.id # latest'.id

DeadlinesSurvive == [][NoDeadlineLost]_vars
JournalGrows == [][JournalOnlyGrows]_vars
GoneForever == [][GoneStaysGone]_vars
=============================================================================
