------------------------- MODULE ReportStoreProofs -------------------------
(***************************************************************************)
(* Theorems about the checkpoint store under arbitrary clients.            *)
(***************************************************************************)
EXTENDS ReportStoreClients, ReportStoreLemmas

(* Changing the status and the deadline of a job gives a job that differs  *)
(* in nothing else.                                                        *)
LEMMA ChangedJobType ==
    ASSUME NEW job \in ReportJob, NEW status \in Statuses, NEW deadline \in Deadlines
    PROVE  LET changed == Changed(job, status, deadline) IN
           /\ changed \in ReportJob
           /\ changed.id = job.id
           /\ changed.revision = job.revision
           /\ changed.connectionKey = job.connectionKey
           /\ changed.timings = job.timings
           /\ changed.completedRequests = job.completedRequests
           /\ changed.savedBytes = job.savedBytes
BY DEF Changed, ReportJob

(* A job a client submits is a job record. *)
LEMMA SubmittedType ==
    ASSUME TypeOK, NEW job \in Submitted
    PROVE  job \in ReportJob
BY ChangedJobType DEF TypeOK, Submitted

LEMMA NewJobType ==
    ASSUME NEW id \in JobIds, NEW connection \in Connections
    PROVE  NewJob(id, connection, NoDeadline) \in ReportJob
BY StoreConstants DEF NewJob, ReportJob, Statuses, Deadlines, NoDeadline

LEMMA SnapshotType ==
    ASSUME NEW job \in ReportJob
    PROVE  /\ Snapshot(job) \in ReportJob
           /\ Snapshot(job).id = job.id
           /\ Snapshot(job).revision = job.revision
           /\ Snapshot(job).connectionKey = job.connectionKey
           /\ Snapshot(job).timings = job.timings
           /\ Snapshot(job).completedRequests = job.completedRequests
           /\ Snapshot(job).savedBytes = job.savedBytes
<1>1. "paused" \in Statuses /\ NoDeadline \in Deadlines
  BY StoreConstants DEF Statuses, Deadlines, NoDeadline
<1> QED BY <1>1, ChangedJobType DEF Snapshot

(* Handing out a job keeps the type of the snapshots. *)
LEMMA HandOutType ==
    ASSUME TypeOK, NEW job \in ReportJob, HandOut(job)
    PROVE  snapshots' \in SUBSET ReportJob
BY SnapshotType DEF HandOut, TypeOK

-----------------------------------------------------------------------------
Inv == TypeOK /\ StoreInv

LEMMA InitInv == Init => Inv
BY StoreInitInv DEF Init, Inv, TypeOK, StoreInv

(* Every step of the clients keeps the type and the counters. *)
LEMMA NextInv == Inv /\ [Next]_vars => Inv'
<1> SUFFICES ASSUME Inv, [Next]_vars PROVE Inv'
  OBVIOUS
<1>1. StoreInv /\ StoreTypeOK /\ snapshots \in SUBSET ReportJob
  BY DEF Inv, TypeOK, StoreInv
<1>2. CASE ClientLoad
  <2>1. StoreInv'
    BY <1>1, <1>2, IdleInv DEF ClientLoad
  <2>2. latest \in ReportJob
    BY <1>1, <1>2 DEF ClientLoad, StoreTypeOK
  <2>3. Loaded \in ReportJob
    BY <1>1, <1>2, <2>2, ThrottledJob, StoreConstants
    DEF ClientLoad, Loaded, StoreTypeOK, Deadlines, NoDeadline
  <2> QED BY <1>2, <2>1, <2>3, HandOutType DEF ClientLoad, Inv, TypeOK, StoreInv
<1>3. CASE ClientCreate
  <2>1. PICK id \in JobIds, connection \in Connections :
            Create(NewJob(id, connection, NoDeadline)) /\ HandOut(latest')
    BY <1>3 DEF ClientCreate
  <2>2. StoreInv' /\ latest' # NoJob
    <3>1. StoreInv'
      BY <1>1, <2>1, NewJobType, CreateInv
    <3>2. latest' \in ReportJob
      BY <1>1, <2>1, NewJobType, CarriedType, ThrottledJob, StoreConstants
      DEF Create, Created, NoDeadline, Deadlines
    <3> QED BY <3>1, <3>2, StoreConstants
  <2> QED BY <2>1, <2>2, HandOutType DEF Inv, TypeOK, StoreInv, StoreTypeOK
<1>4. CASE ClientSave
  <2>1. PICK job \in Submitted : Save(job) /\ HandOut(latest')
    BY <1>4 DEF ClientSave
  <2>2. job \in ReportJob
    BY SubmittedType DEF Inv
  <2>3. StoreInv'
    BY <1>1, <2>1, <2>2, SaveInv
  <2>4. latest' \in ReportJob
    BY <1>1, <2>1, <2>2, SavedType DEF Save, CoversDeadlines
  <2> QED BY <2>1, <2>3, <2>4, HandOutType DEF Inv, TypeOK, StoreInv
<1>5. CASE ClientCheckpoint
  <2>1. PICK job \in Submitted, key \in Keys, response \in Responses :
            Checkpoint(job, key, response) /\ HandOut(latest')
    BY <1>5 DEF ClientCheckpoint
  <2>2. job \in ReportJob
    BY SubmittedType DEF Inv
  <2>3. StoreInv'
    BY <1>1, <2>1, <2>2, CheckpointNewInv, CheckpointAgainInv DEF Checkpoint
  <2>4. latest' \in ReportJob
    BY <1>1, <2>1, <2>2, CheckpointedType, RecoveredType
    DEF Checkpoint, CheckpointNew, CheckpointAgain, CoversDeadlines
  <2> QED BY <2>1, <2>3, <2>4, HandOutType DEF Inv, TypeOK, StoreInv
<1>6. CASE ClientDelete
  BY <1>1, <1>6, DeleteInv DEF ClientDelete, Inv, TypeOK, StoreInv
<1>7. CASE Tick /\ UNCHANGED snapshots
  BY <1>1, <1>7, TickInv DEF Inv, TypeOK, StoreInv
<1>8. CASE UNCHANGED vars
  BY <1>1, <1>8, IdleInv DEF vars, Inv, TypeOK, StoreInv
<1> QED BY <1>2, <1>3, <1>4, <1>5, <1>6, <1>7, <1>8 DEF Next

(* The store and the snapshots are well typed in every state. *)
THEOREM TypeCorrect == Spec => []TypeOK
<1>1. Inv => TypeOK
  BY DEF Inv
<1> QED BY <1>1, InitInv, NextInv, PTL DEF Spec

(* The counters of the saved job describe its journal in every state,      *)
(* whatever clients call the store and however old their snapshots are.    *)
THEOREM CountersCorrect == Spec => []CountersMatchJournal
<1>1. Inv => CountersMatchJournal
  BY DEF Inv, StoreInv
<1> QED BY <1>1, InitInv, NextInv, PTL DEF Spec

(* The bytes the saved job accounts for are the bytes of its journal and   *)
(* fit the capacity, whatever clients call the store: a response is        *)
(* counted once, and one that does not fit is not written.                 *)
THEOREM BytesCorrect == Spec => []BytesMatchJournal
<1>1. Init => BytesInv
  BY InitBytes DEF Init
<1>2. Inv /\ BytesInv /\ [Next]_vars => BytesInv'
  <2> SUFFICES ASSUME Inv, BytesInv, [Next]_vars PROVE BytesInv'
    OBVIOUS
  <2>1. StoreInv
    BY DEF Inv
  <2>2. CASE ClientCreate
    BY <2>1, <2>2, NewJobType, CreateBytes DEF ClientCreate
  <2>3. CASE ClientSave
    BY <2>1, <2>3, SubmittedType, WriteBytes DEF ClientSave, Inv
  <2>4. CASE ClientCheckpoint
    BY <2>1, <2>4, SubmittedType, WriteBytes DEF ClientCheckpoint, Inv
  <2>5. CASE ClientDelete
    BY <2>5, DeleteBytes DEF ClientDelete
  <2>6. CASE UNCHANGED <<latest, journal>>
    BY <2>6, IdleBytes
  <2> QED BY <2>2, <2>3, <2>4, <2>5, <2>6 DEF Next, ClientLoad, Tick, vars, storeVars
<1>3. BytesInv => BytesMatchJournal
  BY DEF BytesInv
<1> QED BY <1>1, <1>2, <1>3, InitInv, NextInv, PTL DEF Spec

-----------------------------------------------------------------------------
(* No step of any client loses or shortens a deadline that has not passed. *)
THEOREM DeadlinesCorrect == Spec => DeadlinesSurvive
<1>1. Inv /\ Inv' /\ [Next]_vars => [NoDeadlineLost]_vars
  <2> SUFFICES ASSUME Inv, Inv', Next PROVE NoDeadlineLost
    OBVIOUS
  <2>1. StoreInv /\ StoreInv'
    BY DEF Inv
  <2>2. CASE ClientLoad
    BY <2>1, <2>2, IdleDeadlines DEF ClientLoad, storeVars
  <2>3. CASE ClientCreate
    BY <2>1, <2>3, NewJobType, CreateDeadlines DEF ClientCreate
  <2>4. CASE ClientSave
    BY <2>1, <2>4, SubmittedType, WriteDeadlines DEF ClientSave, Inv
  <2>5. CASE ClientCheckpoint
    BY <2>1, <2>5, SubmittedType, WriteDeadlines DEF ClientCheckpoint, Inv
  <2>6. CASE ClientDelete
    BY <2>1, <2>6, DeleteDeadlines DEF ClientDelete
  <2>7. CASE Tick /\ UNCHANGED snapshots
    BY <2>1, <2>7, IdleDeadlines DEF Tick
  <2> QED BY <2>2, <2>3, <2>4, <2>5, <2>6, <2>7 DEF Next
<1> QED BY <1>1, InitInv, NextInv, PTL DEF Spec, DeadlinesSurvive

-----------------------------------------------------------------------------
(* Across every step, the journal of a job that stays in the store only    *)
(* grows, and its revision grows with every change.                        *)
THEOREM JournalCorrect == Spec => JournalGrows
<1>1. Inv /\ [Next]_vars => [JournalOnlyGrows]_vars
  <2> SUFFICES ASSUME Inv, Next PROVE JournalOnlyGrows
    OBVIOUS
  <2>1. StoreInv
    BY DEF Inv
  <2>2. CASE UNCHANGED <<latest, journal>>
    BY <2>2 DEF JournalOnlyGrows
  <2>3. CASE ClientCreate
    BY <2>3 DEF ClientCreate, Create, Created, NewJob, WithConnectionThrottle, JournalOnlyGrows
  <2>4. CASE ClientSave \/ ClientCheckpoint
    <3>1. PICK job \in ReportJob :
              \/ Save(job)
              \/ \E key \in Keys, response \in Responses : Checkpoint(job, key, response)
      BY <2>4, SubmittedType DEF ClientSave, ClientCheckpoint, Inv
    <3>2. latest.revision \in Nat /\ latest.completedRequests \in Nat
      BY <2>1, <3>1, WriteShape DEF ReportJob
    <3> QED BY <2>1, <3>1, <3>2, WriteShape DEF JournalOnlyGrows
  <2>5. CASE ClientDelete
    BY <2>5 DEF ClientDelete, Delete, JournalOnlyGrows
  <2> QED BY <2>2, <2>3, <2>4, <2>5 DEF Next, ClientLoad, Tick, storeVars
<1> QED BY <1>1, InitInv, NextInv, PTL DEF Spec, JournalGrows

-----------------------------------------------------------------------------
(* A write of the current job keeps the fence: older snapshots fall behind *)
(* and the snapshot handed out is the saved job.                           *)
LEMMA WriteFence ==
    ASSUME Inv, RevisionIdentifiesJob, NEW job \in ReportJob,
           \/ Save(job)
           \/ \E key \in Keys, response \in Responses : Checkpoint(job, key, response),
           HandOut(latest')
    PROVE  RevisionIdentifiesJob'
<1> SUFFICES ASSUME NEW s \in snapshots', s.id = latest'.id
             PROVE  /\ s.revision <= latest'.revision
                    /\ s.connectionKey = latest'.connectionKey
                    /\ s.revision = latest'.revision =>
                           /\ s.timings = latest'.timings
                           /\ s.completedRequests = latest'.completedRequests
                           /\ s.savedBytes = latest'.savedBytes
  BY DEF RevisionIdentifiesJob
<1>1. /\ latest \in ReportJob /\ latest # NoJob /\ latest' \in ReportJob
      /\ latest'.id = latest.id
      /\ latest'.connectionKey = latest.connectionKey
      /\ latest' # latest => latest'.revision = latest.revision + 1
  BY WriteShape DEF Inv
<1>2. latest.revision \in Nat /\ latest'.revision \in Nat
  BY <1>1 DEF ReportJob
<1>3. CASE s \in snapshots
  <2>1. s.revision \in Nat
    BY <1>3 DEF Inv, TypeOK, ReportJob
  <2> QED BY <1>1, <1>2, <1>3, <2>1 DEF RevisionIdentifiesJob
<1>4. CASE s = Snapshot(latest')
  BY <1>1, <1>2, <1>4, SnapshotType
<1> QED BY <1>3, <1>4 DEF HandOut

(* The revision is a fence: in every state a snapshot of the saved job     *)
(* that carries its revision carries its counters, so that a stale client  *)
(* is always told by the revision.                                         *)
THEOREM RevisionCorrect == Spec => []RevisionIdentifiesJob
<1>1. Init => RevisionIdentifiesJob
  BY DEF Init, RevisionIdentifiesJob
<1>2. Inv /\ RevisionIdentifiesJob /\ [Next]_vars => RevisionIdentifiesJob'
  <2> SUFFICES ASSUME Inv, RevisionIdentifiesJob, [Next]_vars
               PROVE  RevisionIdentifiesJob'
    OBVIOUS
  <2>1. CASE ClientLoad
    <3>1. /\ latest \in ReportJob
          /\ throttles \in [Connections -> Deadlines]
          /\ NoDeadline \in Deadlines
      BY <2>1, StoreConstants
      DEF ClientLoad, Inv, StoreInv, StoreTypeOK, NoDeadline, Deadlines
    <3>2. /\ Loaded \in ReportJob
          /\ Loaded.revision = latest.revision
          /\ Loaded.connectionKey = latest.connectionKey
          /\ Loaded.timings = latest.timings
          /\ Loaded.completedRequests = latest.completedRequests
          /\ Loaded.savedBytes = latest.savedBytes
      BY <2>1, <3>1, ThrottledJob DEF ClientLoad, Loaded, Inv, StoreInv
    <3>3. latest.revision \in Nat
      BY <3>1 DEF ReportJob
    <3> QED BY <2>1, <3>2, <3>3, SnapshotType
            DEF ClientLoad, HandOut, RevisionIdentifiesJob, storeVars
  <2>2. CASE ClientCreate
    <3>1. PICK id \in JobIds, connection \in Connections :
              /\ \A job \in snapshots : job.id # id
              /\ Create(NewJob(id, connection, NoDeadline))
              /\ HandOut(latest')
      BY <2>2 DEF ClientCreate
    <3>2. latest' \in ReportJob /\ latest'.id = id
      <4>1. NewJob(id, connection, NoDeadline) \in ReportJob
        BY NewJobType
      <4>2. NewJob(id, connection, NoDeadline).id = id
        BY DEF NewJob
      <4> QED BY <3>1, <4>1, <4>2, CarriedType, ThrottledJob, StoreConstants
              DEF Create, Created, Inv, StoreInv, NoDeadline, Deadlines
    <3>3. latest'.revision \in Nat
      BY <3>2 DEF ReportJob
    <3> QED BY <3>1, <3>2, <3>3, SnapshotType DEF HandOut, RevisionIdentifiesJob
  <2>3. CASE ClientSave \/ ClientCheckpoint
    <3>1. PICK job \in ReportJob :
              /\ \/ Save(job)
                 \/ \E key \in Keys, response \in Responses : Checkpoint(job, key, response)
              /\ HandOut(latest')
      BY <2>3, SubmittedType DEF ClientSave, ClientCheckpoint, Inv
    <3> QED BY <3>1, WriteFence
  <2>4. CASE ClientDelete
    BY <2>4 DEF ClientDelete, Delete, RevisionIdentifiesJob
  <2>5. CASE UNCHANGED <<latest, snapshots>>
    BY <2>5 DEF RevisionIdentifiesJob
  <2> QED BY <2>1, <2>2, <2>3, <2>4, <2>5 DEF Next, Tick, vars, storeVars
<1> QED BY <1>1, <1>2, InitInv, NextInv, PTL DEF Spec

-----------------------------------------------------------------------------
(* A job that was replaced or deleted is never saved again: a write keeps  *)
(* the id of the saved job, and a new job has an id no client holds.       *)
THEOREM GoneCorrect == Spec => GoneForever
<1>1. Inv /\ [Next]_vars => [GoneStaysGone]_vars
  <2> SUFFICES ASSUME Inv, Next PROVE GoneStaysGone
    OBVIOUS
  <2>1. StoreInv
    BY DEF Inv
  <2>2. CASE UNCHANGED latest
    BY <2>2 DEF GoneStaysGone
  <2>3. CASE ClientCreate
    <3>1. PICK id \in JobIds, connection \in Connections :
              /\ \A job \in snapshots : job.id # id
              /\ Create(NewJob(id, connection, NoDeadline))
      BY <2>3 DEF ClientCreate
    <3>2. latest'.id = id
      <4>1. NewJob(id, connection, NoDeadline) \in ReportJob
        BY NewJobType
      <4>2. NewJob(id, connection, NoDeadline).id = id
        BY DEF NewJob
      <4> QED BY <2>1, <3>1, <4>1, <4>2, CarriedType, ThrottledJob, StoreConstants
              DEF Create, Created, StoreInv, NoDeadline, Deadlines
    <3> QED BY <3>1, <3>2 DEF GoneStaysGone
  <2>4. CASE ClientSave \/ ClientCheckpoint
    <3>1. PICK job \in ReportJob :
              \/ Save(job)
              \/ \E key \in Keys, response \in Responses : Checkpoint(job, key, response)
      BY <2>4, SubmittedType DEF ClientSave, ClientCheckpoint, Inv
    <3>2. latest # NoJob /\ latest'.id = latest.id
      BY <2>1, <3>1, WriteShape
    <3> QED BY <3>2 DEF GoneStaysGone
  <2>5. CASE ClientDelete
    BY <2>5 DEF ClientDelete, Delete, GoneStaysGone
  <2> QED BY <2>2, <2>3, <2>4, <2>5 DEF Next, ClientLoad, Tick, storeVars
<1> QED BY <1>1, InitInv, NextInv, PTL DEF Spec, GoneForever
=============================================================================
