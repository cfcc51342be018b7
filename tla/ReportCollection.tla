-------------------------- MODULE ReportCollection --------------------------
(***************************************************************************)
(* The browser tabs that collect one resumable report: the hook            *)
(* useReportJob (src/hooks/useReportJob.ts) with its Web Lock, and the     *)
(* runner runReportJob (src/reports/resumable/reportJobRunner.ts) with its *)
(* serial transport and the waits of the API clients, over the store of    *)
(* ReportJobStore.                                                         *)
(*                                                                         *)
(* An action is the code between two awaits: it ends an asynchronous       *)
(* operation (a transaction, a fetch, a timer, the callback of the page)   *)
(* and runs to the next one.  A transaction that is under way holds the    *)
(* job it was called with, in "arg": the variable "job" of the runner may  *)
(* change before it commits.                                               *)
(***************************************************************************)
EXTENDS ReportJobStore

CONSTANTS
    Tabs,          \* open or closed pages
    ConnectionOf,  \* the connection of the credentials held by a tab
    MaxLanes,      \* reads a collector has outstanding (Promise.all)
    MaxRetries,    \* MAX_IDEMPOTENT_RETRIES of the v3 client
    None           \* no tab, job, key or response

ASSUME CollectionConstants ==
    /\ ConnectionOf \in [Tabs -> Connections]
    /\ MaxLanes \in Nat /\ MaxRetries \in Nat
    /\ NoJob = None
    /\ None \notin Tabs \cup JobIds \cup Keys \cup Responses

VARIABLES
    lock,      \* the holder of the Web Lock "stack-report-job"
    tab,       \* the state of each page
    ghosts,    \* waits that outlive their run
    usedIds    \* the job ids of the past: they are never used twice

vars == <<storeVars, lock, tab, ghosts, usedIds>>
stored == <<storeVars, usedIds>>

Phases ==
    {"closed", "hydrating", "claiming", "normalizing", "pausing", "idle",
     "starting", "creating", "resuming", "opening", "collecting", "closing",
     "delivering", "failing", "settling", "discarding", "deleting"}

(* The phases in which the lock is held. *)
Exclusive == Phases \ {"closed", "hydrating", "claiming", "idle"}

(* The phases of begin(), which pause() aborts. *)
Runs == {"starting", "creating", "resuming", "opening", "collecting", "closing",
         "delivering", "failing", "settling"}

Waits == {"none", "sleeping", "setting", "clearing"}
Reads == {"none", "lookup", "sleeping", "clearing", "fetching", "saving", "deferring"}

NoWait == [step |-> "none", arg |-> None]
NoRead == [step |-> "none", key |-> None, arg |-> None, response |-> None, owes |-> FALSE]
NothingGot == [key \in Keys |-> None]

(* A page that runs nothing and shows the job with id "seen". *)
Page(phase, seen) ==
    [phase |-> phase, seen |-> seen, aborted |-> FALSE,
     job |-> None, arg |-> None, stopped |-> FALSE, got |-> NothingGot,
     reader |-> NoRead, queue |-> {}, waiter |-> NoWait, wanted |-> {},
     pending |-> FALSE, retries |-> 0]

Init ==
    /\ StoreInit
    /\ usedIds = IF latest = NoJob THEN {} ELSE {latest.id}
    /\ lock = None
    /\ tab = [t \in Tabs |-> Page("closed", None)]
    /\ ghosts = {}

-----------------------------------------------------------------------------
(* Transactions and the lock *)

At(t, phase) == tab[t].phase = phase

Become(t, page) == tab' = [tab EXCEPT ![t] = page]

(* Every transaction may fail: the storage refuses it, or the job is no    *)
(* longer current.                                                         *)
Refused == UNCHANGED stored
Saves(job) == Save(job) /\ UNCHANGED usedIds
Loads == UNCHANGED stored

Acquire(t) == lock = None /\ lock' = t

(* Mutant: the lock is kept when the callback throws or returns early. *)
LeaveLocked(t, seen) ==
    /\ Become(t, Page("idle", seen))
    /\ UNCHANGED <<lock, ghosts>>

(* runExclusive returns or throws: the page is idle again. *)
Leave(t, seen) ==
    /\ Become(t, Page("idle", seen))
    /\ lock' = None
    /\ UNCHANGED ghosts

ShownId == IF latest = NoJob THEN None ELSE latest.id

-----------------------------------------------------------------------------
(* Hydration: a job left "running" by a tab that is gone becomes "paused". *)

Open(t) ==
    /\ At(t, "closed")
    /\ Become(t, Page("hydrating", None))
    /\ UNCHANGED <<stored, lock, ghosts>>

Hydrate(t) ==
    /\ At(t, "hydrating")
    /\ \/ /\ Loads
          /\ IF latest # NoJob /\ latest.status = "running"
             THEN Become(t, Page("claiming", ShownId))
             ELSE Become(t, Page("idle", ShownId))
       \/ Refused /\ Become(t, Page("idle", None))
    /\ UNCHANGED <<lock, ghosts>>

Claim(t) ==
    /\ At(t, "claiming")
    /\ \/ Acquire(t) /\ Become(t, Page("normalizing", tab[t].seen))
       \/ lock # None /\ UNCHANGED lock /\ Become(t, Page("idle", tab[t].seen))
    /\ UNCHANGED <<stored, ghosts>>

Normalize(t) ==
    /\ At(t, "normalizing")
    /\ \/ /\ Loads
          /\ IF latest # NoJob /\ latest.status = "running"
             THEN /\ Become(t, [tab[t] EXCEPT !.phase = "pausing",
                                              !.arg = [Loaded EXCEPT !.status = "paused"]])
                  /\ UNCHANGED <<lock, ghosts>>
             ELSE Leave(t, ShownId)
       \/ Refused /\ Leave(t, tab[t].seen)

NormalizeCommit(t) ==
    /\ At(t, "pausing")
    /\ \/ Saves(tab[t].arg) /\ Leave(t, tab[t].arg.id)
       \/ Refused /\ Leave(t, tab[t].seen)

-----------------------------------------------------------------------------
(* start() and resume() up to the first save of the runner.                *)

Begin(t) ==
    /\ At(t, "idle")
    /\ Acquire(t)
    /\ \E phase \in {"starting", "resuming"} : Become(t, Page(phase, tab[t].seen))
    /\ UNCHANGED <<stored, ghosts>>

(* The runner marks the job as running before it reads anything. *)
Opening(page, job) ==
    [page EXCEPT !.phase = "opening", !.seen = job.id,
                 !.job = [job EXCEPT !.status = "running"],
                 !.arg = [job EXCEPT !.status = "running"]]

(* Mutants: a start does not look at the status of the saved job; a new    *)
(* job gets an id that was used before.                                    *)
StartLoadAnyStatus(t) ==
    /\ At(t, "starting")
    /\ \/ /\ Loads
          /\ ~tab[t].aborted
          /\ \E id \in JobIds :
                /\ id \notin usedIds
                /\ Become(t, [tab[t] EXCEPT
                       !.phase = "creating",
                       !.arg = NewJob(id, ConnectionOf[t], NoDeadline)])
          /\ UNCHANGED <<lock, ghosts>>
       \/ Refused /\ Leave(t, tab[t].seen)

StartLoadUsedId(t) ==
    /\ At(t, "starting")
    /\ \/ /\ Loads
          /\ ~tab[t].aborted
          /\ latest # NoJob => latest.status = "complete"
          /\ \E id \in JobIds :
                Become(t, [tab[t] EXCEPT
                    !.phase = "creating",
                    !.arg = NewJob(id, ConnectionOf[t], NoDeadline)])
          /\ UNCHANGED <<lock, ghosts>>
       \/ Refused /\ Leave(t, tab[t].seen)

StartLoad(t) ==
    /\ At(t, "starting")
    /\ \/ /\ Loads
          /\ ~tab[t].aborted
          /\ latest # NoJob => latest.status = "complete"
          /\ \E id \in JobIds :
                /\ id \notin usedIds
                /\ Become(t, [tab[t] EXCEPT
                       !.phase = "creating",
                       !.arg = NewJob(id, ConnectionOf[t], NoDeadline)])
          /\ UNCHANGED <<lock, ghosts>>
       \/ /\ Loads
          /\ tab[t].aborted \/ (latest # NoJob /\ latest.status # "complete")
          /\ Leave(t, tab[t].seen)
       \/ Refused /\ Leave(t, tab[t].seen)

CreateCommit(t) ==
    /\ At(t, "creating")
    /\ \/ /\ Create(tab[t].arg)
          /\ usedIds' = usedIds \cup {tab[t].arg.id}
          /\ IF tab[t].aborted THEN Leave(t, latest'.id)
             ELSE /\ Become(t, Opening(tab[t], latest'))
                  /\ UNCHANGED <<lock, ghosts>>
       \/ Refused /\ Leave(t, tab[t].seen)

MayResume(t) ==
    /\ ~tab[t].aborted
    /\ latest # NoJob
    /\ tab[t].seen \in {None, latest.id}

ResumeLoad(t) ==
    /\ At(t, "resuming")
    /\ \/ /\ Loads
          /\ MayResume(t)
          /\ IF latest.connectionKey = ConnectionOf[t]
             THEN Become(t, Opening(tab[t], Loaded)) /\ UNCHANGED <<lock, ghosts>>
             ELSE Leave(t, latest.id)
       \/ Loads /\ ~MayResume(t) /\ Leave(t, tab[t].seen)
       \/ Refused /\ Leave(t, tab[t].seen)

(* An error in the runner: reads that are queued fail at once, and so do   *)
(* the requests that a wait holds back.                                    *)
Stop(page) == [page EXCEPT !.stopped = TRUE, !.queue = {}, !.wanted = {}]

OpenCommit(t) ==
    /\ At(t, "opening")
    /\ LET collecting == [tab[t] EXCEPT !.phase = "collecting", !.arg = None] IN
       \/ Saves(tab[t].arg) /\ Become(t, [collecting EXCEPT !.job = latest'])
       \/ Refused /\ Become(t, Stop(collecting))
    /\ UNCHANGED <<lock, ghosts>>

-----------------------------------------------------------------------------
(* Waiting for the deadline of the job. "sleeping" is a timer, "setting"   *)
(* and "clearing" are saves of the deadline.                               *)

Inactive(page) == page.aborted \/ page.stopped
Delays == 0..(MaxTime - now)
Raise(job, delay) == [job EXCEPT !.retryAt = IF delay = 0 THEN @ ELSE Later(@, now + delay)]
Cleared(page) == [page EXCEPT !.job.retryAt = NoDeadline]

StopRead(page) == Stop([page EXCEPT !.reader = NoRead])
StopWait(page) == Stop([page EXCEPT !.waiter = NoWait])

Fetch(page) ==
    IF Inactive(page) THEN StopRead(page) ELSE [page EXCEPT !.reader.step = "fetching"]

(* Mutant: a read leaves the waiting to a wait that is under way. *)
ReadWhenDueUnlessWaiting(page) ==
    CASE page.job.retryAt > now /\ page.waiter = NoWait ->
            IF Inactive(page) THEN StopRead(page)
            ELSE [page EXCEPT !.reader.step = "sleeping"]
      [] page.job.retryAt \in 1..now ->
            [Cleared(page) EXCEPT !.reader.step = "clearing",
                                  !.reader.arg = Cleared(page).job]
      [] OTHER -> Fetch(page)

(* Mutant: a read waits only for a deadline that has just passed. *)
ReadWhenDueEarly(page) ==
    CASE page.job.retryAt > now + 1 ->
            IF Inactive(page) THEN StopRead(page)
            ELSE [page EXCEPT !.reader.step = "sleeping"]
      [] page.job.retryAt \in 1..now ->
            [Cleared(page) EXCEPT !.reader.step = "clearing",
                                  !.reader.arg = Cleared(page).job]
      [] OTHER -> Fetch(page)

(* waitForDeadline, then the fetch, in read(). *)
ReadWhenDue(page) ==
    CASE page.job.retryAt > now ->
            IF Inactive(page) THEN StopRead(page)
            ELSE [page EXCEPT !.reader.step = "sleeping"]
      [] page.job.retryAt \in 1..now ->
            [Cleared(page) EXCEPT !.reader.step = "clearing",
                                  !.reader.arg = Cleared(page).job]
      [] OTHER -> Fetch(page)

(* The requests that a wait held back go to the transport. *)
EndWait(page) ==
    [page EXCEPT !.waiter = NoWait, !.queue = @ \cup page.wanted, !.wanted = {}]

(* waitForDeadline in waitFn. *)
WaitUntilDue(page) ==
    CASE page.job.retryAt > now ->
            IF Inactive(page) THEN StopWait(page)
            ELSE [page EXCEPT !.waiter.step = "sleeping"]
      [] page.job.retryAt \in 1..now ->
            [Cleared(page) EXCEPT !.waiter = [step |-> "clearing", arg |-> Cleared(page).job]]
      [] OTHER -> EndWait(page)

(* waitFn(delay) *)
StartWait(page, delay) ==
    LET due == Raise(page.job, delay) IN
    CASE Inactive(page) -> StopWait(page)
      [] ~Inactive(page) /\ page.job.retryAt = NoDeadline ->
            [page EXCEPT !.job = due, !.waiter = [step |-> "setting", arg |-> due]]
      [] OTHER -> WaitUntilDue(page)

WaiterCommit(t) ==
    /\ tab[t].waiter.step \in {"setting", "clearing"}
    /\ \/ /\ Saves(tab[t].waiter.arg)
          /\ LET page == [tab[t] EXCEPT !.job = latest'] IN
             Become(t, IF page.waiter.step = "setting" THEN WaitUntilDue(page)
                                                       ELSE EndWait(page))
       \/ Refused /\ Become(t, StopWait(tab[t]))
    /\ UNCHANGED <<lock, ghosts>>

(* The timer of a wait ends: at the deadline, after a part of a long wait, *)
(* or because the run is aborted.                                          *)
WaiterWakes(t) ==
    /\ tab[t].waiter.step = "sleeping"
    /\ \/ tab[t].aborted /\ Become(t, StopWait(tab[t]))
       \/ /\ ~tab[t].aborted
          /\ tab[t].stopped \/ tab[t].job.retryAt <= now
          /\ Become(t, WaitUntilDue(tab[t]))
    /\ UNCHANGED <<stored, lock, ghosts>>

-----------------------------------------------------------------------------
(* The transport: one read at a time                                       *)

(* A collector asks for a key. Only v2 requests are made side by side.  A  *)
(* v2 client that was told to back off waits before its next request, and  *)
(* requests made during a wait share it.                                   *)
Outstanding(page) == page.queue \cup page.wanted \cup ({page.reader.key} \ {None})

Ask(t) ==
    /\ At(t, "collecting")
    /\ ~Inactive(tab[t])
    /\ \E key \in Keys :
        /\ tab[t].got[key] = None
        /\ key \notin Outstanding(tab[t])
        /\ Cardinality(Outstanding(tab[t])) < MaxLanes
        /\ \A other \in Outstanding(tab[t]) : ApiOf[key] = "v2" /\ ApiOf[other] = "v2"
        /\ LET fresh == [tab[t] EXCEPT !.retries = 0]
               held == [fresh EXCEPT !.wanted = @ \cup {key}]
               sent == [fresh EXCEPT !.queue = @ \cup {key}]
               owes == ApiOf[key] = "v2" /\ tab[t].pending
           IN \/ tab[t].waiter # NoWait /\ Become(t, held)
              \/ tab[t].waiter = NoWait /\ ~owes /\ Become(t, sent)
              \/ /\ tab[t].waiter = NoWait /\ owes
                 /\ \E delay \in Delays :
                        Become(t, StartWait([held EXCEPT !.pending = FALSE], delay))
              \/ \* a client made for the next part of the report owes nothing
                 /\ owes /\ Outstanding(tab[t]) = {}
                 /\ Become(t, [sent EXCEPT !.pending = FALSE])
    /\ UNCHANGED <<stored, lock, ghosts>>

(* A collector throws, or the run is found to be aborted. *)
CollectorFails(t) ==
    /\ At(t, "collecting")
    /\ ~tab[t].stopped
    /\ Become(t, Stop(tab[t]))
    /\ UNCHANGED <<stored, lock, ghosts>>

TakeRead(t) ==
    /\ tab[t].reader = NoRead
    /\ \E key \in tab[t].queue :
        LET page == [tab[t] EXCEPT !.queue = @ \ {key}] IN
        Become(t, IF Inactive(page) THEN Stop(page)
                  ELSE [page EXCEPT !.reader.step = "lookup", !.reader.key = key])
    /\ UNCHANGED <<stored, lock, ghosts>>

Received(page, response) ==
    [page EXCEPT !.reader = NoRead, !.got[page.reader.key] = response,
                 !.pending = @ \/ page.reader.owes]

Lookup(t) ==
    /\ tab[t].reader.step = "lookup"
    /\ LET page == tab[t]
           saved == SavedEntries(page.job.id, page.reader.key)
       IN \/ Become(t, StopRead(page))
          \/ /\ ~Inactive(page)
             /\ \E entry \in saved : Become(t, Received(page, entry.response))
          \/ /\ ~Inactive(page)
             /\ saved = {}
             /\ Become(t, ReadWhenDue(page))
    /\ UNCHANGED <<stored, lock, ghosts>>

ReaderWakes(t) ==
    /\ tab[t].reader.step = "sleeping"
    /\ \/ tab[t].aborted /\ Become(t, StopRead(tab[t]))
       \/ /\ ~tab[t].aborted
          /\ tab[t].stopped \/ tab[t].job.retryAt <= now
          /\ Become(t, ReadWhenDue(tab[t]))
    /\ UNCHANGED <<stored, lock, ghosts>>

ReaderClears(t) ==
    /\ tab[t].reader.step = "clearing"
    /\ \/ /\ Saves(tab[t].reader.arg)
          /\ Become(t, Fetch([tab[t] EXCEPT !.job = latest', !.reader.arg = None]))
       \/ Refused /\ Become(t, StopRead(tab[t]))
    /\ UNCHANGED <<lock, ghosts>>

(* A reply that is no success ends the collector, or the v3 client waits   *)
(* and asks again.                                                         *)
Rejected(page) ==
    LET key == page.reader.key
        free == [page EXCEPT !.reader = NoRead]
    IN {Stop(free)} \cup
       IF ApiOf[key] = "v3" /\ page.retries < MaxRetries
       THEN {StartWait([free EXCEPT !.retries = @ + 1, !.wanted = {key}], delay) :
                 delay \in Delays}
       ELSE {}

(* The reply of the API through /api/reports/read.  A delay it asks for is *)
(* noted before the reply is looked at.                                    *)
Reply(t) ==
    /\ tab[t].reader.step = "fetching"
    /\ \/ Become(t, StopRead(tab[t]))  \* no valid reply, or inactive
       \/ /\ ~Inactive(tab[t])
          /\ \E delay \in Delays :
             LET page == [tab[t] EXCEPT !.job = Raise(@, delay)]
                 api == ApiOf[page.reader.key]
             IN \/ Become(t, StopRead(page))  \* not the page that was asked for
                \/ \E response \in Responses, owes \in BOOLEAN :
                    /\ owes => api = "v2"
                    /\ delay > 0 /\ api = "v2" => owes
                    /\ Become(t, [page EXCEPT !.reader.step = "saving",
                                              !.reader.arg = page.job,
                                              !.reader.response = response,
                                              !.reader.owes = owes])
                \/ /\ delay > 0
                   /\ Become(t, [page EXCEPT !.reader.step = "deferring",
                                             !.reader.arg = page.job])
                \/ /\ delay = 0
                   /\ \E next \in Rejected(page) : Become(t, next)
    /\ UNCHANGED <<stored, lock, ghosts>>

(* Mutant: the collector gets a response whose checkpoint failed. *)
ReaderCheckpointsLater(t) ==
    /\ tab[t].reader.step = "saving"
    /\ LET read == tab[t].reader IN
       \/ /\ Checkpoint(read.arg, read.key, read.response)
          /\ UNCHANGED usedIds
          /\ Become(t, Received([tab[t] EXCEPT !.job = latest'], read.response))
       \/ Refused /\ Become(t, Received(tab[t], read.response))
    /\ UNCHANGED <<lock, ghosts>>

(* Only a response that is saved is handed to the collector. *)
ReaderCheckpoints(t) ==
    /\ tab[t].reader.step = "saving"
    /\ LET read == tab[t].reader IN
       \/ /\ Checkpoint(read.arg, read.key, read.response)
          /\ UNCHANGED usedIds
          /\ LET page == [tab[t] EXCEPT !.job = latest'] IN
             Become(t, IF Inactive(page) THEN StopRead(page)
                       ELSE Received(page, read.response))
       \/ Refused /\ Become(t, StopRead(tab[t]))
    /\ UNCHANGED <<lock, ghosts>>

ReaderDefers(t) ==
    /\ tab[t].reader.step = "deferring"
    /\ \/ /\ Saves(tab[t].reader.arg)
          /\ LET page == [tab[t] EXCEPT !.job = latest'] IN
             \E next \in IF Inactive(page) THEN {StopRead(page)} ELSE Rejected(page) :
                 Become(t, next)
       \/ Refused /\ Become(t, StopRead(tab[t]))
    /\ UNCHANGED <<lock, ghosts>>

-----------------------------------------------------------------------------
(* The end of a run                                                        *)

WithStatus(page, phase, status) ==
    [page EXCEPT !.phase = phase, !.job.status = status,
                 !.arg = [page.job EXCEPT !.status = status]]

Finish(t) ==
    /\ At(t, "collecting")
    /\ ~Inactive(tab[t])
    /\ \A key \in Keys : tab[t].got[key] # None
    /\ tab[t].waiter = NoWait
    /\ Become(t, WithStatus(tab[t], "closing", "complete"))
    /\ UNCHANGED <<stored, lock, ghosts>>

(* Mutant: a failure to save the completion is ignored. *)
FinishCommitAnyway(t) ==
    /\ At(t, "closing")
    /\ Saves(tab[t].arg) \/ Refused
    /\ Become(t, IF Inactive(tab[t]) THEN Stop([tab[t] EXCEPT !.phase = "collecting"])
                 ELSE [tab[t] EXCEPT !.phase = "delivering", !.arg = None])
    /\ UNCHANGED <<lock, ghosts>>

(* The results go to the page only when their completion is saved. *)
FinishCommit(t) ==
    /\ At(t, "closing")
    /\ \/ /\ Saves(tab[t].arg)
          /\ LET page == [tab[t] EXCEPT !.job = latest'] IN
             Become(t, IF Inactive(page) THEN Stop([page EXCEPT !.phase = "collecting"])
                       ELSE [page EXCEPT !.phase = "delivering", !.arg = None])
       \/ Refused /\ Become(t, Stop([tab[t] EXCEPT !.phase = "collecting"]))
    /\ UNCHANGED <<lock, ghosts>>

Delivered(t) ==
    /\ At(t, "delivering")
    /\ \/ Leave(t, tab[t].seen)
       \/ /\ Become(t, WithStatus(tab[t], "failing", "failed"))
          /\ UNCHANGED <<lock, ghosts>>
    /\ UNCHANGED stored

DeliveryFailed(t) ==
    /\ At(t, "failing")
    /\ Saves(tab[t].arg) \/ Refused
    /\ Leave(t, tab[t].seen)

(* The error path waits for the read under way, never for a wait.          *)
Settle(t) ==
    /\ At(t, "collecting")
    /\ tab[t].stopped
    /\ tab[t].reader = NoRead
    /\ Become(t, WithStatus(tab[t], "settling",
                            IF tab[t].aborted THEN "paused" ELSE "failed"))
    /\ UNCHANGED <<stored, lock, ghosts>>

(* What a wait still does after its run: it sleeps with the last job of    *)
(* the run, or its save is under way.                                      *)
Survivors(t, job) ==
    CASE tab[t].waiter.step = "none" -> {}
      [] tab[t].waiter.step = "sleeping" ->
            {[tab |-> t, saving |-> FALSE, aborted |-> tab[t].aborted, job |-> job]}
      [] OTHER ->
            {[tab |-> t, saving |-> TRUE, aborted |-> tab[t].aborted, job |-> tab[t].waiter.arg]}

(* Mutant: the final save is repeated until it succeeds. *)
SettleCommitRetries(t) ==
    /\ At(t, "settling")
    /\ \/ /\ Saves(tab[t].arg)
          /\ ghosts' = ghosts \cup Survivors(t, latest')
          /\ Become(t, Page("idle", tab[t].seen))
          /\ lock' = None
       \/ Refused /\ UNCHANGED <<tab, lock, ghosts>>

SettleCommit(t) ==
    /\ At(t, "settling")
    /\ \/ Saves(tab[t].arg) /\ ghosts' = ghosts \cup Survivors(t, latest')
       \/ Refused /\ ghosts' = ghosts \cup Survivors(t, tab[t].job)
    /\ Become(t, Page("idle", tab[t].seen))
    /\ lock' = None

(* A wait without its run: its next check of the run throws, but there is  *)
(* none between the deadline and the save that clears it.                  *)
GhostStep ==
    \E ghost \in ghosts :
        /\ \/ /\ ghost.saving
              /\ Saves(ghost.job) \/ Refused
              /\ ghosts' = ghosts \ {ghost}
           \/ /\ ~ghost.saving
              /\ \/ ghosts' = ghosts \ {ghost}
                 \/ /\ ~ghost.aborted
                    /\ ghost.job.retryAt \in 1..now
                    /\ ghosts' = (ghosts \ {ghost}) \cup
                           {[ghost EXCEPT !.saving = TRUE, !.job.retryAt = NoDeadline]}
              /\ UNCHANGED stored
        /\ UNCHANGED <<lock, tab>>

-----------------------------------------------------------------------------
(* The user and the browser                                                *)

(* pause(), or the page is hidden or offline *)
Abort(t) ==
    /\ tab[t].phase \in Runs
    /\ ~tab[t].aborted
    /\ Become(t, [tab[t] EXCEPT !.aborted = TRUE])
    /\ UNCHANGED <<stored, lock, ghosts>>

(* discard(): the run, if any, is aborted and over. *)
Discard(t) ==
    /\ At(t, "idle")
    /\ tab[t].seen # None
    /\ Acquire(t)
    /\ Become(t, Page("discarding", tab[t].seen))
    /\ UNCHANGED <<stored, ghosts>>

DiscardLoad(t) ==
    /\ At(t, "discarding")
    /\ \/ /\ Loads
          /\ IF latest # NoJob /\ latest.id # tab[t].seen
             THEN Leave(t, tab[t].seen)
             ELSE /\ Become(t, [tab[t] EXCEPT !.phase = "deleting"])
                  /\ UNCHANGED <<lock, ghosts>>
       \/ Refused /\ Leave(t, tab[t].seen)

DiscardCommit(t) ==
    /\ At(t, "deleting")
    /\ \/ Delete(tab[t].seen) /\ UNCHANGED usedIds /\ Leave(t, None)
       \/ ShownId # tab[t].seen /\ UNCHANGED stored /\ Leave(t, None)
       \/ Refused /\ Leave(t, tab[t].seen)

(* The page is closed or the browser stops: the lock is released, what is  *)
(* not committed is lost.                                                  *)
Crash(t) ==
    /\ tab[t].phase # "closed"
    /\ Become(t, Page("closed", None))
    /\ lock' = IF lock = t THEN None ELSE lock
    /\ ghosts' = {ghost \in ghosts : ghost.tab # t}
    /\ UNCHANGED stored

-----------------------------------------------------------------------------
Collecting(t) ==
    \/ Ask(t) \/ CollectorFails(t) \/ TakeRead(t) \/ Lookup(t)
    \/ ReaderWakes(t) \/ ReaderClears(t) \/ Reply(t)
    \/ ReaderCheckpoints(t) \/ ReaderDefers(t)
    \/ WaiterWakes(t) \/ WaiterCommit(t)

(* What the program does by itself; the rest is up to the user. *)
Works(t) ==
    \/ Hydrate(t) \/ Claim(t) \/ Normalize(t) \/ NormalizeCommit(t)
    \/ StartLoad(t) \/ CreateCommit(t) \/ ResumeLoad(t) \/ OpenCommit(t)
    \/ Collecting(t)
    \/ Finish(t) \/ FinishCommit(t) \/ Delivered(t) \/ DeliveryFailed(t)
    \/ Settle(t) \/ SettleCommit(t)
    \/ DiscardLoad(t) \/ DiscardCommit(t)

Next ==
    \/ \E t \in Tabs :
        Open(t) \/ Begin(t) \/ Discard(t) \/ Abort(t) \/ Crash(t) \/ Works(t)
    \/ GhostStep
    \/ Tick /\ UNCHANGED <<lock, tab, ghosts, usedIds>>

Spec == Init /\ [][Next]_vars

(* Transactions, timers and replies end, and the clock runs.               *)
Fairness ==
    /\ WF_vars(Tick /\ UNCHANGED <<lock, tab, ghosts, usedIds>>)
    /\ \A t \in Tabs : WF_vars(Works(t))

FairSpec == Spec /\ Fairness

-----------------------------------------------------------------------------
JobOrNone == {None} \cup ReportJob

PageType ==
    [phase: Phases, seen: JobIds \cup {None}, aborted: BOOLEAN,
     job: JobOrNone, arg: JobOrNone, stopped: BOOLEAN,
     got: [Keys -> Responses \cup {None}],
     reader: [step: Reads, key: Keys \cup {None}, arg: JobOrNone,
              response: Responses \cup {None}, owes: BOOLEAN],
     queue: SUBSET Keys, waiter: [step: Waits, arg: JobOrNone],
     wanted: SUBSET Keys, pending: BOOLEAN, retries: 0..MaxRetries]

(* The types of the state, and the lock is held exactly by the tab that is *)
(* inside the callback of runExclusive.                                    *)
TypeOK ==
    /\ StoreTypeOK
    /\ usedIds \in SUBSET JobIds
    /\ tab \in [Tabs -> PageType]
    /\ ghosts \in SUBSET [tab: Tabs, saving: BOOLEAN, aborted: BOOLEAN, job: ReportJob]
    /\ lock \in Tabs \cup {None}
    /\ \A t \in Tabs : (lock = t) <=> (tab[t].phase \in Exclusive)

(* What a collector has received is in the journal of its job: a crash, a  *)
(* pause or a failure never takes back a read the report was built from    *)
(* (README.md:82 "checkpointed individually in IndexedDB before collection *)
(* advances").                                                             *)
CollectedIsSaved ==
    \A t \in Tabs, key \in Keys :
        tab[t].got[key] # None =>
            [jobId |-> tab[t].job.id, key |-> key, response |-> tab[t].got[key]] \in journal

(* While a run collects, the saved job is the one it works on, at its      *)
(* revision and with its counters: neither another tab, nor a wait left    *)
(* behind by an earlier run, nor a save of the run itself moves the job    *)
(* under a collector that goes on.                                         *)
CollectorIsCurrent ==
    \A t \in Tabs :
        At(t, "collecting") /\ ~tab[t].stopped =>
            /\ latest # NoJob
            /\ latest.id = tab[t].job.id
            /\ latest.status = "running"
            /\ latest.revision = tab[t].job.revision
            /\ latest.timings = tab[t].job.timings

(* Results are given to the page only for a job that is saved as complete, *)
(* and they are its whole journal: no partial results are published and    *)
(* none are mixed with the responses of another collection.                *)
ResultsAreComplete ==
    \A t \in Tabs :
        At(t, "delivering") =>
            /\ latest # NoJob
            /\ latest.status = "complete"
            /\ latest.completedRequests = Cardinality(Keys)
            /\ journal = {[jobId |-> latest.id, key |-> key, response |-> tab[t].got[key]] :
                              key \in Keys}

(* No request is sent to the API before the deadline that was saved for    *)
(* its connection, by whatever job, run or tab.                            *)
FetchesWhenDue ==
    \A t \in Tabs :
        tab[t].reader.step # "fetching" /\ tab'[t].reader.step = "fetching" =>
            Deadline(ConnectionOf[t])' <= now'

NoEarlyFetch == [][FetchesWhenDue]_vars

(* A job that is not complete leaves the store only when a tab that shows  *)
(* it discards it: neither start() in another tab nor a late save replaces *)
(* it.                                                                     *)
LeavesByDiscard ==
    latest # NoJob /\ latest.status # "complete" =>
        \/ latest' # NoJob /\ latest'.id = latest.id
        \/ \E t \in Tabs : At(t, "deleting") /\ tab[t].seen = latest.id

UnfinishedKept == [][LeavesByDiscard]_vars

(* A tab does not keep the lock: its run ends, or it is closed.            *)
LockIsReleased == \A t \in Tabs : lock = t ~> lock # t
=============================================================================
