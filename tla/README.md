# Stack API Utilities: TLA+ specifications

Stack API Utilities is a Next.js application that collects reports from a Stack
Internal instance, rewrites content in bulk, and synchronises user groups. It has
no database on the server: every route is stateless, and what lasts is kept by
the browser in IndexedDB. The difficult parts are therefore in the browser:
several tabs over one store, work that takes hours and is paused, closed or cut
off at any moment, servers that ask for delays, and writes whose replies are lost.

These modules specify four parts of the program and check them with TLC: the
collection of a **resumable report**, a **content replacement** from its scan to
the recovery of what it changed, the **user group sync**, and the storage of the
**session** with its datasets. The safety properties of the checkpoint store of
reports, of content replacement and its scan, of the user group sync and of the
session are proved with TLAPS for all values of the constants, with the exceptions
that section 4 names. The rest of the system is listed below. Paths are relative to the root of the
repository.

## 1. Inventory

| Component | State it keeps | Operations | Modelled |
|---|---|---|---|
| Report checkpoint store `src/reports/resumable/reportJobStore.ts` | IndexedDB: slot `latest`, journal of responses, one throttle record per connection | load, create, save, read, checkpoint, delete | yes |
| Report runner `src/reports/resumable/reportJobRunner.ts` | its copy of the job, the tail of the transport, `stopped` | run: open, read, wait, checkpoint, complete, fail | yes, without what the pages mean |
| Report hook `src/hooks/useReportJob.ts` | shown job, active run, Web Lock `stack-report-job` | hydrate, start, resume, pause, discard | yes |
| API clients `src/api/stackApiV2.ts`, `stackApiV3.ts` | pending backoff, shared wait, retries, budget of waiting time | paged GET, GET with retries, PUT, POST, DELETE | as far as their callers use them |
| Content replacement reducer `src/writeTools/contentReplacement/jobState.ts` | stage, status, queues, items, active operation | about 30 reducer actions | yes, without jobs of older schemas, bulk selection and counters |
| Content replacement hook and storage `src/hooks/useContentReplacementJob.ts`, `src/utils/browserContentReplacementStorage.ts` | operation token, pause barrier, queue of mutations; jobs by revision | scan, pause, apply, stale rescan, recovery, delete; load, save, delete | yes, for one job |
| Content replacement routes `src/server/contentReplacement*Api.ts` | none (the items live on the instance) | scan a slice; read, compare, PUT, read back | yes, without the validation of requests |
| Content replacement discovery `src/writeTools/contentReplacement/scanner.ts` and the modules of the rules | none | slices, filters, rewriting of Markdown | the slices |
| User group sync `src/components/UserGroupSyncPanel.tsx`, `src/server/userGroupSyncApi.ts`, `src/writeTools/userGroupSync*.ts` | the panel's inputs and preview (the groups live on the instance) | load a file, preview, apply | yes, without the parsing of the file |
| Session and datasets `src/App.tsx`, `src/domain/sessionStore.ts`, `src/domain/datasetPersistence.ts`, `src/utils/browserDatasetStorage.ts` | session reducer, stored snapshot, queue of writes | hydrate, save, clear | yes, for one page, without the SME outputs |
| OAuth PKCE `src/server/oauthPkceApi.ts` | one cookie with the pending transaction | start, callback, exchange | planned |
| OAuth profiles `src/hooks/useOAuthCustomerProfiles.ts` | profiles and the last selection in IndexedDB, a queue of writes | load, select, create, update, delete | planned |
| SME coverage `src/utilities/smeCoverage`, `src/server/smeCoverageRunApi.ts` | persisted outcome | run, analyse, export | planned last |
| Collectors, read route, report tables, exports, importers, estimate, registries, UI | none that lasts | functions on data, rendering | no |

How the components interact:

* **Report collection.** The hook takes the Web Lock, loads or creates the job and
  calls the runner. The runner gives the collectors a `fetch` of its own, the
  *transport*: each read first looks into the journal, else waits for the deadline
  of the job, calls `/api/reports/read` (one upstream GET for each call) and
  checkpoints the reply before the collector sees it. The API clients call back
  `waitFn` of the runner when a server asks for a delay. Tabs share the store and
  the lock, nothing else.
* **Content replacement.** The hook reduces a job in memory, saves it with a
  compare-and-set on its revision, and calls the routes item by item. A route
  reads the item, compares checksums, writes and reads back. Other editors change
  the same items on the instance.
* **User group sync.** The browser sends a preview back with the apply; the route
  computes it again, compares and then changes the groups call by call. A browser
  that lost its connection may send the next request while the first is at work.
* **OAuth.** A popup starts the authorization, the callback checks the cookie and
  posts the credential to its opener.
* **Session.** Effects of React queue snapshots of the session into IndexedDB.

What is hard, and what makes each component correct:

* *Checkpoint store*: clients with old copies of a job, checkpoints that are sent
  again, jobs that are replaced or discarded under a client, deadlines that must
  outlive all of it. Correct when the counters describe the journal, when the
  revision detects every change, when a saved response and a deadline are never
  lost, and when a job that is gone stays gone.
* *Runner and hook*: every `await` is a point where the run can be paused, the tab
  can die, another tab can act, or a second lane of the same run can go on.
  Correct when a collector only sees what is saved, no request leaves before its
  deadline, results are published only when they are the whole journal, no tab
  destroys the unfinished report of another, and the lock is always given back.
* *Content replacement job*: pause against a save under way, lost replies of
  updates, interrupted items, two tabs on one job, a recovery after a retry. It is
  correct when an item that the server changed is never forgotten (it stays
  recoverable), is never written twice with different texts, and a job that runs
  has a loop that runs it.
* *Scan*: slices that continue each other while the pages move under them; correct
  when each reference is inspected once and none is lost by a pause or a failure.
* *Apply and recovery routes*: the window between read and write; correct when
  what is reported follows from what was observed.
* *User group sync*: partial failures; correct when nobody is removed from a group
  to which the additions failed, and when an apply does what was previewed.
* *OAuth*: two windows, one cookie; correct when a code is exchanged only with the
  verifier of the authorization that was started last, once.
* *Session persistence*: correct when the stored snapshot ends up as the last
  state shown and hydration does not undo an edit.

`PROJECT.json` lists the hazards one by one, each at its line.

## 2. Modules

    ReportJobStore            the operations of the store, its invariants
      ReportStoreClients      the store under arbitrary clients: the abstract contract
        MCReportStore         constants for TLC
        ReportStoreLemmas     lemmas about the operations           (TLAPS)
        ReportStoreProofs     the theorems                          (TLAPS)
      ReportCollection        tabs, lock, runs, transport and waits over the store
        ReportCollectionHistory   a history of the store's results: refinement
        MCReportCollection, MCReportHistory   constants for TLC
        ReportCollectionProofs    the theorems                      (TLAPS)

    ReplacementReview         what a replacement promises the users: the abstract contract
    ReplacementJobState       the reducer of a replacement job, no variables
      ReplacementTabs         tabs, storage, server and other editors over the reducer
        MCReplacement         constants for TLC
        ReplacementTabsProofs the theorems                          (TLAPS)

    StackApiV3                how often and how long a v3 request is repeated, no variables
      ScanQueue               the scan of a replacement job
        MCScanQueue           constants for TLC
        ScanQueueProofs       the theorems                          (TLAPS)
      UserGroupSync           panel, route and groups of the user group sync
        MCUserGroupSync       constants for TLC
        UserGroupSyncProofs   the theorems                          (TLAPS)

    SessionData               the session reducer and what a stored session gives back
      SessionStorage          the page, its queue of writes and the disk
        MCSessionStorage      constants for TLC
        SessionStorageProofs  the theorems                          (TLAPS)

    Places                    what the filters of the code make of an array
      PlacesLemmas            lemmas about filtered sequences       (TLAPS)

`Places` is used by `ReplacementJobState` and `ScanQueue`, `PlacesLemmas` by the
proofs of the scan, of the replacement and of the sync.

### ReportJobStore

| Variable | In the code |
|---|---|
| `latest` | object store `jobs`, key `latest` (`NoJob` when absent) |
| `journal` | object store `responses`, a set of entries (job, key, response) |
| `throttles` | object store `throttles`, `NoDeadline` (0) for an absent record |
| `now` | `Date.now()` |

Each operation is one action, because the code runs each in one IndexedDB
transaction over the three object stores (`transact`). An operation that throws
changes nothing and is simply not enabled. A job keeps its id, revision,
connection, status, counters (`completedRequests`, `savedBytes`, `timings[api].count`)
and `retryAt`. Left out: title, periods, stage and error texts, milliseconds, and
the checks on the format of records, keys and headers. The credential fingerprint
and the connection are one value: both only serve to refuse a job, and throttle
records are kept by connection. A response is a value with a size.

`Tick` is the clock; it may advance between any two steps.

### ReportStoreClients

The contract of the store: whoever calls it, in whatever order, may submit any job
the store has ever returned, with another status or deadline. There is no lock,
no order, and no bound on the age of a copy. `snapshots` keeps what was handed out,
without the two fields a client may change. New ids are unused, as
`crypto.randomUUID` makes them.

### ReportCollection

One action is the code between two awaits: it ends one asynchronous operation and
runs to the next one. `tab[t].phase` says in which callback of the hook or the runner
a tab is; `tab[t]` also holds the variable `job` of the runner, the job a
transaction was called with (`arg`; the runner's variable may change before the transaction
commits), what the collector has received (`got`), the read at the head of the transport (`reader`) and
those behind it (`queue`), the wait (`waiter`) with the requests it holds back (`wanted`),
the backoff that a v2 client owes (`pending`) and the retries of the v3 client.

| Actions | Code |
|---|---|
| Open, Hydrate, Claim, Normalize, NormalizeCommit | effect of the hook, lines 58-96 |
| Begin, StartLoad, CreateCommit, ResumeLoad, OpenCommit | `begin` of the hook, start of `runReportJob` |
| Ask | a collector's next request; the pending backoff of the v2 client; the lanes of `Promise.all` in the collectors |
| TakeRead, Lookup, ReaderWakes, ReaderClears, Reply, ReaderCheckpoints, ReaderDefers | `transport` and `read` |
| StartWait, WaiterCommit, WaiterWakes | `waitFn` and `waitForDeadline` |
| CollectorFails, Settle, SettleCommit | the catch of the runner |
| Finish, FinishCommit, Delivered, DeliveryFailed | completion, callback of the page |
| GhostStep | a wait that is not awaited by the catch and goes on after its run |
| Abort, Discard, DiscardLoad, DiscardCommit | pause, page hidden or offline, discard |
| Crash | the page is closed or the browser stops, at any step |

Choices, where the environment decides: every transaction may fail; a reply may be
missing, invalid, a success or a rejection, with or without a delay; a page may
fail its validation; a collector may throw; the callback of the page may throw.

Abstractions:

* The keys of a report are fixed (`Keys`); a collector asks for them in any order its
  lanes allow. A key that is asked for again in one run is answered by the journal
  and changes nothing, so a key is asked for once in a run.
* A page that unmounts its component acts like a pause, and a page that returns
  starts as `closed`.
* A transaction that is under way when a page dies has either committed just
  before or is lost.
* The code after the last `await` of a chain of microtasks belongs to the action
  before it. An abort during the computation of the fingerprint in `resume` ends
  like one during the first save.
* The 403 and 404 replies of `/communities`, which a collector accepts without a
  checkpoint, are not modelled: such a reply is not saved and is asked for again
  after a resume.
* A cached reply is not validated again.

### ReplacementJobState

One operator for each event of the reducer, from the review on: `SetIncluded`,
`ApplyPrepared`, `ApplyStarted`, `ApplyItemStarted`, `ApplyItemFinished`,
`RetryEligible`, `StaleRescanStarted`, `StaleItemRescanned`, the previews and the
recovery with their four events each, `Paused`, `Interrupted`,
`CredentialInterrupted`, the retry deadline and `RecoverySnapshotsDeleted`. As in the code, an event
that does not apply returns the job itself and any other gives the next revision
(`Reduced`). The keys of an operation are items of its job, and what it has found out about
them is a total function of keys, `None` where nothing is known. Lists of
keys are sets in the order of the proposals (`InOrder`). A text stands for the checksum of a whole request model, and
`Rewrite` for the replacement of its terms; that only texts with a match are
proposed is an assumption on the constants. Times, progress counters, messages and
evidence that is only shown are left out.

### ReplacementTabs

| Variable | In the code |
|---|---|
| `stored` | the job in IndexedDB, `None` once it is deleted |
| `tab[t].view`, `error` | the job and the error that the hook shows |
| `tab[t].barrier` | `pauseBarrierRef`: the result of the last pause, for which a run waits |
| `tab[t].queue` | `enqueueLocalMutation`: the mutations that wait for each other |
| `tab[t].loop` | the loop at work: the `await` it is at, whether its token is current (`live`), its keys, the job it saves (`cand`) |
| `content` | the text of each item at the instance |
| `call` | the requests that the server works on; no owner once the browser has aborted them |

| Actions | Code |
|---|---|
| NothingToSave, JobLoaded, MutationSaved | `enqueueLocalMutation`, `mutatePersisted`, `persist`; the transaction of the storage |
| Admit, Load | `runExclusive`, the comparison with the stored job at the start of an apply and a recovery |
| NextItem, LoopSaved, DeadlinePassed, Reply, NetworkFails | the loops of apply, stale rescan, recovery preview and recovery |
| Read, Write, Verify, CallFailed | `contentReplacementApplyApi.ts`, `...RecoveryApi.ts` and the rescan of an item |
| Pause, Mutate, Run, DeleteJob | the controls that the steps of the wizard offer (`Offered`) |
| Reload | the tab is closed or dies and is opened again; an interrupted job is stored as such |
| Edit | somebody else edits an item |

A save names the revision it was made from, and is committed, refused as a
conflict, refused as corrupt (the candidate is not exactly one revision ahead) or
fails. Stopping a loop aborts its request in the browser only: the server goes on,
and its update may come late. An update that fails may have been made
(`Write`). A throttle notice comes with any result of an item, the failures
included, and with a rescan (`Throttled`); a recovery waits for the deadline before it
passes over an item, the other loops before they send (`MustWait`).

Abstractions: one job; the batches of 10 of a stale rescan are batches of 1; at
most two clicks on Pause wait at once; a recovery preview is asked for all applied
items; the list of rejected credentials is the fault `"credentials"`; a reply of
another 4xx status is one of those modelled or ends the loop like `"400"`.

### ReplacementReview

What the user of an instance may count on: an item changes only by an edit of
somebody, to the rewrite of a text that was confirmed for this item, or back to
such a text. `ReplacementTabs` implements it with the history `confirmed`.

### StackApiV3

A request is repeated after 429, 502, 503, 504 and network failures, at most
`MaxRetries` times, if the delay fits the limit of one wait and the budget of all
of them. The modules that send requests carry a record of what a call has spent.

### ScanQueue

| Variable | In the code |
|---|---|
| `stored`, `tab` | as in ReplacementTabs, for the loop of the scan and one tab; the job has its queues `cursors` and `details` |
| `site` | the lists of the instance, read in pages of `PageSize` |
| `inspected`, `shrunk` | histories: what a saved slice has inspected; where something was removed |

`Admit`, `NextSlice`, `SliceRead`, `LoopSaved`, `DeadlinePassed` are the loop of the
hook with the slices of `scanner.ts`; `Refused` the retries of the client and the
reply the browser gets when they are used up; `RequestFails` a reply 401, another
refusal and an unreachable route; `Resume`, `Pause`, `Cancel`, `Reload`,
`ControlSaved` the controls; `AddContent` and `RemoveContent` what others do. A
slice is read and its reply handled in one step, and the parallel reads of a
batch of details stand as one call, the one that is repeated most. Others add content at the
front of a list, where it moves every page, and remove it anywhere. They do not re-order a
list: the requests send no sort parameter
(`src/writeTools/contentReplacement/contentApi.ts:80-115`), and that the order of the instance
stays as it is while a scan reads it is an assumption about the environment. A page and what a filter keeps of it are given by their
places in the list (`Places`), which says what the slices, filters and
deduplications of the code give without a recursion. The constants are assumed as the code makes
them: a job names each list and each target once, and the texts that match are finitely many.

### UserGroupSync

| Variable | In the code |
|---|---|
| `panel` | the state of the panel: file, exact mode, preview, pending request, the reads of files under way |
| `req` | the requests that the server works on, with their plan and the operations that were made |
| `group` | the members of each group, `None` for no group |
| `shown`, `disturbed` | histories: the plans that the user saw; the groups others changed during a request |

`PickFile`, `PickNoFile` (a dialog that is closed without a choice, after which a read under way
counts no more), `FileRead`, `ToggleExact`, `Send` are the panel; `ConnectionLost` a
request whose reply will not come; `Lookup`, `GroupsRead`, `ReadRefused` the preview,
which an apply makes again and compares; `CreateGroup`, `AddMembers`,
`NothingToAdd`, `RemoveMember`, `ApplyOver` the runner, where each call may fail,
with or without having been made; `Edit` the other people. The lookups of all
users are one step, and so are the pages of the list of groups, for none depends on another.
The groups that are left are a set; the runner takes the `First` of them in the order of the plan.
A file is its wanted members, those of the rows that are left when an email is taken once
(`src/writeTools/userGroupSync.ts:157-160`), so that a file wants a user in one group at most; credentials and template do not change; a file
that cannot be read is a read that never ends.

### SessionData and SessionStorage

`SessionData` has the reducer (`Imported`, `Loaded`, `Removed`) and the parser of a
stored session (`Parsed`): a live run comes back with all its datasets or not at
all, and a report output only with what backs it. A dataset stands for its
records. `SessionStorage` has the page: `LoadDone` and `LoadFails` are the effect
that reads the stored session, `Persisted` the effect after each change, `WriteDone`
and `WriteFails` the queue of writes, `Import`, `RunLoaded` (a run of one period, the current one or
the comparison alone), `BothLoaded` (a run of both periods), `RemoveDataset`, `Flush`,
`SelectReport` the user, `Reload` a page that is closed in the middle. `page` holds the
revisions that the effects compare, as flags. One page; stamps are unique.

## 3. Runs

| Run | Instance | Properties | States |
|---|---|---|---|
| `report_store` | 2 jobs, 2 connections, a v2 and a v3 key, responses of 1 and 2 bytes, capacity 3, clock 0..2, revisions 0..2 | TypeOK, CountersMatchJournal, BytesMatchJournal, RevisionIdentifiesJob, DeadlinesSurvive, JournalGrows, GoneForever | 106,848 |
| `report_tabs` | 2 tabs with different credentials, 2 job ids, 2 v2 keys, one lane, no delays, revisions 0..4 | TypeOK, ResultsAreComplete, UnfinishedKept | 874,323 |
| `report_lanes` | 1 tab, 3 v2 keys, 2 lanes, clock 0..2, revisions 0..4, with fairness | CollectedIsSaved, NoEarlyFetch, LockIsReleased | 636,475 |
| `report_history` | 2 tabs on one connection, 1 job, 1 v3 key with one retry, clock 0..1, revisions 0..3 | CollectorIsCurrent, NoEarlyFetch, ImplementsClients | 322,276 |
| `replacement_tabs` | 2 tabs, 1 item, storage and network faults, controls up to revision 5 | RevisionIdentifiesJob, DeletedStays | 889,349 |
| `replacement_items` | 1 tab, 2 items, all faults, all controls but include and the two deletions, up to revision 12 | AppliedWasSeen, StoppedJobHasNoWork, ReplacedIsKnown | 2,677,831 |
| `replacement_ends` | 1 tab, 1 item, all controls and faults, controls up to revision 12, with fairness | TypeOK, ImplementsReview, RunEnds | 364,259 |
| `replacement_throttle` | 1 tab, 2 items, throttled replies only | RateLimitIsSaved, **violated** | |
| `scan_queue` | a full scan (3 questions on 2 pages, answers, an article), one with 2 search terms, one of exact targets; pages, batches and capacity of 2; 2 retries; 3 refusals, 1 edit, 1 fault | TypeOK, NothingMissed, InspectedOnce, ReadIsBounded, ScanEnds | 278,694 |
| `user_group_sync` | 2 files, one of them blocked, 2 groups, 4 users, 2 requests at a time, 3 in all; 2 refusals, 1 edit, 1 fault | TypeOK, WritesWereShown, WantedIsKept, NoneLostBeforeAdded, EveryGroupTried, ReportedIsDone, PanelAnswers | 254,280 |
| `session_storage` | 2 reports of 2 datasets, 4 actions of the user, 3 of them with new data, 1 fault, 1 reload, 2 waiting writes | TypeOK, RestoredAsShown, LoadKeepsWork, ChangesAreStored | 545,589 |
| `session_removed` | the same | RemovedIsGone, **violated** | |

What the properties of reports say:

* **CountersMatchJournal**, **BytesMatchJournal**: the counters that `load` trusts,
  and from which progress and capacity are computed, are those of the journal.
* **RevisionIdentifiesJob**: two copies with one revision agree, so comparing
  revisions (`currentJob`) is enough.
* **DeadlinesSurvive**: a deadline that has not passed is never shortened, not by a
  new job, a discard, an old copy, nor a database of an older version. This is
  the sentence of `README.md:96` on throttle deadlines.
* **JournalGrows**, **GoneForever**: saved pages are never replaced, a job that was
  discarded or replaced never returns.
* **CollectedIsSaved**, **ResultsAreComplete**: what a report is built from can be
  built again after a crash, and nothing partial is published (`README.md:82`, `:94`).
* **CollectorIsCurrent**: the saved job does not move under a run that goes on.
* **NoEarlyFetch**: no tab, run or lane sends a request before the deadline that is
  saved for its connection.
* **UnfinishedKept**: an unfinished report leaves the store only by the discard of
  a tab that shows it.
* **LockIsReleased**: every holder of the lock gives it back.
* **ImplementsClients**: the tabs implement ReportStoreClients, with the history
  `returned` for `snapshots`.

Of content replacement:

* **RevisionIdentifiesJob** (of ReplacementTabs): a tab that shows the stored
  revision shows the stored job, so that naming a revision is enough for a save not to undo another.
* **DeletedStays**: a job that was deleted does not come back with the save of
  another tab or of a loop.
* **AppliedWasSeen**: an item counts as applied only after the server has read the
  proposed text, not because an update was accepted.
* **ReplacedIsKnown**: the text that an update replaced is in the job for as long as
  the update stands, whichever replies were lost and runs interrupted. It holds with one edit
  by others, which is what the run allows. With two it does not: a request that was
  aborted has read the old text, somebody edits the item, the next run takes the
  edit as the new text to start from, and somebody brings the old text back before the
  aborted request writes. Then the job does not know the text that is replaced.
* **StoppedJobHasNoWork**: whatever stops a job, no item stays in the middle of its
  update or of its recovery.
* **ImplementsReview**: the tool writes the rewrite of a confirmed text, or that text.
* **RunEnds**, **ScanEnds**: a loop ends, wherever it is stopped and whatever fails.
* **NothingMissed**: a scan that goes to the review has a proposal for every match
  that was on its lists when it began, although pages move, replies are lost and runs
  are interrupted; only a list that shrinks under the scan hides content.
* **InspectedOnce**: no reference is inspected twice.
* **ReadIsBounded**: the repetitions of one read stay within their number and budget.

Of the user group sync:

* **WritesWereShown**: whatever an apply writes is in a plan that the user was shown
  for the inputs of this request.
* **WantedIsKept**: an exact sync removes nobody whom the file wants.
* **NoneLostBeforeAdded**: a group that nobody else changes loses no member before it
  has all that it should have.
* **EveryGroupTried**: a group that fails does not keep the others from being tried.
* **ReportedIsDone**: an apply without a failure leaves the groups as the file wants them.
* **PanelAnswers**: the buttons of the panel come back.

Of the session:

* **RestoredAsShown**: what is stored gives back what is shown, whatever was imported, run
  (either period alone or both) and removed before.
* **LoadKeepsWork**: a stored session that arrives late undoes nothing that the user did: what
  was loaded stays, what was removed does not come back among the datasets, and no report shows
  it. One case is left out of the last part, the upload that a report shows beside a comparison run
  (`UploadsBeside`), which stays shown when it is removed (section 5).
* **RemovedIsGone**: the same without this case; `session_removed` finds it violated.
* **ChangesAreStored**: the last state is stored, or the user is told.

The bounds of the report runs:

* `MaxRevision` bounds the saves of a job. A save at the bound is refused, which the
  tabs see as a storage failure, a branch they have anyway. With the bound 4 a job can be
  opened, checkpoint two pages and complete, or be abandoned and resumed by another
  tab; in `report_lanes`, a page can be checkpointed and a wait set and clear a deadline.
  The bound also stops a checkpoint that is repeated without any new revision.
* `MaxTime` bounds the clock, hence the delays. Two instants (before and after a
  deadline) show each wait; a third one, in `report_store` and `report_lanes`, makes a second deadline
  later than the first.
* Two tabs are enough for every conflict over one lock and one revision: a third
  tab can only do to the second what the first did. Two job ids are enough for a job
  that replaces another one; ids are never used again, so in these runs the second
  creation is the last.
* Two lanes and three keys let one lane checkpoint, one wait and one request stay
  outside the journal.
* `report_lanes` has v2 keys alone, since the requests of a v3 client are never side by side;
  `report_history` has a v3 key with one repetition. The wait before a repetition is begun like
  that of a backoff (`StartWait`); that a run ends while a repetition is due is not checked by itself.
* `report_tabs` leaves the clock still (no delays), the other runs have one job, so
  that delays and replacement of jobs are combined only in `report_store`.

The bounds of the other runs:

* `MaxRev` bounds the revision at which a control is used; loops go on beyond it, so
  that the bound never stops a save. Each item of a run takes two revisions. 12 leaves
  room for applying an item, recovering it and applying it again after a rescan
  or a retry, and for applying two items and recovering both; 5 for the conflicts of
  two tabs over prepare, start, pause, resume, delete and reload, where the content of
  the job does not matter. What is excluded from a review, and the two deletions,
  are left to `replacement_ends`.
* One edit by others can come before, between or after the read and the write of a
  request, and makes an item stale, a recovery a conflict, or a page move. One fault
  is enough to lose any one reply, save or call; a loop that survives one starts again from
  a stored job, and so from a state without it.
* Four texts (`old` to `new`, `edit` to `edited`) give a text with a match, its
  rewrite, and the same for a later edit. Two slots for requests let one that was
  aborted run on while the next one is sent.
* In `scan_queue`, three questions on pages of two move over the edge of a page; a
  capacity of two is exceeded by the third match that somebody adds; an article is
  found by both terms. The delays and the budget are chosen so that both limits of a
  wait and the number of retries are reached.
* In `user_group_sync`, one group exists and one is to be created, and one wanted user is
  unknown. Repetitions are left to `scan_queue` (`MaxRetries` 0), a refusal is final. Three requests are
  a preview, an apply and another one beside it.
* In `session_storage` and `session_removed`, a report of two datasets is what makes a run that is not
  complete any more; two reports are what an output of another report is
  compared with.

Symmetry is used on values that are only compared for equality: tabs with equal
credentials, job ids, connections, keys of one API. It is not used with the
liveness property or the refinement.

`report_store` is checked without deadlock checking, since the clock and the
revisions of its clients are bounded and the store stops when both have reached
their bounds. In the other report runs a page can always be opened or closed. The
runs of the other parts are checked without it as well: a user who does nothing
more is a state in which the program rests, and the controls end with their bounds.
That nothing is left waiting is what the liveness properties say.

Each property is accompanied by a mutant in the module it is about (an operator
marked *Mutant*), such as a dropped guard or a missing reset, with which TLC finds the property
violated. They show that the properties depend on the code.

### Fairness

Of reports, `FairSpec` is used by `report_lanes` only. It assumes that the clock advances to its
bound and weak fairness of `Works(t)`: a tab that can go on by itself does. The code
justifies it: a transaction commits or aborts, a timer ends, the read route has a
deadline of 20 seconds and a fetch settles, and an event loop runs what is ready.
The callback of the page is awaited while the lock is held and is assumed to
return. Nothing is assumed of the user (pause, resume, discard), of other tabs, or
of success: every transaction and every reply may fail each time.

`ReplacementTabs` assumes weak fairness of `TabStep(t)` and `ServerStep(c)`,
`ScanQueue` of `TabStep`, `UserGroupSync` of `ServerStep(c)`, `SessionStorage` of
`BrowserStep`: an event loop runs what is ready, IndexedDB commits or aborts a
transaction, timers fire, and the routes work on with the deadlines that they give their calls
to the instance. Users, other editors and faults are not fair. A retry deadline of a job passes.

## 4. Proofs

All theorems hold for all values of the constants under the assumptions that the modules
name: any sets of jobs, connections, keys, texts, users, groups, lists and reports, any number
of tabs and requests, and any bounds. TLC evaluates the assumptions in each run.

| Module | Theorem | Statement |
|---|---|---|
| `ReportStoreProofs` | TypeCorrect | `Spec => []TypeOK` |
| | CountersCorrect | `Spec => []CountersMatchJournal` |
| | BytesCorrect | `Spec => []BytesMatchJournal` |
| | RevisionCorrect | `Spec => []RevisionIdentifiesJob` |
| | DeadlinesCorrect | `Spec => DeadlinesSurvive` |
| | JournalCorrect | `Spec => JournalGrows` |
| | GoneCorrect | `Spec => GoneForever` |
| `ReportCollectionProofs` | CollectionTypes | `Spec => []TypeOK` |
| | CollectedCorrect | `Spec => []CollectedIsSaved` |
| | CurrentCorrect | `Spec => []CollectorIsCurrent` |
| | ResultsCorrect | `Spec => []ResultsAreComplete` |
| | UnfinishedCorrect | `Spec => UnfinishedKept` |
| | ClientsCorrect | `HistorySpec => ImplementsClients` |
| | NoEarlyFetchCorrect | `Spec => NoEarlyFetch` |
| | AccountsCorrect | `Spec => [](CountersMatchJournal /\ BytesMatchJournal)` |
| | SavedWorkKept | `Spec => [][NoDeadlineLost /\ JournalOnlyGrows]_vars` |
| `ReplacementTabsProofs` | ReplacementTypes | `Spec => []TypeOK` |
| | RevisionStandsForJob | `Spec => []RevisionIdentifiesJob` |
| | AppliedWasRead | `Spec => []AppliedWasSeen` |
| | StoppedJobIsQuiet | `Spec => []StoppedJobHasNoWork` |
| | DeletedJobStays | `Spec => DeletedStays` |
| | OneTabImplementsReview | one tab: `Spec => ImplementsReview` |
| `ScanQueueProofs` | ScanTypes | `Spec => []TypeOK` |
| | NothingInspectedTwice | `Spec => []InspectedOnce` |
| | ReadsAreBounded | `Spec => []ReadIsBounded` |
| | ScanIsComplete | `Spec => []NothingMissed` |
| `UserGroupSyncProofs` | SyncTypes | `Spec => []TypeOK` |
| | ShownBeforeWritten | `Spec => []WritesWereShown` |
| | NoWantedRemoved | `Spec => WantedIsKept` |
| | AddedBeforeRemoved | `Spec => NoneLostBeforeAdded` |
| | WholePlanTried | `Spec => []EveryGroupTried` |
| | NoFailureMeansDone | `Spec => []ReportedIsDone` |
| `SessionStorageProofs` | SessionTypes | `Spec => []TypeOK` |
| | StoredSessionIsWhole | `Spec => []RestoredAsShown` |
| | LoadUndoesNothing | `Spec => []LoadKeepsWork` |

Each module of theorems has an inductive invariant `Inv` and lemmas about each operation; the
theorems only combine them. Each `Inv` was checked with TLC on the runs of its component
before it was proved.

### The checkpoint store (`ReportStoreLemmas`, `ReportStoreProofs`)

The theorems are about `ReportStoreClients!Spec`, under `StoreConstants`.
The types alone are inductive, but `CountersMatchJournal` counts a set
of entries, and adding one entry adds one to a cardinality only if the set is
finite and the entry is new. The invariant is therefore strengthened with the
finiteness of the journal; that the entry is new follows from its key, since the
guard of `CheckpointNew` finds no entry of this job and key and all entries are of
the saved job. A cardinality lemma for each API then gives the new counter.
This invariant is `Inv`: `TypeOK`, `CountersMatchJournal` and
`IsFiniteSet(journal)`. `RevisionIdentifiesJob` is inductive relative to it: a
snapshot is never ahead of the saved job, and each change of the job takes a new
revision. `DeadlinesSurvive`, `JournalGrows` and `GoneForever` are about single
steps from states that satisfy `Inv`: a deadline that is written is the latest of
all that were known, a write keeps the id that `currentJob` compared, and only a
creation, with an id nobody holds, puts another job into the slot.

`BytesMatchJournal` states the sum of the lengths as a cardinality: `StoredBytes` is a set with
one element for each byte of each entry, so a new entry adds a set that is disjoint from it, and
no induction over the journal is needed. The invariant `BytesInv` adds that this set is finite.

### The collection of a report (`ReportCollectionProofs`)

Assumed are `StoreConstants` and `CollectionConstants`: each tab has a connection, and `None`
is no tab, job, key or response. The operations of the store are taken from `ReportStoreLemmas`.

`CollectorIsCurrent` is not inductive: a wait that a run has left behind, or a tab
that has read the job long ago, may still save it. `Inv` therefore says what each page and each such
wait holds and what it may still do with it.

* A page (`PageOK`): in every phase, the jobs it holds or submits are the saved one or older revisions of
  it (`Known`), and in which status it submits them; only a run that collects reads; a key is
  outstanding once, and only while it is not answered.
* A page and the store (`TabOK`): what has been collected is in the journal; a key that was looked up and
  is being read is not (`Unsaved`), so that its checkpoint is a new one; a run that goes on
  (`Healthy`) has the saved job as it was saved last (`Current`); once the saved job is complete,
  no read and no wait is left in a page.
* A wait that outlived its run (`GhostOK`): its job is behind the saved one as soon as that
  one is complete or a run goes on with it. A later run begins with a save, which takes the next
  revision; this is why a late save cannot hit, whatever the lock does.

Only the tab inside of `runExclusive` holds any of this, the others are at rest
(`OthersAtRest`); a step is therefore one of a few shapes (`RestStep`, `KeepStep`, `WriteStep`,
`ReplaceStep`, `EndStep`), and each action has a lemma that shows which. `ResultsAreComplete`
follows since the journal has one entry for a key, hence as many as there are keys.

`StoreStep` lists what any step does with the store: nothing, a write of a known job, a creation
under an unused id, a discard by a page that shows the job, or a tick. `UnfinishedKept` is read off it. For
the refinement, `HistoryInv` adds that a snapshot of the saved job has been handed out as soon as a page
is open, and that ids that were handed out are used. A write passes `currentJob`, so the
job it submits differs from that snapshot in its status and deadline at most, which is what a
client of `ReportStoreClients` may change.

`NoEarlyFetch` needs what a run knows of the deadline of its connection, which others move while
it has its own copy. `DueInv` adds to `Inv`, for each tab (`DueOK`):

* the job that it creates or opens, and as long as it collects the saved one, is of its connection;
* while it collects, its job carries a deadline at least as late as the saved one, as long as that
  has not passed. Only the tab inside of the lock moves the saved deadline, but for the waits that
  outlived a run, and `GhostOK` keeps those from a run that goes on;
* a save that clears a deadline has none itself; if nobody saved since it was begun, the saved
  deadline has passed. If somebody did, `currentJob` refuses it.

A step of a page is `Paced` if it drops no deadline that has not passed, takes a deadline away only
when it has, and sends only without one. Each action has a lemma that it is; a step that saves has
one that relates the deadline it writes to the one the page takes over (`WrittenDeadline`,
`ClearedDeadline`). `DueInv` was checked with TLC on `report_tabs`, `report_lanes` and `report_history`.

`AccountsCorrect` and `SavedWorkKept` carry the properties of the store over to the tabs, with any number
of keys and lanes: each `StoreStep` is one of the operations of `ReportStoreLemmas`, whose hypotheses follow
from `Inv`.

### Content replacement (`ReplacementTabsProofs`)

Assumed are `JobAssumption`, `TabsAssumption` and `NoneAssumption`: the rewrite is a function
of texts, the text of each item at the start has a match, and `None` is no key, tab, text or job.

No property follows from the stored job alone, because a save replaces it
with a *candidate* that a tab computed many steps earlier. `Inv` therefore says of every job that
anybody holds (stored, shown, candidate of a loop or of a mutation) that it is good (`JobOK`): an
item that is being applied or recovered is so in a running job of that stage only, a result
that counts as applied comes with a text the server has read (`seen`), and the text to go back to
is the text the update started from, and was confirmed. Candidates of controls have no item under
way at all. This gives `AppliedWasSeen` and `StoppedJobHasNoWork`. It is kept because `Inv`
also ties what happens outside the job to it:

* the queue of mutations and the loop (`QueueOK`, `LoopOK`): behind the first mutation only pauses
  wait, and a loop that is about to send has an item of the shown job, with no other one under way;
* the requests (`RequestOK`): a tab has at most one request it waits for, for the item of its
  loop, and what a request may write is a confirmed text or its rewrite, even after its tab has
  given it up.

`RevisionIdentifiesJob` is a part of `Inv`: a save compares revisions, and only a save changes the
stored job, to the next one. `DeletedStays` needs no invariant, since no save
of a deleted job passes the comparison.

`ImplementsReview` says that what is written was confirmed. With several tabs it is
false (section 5): one tab prepares what the scan of another has read since. It is therefore proved
for one tab, where `OneTabOK` says that the tab that prepares a job confirms the one that is stored;
the parts of `Inv` that mention confirmed texts speak of all texts when there are several
tabs (`Reviewed`), so that the other theorems hold for any number.

### The scan (`PlacesLemmas`, `ScanQueueProofs`)

Assumed are `ScanAssumption`, `BudgetAssumption` and `NoneAssumption`. `NothingMissed` is
about a scan that is over. Its invariant is about a scan on its way: each match
that was on a list of the job when the scan began, and that no removal has hidden, is proposed,
waits in the queue of details, or is on a page that the queued cursor of
its list has still to read; and the same holds of the answers of each question, once the
question itself has been read (`Covering`). Content that is added only moves a match to a later page, and
the places of a list (`PlacesLemmas`) show that a page and the pages behind it have everything
that the filter keeps. Every job that the tab shows or is about to save satisfies the invariant
with the lists as they are now, and so a save that comes late, or does not come,
loses nothing. `InspectedOnce` needs that details are only inspected when all lists are read
(`GoodHistory`), that what a loop is about to save opens no list again (`Follows`), and that
neither queue names anything twice. `ReadIsBounded` follows from the
lemma on `MayRetry` and `Retried` of `StackApiV3`.

`PlacesLemmas` proves what `AtPlaces`, `AsListed` and `Deduped` return for every sequence: the
elements at the given places, in order, each place once. The rank of a place is a cardinality, and
that each rank is taken follows from `Least`, the least element of a set of naturals, which the
library proves from its well-founded orders. This replaces the induction over the length of a sequence.

### The user group sync (`UserGroupSyncProofs`)

Assumed are `SyncAssumption` and `BudgetAssumption`. `Inv` relates a request that
writes to its plan, group by group. `TriedInv` says which writes were tried and which are pending;
`ContentInv` what a group contains as long as nobody else changes it: what the route has read in
a group that it has not come to, all the desired members in a group of which it removes some,
exactly what is desired and what is still to be removed if all writes succeeded. `PlanInv` says
what a plan is computed from, `ExpectedInv` and `PreviewInv` that the plan an apply expects was shown for
the same inputs. The theorems read these parts off; `NoneLostBeforeAdded` and `WantedIsKept`
are about single steps from `Inv`.

### The session (`SessionStorageProofs`)

Assumed is `SessionAssumption`: there is a report, and its datasets are finitely many.
`RestoredAsShown` compares a session with what the parser makes of it, and the parser keeps a run
only if it has all its datasets. `Inv` therefore says of the session, of each write that waits
and of the disk that it is `Good`: names are given once, a dataset that names a run belongs to it, a
run has all of its datasets, and what a report shows are the runs it names (`LiveShown`); a report
with a comparison run alone may show uploads beside it, and these need not be among
the datasets, which is what the parser accepts too (`src/domain/datasetPersistence.ts:526-570`). `LoadKeepsWork` needs
in addition what the user did since the page was opened (`work`) to be in the session
(`GoodWork`), and that no name given later is one of those that were removed. That a report shows
only what is among the datasets, but for `UploadsBeside`, follows from `Good`
(lemma `EverythingIsThere`).

### Only model-checked

* `ReplacedIsKnown`, which holds under a bound of one edit (section 3) and not for all constants: a
  theorem would have to assume that bound, and nothing in the code limits the edits of others.
* `LockIsReleased`, `RunEnds`, `ScanEnds`, `PanelAnswers` and `ChangesAreStored`, since
  liveness is out of reach of the prover.

## 5. What the checks showed

### Findings

`replacement_throttle`: a reply that carries a throttle notice is never saved.
`persistResponse` (`src/hooks/useContentReplacementJob.ts:472`) reduces the job for the
result and once more for the deadline, so that its candidate is two revisions
ahead, and the storage refuses a candidate that is not exactly one ahead
(`src/utils/browserContentReplacementStorage.ts:316-322`). The run ends as a failure of
the storage, the result of the item is lost until the item is tried again, and the
deadline is not kept, although `README.md:242` says "Rate-limit pauses are persisted
locally." The notice comes with a 429 that was retried within the budget of the server, and
with a reply after which few calls are left. The same happens to a slice of a scan
(`ScanQueue!SliceRead`), where the other properties hold in spite of it.

`session_removed`: a report goes on showing an upload that was removed. The user imports
a file for a report, then runs its comparison period alone ("Run comparison period",
`src/components/ReportWorkspace.tsx:143-149`). The output keeps the uploaded records
(`src/domain/sessionStore.ts:181`) but its source becomes `live-api` (`:175`). When the upload is removed, the
output is not tied to it (`:559-567`) and the dataset has no snapshot (`:465-467`), so the output
is left as it is. It is stored so, and the parser accepts it, since the comparison run backs it: the
records come back after a reload, although the test `src/domain/sessionStore.test.ts:319` says "removes
uploaded report output when removing its uploaded dataset", and `README.md:61-62` that the
datasets are stored "until the user removes individual datasets or flushes all stored datasets
from the Datasets panel". The records leave with a run of the current period, another import, the removal of the
comparison run or a flush.

### Observed behaviours

These are in the models as they are in the code. None of them breaks a property of a
passing run.

* A Pause aborts the active request in the browser
  (`src/hooks/useContentReplacementJob.ts:224`) and does not wait for it. The design
  (`docs/superpowers/specs/2026-09-01-content-replacement-wizard-design.md:419`) says
  "Pause and cancel stop after the active request without losing completed item
  status", and the button "Pause after the current request". The server goes on; the next run finds
  the item as the server left it (ReplacedIsKnown, AppliedWasSeen).
* A second click on Pause before the first one is saved is refused as one whose
  token is no longer current, and leaves the pause barrier false
  (`useContentReplacementJob.ts:414`). Resume is then offered and starts nothing until another pause
  succeeds or the page is loaded again.
* A stale rescan, a preview or a recovery that is stopped by its credentials, or by a reply
  after which it does not go on, leaves its operation on the job. `resume` of the hook
  would take it up (`useContentReplacementJob.ts:1165-1168`), but the button that calls it is
  only there during an apply (`src/components/ContentReplacementApplyStep.tsx:327`), and
  the other controls are locked by the operation (`:118`, `:142`, `:224`).
* The confirmation of a review is compared by keys and counts only
  (`jobState.ts:694`): what one tab reviewed can prepare a text that another tab has
  scanned since. What is written is still the rewrite of a text that some review showed
  (ImplementsReview).
* A post that is deleted between the inventory and the read of its details makes the scan
  fail for good: a 404 becomes a 400, which is not retryable.
* A read of the stored session that fails when the page is opened is followed by a
  clear of the stored session (`src/App.tsx:192-203`, then `:210-235`). The user is told
  that the datasets could not be restored.
* A wait of one lane of a report and the read of another may submit the job at the same
  revision. One of them is refused with a revision conflict and the run ends as
  failed. Nothing is lost, a resume goes on.
* A wait that outlives its run may commit its save before the last save of this
  run. Then the last save is refused and the job stays `running` without an owner,
  until a tab that is opened normalises it to `paused`, or the user resumes it.
* An edit that is made between the read and the write of an update, of a recovery or of
  a sync is overwritten: the API has no conditional update. The properties above exclude edits
  in this window where they have to, and say so.

## 6. Not modelled, and the plan

Of the components that are modelled in part:

* Content replacement: the creation of a job with its fingerprints, the choice among several
  jobs, jobs of older schemas and exact proofs, the list of rejected credentials, bulk
  selection, validation of requests and stored records, the limit of 10,000 pages, and
  the rewriting of Markdown, which is a function on strings that unit tests cover better.
* API clients: retries of PUT, limits of pagination, shapes of envelopes.
* User group sync: parsing of the file, the template, changing credentials.
* Session: the outputs of the SME utility, warnings, stored sessions of versions 1 and 2,
  the sanitising of records, `dataset/set`, the restored scope, two pages on one storage.
* Reports: what collectors and reports compute, the estimate, the validation of
  pages (a refused page is a choice), tolerated replies of `/communities`.

Not modelled at all, in the order of the plan:

1. **OAuthPkce**: windows, the one cookie, its expiry. Each callback reads the cookie, compares
   and clears it in one request; the interest is in two windows that replace and
   clear each other's pending authorization.
2. **OAuthProfiles**: one queue of writes, whose controls are disabled while it works.
3. **SmeCoverage**: the run route and its persisted outcome.

Every safety property that a passing run checks is stated by a theorem, except `ReplacedIsKnown`
(section 4).

Not planned: the collectors, the tables of reports, exports, importers, the estimate, the
registries, the user interface and the development tooling. They are functions on
data or rendering, without state that lasts or concurrency.
