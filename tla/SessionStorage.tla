--------------------------- MODULE SessionStorage ---------------------------
(***************************************************************************)
(* How the page keeps its datasets in the browser (src/App.tsx and         *)
(* src/utils/browserDatasetStorage.ts).  When it opens it reads the stored *)
(* session, which may take long: the user loads, removes or flushes        *)
(* datasets meanwhile.  After that every change is stored by a queue of    *)
(* writes, each of which may fail, and the page may close before its       *)
(* writes are made.                                                        *)
(***************************************************************************)
EXTENDS SessionData, Sequences

CONSTANTS MaxActions,  \* what the user does, reloads of the page left out
          MaxStamps,   \* the runs and the imports among it
          MaxFaults, MaxReloads,
          MaxQueue     \* the writes that may wait while the user goes on

VARIABLES
    disk,      \* the stored session, None for none
    session,   \* the session of the page
    selected,  \* the selected report
    page,      \* how far the page is with the stored session
    queue,     \* the writes that are to be made
    stamp, actions, faults, reloads,   \* how often, up to the bounds
    work       \* history: what the user did since the page opened

vars == <<disk, session, selected, page, queue, stamp, actions, faults, reloads, work>>

-----------------------------------------------------------------------------
\* changed, emptied and picked: the revisions that moved since the page opened.
NewPage == [ready |-> FALSE, changed |-> FALSE, emptied |-> FALSE, picked |-> FALSE,
            suppress |-> FALSE, warned |-> FALSE]

NoWork == [mine |-> {}, gone |-> {}, emptied |-> FALSE]

DefaultReport == CHOOSE r \in Reports : TRUE

StoredSession(s, report) ==
    IF HasContent(s) THEN [data |-> Parsed(s), selected |-> report] ELSE None

\* The effect that follows a change of the session.
Persisted(next, report, nextPage) ==
    /\ session' = next /\ selected' = report
    /\ IF ~nextPage.ready
       THEN page' = nextPage /\ UNCHANGED queue
       ELSE /\ page' = [nextPage EXCEPT !.suppress = FALSE]
            /\ IF nextPage.suppress /\ ~HasContent(next) THEN UNCHANGED queue
               ELSE queue' = Append(queue, StoredSession(next, report))

(* Mutant: the revision of the content is not counted. *)
ChangedUncounted(emptied) == [page EXCEPT !.emptied = @ \/ emptied]

Changed(emptied) == [page EXCEPT !.changed = TRUE, !.emptied = @ \/ emptied]

Import(report) ==
    /\ stamp < MaxStamps /\ stamp' = stamp + 1
    /\ Persisted(Imported(session, report, stamp'), report, Changed(FALSE))
    /\ work' = [work EXCEPT !.mine = @ \cup {UploadId(stamp')}]
    /\ UNCHANGED <<disk, faults, reloads>>

\* A report job of one period hands over its run.
RunLoaded(report, role) ==
    /\ stamp < MaxStamps /\ stamp' = stamp + 1
    /\ Persisted(Loaded(session, report, role, stamp'), report, Changed(FALSE))
    /\ work' = [work EXCEPT !.mine = @ \cup RunIds(stamp')]
    /\ UNCHANGED <<disk, faults, reloads>>

\* A report job of both periods hands over its two runs at once.
BothLoaded(report) ==
    LET current == Loaded(session, report, "current", stamp + 1)
    IN /\ stamp + 2 <= MaxStamps /\ stamp' = stamp + 2
       /\ Persisted(Loaded(current, report, "comparison", stamp'), report, Changed(FALSE))
       /\ work' = [work EXCEPT !.mine = @ \cup RunIds(stamp + 1) \cup RunIds(stamp')]
       /\ UNCHANGED <<disk, faults, reloads>>

RemoveDataset(dataset) ==
    /\ dataset \in session.datasets
    /\ LET last == Cardinality(session.datasets) = 1
       IN /\ Persisted(Removed(session, dataset), selected, Changed(last))
          /\ work' = [mine |-> work.mine \ {dataset.id}, gone |-> work.gone \cup {dataset.id},
                      emptied |-> work.emptied \/ last]
    /\ UNCHANGED <<disk, stamp, faults, reloads>>

Flush ==
    /\ HasContent(session)
    /\ Persisted(NoSession, selected, Changed(TRUE))
    /\ work' = [mine |-> {}, gone |-> work.gone \cup Ids(session.datasets), emptied |-> TRUE]
    /\ UNCHANGED <<disk, stamp, faults, reloads>>

SelectReport(report) ==
    /\ report # selected
    /\ Persisted(session, report, [page EXCEPT !.picked = TRUE])
    /\ UNCHANGED <<disk, stamp, faults, reloads, work>>

-----------------------------------------------------------------------------
(* Mutant: what is read from the disk replaces what the user did meanwhile. *)
MayHydrateAlways == TRUE

\* Datasets that changed while the stored ones were read win over these.
MayHydrate == ~page.changed

LoadDone ==
    LET ready == [page EXCEPT !.ready = TRUE]
    IN /\ ~page.ready
       /\ \/ disk = None /\ Persisted(session, selected, ready)
          \/ /\ disk # None /\ MayHydrate
             /\ Persisted(Parsed(disk.data),
                          IF page.picked THEN selected ELSE disk.selected, ready)
          \/ /\ disk # None /\ ~MayHydrate
             /\ Persisted(session, selected, [ready EXCEPT !.suppress = ~page.emptied])
       /\ UNCHANGED <<disk, stamp, actions, faults, reloads, work>>

\* The page goes on without the stored session, and stores its own from now on.
LoadFails ==
    /\ ~page.ready
    /\ faults < MaxFaults /\ faults' = faults + 1
    /\ Persisted(session, selected, [page EXCEPT !.ready = TRUE, !.warned = TRUE])
    /\ UNCHANGED <<disk, stamp, actions, reloads, work>>

WriteDone ==
    /\ queue # <<>>
    /\ disk' = Head(queue) /\ queue' = Tail(queue)
    /\ UNCHANGED <<session, selected, page, stamp, actions, faults, reloads, work>>

(* Mutant: the writes behind one that failed are not made. *)
SettledForAll == <<>>

\* A write that failed does not keep the next one from being made.
Settled == Tail(queue)

\* The user is told unless a later write is on its way.
WriteFails ==
    /\ queue # <<>>
    /\ faults < MaxFaults /\ faults' = faults + 1
    /\ queue' = Settled
    /\ page' = [page EXCEPT !.warned = @ \/ Len(queue) = 1]
    /\ UNCHANGED <<disk, session, selected, stamp, actions, reloads, work>>

\* The page is closed, in the middle of its writes perhaps, and opened again.
Reload ==
    /\ reloads < MaxReloads /\ reloads' = reloads + 1
    /\ session' = NoSession /\ selected' = DefaultReport
    /\ page' = NewPage /\ queue' = <<>> /\ work' = NoWork
    /\ UNCHANGED <<disk, stamp, actions, faults>>

-----------------------------------------------------------------------------
Init ==
    /\ disk = None
    /\ session = NoSession /\ selected = DefaultReport
    /\ page = NewPage /\ queue = <<>>
    /\ stamp = 0 /\ actions = 0 /\ faults = 0 /\ reloads = 0 /\ work = NoWork

UserStep ==
    /\ Len(queue) < MaxQueue /\ actions < MaxActions /\ actions' = actions + 1
    /\ \/ \E report \in Reports : Import(report) \/ SelectReport(report) \/ BothLoaded(report)
       \/ \E report \in Reports, role \in Roles : RunLoaded(report, role)
       \/ \E dataset \in session.datasets : RemoveDataset(dataset)
       \/ Flush

BrowserStep == LoadDone \/ LoadFails \/ WriteDone \/ WriteFails

Next == UserStep \/ BrowserStep \/ Reload

\* The browser answers each request to its database, one way or the other.
Spec == Init /\ [][Next]_vars /\ WF_vars(BrowserStep)

-----------------------------------------------------------------------------
(* Properties *)

Everything(s) == Ids(s.datasets) \cup UNION {s.outputs[r].shown \cup s.outputs[r].compared :
                                                r \in {q \in Reports : s.outputs[q] # None}}

IsSession(s) ==
    /\ \A d \in s.datasets : d.source \in {"live", Upload} /\ d.report \in Reports
    /\ \A d, e \in s.datasets : d.id = e.id => d = e
    /\ \A run \in s.runs : run.report \in Reports /\ run.role \in Roles

\* The types of the variables; a page whose datasets were emptied knows that
\* they changed.
TypeOK ==
    /\ IsSession(session) /\ selected \in Reports
    /\ disk # None => IsSession(disk.data) /\ disk.selected \in Reports
    /\ \A i \in DOMAIN queue : queue[i] # None => IsSession(queue[i].data)
    /\ \A flag \in DOMAIN page : page[flag] \in BOOLEAN
    /\ page.emptied => page.changed

\* What is stored of a session gives back all that the page shows, whatever
\* was loaded and removed before: the parser that reads it back leaves out no
\* run as one that is not whole, no dataset of a run as one whose run is lost,
\* and no report output as one whose run or upload is lost.
RestoredAsShown == Parsed(session) = session

\* The uploads that a report shows beside a comparison run.
UploadsBeside(s) ==
    UNION {{id \in s.outputs[r].shown : id.name = Upload} :
              r \in {q \in Reports : /\ s.outputs[q] # None
                                     /\ s.outputs[q].source = "live"
                                     /\ s.outputs[q].current = None}}

\* What the user loads while the stored session is being read stays among the
\* datasets, what the user removes does not come back among them, and a session
\* that the user emptied is not filled by the stored one.  No report shows what
\* the user removed, an upload beside a comparison run left out, which stays.
LoadKeepsWork ==
    /\ work.mine \subseteq Ids(session.datasets)
    /\ work.gone \cap Ids(session.datasets) = {}
    /\ work.gone \cap Everything(session) \subseteq UploadsBeside(session)
    /\ work.emptied => Ids(session.datasets) = work.mine

\* The user removes a dataset, and no report shows its records any more
\* (src/README.md: the records stay "until the user removes individual
\* datasets", and the test "removes uploaded report output when removing its
\* uploaded dataset").
RemovedIsGone == work.gone \cap Everything(session) = {}

\* The session of a page that has been read is stored in the end, or the user
\* is told that it could not be.
ChangesAreStored ==
    page.ready ~> /\ queue = <<>>
                  /\ disk = StoredSession(session, selected) \/ page.warned
=============================================================================
