----------------------------- MODULE ScanQueue -----------------------------
(***************************************************************************)
(* The scan that finds the proposals of a content replacement job.         *)
(*                                                                         *)
(* The job carries two queues (src/writeTools/contentReplacement/          *)
(* jobState.ts): cursors, that is pages of lists still to be read, and the *)
(* references found on them, whose details are inspected once no cursor is *)
(* left.  The tab takes one slice of work at a time, asks the server for   *)
(* it (scanner.ts, contentReplacementScanApi.ts) and saves the job that    *)
(* results (hooks/useContentReplacementJob.ts).  Others add and remove     *)
(* content meanwhile, so that the pages move under the scan.               *)
(*                                                                         *)
(* A slice is read and its reply handled in one step: between the two      *)
(* nothing that the tab does depends on the instance.  The reads of a      *)
(* batch are made in parallel; the one that is repeated most often stands  *)
(* for them.  Several tabs on one job are the matter of ReplacementTabs.   *)
(***************************************************************************)
EXTENDS StackApiV3, Places, Integers, Sequences, FiniteSets, SequencesExt

CONSTANTS
    Starts,      \* the jobs that a user can configure: lists and exact targets
    Searches,    \* the lists that are the results of a search for a term
    FirstSite,   \* what the lists contain when the scan begins
    AnswerList,  \* the list of answers of the questions that have any
    Candidates,  \* the references whose summary may contain a term
    Matches,     \* those whose details give a proposal
    Added,       \* what others may add to a list, as pairs of list and reference
    Removed,     \* the references that others may remove
    PageSize, BatchSize, Capacity,
    Faults,      \* what can fail: "storage", "credentials", "network",
                 \* "401", "rejected"
    MaxRev,      \* bound on the revision at which a control is used
    MaxRefusals, \* bound on the replies that ask to try again later
    MaxEdits, MaxFaults,
    None

Lists == DOMAIN FirstSite
Refs == UNION {ToSet(FirstSite[l]) : l \in Lists} \cup {a[2] : a \in Added}
        \cup UNION {ToSet(start.targets) : start \in Starts}

\* A job names each list and each target once.  The filter on summaries lets
\* through what it cannot judge, and no search result is filtered.
ASSUME ScanAssumption ==
    /\ PageSize \in Nat \ {0} /\ BatchSize \in Nat \ {0} /\ Capacity \in Nat \ {0}
    /\ FirstSite \in [Lists -> Seq(Refs)]
    /\ \A start \in Starts : /\ start.lists \in Seq(Lists) /\ IsInjective(start.lists)
                             /\ start.targets \in Seq(Refs) /\ IsInjective(start.targets)
    /\ Searches \subseteq Lists /\ Matches \subseteq Candidates /\ Candidates \subseteq Refs
    /\ IsFiniteSet(Matches)
    /\ \A q \in DOMAIN AnswerList : AnswerList[q] \in Lists \ Searches
    /\ Added \subseteq Lists \X Refs

VARIABLES
    stored,     \* the job in IndexedDB
    tab,        \* the tab: the job it shows, its loop and its queue of controls
    site,       \* the lists of the instance
    edits, faults, refusals,
    inspected,  \* history: the references inspected by a slice that was saved
    shrunk      \* history: the lists from which something was removed

vars == <<stored, tab, site, edits, faults, refusals, inspected, shrunk>>

-----------------------------------------------------------------------------
(* The job *)

Cursors == [list : Lists, page : Nat \ {0}]

Jobs == [rev : Nat, stage : {"scan", "review"}, start : Starts,
         status : {"paused", "running", "failed", "completed", "cancelled"},
         cursors : Seq(Cursors), details : Seq(Refs), proposals : SUBSET Matches,
         retryAt : BOOLEAN, failure : {"none", "retryable", "final"}]

\* None stands for the absence of a cursor, of a slice and of a job.
ASSUME NoneAssumption == None \notin Cursors /\ None \notin Jobs

Cursor(list, page) == [list |-> list, page |-> page]

Created(start) ==
    [rev |-> 0, stage |-> "scan", status |-> "paused", start |-> start,
     cursors |-> [i \in DOMAIN start.lists |-> Cursor(start.lists[i], 1)],
     details |-> start.targets, proposals |-> {},
     retryAt |-> FALSE, failure |-> "none"]

Reduced(job, applies, next) ==
    IF applies THEN [next EXCEPT !.rev = job.rev + 1] ELSE job

NextCursor(job) ==
    IF job.stage = "scan" /\ job.cursors # <<>> THEN Head(job.cursors) ELSE None

\* At most a batch, and no more than the proposals that the job can still take.
NextBatch(job) ==
    LET room == {BatchSize, Capacity - Cardinality(job.proposals), Len(job.details)}
    IN IF job.stage # "scan" THEN <<>>
       ELSE SubSeq(job.details, 1, CHOOSE n \in room : \A m \in room : n <= m)

Known(job) == ToSet(job.details) \cup job.proposals

\* A search goes on with its own term; another list goes behind the queue.
CursorsAfter(job, cursor, slice) ==
    Deduped(IF cursor.list \in Searches
            THEN slice.more \o Tail(job.cursors)
            ELSE Tail(job.cursors) \o slice.more \o slice.answers, Cursors)

InventoryRead(job, cursor, slice) ==
    Reduced(job, NextCursor(job) = cursor,
        [job EXCEPT !.cursors = CursorsAfter(job, cursor, slice),
                    !.details = @ \o Deduped(slice.refs, Refs \ Known(job)),
                    !.retryAt = FALSE])

DetailsRead(job, refs, found) ==
    Reduced(job, /\ job.stage = "scan" /\ refs # <<>> /\ IsPrefix(refs, job.details)
                 /\ Cardinality(job.proposals \cup found) <= Capacity,
        [job EXCEPT !.details = SubSeq(@, Len(refs) + 1, Len(@)),
                    !.proposals = @ \cup found,
                    !.retryAt = FALSE])

CanEnterReview(job) ==
    /\ job.stage = "scan" /\ job.status \in {"running", "paused"}
    /\ job.cursors = <<>> /\ job.details = <<>>

Failed(job, failure) ==
    Reduced(job, job.stage = "scan",
            [job EXCEPT !.status = "failed", !.retryAt = FALSE, !.failure = failure])

(* Mutant: the limit of proposals ends the scan. *)
QueuesDrainedAtLimit(job) ==
    Reduced(job, /\ job.stage = "scan" /\ job.status \in {"running", "paused"}
                 /\ CanEnterReview(job) \/ Cardinality(job.proposals) >= Capacity,
            [job EXCEPT !.stage = "review", !.status = "completed", !.retryAt = FALSE])

\* The limit of proposals fails the scan unless nothing is left to inspect.
QueuesDrained(job) ==
    IF job.stage = "scan" /\ job.status \in {"running", "paused"} /\ job.details # <<>>
          /\ Cardinality(job.proposals) >= Capacity
    THEN Failed(job, "final")
    ELSE Reduced(job, CanEnterReview(job),
                 [job EXCEPT !.stage = "review", !.status = "completed", !.retryAt = FALSE])

Resumed(job) ==
    Reduced(job, job.status \in {"paused", "failed"},
            [job EXCEPT !.status = "running", !.failure = "none"])

Paused(job) == Reduced(job, job.status = "running", [job EXCEPT !.status = "paused"])

CredentialInterrupted(job) ==
    Reduced(job, job.status \notin {"completed", "cancelled"},
            [job EXCEPT !.status = "paused", !.failure = "none"])

Cancelled(job) ==
    Reduced(job, job.status \notin {"completed", "cancelled"},
            [job EXCEPT !.status = "cancelled", !.retryAt = FALSE])

RetryAtSet(job) ==
    Reduced(job, job.status \notin {"failed", "cancelled"}, [job EXCEPT !.retryAt = TRUE])

RetryAtCleared(job) == Reduced(job, job.retryAt, [job EXCEPT !.retryAt = FALSE])

-----------------------------------------------------------------------------
(* The tab *)

\* live: the token of the loop is the current one; then: what follows a save.
NoLoop == [at |-> "idle", live |-> FALSE, next |-> None, then |-> "idle", call |-> NewCall]

Saving(job, then) ==
    [NoLoop EXCEPT !.at = "save", !.live = TRUE, !.next = job, !.then = then]

Fresh(job) == [view |-> job, loop |-> NoLoop, error |-> FALSE, queue |-> <<>>, barrier |-> TRUE]

(* Mutant: a loop goes on waiting for what was aborted. *)
StoppedInPlace(r) == [r EXCEPT !.loop.live = FALSE]

\* A loop that is stopped ends where it is, but for a save; the controls that
\* are queued are no longer current.
Stopped(r) ==
    [r EXCEPT !.loop = IF @.at = "save" THEN [@ EXCEPT !.live = FALSE] ELSE NoLoop,
              !.queue = [i \in DOMAIN @ |-> [@[i] EXCEPT !.current = FALSE]]]

StorageFailed(r) == Stopped([r EXCEPT !.error = TRUE])

Conflicted(r) == StorageFailed([r EXCEPT !.view = stored])

Shown(r, job) == [r EXCEPT !.view = job, !.error = FALSE]

Enqueued(r, kind) == [r EXCEPT !.queue = Append(@, [kind |-> kind, current |-> TRUE])]

Fault(kind) == kind \in Faults /\ faults < MaxFaults /\ faults' = faults + 1

\* What a save can come to: the stored job is one revision behind it, another
\* one is, or it is refused or fails.
CanSave(r, job) == job.rev = r.view.rev + 1 /\ stored.rev = r.view.rev
CanConflict(r, job) == job.rev = r.view.rev + 1 /\ stored.rev # r.view.rev
CanFail(r, job) == (job.rev # r.view.rev + 1 /\ UNCHANGED faults) \/ Fault("storage")

\* The references that a save of the loop takes off the queue.
Consumed(job, next) == ToSet(job.details) \ ToSet(next.details)

Admit ==
    LET next == Resumed(tab.view)
    IN /\ tab.loop.at = "admission" /\ tab.queue = <<>>
       /\ tab' = [tab EXCEPT !.loop =
             IF ~tab.barrier \/ tab.view.stage # "scan" THEN NoLoop
             ELSE IF tab.view.status = "running" THEN [@ EXCEPT !.at = "next", !.live = TRUE]
             ELSE IF next = tab.view THEN NoLoop ELSE Saving(next, "next")]
       /\ UNCHANGED <<stored, site, edits, faults, refusals, inspected, shrunk>>

\* One turn of the loop: wait for a deadline, end, or ask for a slice.
NextSlice ==
    LET job == tab.view
        drained == QueuesDrained(job)
    IN /\ tab.loop.at = "next" /\ tab.loop.live
       /\ \/ /\ job.retryAt
             /\ tab' = [tab EXCEPT !.loop.at = "wait"]
             /\ UNCHANGED faults
          \/ /\ ~job.retryAt /\ NextCursor(job) = None /\ NextBatch(job) = <<>>
             /\ tab' = [tab EXCEPT !.loop = IF drained = job THEN NoLoop
                                            ELSE Saving(drained, "idle")]
             /\ UNCHANGED faults
          \/ /\ ~job.retryAt /\ (NextCursor(job) # None \/ NextBatch(job) # <<>>)
             /\ \/ tab' = [tab EXCEPT !.loop.at = "request"] /\ UNCHANGED faults
                \/ /\ Fault("credentials")
                   /\ tab' = [tab EXCEPT !.loop = Saving(CredentialInterrupted(job), "idle")]
       /\ UNCHANGED <<stored, site, edits, refusals, inspected, shrunk>>

DeadlinePassed ==
    /\ tab.loop.at = "wait" /\ tab.loop.live
    /\ tab' = [tab EXCEPT !.loop = Saving(RetryAtCleared(tab.view), "next")]
    /\ UNCHANGED <<stored, site, edits, faults, refusals, inspected, shrunk>>

\* What the server makes of a page: the candidates, the lists of answers that
\* it opens and the page that follows.
Slice(cursor) ==
    LET list == site[cursor.list]
        page == {i \in DOMAIN list : (cursor.page - 1) * PageSize < i /\ i <= cursor.page * PageSize}
        asked == AtPlaces(list, {i \in page : list[i] \in DOMAIN AnswerList})
    IN [refs |-> AtPlaces(list, {i \in page : cursor.list \in Searches \/ list[i] \in Candidates}),
        answers |-> IF cursor.list \in Searches THEN <<>>
                    ELSE [i \in DOMAIN asked |-> Cursor(AnswerList[asked[i]], 1)],
        more |-> IF cursor.page * PageSize < Len(list)
                 THEN <<Cursor(cursor.list, cursor.page + 1)>> ELSE <<>>]

(* Mutant: details are inspected as soon as there are any. *)
AfterSliceEager(job, slice) ==
    IF NextBatch(job) # <<>>
    THEN DetailsRead(job, NextBatch(job), ToSet(NextBatch(job)) \cap Matches)
    ELSE InventoryRead(job, NextCursor(job), slice)

\* Details wait for the end of the inventory.
AfterSlice(job, slice) ==
    IF NextCursor(job) # None
    THEN InventoryRead(job, NextCursor(job), slice)
    ELSE DetailsRead(job, NextBatch(job), ToSet(NextBatch(job)) \cap Matches)

Slices(job) == IF NextCursor(job) # None THEN {Slice(NextCursor(job))} ELSE {None}

Exists(ref) == \E l \in Lists : ref \in ToSet(site[l])

\* A detail that was removed is a reply 404, which is not retried.  A reply
\* that carries a throttle notice, of a wait or of few calls left, reduces the
\* job a second time.
SliceRead ==
    LET job == tab.view
        gone == NextCursor(job) = None /\ \E r \in ToSet(NextBatch(job)) : ~Exists(r)
    IN /\ tab.loop.at = "request" /\ tab.loop.live
       /\ \E slice \in Slices(job), notice \in {tab.loop.call.noticed, TRUE} :
             tab' = [tab EXCEPT !.loop =
                IF gone THEN Saving(Failed(job, "final"), "idle")
                ELSE IF notice THEN Saving(RetryAtSet(AfterSlice(job, slice)), "wait")
                ELSE Saving(AfterSlice(job, slice), "next")]
       /\ UNCHANGED <<stored, site, edits, faults, refusals, inspected, shrunk>>

\* The server tries again, or passes the refusal on: the browser waits for a
\* deadline after a 429 and fails the scan after anything else.
Refused(refusal) ==
    LET job == tab.view
        call == tab.loop.call
    IN /\ tab.loop.at = "request" /\ tab.loop.live
       /\ refusals < MaxRefusals /\ refusals' = refusals + 1
       /\ tab' = [tab EXCEPT !.loop =
             IF MayRetry(call, refusal) THEN [@ EXCEPT !.call = Retried(call, refusal)]
             ELSE IF refusal.kind = "429" THEN Saving(RetryAtSet(job), "next")
             ELSE Saving(Failed(job, "retryable"), "idle")]
       /\ UNCHANGED <<stored, site, edits, faults, inspected, shrunk>>

\* The route is out of reach, its credentials are refused, or the request is.
RequestFails(kind) ==
    LET job == tab.view
    IN /\ tab.loop.at = "request" /\ tab.loop.live
       /\ Fault(kind)
       /\ tab' = [tab EXCEPT !.loop =
             CASE kind = "network" -> Saving(Failed(job, "retryable"), "idle")
               [] kind = "401" -> Saving(CredentialInterrupted(job), "idle")
               [] kind = "rejected" -> Saving(Failed(job, "final"), "idle")]
       /\ UNCHANGED <<stored, site, edits, refusals, inspected, shrunk>>

LoopSaved ==
    LET next == tab.loop.next
        over == [tab EXCEPT !.loop = NoLoop]
    IN /\ tab.loop.at = "save"
       /\ \/ /\ ~tab.loop.live
             /\ tab' = over
             /\ UNCHANGED <<stored, faults, inspected>>
          \/ /\ CanSave(tab, next)
             /\ stored' = next
             /\ inspected' = inspected \cup Consumed(stored, next)
             /\ tab' = IF ~tab.loop.live THEN over
                       ELSE IF tab.loop.then = "idle" THEN Shown(over, next)
                       ELSE Shown([tab EXCEPT !.loop = [@ EXCEPT !.at = tab.loop.then,
                                                                 !.next = None]], next)
             /\ UNCHANGED faults
          \/ /\ CanConflict(tab, next)
             /\ tab' = [Conflicted(tab) EXCEPT !.loop = NoLoop]
             /\ UNCHANGED <<stored, faults, inspected>>
          \/ /\ CanFail(tab, next)
             /\ tab' = [StorageFailed(tab) EXCEPT !.loop = NoLoop]
             /\ UNCHANGED <<stored, inspected>>
       /\ UNCHANGED <<site, edits, refusals, shrunk>>

\* The controls take turns behind the save of a loop.  A pause is refused once
\* its token is no longer current; a cancellation needs a job at rest.
Candidate(kind) == CASE kind = "pause" -> Paused(tab.view)
                     [] kind = "cancel" -> IF tab.view.status = "running" THEN tab.view
                                           ELSE Cancelled(tab.view)
                     [] kind = "interrupt" -> Paused(stored)

Dequeued(r, ok) ==
    [r EXCEPT !.queue = Tail(@),
              !.barrier = IF Head(tab.queue).kind = "pause" THEN ok ELSE @]

ControlSaved ==
    LET first == Head(tab.queue)
        next == Candidate(first.kind)
        base == IF first.kind = "interrupt" THEN [tab EXCEPT !.view = stored] ELSE tab
        ready == IF first.kind = "cancel" THEN Stopped(base) ELSE base
    IN /\ tab.queue # <<>> /\ tab.loop.at # "save"
       /\ \/ /\ next = base.view
             /\ tab' = Dequeued(base, TRUE)
             /\ UNCHANGED <<stored, faults>>
          \/ /\ next # base.view /\ first.kind = "pause" /\ ~first.current
             /\ tab' = Dequeued(tab, FALSE)
             /\ UNCHANGED <<stored, faults>>
          \/ /\ next # base.view /\ CanSave(base, next)
             /\ stored' = next
             /\ tab' = Dequeued(Shown(ready, next), TRUE)
             /\ UNCHANGED faults
          \/ /\ next # base.view /\ CanConflict(base, next)
             /\ tab' = Dequeued(Conflicted(ready), FALSE)
             /\ UNCHANGED <<stored, faults>>
          \/ /\ next # base.view /\ CanFail(base, next)
             /\ tab' = Dequeued([StorageFailed(ready) EXCEPT !.view = tab.view], FALSE)
             /\ UNCHANGED stored
       /\ UNCHANGED <<site, edits, refusals, inspected, shrunk>>

-----------------------------------------------------------------------------
(* The user, and the others who write content *)

\* A bound of the model: the job is shown and its revision is not too high.
Usable == tab.view # None /\ tab.view.rev < MaxRev

\* Resume, Retry, and Finish scan and review are the same call.
Offered(job) ==
    \/ job.status = "paused" /\ job.failure = "none"
    \/ job.status = "failed" /\ job.failure = "retryable"
    \/ CanEnterReview(job)

Resume ==
    /\ Usable /\ ~tab.error /\ tab.loop.at = "idle"
    /\ tab.view.stage = "scan" /\ Offered(tab.view)
    /\ tab' = [tab EXCEPT !.loop = [NoLoop EXCEPT !.at = "admission"]]
    /\ UNCHANGED <<stored, site, edits, faults, refusals, inspected, shrunk>>

Pause ==
    /\ Usable /\ tab.view.stage = "scan" /\ tab.view.status = "running" /\ Len(tab.queue) < 2
    /\ tab' = Enqueued(Stopped(tab), "pause")
    /\ UNCHANGED <<stored, site, edits, faults, refusals, inspected, shrunk>>

\* A cancellation pauses a running scan first; the confirmation may come when
\* the scan does not run any more.
Cancel ==
    /\ Usable /\ tab.view.stage = "scan" /\ tab.queue = <<>>
    /\ \/ /\ tab.view.status = "running"
          /\ tab' = Enqueued(Enqueued(Stopped(tab), "pause"), "cancel")
       \/ /\ tab.view.status # "running" /\ tab.loop.at = "idle"
          /\ tab' = Enqueued(tab, "cancel")
    /\ UNCHANGED <<stored, site, edits, faults, refusals, inspected, shrunk>>

\* The tab dies or is loaded again: a save under way is made or not, and a
\* job that is stored as running is turned to a paused one.
Reload ==
    /\ tab.view # None => tab.view.rev < MaxRev
    /\ \/ UNCHANGED <<stored, inspected>>
       \/ /\ tab.loop.at = "save" /\ CanSave(tab, tab.loop.next)
          /\ stored' = tab.loop.next
          /\ inspected' = inspected \cup Consumed(stored, tab.loop.next)
    /\ tab' = IF stored'.status = "running" THEN Enqueued(Fresh(None), "interrupt")
                                            ELSE Fresh(stored')
    /\ UNCHANGED <<site, edits, faults, refusals, shrunk>>

\* Bound: content is added at the front of a list, where it moves every page.
AddContent(list, ref) ==
    /\ edits < MaxEdits /\ edits' = edits + 1
    /\ ref \notin ToSet(site[list])
    /\ site' = [site EXCEPT ![list] = <<ref>> \o @]
    /\ UNCHANGED <<stored, tab, faults, refusals, inspected, shrunk>>

RemoveContent(ref) ==
    /\ edits < MaxEdits /\ edits' = edits + 1
    /\ Exists(ref)
    /\ site' = [l \in Lists |-> AtPlaces(site[l], {i \in DOMAIN site[l] : site[l][i] # ref})]
    /\ shrunk' = shrunk \cup {l \in Lists : ref \in ToSet(site[l])}
    /\ UNCHANGED <<stored, tab, faults, refusals, inspected>>

-----------------------------------------------------------------------------
Init ==
    /\ \E start \in Starts : stored = Created(start)
    /\ tab = Fresh(stored)
    /\ site = FirstSite
    /\ edits = 0 /\ faults = 0 /\ refusals = 0
    /\ inspected = {} /\ shrunk = {}

TabStep == \/ Admit \/ NextSlice \/ DeadlinePassed \/ SliceRead
           \/ LoopSaved \/ ControlSaved

UserStep == Resume \/ Pause \/ Cancel \/ Reload

Next ==
    \/ TabStep \/ UserStep
    \/ \E refusal \in Refusals : Refused(refusal)
    \/ \E kind \in {"network", "401", "rejected"} : RequestFails(kind)
    \/ \E a \in Added : AddContent(a[1], a[2])
    \/ \E ref \in Removed : RemoveContent(ref)

\* The event loop, the storage and the server go on by themselves.
Spec == Init /\ [][Next]_vars /\ WF_vars(TabStep)

-----------------------------------------------------------------------------
(* Properties *)

Loops == [at : {"idle", "admission", "next", "wait", "request", "save"}, live : BOOLEAN,
          next : {None} \cup Jobs, then : {"idle", "next", "wait"}, call : Calls]

Controls == [kind : {"pause", "cancel", "interrupt"}, current : BOOLEAN]

Tabs == [view : {None} \cup Jobs, loop : Loops, error : BOOLEAN,
         queue : Seq(Controls), barrier : BOOLEAN]

IsSound(job) ==
    /\ IsInjective(job.cursors) /\ IsInjective(job.details)
    /\ Cardinality(job.proposals) <= Capacity

\* The types of the variables; the queues of a job hold nothing twice, and its
\* proposals keep to their limit.
TypeOK ==
    /\ stored \in Jobs /\ IsSound(stored)
    /\ tab \in Tabs /\ Len(tab.queue) <= 2
    /\ tab.view # None => IsSound(tab.view)
    /\ tab.loop.next # None => IsSound(tab.loop.next)
    /\ site \in [Lists -> Seq(Refs)]
    /\ edits \in Nat /\ faults \in Nat /\ refusals \in Nat
    /\ inspected \subseteq Refs /\ shrunk \subseteq Lists

\* A list from which nothing was removed, and whose question, if it holds
\* answers, is on such a list.
Whole(list) ==
    /\ list \notin shrunk
    /\ \A l \in Lists : \A q \in DOMAIN AnswerList :
          AnswerList[q] = list /\ q \in ToSet(FirstSite[l]) /\ l \notin Searches => l \notin shrunk

\* The lists that a scan reads: those it starts with, and the answers of the
\* questions on them.
Covered(start) ==
    ToSet(start.lists) \cup
    {AnswerList[q] : q \in {x \in DOMAIN AnswerList :
        \E l \in ToSet(start.lists) \ Searches : x \in ToSet(FirstSite[l])}}

\* A scan that goes to the review has a proposal for every match that was on
\* its lists when it began, however the pages moved and whichever saves,
\* replies and runs were lost; only a list that shrinks hides its content.
NothingMissed ==
    stored.stage = "review" =>
        /\ ToSet(stored.start.targets) \cap Matches \subseteq stored.proposals
        /\ \A l \in Covered(stored.start) : Whole(l) =>
              ToSet(FirstSite[l]) \cap Matches \subseteq stored.proposals

\* No reference is inspected twice: one that several pages or several
\* searches show is queued once, and never after it was inspected.
InspectedOnce == ToSet(stored.details) \cap inspected = {}

\* The server asks the instance for one page or item at most four times and
\* waits no longer than its budget, whatever delays it is told.
ReadIsBounded == IsBounded(tab.loop.call)

\* A scan that runs comes to rest, whatever fails and whoever stops it.
ScanEnds == tab.loop.at # "idle" ~> tab.loop.at = "idle"
=============================================================================
