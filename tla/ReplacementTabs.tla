-------------------------- MODULE ReplacementTabs --------------------------
(***************************************************************************)
(* The tabs of a browser that work on one content replacement job, from    *)
(* the review on (src/hooks/useContentReplacementJob.ts), the storage they *)
(* share (src/utils/browserContentReplacementStorage.ts) and the server    *)
(* routes that read and write the content                                  *)
(* (src/server/contentReplacementApplyApi.ts, ...RecoveryApi.ts).          *)
(*                                                                         *)
(* A tab runs at most one loop, which saves the job before and after each  *)
(* request, and a queue of local mutations (pause, prepare, ...).  Stopping*)
(* a loop aborts its request in the browser; the server does not notice    *)
(* and goes on.  A save that was under way is dropped or committed, but    *)
(* not shown.  In one tab the storage queue of the job puts the save of a  *)
(* loop before those of the mutations that follow.                         *)
(***************************************************************************)
EXTENDS ReplacementJobState, FiniteSets, Functions

CONSTANTS Tabs,
          Calls,      \* slots for the requests that the server works on
          Before,     \* what the scan has read: a function from Keys to Texts
          Controls,   \* the controls that the users of an instance have
          Faults,     \* what can fail: "storage", "credentials", "network",
                      \* "api" (one content call), "401", "400", "throttle"
          MaxRev,     \* bound on the revision at which a control is used
          MaxEdits,   \* bound on the edits made by others
          MaxFaults

ASSUME TabsAssumption ==
    /\ Before \in [Keys -> Texts]
    /\ \A k \in Keys : Rewrite[Before[k]] # Before[k]
    /\ None \notin Tabs \cup Keys

VARIABLES
    stored,     \* the job in IndexedDB, None once it is deleted
    tab,        \* what each tab holds
    content,    \* the text of each item at the Stack Enterprise instance
    call,       \* the requests that the server works on
    edits, faults,
    confirmed,  \* history: what users confirmed, as pairs of key and text
    replaced,   \* history: the text that an update replaced, until it is undone
    seen        \* history: the texts that the server has read of each item

vars == <<stored, tab, content, call, edits, faults, confirmed, replaced, seen>>
history == <<confirmed, replaced, seen>>

-----------------------------------------------------------------------------
(* A tab *)

\* live: the token of the loop is the current one; then: what follows a save.
NoLoop == [at |-> "idle", live |-> FALSE, kind |-> "apply", keys |-> <<>>,
           key |-> None, cand |-> None, then |-> "idle"]

Loop(kind, keys) == [NoLoop EXCEPT !.at = "admission", !.live = TRUE,
                                   !.kind = kind, !.keys = keys]

Saving(loop, cand, then) == [loop EXCEPT !.at = "save", !.cand = cand, !.then = then]

\* current: the token of a pause is the current one.
Mutation(kind, arg) == [kind |-> kind, arg |-> arg, cand |-> None, current |-> TRUE]

\* Mutations of the job that is shown; any other first loads the stored one.
OfVisible == {"pause", "retry", "rescan", "preview", "delete-snapshots"}

LoopAfter == [retry |-> "apply", rescan |-> "rescan", preview |-> "preview"]

Candidate(mutation, job) ==
    CASE mutation.kind = "pause" -> Paused(job)
      [] mutation.kind = "interrupt" -> Interrupted(job)
      [] mutation.kind = "include" -> SetIncluded(job, mutation.arg, TRUE)
      [] mutation.kind = "exclude" -> SetIncluded(job, mutation.arg, FALSE)
      [] mutation.kind = "prepare" -> ApplyPrepared(job, mutation.arg)
      [] mutation.kind = "retry" -> RetryEligible(job)
      [] mutation.kind = "rescan" -> StaleRescanStarted(job)
      [] mutation.kind = "preview" -> RecoveryPreviewRunStarted(job, mutation.arg)
      [] mutation.kind = "delete-snapshots" -> RecoverySnapshotsDeleted(job)

Changed(job, next) == IF next = job THEN None ELSE next

WithCandidate(r, cand) ==
    [r EXCEPT !.queue = [r.queue EXCEPT ![1] = [r.queue[1] EXCEPT !.cand = cand]]]

\* The candidate of a mutation is made when its turn comes; None is no change.
Begun(r) ==
    IF r.queue = <<>> \/ r.view = None THEN r
    ELSE IF Head(r.queue).kind \notin OfVisible THEN r
    ELSE WithCandidate(r, Changed(r.view, Candidate(Head(r.queue), r.view)))

Enqueued(r, mutation) ==
    LET next == [r EXCEPT !.queue = Append(r.queue, mutation)]
    IN IF r.queue = <<>> THEN Begun(next) ELSE next

\* The barrier is the result of the last pause; a run waits for it.
Dequeued(r, ok) ==
    LET kind == Head(r.queue).kind
    IN Begun([r EXCEPT !.queue = Tail(r.queue),
                       !.barrier = IF kind = "pause" THEN ok ELSE r.barrier,
                       !.loop = IF ok /\ kind \in DOMAIN LoopAfter /\ r.loop.at = "idle"
                                THEN Loop(LoopAfter[kind], <<>>) ELSE r.loop])

(* Mutant: a loop goes on waiting for a request that was aborted. *)
StoppedInRequest(r) == [r EXCEPT !.loop.live = FALSE]

\* The token is no longer current: a loop ends where it is, but for a save.
Stopped(r) ==
    [r EXCEPT !.loop = IF r.loop.at = "save" THEN [r.loop EXCEPT !.live = FALSE] ELSE NoLoop,
              !.queue = [i \in DOMAIN r.queue |-> [r.queue[i] EXCEPT !.current = FALSE]]]

Conflicted(r) == Stopped([r EXCEPT !.view = stored, !.error = "conflict"])

StorageFailed(r) == Stopped([r EXCEPT !.error = "storage"])

Shown(r, job) == [r EXCEPT !.view = job, !.error = "none"]

SetTab(t, r) == tab' = [tab EXCEPT ![t] = r]

Fault(kind) == kind \in Faults /\ faults < MaxFaults /\ faults' = faults + 1

-----------------------------------------------------------------------------
(* The storage: a save names the revision it was made from *)

(* Mutant: a save that comes after another one is accepted. *)
RevisionsMatchLoosely(revision) == stored # None /\ stored.rev >= revision

(* Mutant: a save creates the job again after it was deleted. *)
RevisionsMatchOrAbsent(revision) == stored = None \/ stored.rev = revision

RevisionsMatch(revision) == stored # None /\ stored.rev = revision

\* A candidate that is not the next revision is refused as corrupt.
Follows(cand, revision) == cand.rev = revision + 1

CanSave(r, cand) ==
    /\ r.view # None
    /\ Follows(cand, r.view.rev)
    /\ RevisionsMatch(r.view.rev)

CanConflict(r, cand) ==
    /\ r.view # None
    /\ Follows(cand, r.view.rev)
    /\ ~RevisionsMatch(r.view.rev)

\* Refused before the transaction, or the transaction fails.
CanFail(r, cand) ==
    \/ (r.view # None => ~Follows(cand, r.view.rev)) /\ UNCHANGED faults
    \/ Fault("storage")

-----------------------------------------------------------------------------
(* The queue of local mutations *)

NothingToSave(t) ==
    LET r == tab[t]
    IN /\ r.queue # <<>>
       /\ Head(r.queue).kind \in OfVisible
       /\ Head(r.queue).cand = None
       /\ SetTab(t, Dequeued(r, Head(r.queue).kind = "pause"))
       /\ UNCHANGED <<stored, content, call, edits, faults, history>>

MutationSaved(t) ==
    LET r == tab[t]
        m == Head(r.queue)
    IN /\ r.queue # <<>> /\ m.cand # None /\ r.loop.at # "save"
       /\ \/ /\ m.kind = "pause" /\ ~m.current
             /\ SetTab(t, Dequeued(r, FALSE))
             /\ UNCHANGED <<stored, faults>>
          \/ /\ m.kind \in OfVisible /\ CanSave(r, m.cand)
             /\ stored' = m.cand
             /\ SetTab(t, IF m.current THEN Dequeued(Shown(r, m.cand), TRUE)
                                       ELSE Dequeued(r, FALSE))
             /\ UNCHANGED faults
          \/ /\ m.kind \notin OfVisible /\ RevisionsMatch(m.cand.rev - 1)
             /\ stored' = m.cand
             /\ SetTab(t, Dequeued(Shown(r, m.cand), TRUE))
             /\ UNCHANGED faults
          \/ /\ IF m.kind \in OfVisible THEN CanConflict(r, m.cand)
                                        ELSE ~RevisionsMatch(m.cand.rev - 1)
             /\ SetTab(t, Dequeued(Conflicted(r), FALSE))
             /\ UNCHANGED <<stored, faults>>
          \/ /\ IF m.kind \in OfVisible THEN CanFail(r, m.cand) ELSE Fault("storage")
             /\ SetTab(t, Dequeued(StorageFailed(r), FALSE))
             /\ UNCHANGED stored
       /\ UNCHANGED <<content, call, edits, history>>

\* A mutation of the stored job that changes nothing is over: a prepared
\* apply reports it as a conflict.
JobLoaded(t) ==
    LET r == tab[t]
        m == Head(r.queue)
        next == Candidate(m, stored)
    IN /\ r.queue # <<>> /\ m.kind \notin OfVisible /\ m.cand = None
       /\ \/ /\ stored = None
             /\ SetTab(t, Dequeued(Conflicted(r), FALSE))
             /\ UNCHANGED faults
          \/ /\ stored # None /\ next # stored
             /\ SetTab(t, WithCandidate(r, next))
             /\ UNCHANGED faults
          \/ /\ stored # None /\ next = stored
             /\ SetTab(t, Dequeued([r EXCEPT !.view = stored,
                                             !.error = IF m.kind = "prepare" THEN "conflict"
                                                       ELSE "none"], TRUE))
             /\ UNCHANGED faults
          \/ /\ Fault("storage")
             /\ SetTab(t, Dequeued(StorageFailed(r), FALSE))
       /\ UNCHANGED <<stored, content, call, edits, history>>

-----------------------------------------------------------------------------
(* The loops *)

Admit(t) ==
    LET r == tab[t]
        first == IF r.loop.kind \in {"apply", "recover"} THEN "load" ELSE "next"
        keys == IF r.loop.kind # "preview" THEN r.loop.keys
                ELSE IF r.view.op = None THEN <<>> ELSE r.view.op.remaining
    IN /\ r.loop.at = "admission" /\ r.queue = <<>>
       /\ SetTab(t, [r EXCEPT !.loop = IF ~r.barrier THEN NoLoop
                                       ELSE [r.loop EXCEPT !.at = first, !.keys = keys]])
       /\ UNCHANGED <<stored, content, call, edits, faults, history>>

Started(r) ==
    IF r.loop.kind = "apply" THEN ApplyStarted(stored)
                             ELSE RecoveryStarted(stored, ToSet(r.loop.keys))

\* An apply and a recovery start from the stored job, which must be the one
\* that is shown.
Load(t) ==
    LET r == tab[t]
        nothing == IF r.loop.kind = "apply" THEN Started(r) = stored
                   ELSE ~\E k \in ToSet(r.loop.keys) \cap DOMAIN stored.items :
                             Recoverable(stored.items[k])
    IN /\ r.loop.at = "load"
       /\ \/ /\ stored = r.view /\ stored.snapshots
             /\ SetTab(t, [r EXCEPT !.loop = IF nothing THEN NoLoop
                                             ELSE Saving(r.loop, Started(r), "next")])
             /\ UNCHANGED faults
          \/ /\ stored = r.view /\ stored.snapshots
             /\ Fault("credentials")
             /\ SetTab(t, [r EXCEPT !.loop = Saving(r.loop, CredentialInterrupted(stored), "idle")])
          \/ /\ stored # r.view \/ ~r.view.snapshots
             /\ SetTab(t, [r EXCEPT !.loop = NoLoop, !.error = "stale"])
             /\ UNCHANGED faults
          \/ /\ Fault("storage")
             /\ SetTab(t, [r EXCEPT !.loop = NoLoop, !.error = "storage"])
       /\ UNCHANGED <<stored, content, call, edits, history>>

\* What is left to do, in order.  A rescan takes its keys one at a time
\* (bound: the batches of 10 of the code are batches of 1).
Remaining(r) ==
    CASE r.loop.kind = "apply" -> ApplyItems(r.view)
      [] r.loop.kind = "rescan" -> IF IsRescanning(r.view) THEN r.view.op.remaining ELSE <<>>
      [] r.loop.kind = "preview" ->
            AsListed(r.loop.keys, KeysWhere(r.view, HasSuccessfulApply))
      [] r.loop.kind = "recover" ->
            AsListed(r.loop.keys, {k \in KeysWhere(r.view, HasSuccessfulApply) :
                                       r.view.items[k].preview = "recoverable"})

ItemStarted(r, key) ==
    CASE r.loop.kind = "apply" -> ApplyItemStarted(r.view, key)
      [] r.loop.kind = "preview" -> RecoveryPreviewStarted(r.view, key)
      [] r.loop.kind = "recover" -> RecoveryItemStarted(r.view, key)

NoCall == [phase |-> "free", owner |-> None, kind |-> "apply", key |-> None,
           text |-> None, update |-> None, reply |-> None]

\* The request names the text that the item was reviewed with.
Request(t, r) ==
    \E c \in Calls :
        /\ call[c].phase = "free"
        /\ call' = [call EXCEPT ![c] =
              [NoCall EXCEPT !.phase = "read", !.owner = t, !.kind = r.loop.kind,
                             !.key = r.loop.key,
                             !.text = IF r.loop.kind = "recover"
                                      THEN r.view.items[r.loop.key].prior
                                      ELSE r.view.items[r.loop.key].before]]

\* A recovery waits before it looks whether an item is left to do.
MustWait(r) ==
    /\ r.view.retryAt
    /\ (IF r.loop.kind = "recover" THEN r.loop.keys ELSE Remaining(r)) # <<>>

NextItem(t) ==
    LET r == tab[t]
        keys == Remaining(r)
        at == [r.loop EXCEPT !.key = Head(keys), !.keys = Tail(keys)]
    IN /\ r.loop.at = "next"
       /\ \/ /\ keys = <<>> /\ ~MustWait(r)
             /\ SetTab(t, [r EXCEPT !.loop = NoLoop])
             /\ UNCHANGED <<call, faults>>
          \/ /\ MustWait(r)
             /\ SetTab(t, [r EXCEPT !.loop = [r.loop EXCEPT !.at = "wait"]])
             /\ UNCHANGED <<call, faults>>
          \/ /\ keys # <<>> /\ ~r.view.retryAt
             /\ Fault("credentials")
             /\ SetTab(t, [r EXCEPT !.loop = Saving(r.loop, CredentialInterrupted(r.view), "idle")])
             /\ UNCHANGED call
          \/ /\ keys # <<>> /\ ~r.view.retryAt /\ r.loop.kind # "rescan"
             /\ SetTab(t, [r EXCEPT !.loop = Saving(at, ItemStarted(r, Head(keys)), "sent")])
             /\ UNCHANGED <<call, faults>>
          \/ /\ keys # <<>> /\ ~r.view.retryAt /\ r.loop.kind = "rescan"
             /\ SetTab(t, [r EXCEPT !.loop = [at EXCEPT !.at = "sent"]])
             /\ Request(t, [r EXCEPT !.loop = at])
             /\ UNCHANGED faults
       /\ UNCHANGED <<stored, content, edits, history>>

\* The persisted deadline has passed.
DeadlinePassed(t) ==
    LET r == tab[t]
    IN /\ r.loop.at = "wait"
       /\ SetTab(t, [r EXCEPT !.loop = Saving(r.loop, RetryAtCleared(r.view), "next")])
       /\ UNCHANGED <<stored, content, call, edits, faults, history>>

LoopSaved(t) ==
    LET r == tab[t]
        shown == Shown(r, r.loop.cand)
    IN /\ r.loop.at = "save"
       /\ \/ /\ ~r.loop.live
             /\ SetTab(t, [r EXCEPT !.loop = NoLoop])
             /\ UNCHANGED <<stored, call, faults>>
          \/ /\ CanSave(r, r.loop.cand)
             /\ stored' = r.loop.cand
             /\ SetTab(t, IF ~r.loop.live THEN [r EXCEPT !.loop = NoLoop]
                          ELSE IF r.loop.then = "idle" THEN [shown EXCEPT !.loop = NoLoop]
                          ELSE [shown EXCEPT !.loop = [r.loop EXCEPT !.at = r.loop.then,
                                                                     !.cand = None]])
             /\ IF r.loop.live /\ r.loop.then = "sent" THEN Request(t, shown)
                                                       ELSE UNCHANGED call
             /\ UNCHANGED faults
          \/ /\ CanConflict(r, r.loop.cand)
             /\ SetTab(t, [Conflicted(r) EXCEPT !.loop = NoLoop])
             /\ UNCHANGED <<stored, call, faults>>
          \/ /\ CanFail(r, r.loop.cand)
             /\ SetTab(t, [StorageFailed(r) EXCEPT !.loop = NoLoop])
             /\ UNCHANGED <<stored, call>>
       /\ UNCHANGED <<content, edits, history>>

\* The job after a reply, and whether the loop goes on.
AfterReply(r, reply) ==
    LET job == r.view
        key == r.loop.key
        retryable == reply.status \in {"network", "failed"}
    IN IF reply.status = "401" \/ (r.loop.kind = "rescan" /\ reply.status = "permission")
       THEN CredentialInterrupted(job)
       ELSE
       CASE r.loop.kind = "apply" -> ApplyItemFinished(job, key, reply)
         [] r.loop.kind = "recover" ->
               RecoveryItemFinished(job, key, IF reply.status = "400"
                                              THEN [reply EXCEPT !.status = "failed"] ELSE reply)
         [] r.loop.kind = "preview" ->
               IF reply.status \in {"recoverable", "already-recovered", "conflict"}
               THEN RecoveryPreviewFinished(job, key, reply.status)
               ELSE RecoveryPreviewFailed(job, key, retryable, reply.status = "permission")
         [] r.loop.kind = "rescan" ->
               IF reply.status = "429" THEN RetryAtSet(job)
               ELSE IF reply.status = "scanned" THEN StaleItemRescanned(job, key, reply.observed)
               ELSE StaleRescanFailed(job)

GoesOn(r, reply) ==
    IF r.loop.kind = "rescan" THEN reply.status \in {"429", "scanned"}
                              ELSE reply.status \notin {"401", "400"}

\* A throttled reply is given a deadline before it is saved.
WithNotices(job, reply) == IF reply.throttled THEN RetryAtSet(job) ELSE job

Answered(t, r, reply) ==
    SetTab(t, [r EXCEPT !.loop = Saving(r.loop, WithNotices(AfterReply(r, reply), reply),
                                        IF reply.throttled THEN "wait"
                                        ELSE IF GoesOn(r, reply) THEN "next" ELSE "idle")])

Reply(t, c) ==
    /\ call[c].owner = t
    /\ call[c].phase = "done"
    /\ Answered(t, tab[t], call[c].reply)
    /\ call' = [call EXCEPT ![c] = NoCall]
    /\ UNCHANGED <<stored, content, edits, faults, history>>

Answer(status, observed) == [status |-> status, observed |-> observed, throttled |-> FALSE]

\* The requests of a tab that has stopped waiting for them.
Abandoned(t) ==
    [c \in Calls |-> IF call[c].owner # t THEN call[c]
                     ELSE IF call[c].phase = "done" THEN NoCall
                     ELSE [call[c] EXCEPT !.owner = None]]

NetworkFails(t) ==
    /\ tab[t].loop.at = "sent"
    /\ Fault("network")
    /\ Answered(t, tab[t], Answer("network", None))
    /\ call' = Abandoned(t)
    /\ UNCHANGED <<stored, content, edits, history>>

-----------------------------------------------------------------------------
(* The server *)

Done(c, reply) ==
    call' = [call EXCEPT ![c] = IF call[c].owner = None THEN NoCall
                                ELSE [call[c] EXCEPT !.phase = "done", !.reply = reply]]

Throttled(reply) == [reply EXCEPT !.throttled = TRUE]

\* Throttle notices come with any answer; a rescan may get a 429 instead.
Answers(c, status, observed) ==
    \/ Done(c, Answer(status, observed)) /\ UNCHANGED faults
    \/ /\ Fault("throttle")
       /\ \/ Done(c, Throttled(Answer(status, observed)))
          \/ call[c].kind = "rescan" /\ Done(c, Answer("429", None))

\* A failure of an item comes with the notices too, a rescan that fails has none.
CallFails(c) ==
    \/ /\ Fault("api")
       /\ \E status \in {"network", "permission", "validation", "failed"} :
              \/ Done(c, Answer(status, None))
              \/ /\ "throttle" \in Faults /\ call[c].kind # "rescan"
                 /\ Done(c, Throttled(Answer(status, None)))
    \/ Fault("401") /\ Done(c, Answer("401", None))
    \/ /\ Fault("400")
       /\ call[c].phase = "read"
       /\ Done(c, Answer("400", None))

(* Mutant: the update is built from whatever text is there. *)
ToWriteAnyway(kind, text, current) == kind = "apply" /\ current # Rewrite[text]

\* The text that is there is the one the request was made for.
ToWrite(kind, text, current) ==
    \/ kind = "apply" /\ current = text
    \/ kind = "recover" /\ current = Rewrite[text]

\* An update is made from the text that was read, a recovery from the prior one.
Update(kind, text, current) == IF kind = "apply" THEN Rewrite[current] ELSE text

StateOf(kind, text, current) ==
    CASE kind = "apply" -> IF current = Rewrite[text] THEN "already-applied" ELSE "stale"
      [] kind = "rescan" -> "scanned"
      [] OTHER -> IF current = text THEN "already-recovered"
                  ELSE IF current = Rewrite[text] THEN "recoverable" ELSE "conflict"

Proposed(text) == IF Rewrite[text] = text THEN None ELSE text

Read(c) ==
    LET current == content[call[c].key]
        kind == call[c].kind
    IN /\ call[c].phase = "read"
       /\ IF ToWrite(kind, call[c].text, current)
          THEN /\ call' = [call EXCEPT ![c] = [call[c] EXCEPT !.phase = "write",
                               !.update = Update(kind, call[c].text, current)]]
               /\ UNCHANGED faults
          ELSE Answers(c, StateOf(kind, call[c].text, current),
                       IF kind = "rescan" THEN Proposed(current) ELSE current)
       /\ seen' = [seen EXCEPT ![call[c].key] = @ \cup {current}]
       /\ UNCHANGED <<stored, tab, content, edits, confirmed, replaced>>

\* A failed update may have been made.
Write(c) ==
    LET key == call[c].key
        text == call[c].text
        apply == call[c].kind = "apply"
    IN /\ call[c].phase = "write"
       /\ content' = [content EXCEPT ![key] = call[c].update]
       /\ replaced' = [replaced EXCEPT ![key] =
                          IF apply /\ content[key] = text THEN text
                          ELSE IF apply /\ content[key] = Rewrite[text] THEN @ ELSE None]
       /\ \/ call' = [call EXCEPT ![c] = [call[c] EXCEPT !.phase = "verify"]]
             /\ UNCHANGED faults
          \/ CallFails(c)
       /\ UNCHANGED <<stored, tab, edits, confirmed, seen>>

\* An update is compared with what the item then contains.
Verify(c) ==
    LET current == content[call[c].key]
    IN /\ call[c].phase = "verify"
       /\ Answers(c, IF call[c].kind = "apply" THEN "updated"
                     ELSE IF current = call[c].text THEN "recovered"
                     ELSE "verification-failed", current)
       /\ seen' = [seen EXCEPT ![call[c].key] = @ \cup {current}]
       /\ UNCHANGED <<stored, tab, content, edits, confirmed, replaced>>

CallFailed(c) ==
    /\ call[c].phase \in {"read", "write", "verify"}
    /\ CallFails(c)
    /\ UNCHANGED <<stored, tab, content, edits, history>>

-----------------------------------------------------------------------------
(* Users *)

IsIdle(r) == r.loop.at = "idle" /\ r.queue = <<>>

\* No run: what most controls ask for.
IsFree(job) == job.status # "running" /\ job.op = None

HasStarted(job) == \E k \in DOMAIN job.items : job.items[k].tried

\* The controls that a tab offers (src/components/ContentReplacement*Step.tsx).
Offered(r, control) ==
    LET job == r.view
    IN /\ job # None
       /\ CASE control = "pause" -> job.stage = "apply" /\ job.status = "running"
            [] control \in {"include", "exclude", "prepare"} ->
                  /\ IsIdle(r) /\ job.stage = "review"
                  /\ r.error = "none" /\ ~job.operationError
            [] control = "start" ->
                  /\ IsIdle(r) /\ job.stage = "apply" /\ IsFree(job) /\ ~HasStarted(job)
                  /\ r.error = "none" /\ ~job.operationError
            [] control = "resume" ->
                  /\ r.loop.at = "idle" /\ job.stage = "apply"
                  /\ job.status = "paused" /\ HasStarted(job)
            [] control = "retry" ->
                  /\ IsIdle(r) /\ job.stage = "results" /\ IsFree(job)
                  /\ \E k \in DOMAIN job.items : CanRetry(job.items[k])
            [] control = "rescan" ->
                  /\ IsIdle(r) /\ job.stage = "results" /\ IsFree(job)
                  /\ HasStatus(job, {"stale"})
            [] control = "preview" ->
                  /\ IsIdle(r) /\ job.stage \in {"results", "recovery"} /\ IsFree(job)
                  /\ \E k \in DOMAIN job.items : HasSuccessfulApply(job.items[k])
            [] control = "recover" ->
                  /\ IsIdle(r) /\ IsFree(job) /\ r.error = "none"
                  /\ \E k \in DOMAIN job.items : Recoverable(job.items[k])
            [] control = "delete-snapshots" ->
                  /\ IsIdle(r) /\ job.stage \in {"results", "recovery"} /\ IsFree(job)
                  /\ job.snapshots
            [] control = "delete" -> IsIdle(r) /\ IsFree(job)
            [] OTHER -> FALSE

\* A control that can be used, within the bounds.
Usable(t, control) ==
    /\ control \in Controls
    /\ Offered(tab[t], control)
    /\ tab[t].view.rev < MaxRev

Pause(t) ==
    /\ Usable(t, "pause")
    /\ Len(tab[t].queue) < 2    \* bound: at most two clicks at once
    /\ SetTab(t, Enqueued(Stopped(tab[t]), Mutation("pause", None)))
    /\ call' = Abandoned(t)
    /\ UNCHANGED <<stored, content, edits, faults, history>>

\* What a control is used with.  Previews are asked for all applied items.
Arguments(job, control) ==
    CASE control = "include" -> DOMAIN job.items \ Selection(job)
      [] control = "exclude" -> Selection(job)
      [] control = "prepare" -> {Selection(job)} \ {{}}
      [] control = "preview" ->
            {KeysWhere(job, HasSuccessfulApply)}
      [] OTHER -> {None}

\* The confirmation covers the texts that the review showed.
Mutate(t, control) ==
    LET job == tab[t].view
    IN /\ control \in {"include", "exclude", "prepare", "retry", "rescan", "preview",
                       "delete-snapshots"}
       /\ Usable(t, control)
       /\ \E arg \in Arguments(job, control) :
              SetTab(t, Enqueued(tab[t], Mutation(control, arg)))
       /\ confirmed' = IF control # "prepare" THEN confirmed
                       ELSE confirmed \cup {<<k, job.items[k].before>> : k \in Selection(job)}
       /\ UNCHANGED <<stored, content, call, edits, faults, replaced, seen>>

Run(t, control) ==
    LET job == tab[t].view
    IN /\ control \in {"start", "resume", "recover"}
       /\ Usable(t, control)
       /\ SetTab(t, [tab[t] EXCEPT !.loop =
             IF control = "recover" THEN Loop("recover", InOrder(KeysWhere(job, Recoverable)))
                                    ELSE Loop("apply", <<>>)])
       /\ UNCHANGED <<stored, content, call, edits, faults, history>>

DeleteJob(t) ==
    /\ Usable(t, "delete")
    /\ stored' = None
    /\ SetTab(t, [Stopped(tab[t]) EXCEPT !.view = None, !.error = "none"])
    /\ UNCHANGED <<content, call, edits, faults, history>>

Fresh(job) == [view |-> job, error |-> "none", barrier |-> TRUE, queue |-> <<>>, loop |-> NoLoop]

\* The tab is closed or crashes, and opened again: a job that was left in the
\* middle of a run is first stored as interrupted.
Reload(t) ==
    /\ "reload" \in Controls
    /\ stored # None
    /\ SetTab(t, IF NeedsInterruption(stored)
                 THEN Enqueued(Fresh(None), Mutation("interrupt", None))
                 ELSE Fresh(stored))
    /\ call' = Abandoned(t)
    /\ UNCHANGED <<stored, content, edits, faults, history>>

\* Somebody else edits an item.
Edit(k) ==
    /\ edits < MaxEdits
    /\ \E text \in Texts \ {content[k]} : content' = [content EXCEPT ![k] = text]
    /\ edits' = edits + 1
    /\ replaced' = [replaced EXCEPT ![k] = None]
    /\ UNCHANGED <<stored, tab, call, faults, confirmed, seen>>

-----------------------------------------------------------------------------
\* The job as the scan leaves it, open in every tab.
Scanned == [rev |-> 0, stage |-> "review", status |-> "completed",
            items |-> [k \in Keys |-> PendingItem(Before[k])],
            snapshots |-> FALSE, op |-> None, retryAt |-> FALSE, operationError |-> FALSE]

Init ==
    /\ stored = Scanned
    /\ tab = [t \in Tabs |-> Fresh(Scanned)]
    /\ content = Before
    /\ call = [c \in Calls |-> NoCall]
    /\ edits = 0 /\ faults = 0
    /\ confirmed = {}
    /\ replaced = [k \in Keys |-> None]
    /\ seen = [k \in Keys |-> {}]

TabStep(t) ==
    \/ NothingToSave(t) \/ MutationSaved(t) \/ JobLoaded(t)
    \/ Admit(t) \/ Load(t) \/ NextItem(t) \/ DeadlinePassed(t) \/ LoopSaved(t)
    \/ \E c \in Calls : Reply(t, c)

UserStep(t) ==
    \/ Pause(t) \/ DeleteJob(t) \/ Reload(t) \/ NetworkFails(t)
    \/ \E control \in Controls : Mutate(t, control) \/ Run(t, control)

ServerStep(c) == Read(c) \/ Write(c) \/ Verify(c)

Next ==
    \/ \E t \in Tabs : TabStep(t) \/ UserStep(t)
    \/ \E c \in Calls : ServerStep(c) \/ CallFailed(c)
    \/ \E k \in Keys : Edit(k)

\* The event loop of a tab, its storage and the server go on by themselves;
\* users and faults need not.
Fairness ==
    /\ \A t \in Tabs : WF_vars(TabStep(t))
    /\ \A c \in Calls : WF_vars(ServerStep(c))

Spec == Init /\ [][Next]_vars /\ Fairness

-----------------------------------------------------------------------------
(* Properties *)

MaybeJob(job) == job = None \/ IsJob(job)

IsLoop(loop) ==
    /\ loop \in [at : {"idle", "admission", "load", "next", "wait", "save", "sent"},
                 live : BOOLEAN, kind : {"apply", "rescan", "preview", "recover"},
                 keys : Seq(Keys), key : Keys \cup {None}, cand : {loop.cand},
                 then : {"idle", "next", "sent", "wait"}]
    /\ MaybeJob(loop.cand)

IsMutation(m) ==
    /\ m \in [kind : {"pause", "interrupt", "include", "exclude", "prepare", "retry",
                      "rescan", "preview", "delete-snapshots"},
              arg : {None} \cup Keys \cup SUBSET Keys, cand : {m.cand}, current : BOOLEAN]
    /\ MaybeJob(m.cand)

\* At most one mutation waits behind another.
IsTab(r) ==
    /\ r \in [view : {r.view}, error : {"none", "conflict", "storage", "stale"},
              barrier : BOOLEAN, queue : Seq({r.queue[i] : i \in DOMAIN r.queue}),
              loop : {r.loop}]
    /\ MaybeJob(r.view)
    /\ Len(r.queue) <= 2
    /\ \A i \in DOMAIN r.queue : IsMutation(r.queue[i])
    /\ IsLoop(r.loop)

Replies == [status : {"updated", "already-applied", "stale", "scanned", "recovered",
                      "already-recovered", "recoverable", "conflict", "verification-failed",
                      "network", "permission", "validation", "failed", "401", "400", "429"},
            observed : Texts \cup {None}, throttled : BOOLEAN]

Requests == [phase : {"free", "read", "write", "verify", "done"}, owner : Tabs \cup {None},
             kind : {"apply", "rescan", "preview", "recover"}, key : Keys \cup {None},
             text : Texts \cup {None}, update : Texts \cup {None}, reply : Replies \cup {None}]

\* The types of the variables.
TypeOK ==
    /\ MaybeJob(stored)
    /\ tab \in [Tabs -> {tab[t] : t \in Tabs}] /\ \A t \in Tabs : IsTab(tab[t])
    /\ content \in [Keys -> Texts]
    /\ call \in [Calls -> Requests]
    /\ edits \in Nat /\ faults \in Nat
    /\ confirmed \subseteq Keys \X Texts
    /\ replaced \in [Keys -> Texts \cup {None}]
    /\ seen \in [Keys -> SUBSET Texts]

\* The revision that a save names stands for the whole job: a tab that shows
\* the stored revision shows the stored job, so that no save undoes another.
RevisionIdentifiesJob ==
    \A t \in Tabs : stored # None /\ tab[t].view # None =>
        /\ tab[t].view.rev <= stored.rev
        /\ tab[t].view.rev = stored.rev => tab[t].view = stored

\* A job that is not running has no item in the middle of an update or of a
\* recovery: whatever stopped it, each item can be worked on again.
StoppedJobHasNoWork ==
    stored # None => stored.status = "running" \/ ~HasStatus(stored, {"applying", "recovering"})

\* An item counts as applied only if the server has read the proposed text
\* from the instance, not because the update was accepted.
AppliedWasSeen ==
    stored # None => \A k \in DOMAIN stored.items :
        stored.items[k].result \in {"applied", "unchanged"} =>
            Rewrite[stored.items[k].before] \in seen[k]

\* The text that an update has replaced is in the job for as long as the
\* update stands, whichever replies were lost and runs interrupted.  This is so
\* with one edit by others: a second one can bring the old text back for an
\* aborted request that has read it, when the next run has gone on from the first.
ReplacedIsKnown ==
    stored # None => \A k \in Keys : replaced[k] # None =>
        k \in DOMAIN stored.items /\ stored.items[k].before = replaced[k]

\* A job that was deleted does not come back with the save of another tab.
DeletedStays == [][stored = None => stored' = None]_vars

\* A run ends, whatever fails and wherever its tab is stopped.
RunEnds == \A t \in Tabs : tab[t].loop.at # "idle" ~> tab[t].loop.at = "idle"

\* The tool writes nothing but what was confirmed, or what it replaced.
Review == INSTANCE ReplacementReview
ImplementsReview == Review!Spec
-----------------------------------------------------------------------------
(* What the documents say and the code does not do *)

\* "Rate-limit pauses are persisted locally" (README.md:242): a throttled
\* reply does not end as a failure of a storage that works.
RateLimitIsSaved ==
    \A t \in Tabs : tab[t].error = "storage" => "storage" \in Faults
=============================================================================
