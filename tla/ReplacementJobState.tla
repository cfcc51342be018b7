------------------------ MODULE ReplacementJobState ------------------------
(***************************************************************************)
(* The reducer of a content replacement job, from the review of its        *)
(* proposals to the recovery of what it changed                            *)
(* (src/writeTools/contentReplacement/jobState.ts): one operator for each  *)
(* event.  An event that does not apply to a job returns the job itself;   *)
(* any other gives it the next revision, which is what the storage and     *)
(* the tabs compare.                                                       *)
(*                                                                         *)
(* A text stands for the checksum of a whole request model, and Rewrite is *)
(* the replacement of its terms, so that the text a proposal was made from *)
(* determines the proposed one.  Times, progress counters, messages and    *)
(* the evidence that is only shown are left out.                           *)
(***************************************************************************)
EXTENDS Places, SequencesExt

CONSTANTS Order,    \* the keys of the proposals, in the order of the object
          Texts,    \* what an item can contain
          Rewrite,  \* the replacement: a function from texts to texts
          None      \* no job, no text, no operation

Keys == ToSet(Order)

ASSUME JobAssumption ==
    /\ Order \in Seq(Keys)
    /\ Rewrite \in [Texts -> Texts]
    /\ None \notin Texts

ItemStatuses == {"pending", "excluded", "ready-to-apply", "applying", "applied",
                 "stale", "failed", "ready-to-recover", "recovering",
                 "recovered", "recovery-conflict", "recovery-failed"}

\* before: the scanned text; prior: the one kept for a recovery;
\* tried: attemptCount is not 0.
Items == [included : BOOLEAN, status : ItemStatuses, before : Texts, tried : BOOLEAN,
          result : {"none", "applied", "unchanged", "stale", "mismatch"},
          failure : {"none", "retryable", "final"},
          prior : Texts \cup {None},
          preview : {"none", "recoverable", "already-recovered", "conflict"}]

\* The operation that the tab works through: remainingItemKeys, all of them
\* items of the job, and the texts that a stale rescan has found so far, None
\* for an item it has not.
Operations(keys) == [kind : {"stale-rescan", "recovery-preview", "recovery-apply"},
                     remaining : Seq(keys) \ {<<>>}, requested : SUBSET keys,
                     found : [Keys -> Texts \cup {None}]]

JobsOn(keys) == [rev : Nat,
                 stage : {"review", "apply", "results", "recovery"},
                 status : {"paused", "running", "completed", "failed"},
                 items : [keys -> Items],
                 snapshots : BOOLEAN,
                 op : Operations(keys) \cup {None},
                 retryAt : BOOLEAN,
                 operationError : BOOLEAN]

\* The items that are not proposed again are dropped from a job.
IsJob(job) == DOMAIN job.items \subseteq Keys /\ job \in JobsOn(DOMAIN job.items)

ASSUME NoneAssumption == \A keys \in SUBSET Keys : None \notin JobsOn(keys)

-----------------------------------------------------------------------------
(* Helpers *)

Reduced(job, applies, next) ==
    IF applies THEN [next EXCEPT !.rev = job.rev + 1] ELSE job

PendingItem(before) ==
    [included |-> TRUE, status |-> "pending", before |-> before, tried |-> FALSE,
     result |-> "none", failure |-> "none", prior |-> None, preview |-> "none"]

ExcludedItem(before) ==
    [PendingItem(before) EXCEPT !.included = FALSE, !.status = "excluded"]

\* Drops everything that an apply or a recovery left on the items.
ResetReviewItems(items) ==
    [k \in DOMAIN items |-> IF items[k].included THEN PendingItem(items[k].before)
                                                 ELSE ExcludedItem(items[k].before)]

HasSuccessfulApply(item) ==
    item.result \in {"applied", "unchanged"} /\ item.prior # None

HasStatus(job, statuses) ==
    \E k \in DOMAIN job.items : job.items[k].status \in statuses

\* Some of the keys, in the order of the proposals.
InOrder(keys) == AsListed(Order, keys)

KeysWhere(job, Test(_)) == {k \in DOMAIN job.items : Test(job.items[k])}

Selection(job) == {k \in DOMAIN job.items : job.items[k].included}

Operation(kind, keys) ==
    [kind |-> kind, remaining |-> keys, requested |-> ToSet(keys),
     found |-> [k \in Keys |-> None]]

WithItem(job, key, item) == [job EXCEPT !.items = [job.items EXCEPT ![key] = item]]

NeedsInterruption(job) ==
    job.status = "running" \/ HasStatus(job, {"applying", "recovering"})

-----------------------------------------------------------------------------
(* Run events *)

(* Mutant: an interrupted item keeps its status. *)
PauseKeepsWork(job) == [job EXCEPT !.status = "paused"]

\* An item in the middle of its update goes back to be tried again, a
\* recovery under way back to its preview.
PauseActiveWork(job) ==
    LET Back(item) ==
          IF item.status = "applying" THEN [item EXCEPT !.status = "ready-to-apply"]
          ELSE IF item.status = "recovering" /\ HasSuccessfulApply(item)
          THEN [item EXCEPT !.status = "applied", !.failure = "none", !.preview = "none"]
          ELSE item
    IN [job EXCEPT !.status = "paused",
                   !.items = [k \in DOMAIN job.items |-> Back(job.items[k])],
                   !.op = IF /\ HasStatus(job, {"recovering"})
                             /\ job.op # None
                             /\ job.op.kind = "recovery-apply"
                          THEN Operation("recovery-preview", job.op.remaining)
                          ELSE job.op]

Interrupted(job) == Reduced(job, NeedsInterruption(job), PauseActiveWork(job))

Paused(job) == Reduced(job, job.status = "running", PauseActiveWork(job))

CredentialInterrupted(job) ==
    Reduced(job, job.status # "completed",
            [PauseActiveWork(job) EXCEPT !.operationError = TRUE])

RetryAtSet(job) == Reduced(job, job.status # "failed", [job EXCEPT !.retryAt = TRUE])

RetryAtCleared(job) == Reduced(job, job.retryAt, [job EXCEPT !.retryAt = FALSE])

-----------------------------------------------------------------------------
(* Review *)

SetIncluded(job, key, included) ==
    LET before == job.items[key].before
    IN Reduced(job, /\ job.stage = "review"
                    /\ key \in DOMAIN job.items
                    /\ job.items[key].included # included,
               [job EXCEPT !.snapshots = FALSE,
                           !.items = [ResetReviewItems(job.items) EXCEPT
                                        ![key] = IF included THEN PendingItem(before)
                                                             ELSE ExcludedItem(before)]])

\* The selection that was confirmed must be the one in the job.
CanPrepare(job, expected) ==
    job.stage = "review" /\ Selection(job) = expected /\ expected # {}

ApplyPrepared(job, expected) ==
    Reduced(job, CanPrepare(job, expected),
            [job EXCEPT !.stage = "apply", !.status = "paused", !.snapshots = TRUE,
                        !.items = [k \in DOMAIN job.items |->
                            IF job.items[k].included
                            THEN [PendingItem(job.items[k].before) EXCEPT
                                    !.status = "ready-to-apply", !.prior = job.items[k].before]
                            ELSE job.items[k]]])

-----------------------------------------------------------------------------
(* Apply *)

CanApply(item) == item.included /\ item.status = "ready-to-apply" /\ item.prior # None

ApplyItems(job) == InOrder(KeysWhere(job, CanApply))

ApplyStarted(job) ==
    Reduced(job, job.snapshots /\ HasStatus(job, {"ready-to-apply"}),
            [job EXCEPT !.stage = "apply", !.status = "running"])

CanStartItem(job, key) ==
    /\ job.stage = "apply"
    /\ job.status = "running"
    /\ ApplyItems(job) # <<>>
    /\ Head(ApplyItems(job)) = key
    /\ ~HasStatus(job, {"applying"})

ApplyItemStarted(job, key) ==
    Reduced(job, CanStartItem(job, key),
            WithItem(job, key, [job.items[key] EXCEPT
                !.tried = TRUE, !.status = "applying", !.result = "none",
                !.failure = "none", !.preview = "none"]))

FailedItem(item, retryable) ==
    [item EXCEPT !.status = "failed", !.result = "none", !.preview = "none",
                 !.failure = IF retryable THEN "retryable" ELSE "final"]

(* Mutant: the text that was observed is not compared with the proposed one. *)
ItemAfterApplyUnchecked(item, reply) ==
    IF reply.status \in {"updated", "already-applied"}
    THEN [item EXCEPT !.status = "applied", !.failure = "none", !.preview = "none",
                      !.result = IF reply.status = "updated" THEN "applied" ELSE "unchanged"]
    ELSE FailedItem(item, reply.status \in {"network", "failed"})

\* A reply is [status, observed]; an update whose observed text is not the
\* proposed one is a failure that is not tried again.
ItemAfterApply(item, reply) ==
    CASE /\ reply.status \in {"updated", "already-applied"}
         /\ reply.observed = Rewrite[item.before] ->
            [item EXCEPT !.status = "applied", !.failure = "none", !.preview = "none",
                         !.result = IF reply.status = "updated" THEN "applied"
                                                                ELSE "unchanged"]
      [] /\ reply.status \in {"updated", "already-applied"}
         /\ reply.observed # Rewrite[item.before] ->
            [FailedItem(item, FALSE) EXCEPT !.result = "mismatch"]
      [] reply.status = "stale" ->
            [item EXCEPT !.status = "stale", !.result = "stale", !.failure = "none",
                         !.preview = "none"]
      [] OTHER -> FailedItem(item, reply.status \in {"network", "failed"})

ApplyItemFinished(job, key, reply) ==
    LET next == WithItem(job, key, ItemAfterApply(job.items[key], reply))
    IN Reduced(job, /\ job.stage = "apply"
                    /\ key \in DOMAIN job.items
                    /\ job.items[key].status = "applying"
                    /\ job.items[key].prior # None,
               IF HasStatus(next, {"ready-to-apply", "applying"}) THEN next
               ELSE [next EXCEPT !.stage = "results", !.status = "completed",
                                 !.retryAt = FALSE])

CanRetry(item) == item.status = "failed" /\ item.failure = "retryable" /\ item.prior # None

RetryEligible(job) ==
    Reduced(job, /\ job.stage \in {"results", "apply"}
                 /\ \E k \in DOMAIN job.items : CanRetry(job.items[k]),
            [job EXCEPT !.stage = "apply", !.status = "paused",
                        !.items = [k \in DOMAIN job.items |->
                            IF CanRetry(job.items[k])
                            THEN [job.items[k] EXCEPT
                                    !.status = "ready-to-apply", !.result = "none",
                                    !.failure = "none", !.preview = "none"]
                            ELSE job.items[k]]])

-----------------------------------------------------------------------------
(* Rescan of stale items *)

StaleRescanStarted(job) ==
    LET keys == InOrder({k \in DOMAIN job.items : job.items[k].status = "stale"})
    IN Reduced(job, /\ job.stage = "results"
                    /\ job.status # "running"
                    /\ job.op = None
                    /\ keys # <<>>,
               [job EXCEPT !.status = "running", !.operationError = FALSE,
                           !.op = Operation("stale-rescan", keys)])

IsRescanning(job) ==
    job.stage = "results" /\ job.op # None /\ job.op.kind = "stale-rescan"

StaleRescanFailed(job) ==
    Reduced(job, IsRescanning(job), [job EXCEPT !.status = "failed", !.retryAt = FALSE])

(* Mutant: every item that was not proposed again is dropped. *)
ItemsAfterRescanOfAll(items, requested, found) ==
    [k \in {k \in DOMAIN items : found[k] # None} |-> PendingItem(found[k])]

\* After the last key, the items that are proposed again come back with the
\* new text, those that are not are dropped, and all of them to the review.
ItemsAfterRescan(items, requested, found) ==
    ResetReviewItems(
        [k \in {k \in DOMAIN items : k \in requested => found[k] # None} |->
            IF found[k] # None THEN [items[k] EXCEPT !.before = found[k]] ELSE items[k]])

StaleItemRescanned(job, key, proposed) ==
    LET found == IF proposed = None THEN job.op.found
                 ELSE [job.op.found EXCEPT ![key] = proposed]
        rest == Tail(job.op.remaining)
    IN Reduced(job, /\ IsRescanning(job)
                    /\ job.op.remaining # <<>>
                    /\ Head(job.op.remaining) = key,
               IF rest # <<>>
               THEN [job EXCEPT !.op = [job.op EXCEPT !.remaining = rest, !.found = found],
                                !.retryAt = FALSE]
               ELSE [job EXCEPT !.stage = "review", !.status = "completed", !.op = None,
                                !.snapshots = FALSE, !.operationError = FALSE,
                                !.retryAt = FALSE,
                                !.items = ItemsAfterRescan(job.items, job.op.requested, found)])

-----------------------------------------------------------------------------
(* Recovery *)

(* Mutant: the last key is consumed without ending the operation. *)
ConsumeToEmpty(job, key, kind) ==
    IF job.op = None THEN job
    ELSE [job EXCEPT !.status = "running",
                     !.op = [job.op EXCEPT !.remaining = Tail(job.op.remaining)]]

\* Only the head of the operation is consumed.
ConsumeOperation(job, key, kind) ==
    IF job.op = None THEN job
    ELSE IF job.op.kind # kind \/ Head(job.op.remaining) # key
    THEN job
    ELSE IF Len(job.op.remaining) > 1
    THEN [job EXCEPT !.status = "running",
                     !.op = [job.op EXCEPT !.remaining = Tail(job.op.remaining)]]
    ELSE [job EXCEPT !.op = None,
                     !.status = IF kind = "recovery-preview" THEN "paused" ELSE "completed"]

RecoveryPreviewRunStarted(job, selected) ==
    LET keys == InOrder(KeysWhere(job, HasSuccessfulApply) \cap selected)
    IN Reduced(job, job.op = None /\ job.status # "running" /\ keys # <<>>,
               [job EXCEPT !.stage = "recovery", !.status = "running",
                           !.operationError = FALSE, !.op = Operation("recovery-preview", keys)])

RecoveryPreviewStarted(job, key) ==
    Reduced(job, key \in DOMAIN job.items /\ HasSuccessfulApply(job.items[key]),
            [WithItem(job, key, [job.items[key] EXCEPT
                !.status = "applied", !.failure = "none", !.preview = "none"])
             EXCEPT !.stage = "recovery", !.status = "paused"])

RecoveryPreviewFinished(job, key, state) ==
    Reduced(job, key \in DOMAIN job.items /\ HasSuccessfulApply(job.items[key]),
            ConsumeOperation(
                [WithItem(job, key, [job.items[key] EXCEPT
                    !.status = "ready-to-recover", !.failure = "none", !.preview = state])
                 EXCEPT !.stage = "recovery", !.status = "running"],
                key, "recovery-preview"))

\* A failure that another try or other credentials may mend goes on with the
\* next item; any other ends the operation.
RecoveryPreviewFailed(job, key, retryable, authorization) ==
    LET next == [WithItem(job, key, [job.items[key] EXCEPT
                    !.status = "recovery-failed", !.preview = "none",
                    !.failure = IF retryable THEN "retryable" ELSE "final"])
                 EXCEPT !.stage = "recovery", !.status = "running"]
    IN Reduced(job, key \in DOMAIN job.items /\ HasSuccessfulApply(job.items[key]),
               IF retryable \/ authorization
               THEN ConsumeOperation(next, key, "recovery-preview")
               ELSE [next EXCEPT !.status = "completed", !.op = None])

Recoverable(item) == item.status = "ready-to-recover" /\ item.preview = "recoverable"

RecoveryStarted(job, selected) ==
    LET keys == InOrder(KeysWhere(job, Recoverable) \cap selected)
    IN Reduced(job, job.snapshots /\ keys # <<>>,
               [job EXCEPT !.stage = "recovery", !.status = "running",
                           !.operationError = FALSE, !.op = Operation("recovery-apply", keys)])

RecoveryItemStarted(job, key) ==
    Reduced(job, /\ job.stage = "recovery"
                 /\ job.status = "running"
                 /\ key \in DOMAIN job.items
                 /\ Recoverable(job.items[key]),
            WithItem(job, key, [job.items[key] EXCEPT
                !.status = "recovering", !.failure = "none", !.preview = "none"]))

ItemAfterRecovery(item, reply) ==
    CASE /\ reply.status \in {"recovered", "already-recovered"}
         /\ reply.observed = item.prior ->
            [item EXCEPT !.status = "recovered", !.failure = "none"]
      [] \/ reply.status \in {"conflict", "verification-failed"}
         \/ /\ reply.status \in {"recovered", "already-recovered"}
            /\ reply.observed # item.prior ->
            [item EXCEPT !.status = "recovery-conflict", !.failure = "none"]
      [] OTHER ->
            [item EXCEPT !.status = "recovery-failed",
                         !.failure = IF reply.status \in {"network", "failed"}
                                     THEN "retryable" ELSE "final"]

RecoveryItemFinished(job, key, reply) ==
    LET next == WithItem(job, key, ItemAfterRecovery(job.items[key], reply))
        finished == IF HasStatus(next, {"ready-to-recover", "recovering"}) THEN next
                    ELSE [next EXCEPT !.status = "completed"]
    IN Reduced(job, /\ key \in DOMAIN job.items
                    /\ job.items[key].status = "recovering"
                    /\ HasSuccessfulApply(job.items[key]),
               IF reply.status = "validation"
               THEN [finished EXCEPT !.status = "completed", !.op = None]
               ELSE ConsumeOperation(finished, key, "recovery-apply"))

RecoverySnapshotsDeleted(job) ==
    LET over == {"recovered", "recovery-conflict", "recovery-failed", "ready-to-recover"}
        Kept(item) ==
          IF item.status \in over \cup {"applied"}
          THEN [item EXCEPT !.status = "applied", !.failure = "none", !.prior = None,
                            !.preview = "none"]
          ELSE [item EXCEPT !.prior = None, !.preview = "none"]
    IN Reduced(job, /\ job.stage \in {"results", "recovery"}
                    /\ job.status # "running"
                    /\ job.op = None
                    /\ \E k \in DOMAIN job.items : job.items[k].prior # None,
               [job EXCEPT !.stage = "results", !.status = "completed", !.snapshots = FALSE,
                           !.retryAt = FALSE,
                           !.items = [k \in DOMAIN job.items |-> Kept(job.items[k])]])
=============================================================================
