----------------------- MODULE ReplacementTabsProofs -----------------------
(***************************************************************************)
(* Theorems about the tabs that work on a content replacement job, for any *)
(* number of tabs, items, requests and faults.                             *)
(***************************************************************************)
EXTENDS ReplacementTabs, PlacesLemmas

-----------------------------------------------------------------------------
(* The inductive invariant *)

\* texts: those the server has read of each item; pairs: those of a key and a
\* text whose replacement is confirmed.
ItemOK(k, item, stage, status, texts, pairs) ==
    /\ item.status = "applying" => stage = "apply" /\ status = "running"
    /\ item.status = "recovering" => stage = "recovery" /\ status = "running"
    /\ item.status \in {"ready-to-recover", "recovering"} => HasSuccessfulApply(item)
    /\ item.result \in {"applied", "unchanged"} => Rewrite[item.before] \in texts[k]
    /\ item.prior # None => item.prior = item.before /\ <<k, item.before>> \in pairs

JobOK(job, texts, pairs) ==
    /\ IsJob(job)
    /\ job.stage = "review" => job.status # "running"
    /\ \A k \in DOMAIN job.items :
          ItemOK(k, job.items[k], job.stage, job.status, texts, pairs)

MaybeOK(job, texts, pairs) == job # None => JobOK(job, texts, pairs)

\* No item, or no item but one, is in the middle of an update or a recovery.
Quiet(job) ==
    \A k \in DOMAIN job.items : job.items[k].status \notin {"applying", "recovering"}

OnlyRecovering(job, key) ==
    \A k \in DOMAIN job.items :
        /\ job.items[k].status # "applying"
        /\ job.items[k].status = "recovering" => k = key

\* The stages of the job that a control other than pause is used on.
StagesOf(kind) == IF kind \in OfVisible THEN {"results", "recovery"} ELSE {"review"}

\* What a mutation is about to save.
CandOK(m, texts, pairs) ==
    m.cand # None => /\ JobOK(m.cand, texts, pairs) /\ Quiet(m.cand)
                     /\ m.kind = "pause" => m.cand.stage # "review"

\* Only pauses wait behind a mutation, and nothing waits for a loop but for one
\* that is stopped in a save.
QueueOK(queue, loop, view, texts, pairs) ==
    /\ \A i \in DOMAIN queue : CandOK(queue[i], texts, pairs)
    /\ \A i \in DOMAIN queue : i > 1 => queue[i].kind = "pause"
    /\ queue # <<>> => loop.at \in {"idle", "admission"} \/ (loop.at = "save" /\ ~loop.live)
    /\ queue # <<>> /\ queue[1].kind # "pause" =>
           /\ loop.at = "idle"
           /\ view # None => view.stage \in StagesOf(queue[1].kind)

\* What a request is made for.
ToSend(loop, job) ==
    /\ loop.key \in DOMAIN job.items
    /\ loop.kind \in {"apply", "recover"} => job.items[loop.key].prior # None
    /\ loop.kind # "apply" => OnlyRecovering(job, loop.key)
    /\ loop.kind = "rescan" => Quiet(job)

LoopOK(loop, view, texts, pairs) ==
    /\ loop.at # "idle" => view # None
    /\ loop.at \notin {"idle", "save"} => loop.live
    /\ loop.at \in {"admission", "load"} => Quiet(view)
    /\ loop.at \in {"next", "wait"} /\ loop.kind # "apply" => Quiet(view)
    /\ loop.at = "sent" => /\ loop.key \in DOMAIN view.items
                           /\ loop.kind # "apply" => OnlyRecovering(view, loop.key)
                           /\ loop.kind = "rescan" => Quiet(view)
    /\ loop.at = "save" =>
           /\ JobOK(loop.cand, texts, pairs)
           /\ loop.then = "sent" => ToSend(loop, loop.cand)
           /\ loop.then \in {"next", "wait"} /\ loop.kind # "apply" => Quiet(loop.cand)
           /\ ~loop.live => view.stage = "apply"

TabOK(r, texts, pairs) ==
    /\ IsTab(r)
    /\ MaybeOK(r.view, texts, pairs)
    /\ QueueOK(r.queue, r.loop, r.view, texts, pairs)
    /\ LoopOK(r.loop, r.view, texts, pairs)

RequestOK(q, tabs, texts, pairs) ==
    /\ q \in Requests
    /\ q.phase = "free" => q.owner = None
    /\ q.phase # "free" =>
           /\ q.key \in Keys /\ q.text \in Texts
           /\ q.kind \in {"apply", "recover"} => <<q.key, q.text>> \in pairs
    /\ q.phase = "write" => \/ q.kind = "apply" /\ q.update = Rewrite[q.text]
                            \/ q.kind = "recover" /\ q.update = q.text
    /\ q.phase = "done" =>
           /\ q.reply \in Replies
           /\ q.reply.status \in {"updated", "already-applied"} => q.reply.observed \in texts[q.key]
    /\ q.owner # None => tabs[q.owner].loop.at = "sent" /\ tabs[q.owner].loop.key = q.key

\* What a user of the only tab confirms is what is stored.
OneTabOK(r, job, pairs) ==
    /\ r.view # None /\ job # None /\ r.view.stage = "review" /\ job.stage = "review"
           => r.view = job
    /\ r.queue # <<>> /\ r.queue[1].kind = "prepare" /\ job # None /\ job.stage = "review" =>
           \A k \in DOMAIN job.items :
               job.items[k].included => <<k, job.items[k].before>> \in pairs

\* With several tabs, one prepares what the scan of another has read.
Reviewed == IF \E t \in Tabs : Tabs = {t} THEN confirmed ELSE Keys \X Texts

Inv ==
    /\ TypeOK
    /\ MaybeOK(stored, seen, Reviewed)
    /\ \A t \in Tabs : TabOK(tab[t], seen, Reviewed)
    /\ \A c \in Calls : RequestOK(call[c], tab, seen, Reviewed)
    /\ \A c, d \in Calls : call[c].owner # None /\ call[c].owner = call[d].owner => c = d
    /\ \A t \in Tabs : Tabs = {t} => OneTabOK(tab[t], stored, Reviewed)
    /\ RevisionIdentifiesJob

-----------------------------------------------------------------------------
(* Sequences of keys *)

(* A sequence over a set is one over a larger set. *)
LEMMA SeqSubset ==
    ASSUME NEW S, NEW T, S \subseteq T, NEW seq \in Seq(S)
    PROVE  seq \in Seq(T)
OBVIOUS

(* Those elements of a sequence that are in a set. *)
LEMMA AsListedType ==
    ASSUME NEW S, NEW seq \in Seq(S), NEW set
    PROVE  AsListed(seq, set) \in Seq(S \cap set)
<1> DEFINE n == Len(seq)
           places == {i \in DOMAIN seq : seq[i] \in set}
<1>1. n \in Nat /\ DOMAIN seq = 1..n /\ \A i \in 1..n : seq[i] \in S
  BY LenProperties
<1>2. places \in SUBSET (1..n) /\ \A i \in places : seq[i] \in S \cap set
  BY <1>1
<1>3. AsListed(seq, set) = AtPlaces(seq, places)
  BY DEF AsListed
<1> HIDE DEF n, places
<1> QED BY <1>1, <1>2, <1>3, AtPlacesType

(* Its first element is one of both. *)
LEMMA AsListedHead ==
    ASSUME NEW S, NEW seq \in Seq(S), NEW set, AsListed(seq, set) # <<>>
    PROVE  /\ Head(AsListed(seq, set)) \in S
           /\ Head(AsListed(seq, set)) \in set
           /\ Tail(AsListed(seq, set)) \in Seq(S)
<1> DEFINE list == AsListed(seq, set)
<1>1. list \in Seq(S \cap set)
  BY AsListedType
<1> HIDE DEF list
<1>2. Head(list) \in S \cap set /\ Tail(list) \in Seq(S \cap set)
  BY <1>1 DEF list
<1>3. Tail(list) \in Seq(S)
  BY <1>2, SeqSubset
<1> QED BY <1>2, <1>3 DEF list

(* Keys in the order of the proposals. *)
LEMMA InOrderType ==
    ASSUME NEW keys
    PROVE  /\ InOrder(keys) \in Seq(Keys) /\ InOrder(keys) \in Seq(keys)
           /\ InOrder(keys) # <<>> =>
                 Head(InOrder(keys)) \in Keys /\ Head(InOrder(keys)) \in keys
<1>1. Order \in Seq(Keys)
  BY JobAssumption
<1>2. AsListed(Order, keys) \in Seq(Keys \cap keys)
  BY <1>1, AsListedType
<1>3. AsListed(Order, keys) \in Seq(Keys) /\ AsListed(Order, keys) \in Seq(keys)
  BY <1>2, SeqSubset
<1>4. ASSUME InOrder(keys) # <<>>
      PROVE  Head(InOrder(keys)) \in Keys /\ Head(InOrder(keys)) \in keys
  BY <1>1, <1>4, AsListedHead DEF InOrder
<1> QED BY <1>3, <1>4 DEF InOrder

-----------------------------------------------------------------------------
(* The reducer: every event leads from a good job to a good job *)

(* What a change that is made counts as. *)
LEMMA Touched ==
    ASSUME NEW job, IsJob(job), NEW next, NEW texts, NEW pairs, JobOK(next, texts, pairs)
    PROVE  /\ JobOK([next EXCEPT !.rev = job.rev + 1], texts, pairs)
           /\ [next EXCEPT !.rev = job.rev + 1].items = next.items
           /\ [next EXCEPT !.rev = job.rev + 1].stage = next.stage
           /\ [next EXCEPT !.rev = job.rev + 1].status = next.status
           /\ [next EXCEPT !.rev = job.rev + 1].op = next.op
<1>1. job.rev + 1 \in Nat
  BY DEF IsJob, JobsOn
<1>2. DOMAIN next.items \subseteq Keys /\ next \in JobsOn(DOMAIN next.items)
  BY DEF JobOK, IsJob
<1> DEFINE touched == [next EXCEPT !.rev = job.rev + 1]
<1>3. /\ touched \in JobsOn(DOMAIN next.items)
      /\ touched.items = next.items /\ touched.stage = next.stage
      /\ touched.status = next.status /\ touched.op = next.op
  BY <1>1, <1>2 DEF JobsOn
<1> HIDE DEF touched
<1>4. JobOK(touched, texts, pairs)
  BY <1>2, <1>3 DEF JobOK, IsJob
<1> QED BY <1>3, <1>4 DEF touched

(* A job that is not running is quiet. *)
LEMMA StoppedIsQuiet ==
    ASSUME NEW job, NEW texts, NEW pairs, JobOK(job, texts, pairs),
           job.status # "running" \/ job.stage \notin {"apply", "recovery"}
    PROVE  Quiet(job)
BY DEF JobOK, ItemOK, Quiet

(* Any work that is under way goes back. *)
LEMMA PauseActiveWorkOK ==
    ASSUME NEW job, NEW texts, NEW pairs, JobOK(job, texts, pairs)
    PROVE  /\ JobOK(PauseActiveWork(job), texts, pairs)
           /\ Quiet(PauseActiveWork(job))
           /\ PauseActiveWork(job).status = "paused"
           /\ PauseActiveWork(job).stage = job.stage
<1> DEFINE Back(item) ==
             IF item.status = "applying" THEN [item EXCEPT !.status = "ready-to-apply"]
             ELSE IF item.status = "recovering" /\ HasSuccessfulApply(item)
             THEN [item EXCEPT !.status = "applied", !.failure = "none", !.preview = "none"]
             ELSE item
           D == DOMAIN job.items
           items == [k \in D |-> Back(job.items[k])]
           op == IF /\ HasStatus(job, {"recovering"})
                    /\ job.op # None
                    /\ job.op.kind = "recovery-apply"
                 THEN Operation("recovery-preview", job.op.remaining)
                 ELSE job.op
           next == [job EXCEPT !.status = "paused", !.items = items, !.op = op]
<1>1. D \subseteq Keys /\ job \in JobsOn(D) /\ \A k \in D : job.items[k] \in Items
  BY DEF JobOK, IsJob, JobsOn
<1>2. ASSUME NEW k \in D
      PROVE  /\ Back(job.items[k]) \in Items
             /\ ItemOK(k, Back(job.items[k]), job.stage, "paused", texts, pairs)
             /\ Back(job.items[k]).status \notin {"applying", "recovering"}
  <2>1. job.items[k] \in Items /\ ItemOK(k, job.items[k], job.stage, job.status, texts, pairs)
    BY <1>1 DEF JobOK
  <2> DEFINE item == job.items[k]
  <2> HIDE DEF item
  <2>2. CASE item.status = "applying"
    BY <2>1, <2>2 DEF item, Items, ItemStatuses, ItemOK, HasSuccessfulApply
  <2>3. CASE item.status = "recovering"
    BY <2>1, <2>3 DEF item, Items, ItemStatuses, ItemOK, HasSuccessfulApply
  <2>4. CASE item.status \notin {"applying", "recovering"}
    BY <2>1, <2>4 DEF item, ItemOK, HasSuccessfulApply
  <2> QED BY <2>2, <2>3, <2>4
<1>3. op \in Operations(D) \cup {None}
  <2>1. job.op \in Operations(D) \cup {None}
    BY <1>1 DEF JobsOn
  <2>2. ASSUME job.op # None
        PROVE  Operation("recovery-preview", job.op.remaining) \in Operations(D)
    <3>1. job.op.remaining \in Seq(D) \ {<<>>}
      BY <2>1, <2>2 DEF Operations
    <3>2. ToSet(job.op.remaining) \in SUBSET D
      BY <3>1, ToSetProperties
    <3> QED BY <3>1, <3>2 DEF Operation, Operations
  <2> QED BY <2>1, <2>2
<1> HIDE DEF Back, op
<1>4. items \in [D -> Items]
  BY <1>2
<1>5. next \in JobsOn(D) /\ next.items = items /\ next.stage = job.stage /\ next.status = "paused"
  BY <1>1, <1>3, <1>4 DEF JobsOn
<1>6. \A k \in D : /\ ItemOK(k, items[k], job.stage, "paused", texts, pairs)
                  /\ items[k].status \notin {"applying", "recovering"}
  BY <1>2
<1>7. PauseActiveWork(job) = next
  BY DEF PauseActiveWork, Back, op
<1> HIDE DEF next, items
<1>8. DOMAIN items = D
  BY <1>4
<1> QED BY <1>1, <1>5, <1>6, <1>7, <1>8 DEF JobOK, IsJob, Quiet

(* A job with the items of a good one, and with its stage and status unless
   nothing is under way. *)
LEMMA Restaged ==
    ASSUME NEW job, NEW texts, NEW pairs, JobOK(job, texts, pairs),
           NEW next \in JobsOn(DOMAIN job.items), next.items = job.items,
           \/ next.stage = job.stage /\ next.status = job.status
           \/ Quiet(job) /\ ~(next.stage = "review" /\ next.status = "running")
    PROVE  JobOK(next, texts, pairs) /\ (Quiet(job) => Quiet(next))
BY DEF JobOK, IsJob, ItemOK, Quiet

(* A job with one other item. *)
LEMMA WithItemOK ==
    ASSUME NEW job, NEW texts, NEW pairs, JobOK(job, texts, pairs),
           NEW key \in DOMAIN job.items, NEW item \in Items,
           ItemOK(key, item, job.stage, job.status, texts, pairs)
    PROVE  /\ JobOK(WithItem(job, key, item), texts, pairs)
           /\ WithItem(job, key, item) \in JobsOn(DOMAIN job.items)
           /\ WithItem(job, key, item).items = [job.items EXCEPT ![key] = item]
           /\ WithItem(job, key, item).stage = job.stage
           /\ WithItem(job, key, item).status = job.status
           /\ WithItem(job, key, item).op = job.op
<1> DEFINE D == DOMAIN job.items
           items == [job.items EXCEPT ![key] = item]
           next == [job EXCEPT !.items = items]
<1>1. D \subseteq Keys /\ job \in JobsOn(D) /\ job.items \in [D -> Items]
  BY DEF JobOK, IsJob, JobsOn
<1>2. items \in [D -> Items]
  BY <1>1
<1> HIDE DEF items
<1>3. /\ next \in JobsOn(D) /\ next.items = items /\ next.stage = job.stage
      /\ next.status = job.status /\ next.op = job.op
  BY <1>1, <1>2 DEF JobsOn
<1>4. \A k \in D : ItemOK(k, items[k], job.stage, job.status, texts, pairs)
  BY <1>1 DEF items, JobOK
<1>5. DOMAIN items = D
  BY <1>2
<1>6. next = WithItem(job, key, item)
  BY DEF WithItem, items
<1> HIDE DEF next
<1>7. JobOK(next, texts, pairs)
  BY <1>1, <1>3, <1>4, <1>5 DEF JobOK, IsJob
<1> QED BY <1>3, <1>6, <1>7 DEF items

(* A run is interrupted or paused. *)
LEMMA PausedOK ==
    ASSUME NEW job, NEW texts, NEW pairs, JobOK(job, texts, pairs)
    PROVE  /\ JobOK(Paused(job), texts, pairs) /\ Quiet(Paused(job))
           /\ JobOK(Interrupted(job), texts, pairs) /\ Quiet(Interrupted(job))
           /\ Paused(job) # job => Paused(job).stage # "review"
<1> DEFINE next == PauseActiveWork(job)
           touched == [next EXCEPT !.rev = job.rev + 1]
<1>1. JobOK(next, texts, pairs) /\ Quiet(next) /\ IsJob(job) /\ next.stage = job.stage
  BY PauseActiveWorkOK DEF JobOK
<1> HIDE DEF next
<1>2. JobOK(touched, texts, pairs) /\ Quiet(touched) /\ touched.stage = job.stage
  BY <1>1, Touched DEF Quiet
<1>3. Paused(job) = IF job.status = "running" THEN touched ELSE job
  BY DEF Paused, Reduced, next
<1>4. Interrupted(job) = IF NeedsInterruption(job) THEN touched ELSE job
  BY DEF Interrupted, Reduced, next
<1> HIDE DEF touched
<1>5. job.status # "running" => Quiet(job)
  BY StoppedIsQuiet
<1>6. ~NeedsInterruption(job) => Quiet(job)
  BY <1>5 DEF NeedsInterruption
<1>7. job.status = "running" => job.stage # "review"
  BY DEF JobOK
<1> QED BY <1>2, <1>3, <1>4, <1>5, <1>6, <1>7

(* A run stops for its credentials. *)
LEMMA CredentialInterruptedOK ==
    ASSUME NEW job, NEW texts, NEW pairs, JobOK(job, texts, pairs)
    PROVE  JobOK(CredentialInterrupted(job), texts, pairs) /\ Quiet(CredentialInterrupted(job))
<1> DEFINE paused == PauseActiveWork(job)
           next == [paused EXCEPT !.operationError = TRUE]
           touched == [next EXCEPT !.rev = job.rev + 1]
<1>1. /\ JobOK(paused, texts, pairs) /\ Quiet(paused) /\ IsJob(job)
      /\ paused.status = "paused"
  BY PauseActiveWorkOK DEF JobOK
<1>2. CredentialInterrupted(job) = IF job.status # "completed" THEN touched ELSE job
  BY DEF CredentialInterrupted, Reduced
<1> HIDE DEF paused
<1>3. next \in JobsOn(DOMAIN paused.items) /\ next.items = paused.items /\ next.status = "paused"
  BY <1>1 DEF JobOK, IsJob, JobsOn
<1>4. JobOK(next, texts, pairs) /\ Quiet(next)
  BY <1>1, <1>3, Restaged
<1> HIDE DEF next
<1>5. JobOK(touched, texts, pairs) /\ Quiet(touched)
  BY <1>1, <1>4, Touched DEF Quiet
<1> HIDE DEF touched
<1>6. job.status = "completed" => Quiet(job)
  BY StoppedIsQuiet
<1> QED BY <1>2, <1>5, <1>6

(* A deadline is set or cleared. *)
LEMMA RetryAtOK ==
    ASSUME NEW job, NEW texts, NEW pairs, JobOK(job, texts, pairs)
    PROVE  /\ JobOK(RetryAtSet(job), texts, pairs) /\ RetryAtSet(job).items = job.items
           /\ JobOK(RetryAtCleared(job), texts, pairs) /\ RetryAtCleared(job).items = job.items
<1> DEFINE set == [job EXCEPT !.retryAt = TRUE]
           cleared == [job EXCEPT !.retryAt = FALSE]
<1>1. IsJob(job) /\ job \in JobsOn(DOMAIN job.items)
  BY DEF JobOK, IsJob
<1>2. /\ set \in JobsOn(DOMAIN job.items) /\ set.items = job.items
      /\ set.stage = job.stage /\ set.status = job.status
      /\ cleared \in JobsOn(DOMAIN job.items) /\ cleared.items = job.items
      /\ cleared.stage = job.stage /\ cleared.status = job.status
  BY <1>1 DEF JobsOn
<1>3. RetryAtSet(job) = IF job.status # "failed" THEN [set EXCEPT !.rev = job.rev + 1] ELSE job
  BY DEF RetryAtSet, Reduced
<1>4. RetryAtCleared(job) = IF job.retryAt THEN [cleared EXCEPT !.rev = job.rev + 1] ELSE job
  BY DEF RetryAtCleared, Reduced
<1> HIDE DEF set, cleared
<1>5. JobOK(set, texts, pairs) /\ JobOK(cleared, texts, pairs)
  BY <1>2, Restaged
<1>6. /\ JobOK([set EXCEPT !.rev = job.rev + 1], texts, pairs)
      /\ [set EXCEPT !.rev = job.rev + 1].items = set.items
  BY <1>1, <1>5, Touched
<1>7. /\ JobOK([cleared EXCEPT !.rev = job.rev + 1], texts, pairs)
      /\ [cleared EXCEPT !.rev = job.rev + 1].items = cleared.items
  BY <1>1, <1>5, Touched
<1> QED BY <1>2, <1>3, <1>4, <1>6, <1>7

(* An item as the review has it. *)
LEMMA ReviewItem ==
    ASSUME NEW before \in Texts, NEW k, NEW stage, NEW status, NEW texts, NEW pairs
    PROVE  /\ PendingItem(before) \in Items /\ ExcludedItem(before) \in Items
           /\ ItemOK(k, PendingItem(before), stage, status, texts, pairs)
           /\ ItemOK(k, ExcludedItem(before), stage, status, texts, pairs)
           /\ PendingItem(before).status \notin {"applying", "recovering"}
           /\ ExcludedItem(before).status \notin {"applying", "recovering"}
BY DEF PendingItem, ExcludedItem, Items, ItemStatuses, ItemOK

(* All items of a job go back to the review. *)
LEMMA ResetOK ==
    ASSUME NEW D \in SUBSET Keys, NEW items \in [D -> Items],
           NEW stage, NEW status, NEW texts, NEW pairs
    PROVE  /\ ResetReviewItems(items) \in [D -> Items]
           /\ \A k \in D :
                 /\ ItemOK(k, ResetReviewItems(items)[k], stage, status, texts, pairs)
                 /\ ResetReviewItems(items)[k].status \notin {"applying", "recovering"}
<1>1. ASSUME NEW k \in D
      PROVE  LET item == ResetReviewItems(items)[k]
             IN /\ item \in Items /\ ItemOK(k, item, stage, status, texts, pairs)
                /\ item.status \notin {"applying", "recovering"}
  <2>1. items[k].before \in Texts /\ DOMAIN items = D
    BY DEF Items
  <2>2. \/ ResetReviewItems(items)[k] = PendingItem(items[k].before)
        \/ ResetReviewItems(items)[k] = ExcludedItem(items[k].before)
    BY <2>1 DEF ResetReviewItems
  <2> QED BY <2>1, <2>2, ReviewItem
<1>2. ResetReviewItems(items) = [k \in D |-> ResetReviewItems(items)[k]]
  BY DEF ResetReviewItems
<1> QED BY <1>1, <1>2

(* An item is included in the replacement or excluded from it. *)
LEMMA SetIncludedOK ==
    ASSUME NEW job, NEW texts, NEW pairs, JobOK(job, texts, pairs), NEW key, NEW included
    PROVE  /\ JobOK(SetIncluded(job, key, included), texts, pairs)
           /\ SetIncluded(job, key, included) # job => Quiet(SetIncluded(job, key, included))
<1> DEFINE D == DOMAIN job.items
           before == job.items[key].before
           item == IF included THEN PendingItem(before) ELSE ExcludedItem(before)
           items == [ResetReviewItems(job.items) EXCEPT ![key] = item]
           next == [job EXCEPT !.snapshots = FALSE, !.items = items]
           applies == /\ job.stage = "review"
                      /\ key \in D
                      /\ job.items[key].included # included
<1>1. D \in SUBSET Keys /\ IsJob(job) /\ job \in JobsOn(D) /\ job.items \in [D -> Items]
  BY DEF JobOK, IsJob, JobsOn
<1>2. SetIncluded(job, key, included) =
        IF applies THEN [next EXCEPT !.rev = job.rev + 1] ELSE job
  BY DEF SetIncluded, Reduced
<1>3. ASSUME applies PROVE JobOK(next, texts, pairs) /\ Quiet(next)
  <2>1. before \in Texts
    BY <1>1, <1>3 DEF Items
  <2>2. item = PendingItem(before) \/ item = ExcludedItem(before)
    OBVIOUS
  <2> HIDE DEF before, item
  <2>3. /\ item \in Items
        /\ ItemOK(key, item, job.stage, job.status, texts, pairs)
        /\ item.status \notin {"applying", "recovering"}
    BY <2>1, <2>2, ReviewItem
  <2> DEFINE reset == ResetReviewItems(job.items)
  <2>4. /\ reset \in [D -> Items]
        /\ \A k \in D : /\ ItemOK(k, reset[k], job.stage, job.status, texts, pairs)
                        /\ reset[k].status \notin {"applying", "recovering"}
    BY <1>1, ResetOK
  <2> HIDE DEF reset
  <2>5. items \in [D -> Items]
    BY <2>3, <2>4 DEF reset
  <2>6. \A k \in D : /\ ItemOK(k, items[k], job.stage, job.status, texts, pairs)
                     /\ items[k].status \notin {"applying", "recovering"}
    BY <2>3, <2>4 DEF reset
  <2> HIDE DEF items
  <2>7. /\ next \in JobsOn(D) /\ next.items = items
        /\ next.stage = job.stage /\ next.status = job.status
    BY <1>1, <2>5 DEF JobsOn
  <2>8. DOMAIN items = D
    BY <2>5
  <2> HIDE DEF next
  <2> QED BY <1>1, <2>6, <2>7, <2>8 DEF JobOK, IsJob, Quiet
<1> HIDE DEF next, applies
<1>4. applies => /\ JobOK([next EXCEPT !.rev = job.rev + 1], texts, pairs)
                 /\ Quiet([next EXCEPT !.rev = job.rev + 1])
  BY <1>1, <1>3, Touched DEF Quiet
<1> QED BY <1>2, <1>4

(* The apply of the reviewed items is prepared. *)
LEMMA ApplyPreparedOK ==
    ASSUME NEW job, NEW texts, NEW pairs, JobOK(job, texts, pairs), NEW expected,
           job.stage = "review" => \A k \in DOMAIN job.items :
               job.items[k].included => <<k, job.items[k].before>> \in pairs
    PROVE  /\ JobOK(ApplyPrepared(job, expected), texts, pairs)
           /\ ApplyPrepared(job, expected) # job => Quiet(ApplyPrepared(job, expected))
<1> DEFINE D == DOMAIN job.items
           Ready(k) == [PendingItem(job.items[k].before) EXCEPT
                           !.status = "ready-to-apply", !.prior = job.items[k].before]
           items == [k \in D |-> IF job.items[k].included THEN Ready(k) ELSE job.items[k]]
           next == [job EXCEPT !.stage = "apply", !.status = "paused", !.snapshots = TRUE,
                               !.items = items]
<1>1. D \subseteq Keys /\ IsJob(job) /\ job \in JobsOn(D) /\ job.items \in [D -> Items]
  BY DEF JobOK, IsJob, JobsOn
<1>2. ApplyPrepared(job, expected) =
        IF CanPrepare(job, expected) THEN [next EXCEPT !.rev = job.rev + 1] ELSE job
  BY DEF ApplyPrepared, Reduced
<1>3. ASSUME CanPrepare(job, expected) PROVE JobOK(next, texts, pairs) /\ Quiet(next)
  <2>1. job.stage = "review" /\ Quiet(job)
    BY <1>3, StoppedIsQuiet DEF CanPrepare
  <2>2. ASSUME NEW k \in D
        PROVE  /\ items[k] \in Items
               /\ ItemOK(k, items[k], "apply", "paused", texts, pairs)
               /\ items[k].status \notin {"applying", "recovering"}
    <3>1. /\ job.items[k] \in Items /\ job.items[k].before \in Texts
          /\ ItemOK(k, job.items[k], job.stage, job.status, texts, pairs)
          /\ job.items[k].status \notin {"applying", "recovering"}
      BY <1>1, <2>1 DEF JobOK, Quiet, Items
    <3>2. CASE job.items[k].included
      <4>1. items[k] = Ready(k) /\ <<k, job.items[k].before>> \in pairs
        BY <2>1, <3>2
      <4>2. /\ Ready(k) \in Items
            /\ Ready(k).before = job.items[k].before /\ Ready(k).prior = job.items[k].before
            /\ Ready(k).status = "ready-to-apply" /\ Ready(k).result = "none"
        BY <3>1 DEF PendingItem, Items, ItemStatuses
      <4> HIDE DEF Ready, items
      <4> QED BY <4>1, <4>2 DEF ItemOK
    <3>3. CASE ~job.items[k].included
      BY <3>1, <3>3 DEF ItemOK
    <3> QED BY <3>2, <3>3
  <2> HIDE DEF Ready
  <2>3. items \in [D -> Items]
    BY <2>2
  <2> HIDE DEF items
  <2>4. next \in JobsOn(D) /\ next.items = items /\ next.stage = "apply" /\ next.status = "paused"
    BY <1>1, <2>3 DEF JobsOn
  <2>5. DOMAIN items = D
    BY <2>3
  <2> HIDE DEF next
  <2> QED BY <1>1, <2>2, <2>4, <2>5 DEF JobOK, IsJob, Quiet
<1> HIDE DEF next
<1>4. CanPrepare(job, expected) =>
        /\ JobOK([next EXCEPT !.rev = job.rev + 1], texts, pairs)
        /\ Quiet([next EXCEPT !.rev = job.rev + 1])
  BY <1>1, <1>3, Touched DEF Quiet
<1> QED BY <1>2, <1>4

(* An apply starts from a job that is quiet. *)
LEMMA ApplyStartedOK ==
    ASSUME NEW job, NEW texts, NEW pairs, JobOK(job, texts, pairs), Quiet(job)
    PROVE  JobOK(ApplyStarted(job), texts, pairs)
<1> DEFINE next == [job EXCEPT !.stage = "apply", !.status = "running"]
           touched == [next EXCEPT !.rev = job.rev + 1]
<1>1. IsJob(job) /\ job \in JobsOn(DOMAIN job.items)
  BY DEF JobOK, IsJob
<1>2. next \in JobsOn(DOMAIN job.items) /\ next.items = job.items /\ next.stage = "apply"
  BY <1>1 DEF JobsOn
<1>3. ApplyStarted(job) = touched \/ ApplyStarted(job) = job
  BY DEF ApplyStarted, Reduced
<1> HIDE DEF next
<1>4. JobOK(next, texts, pairs)
  BY <1>2, Restaged
<1> QED BY <1>1, <1>3, <1>4, Touched

(* The update of an item starts. *)
LEMMA ApplyItemStartedOK ==
    ASSUME NEW job, NEW texts, NEW pairs, JobOK(job, texts, pairs), NEW key
    PROVE  /\ JobOK(ApplyItemStarted(job, key), texts, pairs)
           /\ DOMAIN ApplyItemStarted(job, key).items = DOMAIN job.items
           /\ key \in DOMAIN job.items =>
                 ApplyItemStarted(job, key).items[key].prior = job.items[key].prior
<1> DEFINE item == [job.items[key] EXCEPT
                       !.tried = TRUE, !.status = "applying", !.result = "none",
                       !.failure = "none", !.preview = "none"]
           next == WithItem(job, key, item)
           touched == [next EXCEPT !.rev = job.rev + 1]
<1>1. IsJob(job) /\ job.items \in [DOMAIN job.items -> Items]
  BY DEF JobOK, IsJob, JobsOn
<1>2. ApplyItemStarted(job, key) = IF CanStartItem(job, key) THEN touched ELSE job
  BY DEF ApplyItemStarted, Reduced
<1>3. ASSUME CanStartItem(job, key)
      PROVE  /\ key \in DOMAIN job.items
             /\ item \in Items /\ item.prior = job.items[key].prior
             /\ ItemOK(key, item, job.stage, job.status, texts, pairs)
  <2>1. job.stage = "apply" /\ job.status = "running" /\ key \in KeysWhere(job, CanApply)
    BY <1>3, InOrderType DEF CanStartItem, ApplyItems
  <2>2. /\ key \in DOMAIN job.items /\ job.items[key] \in Items
        /\ ItemOK(key, job.items[key], job.stage, job.status, texts, pairs)
    BY <1>1, <2>1 DEF KeysWhere, JobOK
  <2>3. /\ item \in Items /\ item.prior = job.items[key].prior
        /\ item.before = job.items[key].before
        /\ item.status = "applying" /\ item.result = "none"
    BY <2>2 DEF Items, ItemStatuses
  <2> HIDE DEF item
  <2> QED BY <2>1, <2>2, <2>3 DEF ItemOK
<1> HIDE DEF item
<1>4. ASSUME CanStartItem(job, key)
      PROVE  /\ JobOK(next, texts, pairs)
             /\ DOMAIN next.items = DOMAIN job.items /\ next.items[key].prior = job.items[key].prior
  <2>1. /\ JobOK(next, texts, pairs)
        /\ next.items = [job.items EXCEPT ![key] = item]
    BY <1>3, <1>4, WithItemOK
  <2> QED BY <1>1, <1>3, <1>4, <2>1
<1> HIDE DEF next
<1>5. CanStartItem(job, key) => JobOK(touched, texts, pairs) /\ touched.items = next.items
  BY <1>1, <1>4, Touched
<1> QED BY <1>2, <1>4, <1>5

(* An item counts as applied when its proposed text was read. *)
LEMMA ItemAfterApplyOK ==
    ASSUME NEW item \in Items, NEW k, NEW stage, NEW status, NEW texts, NEW pairs, NEW reply,
           ItemOK(k, item, stage, status, texts, pairs),
           reply.status \in {"updated", "already-applied"} => reply.observed \in texts[k]
    PROVE  /\ ItemAfterApply(item, reply) \in Items
           /\ ItemOK(k, ItemAfterApply(item, reply), stage, status, texts, pairs)
           /\ ItemAfterApply(item, reply).status \in {"applied", "stale", "failed"}
<1>1. \A retryable : LET failed == FailedItem(item, retryable)
                     IN /\ failed \in Items /\ [failed EXCEPT !.result = "mismatch"] \in Items
                        /\ failed.status = "failed" /\ failed.result = "none"
                        /\ failed.prior = item.prior /\ failed.before = item.before
  <2> SUFFICES ASSUME NEW retryable
               PROVE  LET failed == FailedItem(item, retryable)
                      IN /\ failed \in Items /\ [failed EXCEPT !.result = "mismatch"] \in Items
                         /\ failed.status = "failed" /\ failed.result = "none"
                         /\ failed.prior = item.prior /\ failed.before = item.before
    OBVIOUS
  <2> DEFINE failed == FailedItem(item, retryable)
             failure == IF retryable THEN "retryable" ELSE "final"
  <2>1. failure \in {"none", "retryable", "final"}
    OBVIOUS
  <2>2. failed = [item EXCEPT !.status = "failed", !.result = "none", !.preview = "none",
                              !.failure = failure]
    BY DEF FailedItem
  <2> HIDE DEF failed, failure
  <2>3. /\ failed \in Items /\ failed.status = "failed" /\ failed.result = "none"
        /\ failed.prior = item.prior /\ failed.before = item.before
    BY <2>1, <2>2 DEF Items, ItemStatuses
  <2>4. [failed EXCEPT !.result = "mismatch"] \in Items
    BY <2>3 DEF Items
  <2> QED BY <2>3, <2>4 DEF failed
<1>2. CASE /\ reply.status \in {"updated", "already-applied"}
           /\ reply.observed = Rewrite[item.before]
  <2> DEFINE next == [item EXCEPT !.status = "applied", !.failure = "none", !.preview = "none",
                          !.result = IF reply.status = "updated" THEN "applied" ELSE "unchanged"]
  <2>1. ItemAfterApply(item, reply) = next
    BY <1>2 DEF ItemAfterApply
  <2>2. /\ next \in Items /\ next.status = "applied"
        /\ next.prior = item.prior /\ next.before = item.before
    <3> DEFINE result == IF reply.status = "updated" THEN "applied" ELSE "unchanged"
    <3>1. result \in {"applied", "unchanged"}
      OBVIOUS
    <3>2. next = [item EXCEPT !.status = "applied", !.failure = "none", !.preview = "none",
                              !.result = result]
      OBVIOUS
    <3> HIDE DEF next, result
    <3> QED BY <3>1, <3>2 DEF Items, ItemStatuses
  <2> HIDE DEF next
  <2>3. Rewrite[next.before] \in texts[k]
    BY <1>2, <2>2
  <2> QED BY <2>1, <2>2, <2>3 DEF ItemOK
<1>3. CASE /\ reply.status \in {"updated", "already-applied"}
           /\ reply.observed # Rewrite[item.before]
  <2> DEFINE failed == FailedItem(item, FALSE)
             next == [failed EXCEPT !.result = "mismatch"]
  <2>1. ItemAfterApply(item, reply) = next
    BY <1>3 DEF ItemAfterApply
  <2>2. /\ failed \in Items /\ next \in Items /\ failed.status = "failed"
        /\ failed.prior = item.prior /\ failed.before = item.before
    BY <1>1
  <2> HIDE DEF failed
  <2>3. /\ next.status = "failed" /\ next.prior = item.prior /\ next.before = item.before
        /\ next.result = "mismatch"
    BY <2>2 DEF Items
  <2> HIDE DEF next
  <2> QED BY <2>1, <2>2, <2>3 DEF ItemOK
<1>4. CASE reply.status = "stale"
  <2> DEFINE next == [item EXCEPT !.status = "stale", !.result = "stale", !.failure = "none",
                                  !.preview = "none"]
  <2>1. ItemAfterApply(item, reply) = next
    BY <1>4 DEF ItemAfterApply
  <2>2. /\ next \in Items /\ next.status = "stale" /\ next.result = "stale"
        /\ next.prior = item.prior /\ next.before = item.before
    BY DEF Items, ItemStatuses
  <2> HIDE DEF next
  <2> QED BY <2>1, <2>2 DEF ItemOK
<1>5. CASE reply.status \notin {"updated", "already-applied", "stale"}
  <2>1. ItemAfterApply(item, reply) = FailedItem(item, reply.status \in {"network", "failed"})
    BY <1>5 DEF ItemAfterApply
  <2> DEFINE next == ItemAfterApply(item, reply)
  <2>2. /\ next \in Items /\ next.status = "failed" /\ next.result = "none"
        /\ next.prior = item.prior /\ next.before = item.before
    BY <2>1, <1>1
  <2> HIDE DEF next
  <2> QED BY <2>2 DEF ItemOK, next
<1> QED BY <1>2, <1>3, <1>4, <1>5

(* The reply to an update is recorded. *)
LEMMA ApplyItemFinishedOK ==
    ASSUME NEW job, NEW texts, NEW pairs, JobOK(job, texts, pairs), NEW key, NEW reply,
           reply.status \in {"updated", "already-applied"} => reply.observed \in texts[key]
    PROVE  JobOK(ApplyItemFinished(job, key, reply), texts, pairs)
<1> DEFINE item == ItemAfterApply(job.items[key], reply)
           next == WithItem(job, key, item)
           over == [next EXCEPT !.stage = "results", !.status = "completed", !.retryAt = FALSE]
           more == HasStatus(next, {"ready-to-apply", "applying"})
           result == IF more THEN next ELSE over
           applies == /\ job.stage = "apply"
                      /\ key \in DOMAIN job.items
                      /\ job.items[key].status = "applying"
                      /\ job.items[key].prior # None
<1>1. IsJob(job) /\ job.items \in [DOMAIN job.items -> Items]
  BY DEF JobOK, IsJob, JobsOn
<1>2. ApplyItemFinished(job, key, reply) =
        IF applies THEN [result EXCEPT !.rev = job.rev + 1] ELSE job
  BY DEF ApplyItemFinished, Reduced
<1>3. ASSUME applies PROVE JobOK(result, texts, pairs)
  <2>1. /\ job.items[key] \in Items /\ key \in DOMAIN job.items
        /\ ItemOK(key, job.items[key], job.stage, job.status, texts, pairs)
    BY <1>1, <1>3 DEF JobOK
  <2>2. item \in Items /\ ItemOK(key, item, job.stage, job.status, texts, pairs)
    BY <2>1, ItemAfterApplyOK
  <2> HIDE DEF item
  <2>3. /\ JobOK(next, texts, pairs) /\ next \in JobsOn(DOMAIN job.items)
        /\ DOMAIN next.items = DOMAIN job.items /\ next.stage = "apply"
    <3>1. /\ JobOK(next, texts, pairs) /\ next \in JobsOn(DOMAIN job.items)
          /\ next.items = [job.items EXCEPT ![key] = item] /\ next.stage = job.stage
      BY <2>1, <2>2, WithItemOK
    <3> HIDE DEF next
    <3> QED BY <1>3, <3>1
  <2> HIDE DEF next
  <2>4. ASSUME ~more PROVE Quiet(next)
    BY <2>3, <2>4 DEF HasStatus, Quiet, JobOK, ItemOK
  <2>5. over \in JobsOn(DOMAIN next.items) /\ over.items = next.items /\ over.stage = "results"
    BY <2>3 DEF JobsOn
  <2> HIDE DEF over, more
  <2>6. ~more => JobOK(over, texts, pairs)
    BY <2>3, <2>4, <2>5, Restaged
  <2> QED BY <2>3, <2>6
<1> HIDE DEF result, applies
<1> QED BY <1>1, <1>2, <1>3, Touched

(* The items that failed are tried again. *)
LEMMA RetryEligibleOK ==
    ASSUME NEW job, NEW texts, NEW pairs, JobOK(job, texts, pairs), Quiet(job)
    PROVE  JobOK(RetryEligible(job), texts, pairs) /\ Quiet(RetryEligible(job))
<1> DEFINE D == DOMAIN job.items
           Again(item) == [item EXCEPT !.status = "ready-to-apply", !.result = "none",
                                       !.failure = "none", !.preview = "none"]
           items == [k \in D |-> IF CanRetry(job.items[k]) THEN Again(job.items[k])
                                                           ELSE job.items[k]]
           next == [job EXCEPT !.stage = "apply", !.status = "paused", !.items = items]
           touched == [next EXCEPT !.rev = job.rev + 1]
<1>1. D \subseteq Keys /\ IsJob(job) /\ job \in JobsOn(D) /\ job.items \in [D -> Items]
  BY DEF JobOK, IsJob, JobsOn
<1>2. RetryEligible(job) = touched \/ RetryEligible(job) = job
  BY DEF RetryEligible, Reduced
<1>3. ASSUME NEW k \in D
      PROVE  /\ items[k] \in Items
             /\ ItemOK(k, items[k], "apply", "paused", texts, pairs)
             /\ items[k].status \notin {"applying", "recovering"}
  <2>1. /\ job.items[k] \in Items /\ job.items[k].status \notin {"applying", "recovering"}
        /\ ItemOK(k, job.items[k], job.stage, job.status, texts, pairs)
    BY <1>1 DEF JobOK, Quiet
  <2>2. /\ Again(job.items[k]) \in Items /\ Again(job.items[k]).status = "ready-to-apply"
        /\ Again(job.items[k]).result = "none"
        /\ Again(job.items[k]).before = job.items[k].before
        /\ Again(job.items[k]).prior = job.items[k].prior
    BY <2>1 DEF Items, ItemStatuses
  <2>3. items[k] = Again(job.items[k]) \/ items[k] = job.items[k]
    OBVIOUS
  <2> HIDE DEF Again, items
  <2> QED BY <2>1, <2>2, <2>3 DEF ItemOK
<1> HIDE DEF Again
<1>4. items \in [D -> Items]
  BY <1>3
<1> HIDE DEF items
<1>5. next \in JobsOn(D) /\ next.items = items /\ next.stage = "apply" /\ next.status = "paused"
  BY <1>1, <1>4 DEF JobsOn
<1>6. DOMAIN items = D
  BY <1>4
<1> HIDE DEF next
<1>7. JobOK(next, texts, pairs) /\ Quiet(next)
  BY <1>1, <1>3, <1>5, <1>6 DEF JobOK, IsJob, Quiet
<1>8. JobOK(touched, texts, pairs) /\ Quiet(touched)
  BY <1>1, <1>7, Touched DEF Quiet
<1> QED BY <1>2, <1>8

(* The keys of a new operation. *)
LEMMA OperationType ==
    ASSUME NEW kind \in {"stale-rescan", "recovery-preview", "recovery-apply"},
           NEW D, NEW keys \in Seq(D), keys # <<>>
    PROVE  Operation(kind, keys) \in Operations(D)
<1>1. ToSet(keys) \in SUBSET D
  BY ToSetProperties
<1> QED BY <1>1 DEF Operation, Operations

(* What an operation still has to do. *)
LEMMA RemainingType ==
    ASSUME NEW job, IsJob(job), job.op # None
    PROVE  /\ job.op.remaining \in Seq(Keys)
           /\ Head(job.op.remaining) \in DOMAIN job.items
<1> DEFINE D == DOMAIN job.items
<1>1. D \subseteq Keys /\ job.op \in Operations(D)
  BY DEF IsJob, JobsOn
<1>2. job.op.remaining \in Seq(D) \ {<<>>}
  BY <1>1 DEF Operations
<1>3. job.op.remaining \in Seq(Keys)
  BY <1>1, <1>2, SeqSubset
<1>4. Head(job.op.remaining) \in D
  BY <1>2
<1> QED BY <1>3, <1>4

(* A rescan of the stale items starts or fails. *)
LEMMA StaleRescanOK ==
    ASSUME NEW job, NEW texts, NEW pairs, JobOK(job, texts, pairs)
    PROVE  /\ JobOK(StaleRescanStarted(job), texts, pairs)
           /\ StaleRescanStarted(job) # job => Quiet(StaleRescanStarted(job))
           /\ JobOK(StaleRescanFailed(job), texts, pairs)
           /\ StaleRescanFailed(job).items = job.items
<1> DEFINE D == DOMAIN job.items
           keys == InOrder({k \in D : job.items[k].status = "stale"})
           op == Operation("stale-rescan", keys)
           started == [job EXCEPT !.status = "running", !.operationError = FALSE, !.op = op]
           failed == [job EXCEPT !.status = "failed", !.retryAt = FALSE]
           applies == /\ job.stage = "results"
                      /\ job.status # "running"
                      /\ job.op = None
                      /\ keys # <<>>
<1>1. IsJob(job) /\ job \in JobsOn(D)
  BY DEF JobOK, IsJob
<1>2. StaleRescanStarted(job) = IF applies THEN [started EXCEPT !.rev = job.rev + 1] ELSE job
  BY DEF StaleRescanStarted, Reduced
<1>3. StaleRescanFailed(job) = IF IsRescanning(job) THEN [failed EXCEPT !.rev = job.rev + 1] ELSE job
  BY DEF StaleRescanFailed, Reduced
<1>4. applies \/ IsRescanning(job) => Quiet(job)
  BY StoppedIsQuiet DEF IsRescanning
<1>5. ASSUME applies PROVE JobOK(started, texts, pairs) /\ Quiet(started)
  <2>1. keys \in Seq(D) /\ keys # <<>>
    <3> DEFINE stale == {k \in D : job.items[k].status = "stale"}
    <3>1. stale \subseteq D
      OBVIOUS
    <3> HIDE DEF stale
    <3>2. InOrder(stale) \in Seq(D)
      BY <3>1, InOrderType, SeqSubset
    <3> QED BY <1>5, <3>2 DEF stale
  <2> HIDE DEF keys
  <2>2. op \in Operations(D)
    BY <2>1, OperationType
  <2> HIDE DEF op
  <2>3. started \in JobsOn(D) /\ started.items = job.items /\ started.stage = job.stage
    BY <1>1, <2>2 DEF JobsOn
  <2> HIDE DEF started
  <2>4. job.stage = "results"
    BY <1>5
  <2> QED BY <1>4, <1>5, <2>3, <2>4, Restaged
<1>6. failed \in JobsOn(D) /\ failed.items = job.items /\ failed.status = "failed"
  BY <1>1 DEF JobsOn
<1> HIDE DEF started, failed, applies
<1>7. IsRescanning(job) => JobOK(failed, texts, pairs)
  BY <1>4, <1>6, Restaged
<1>8. applies => /\ JobOK([started EXCEPT !.rev = job.rev + 1], texts, pairs)
                 /\ Quiet([started EXCEPT !.rev = job.rev + 1])
  BY <1>1, <1>5, Touched DEF Quiet
<1>9. IsRescanning(job) => /\ JobOK([failed EXCEPT !.rev = job.rev + 1], texts, pairs)
                           /\ [failed EXCEPT !.rev = job.rev + 1].items = job.items
  BY <1>1, <1>6, <1>7, Touched
<1> QED BY <1>2, <1>3, <1>8, <1>9

(* A stale item was scanned again. *)
LEMMA StaleItemRescannedOK ==
    ASSUME NEW job, NEW texts, NEW pairs, JobOK(job, texts, pairs), NEW key,
           NEW proposed \in Texts \cup {None}
    PROVE  /\ JobOK(StaleItemRescanned(job, key, proposed), texts, pairs)
           /\ Quiet(job) => Quiet(StaleItemRescanned(job, key, proposed))
<1> DEFINE D == DOMAIN job.items
           found == IF proposed = None THEN job.op.found
                    ELSE [job.op.found EXCEPT ![key] = proposed]
           rest == Tail(job.op.remaining)
           op == [job.op EXCEPT !.remaining = rest, !.found = found]
           more == [job EXCEPT !.op = op, !.retryAt = FALSE]
           items == ItemsAfterRescan(job.items, job.op.requested, found)
           over == [job EXCEPT !.stage = "review", !.status = "completed", !.op = None,
                               !.snapshots = FALSE, !.operationError = FALSE,
                               !.retryAt = FALSE, !.items = items]
           next == IF rest # <<>> THEN more ELSE over
           applies == /\ IsRescanning(job)
                      /\ job.op.remaining # <<>>
                      /\ Head(job.op.remaining) = key
<1>1. D \in SUBSET Keys /\ IsJob(job) /\ job \in JobsOn(D) /\ job.items \in [D -> Items]
  BY DEF JobOK, IsJob, JobsOn
<1>2. StaleItemRescanned(job, key, proposed) =
        IF applies THEN [next EXCEPT !.rev = job.rev + 1] ELSE job
  BY DEF StaleItemRescanned, Reduced
<1>3. ASSUME applies PROVE JobOK(next, texts, pairs) /\ Quiet(next)
  <2>1. job.op \in Operations(D) /\ Quiet(job)
    BY <1>1, <1>3, StoppedIsQuiet DEF IsRescanning, JobsOn
  <2>2. /\ job.op.remaining \in Seq(D) /\ job.op.remaining # <<>>
        /\ job.op.found \in [Keys -> Texts \cup {None}]
    BY <2>1 DEF Operations
  <2>3. rest \in Seq(D) /\ key \in Keys
    <3>1. rest \in Seq(D)
      BY <2>2, HeadTailProperties
    <3>2. key \in D
      BY <1>1, <1>3, RemainingType DEF IsRescanning
    <3> QED BY <1>1, <3>1, <3>2
  <2>4. found \in [Keys -> Texts \cup {None}]
    BY <2>2, <2>3
  <2> HIDE DEF found, rest
  <2>5. ASSUME rest # <<>> PROVE JobOK(more, texts, pairs) /\ Quiet(more)
    <3>1. op \in Operations(D)
      BY <2>1, <2>3, <2>4, <2>5 DEF Operations
    <3> HIDE DEF op
    <3>2. /\ more \in JobsOn(D) /\ more.items = job.items
          /\ more.stage = job.stage /\ more.status = job.status
      BY <1>1, <3>1 DEF JobsOn
    <3> HIDE DEF more
    <3> QED BY <2>1, <3>2, Restaged
  <2>6. JobOK(over, texts, pairs) /\ Quiet(over)
    <3> DEFINE E == {k \in D : k \in job.op.requested => found[k] # None}
               kept == [k \in E |-> IF found[k] # None
                                    THEN [job.items[k] EXCEPT !.before = found[k]]
                                    ELSE job.items[k]]
    <3>1. E \in SUBSET Keys
      BY <1>1
    <3>2. ASSUME NEW k \in E PROVE kept[k] \in Items
      BY <1>1, <2>4, <3>2 DEF Items
    <3>3. items = ResetReviewItems(kept)
      BY DEF ItemsAfterRescan
    <3> HIDE DEF E
    <3>4. kept \in [E -> Items]
      BY <3>2
    <3> HIDE DEF kept, items
    <3>5. /\ items \in [E -> Items]
          /\ \A k \in E : /\ ItemOK(k, items[k], "review", "completed", texts, pairs)
                          /\ items[k].status \notin {"applying", "recovering"}
      BY <3>1, <3>3, <3>4, ResetOK
    <3>6. /\ over \in JobsOn(E) /\ over.items = items
          /\ over.stage = "review" /\ over.status = "completed"
      BY <1>1, <3>5 DEF JobsOn
    <3>7. DOMAIN items = E
      BY <3>5
    <3> HIDE DEF over
    <3> QED BY <3>1, <3>5, <3>6, <3>7 DEF JobOK, IsJob, Quiet
  <2> QED BY <2>5, <2>6
<1> HIDE DEF next, applies
<1>4. applies => /\ JobOK([next EXCEPT !.rev = job.rev + 1], texts, pairs)
                 /\ Quiet([next EXCEPT !.rev = job.rev + 1])
  BY <1>1, <1>3, Touched DEF Quiet
<1> QED BY <1>2, <1>4

(* The head of the operation is consumed. *)
LEMMA ConsumeOperationOK ==
    ASSUME NEW job, NEW texts, NEW pairs, JobOK(job, texts, pairs), Quiet(job),
           job.stage # "review",
           NEW key, NEW kind
    PROVE  /\ JobOK(ConsumeOperation(job, key, kind), texts, pairs)
           /\ Quiet(ConsumeOperation(job, key, kind))
<1> DEFINE D == DOMAIN job.items
           rest == Tail(job.op.remaining)
           op == [job.op EXCEPT !.remaining = rest]
           more == [job EXCEPT !.status = "running", !.op = op]
           status == IF kind = "recovery-preview" THEN "paused" ELSE "completed"
           over == [job EXCEPT !.op = None, !.status = status]
<1>1. job \in JobsOn(D)
  BY DEF JobOK, IsJob
<1>2. \/ ConsumeOperation(job, key, kind) = job
      \/ /\ job.op # None /\ Len(job.op.remaining) > 1
         /\ ConsumeOperation(job, key, kind) = more
      \/ ConsumeOperation(job, key, kind) = over
  BY DEF ConsumeOperation
<1>3. status \in {"paused", "completed"}
  OBVIOUS
<1> HIDE DEF status
<1>4. over \in JobsOn(D) /\ over.items = job.items /\ over.stage = job.stage
  BY <1>1, <1>3 DEF JobsOn
<1>5. ASSUME job.op # None, Len(job.op.remaining) > 1
      PROVE  more \in JobsOn(D) /\ more.items = job.items /\ more.stage = job.stage
  <2>1. job.op \in Operations(D)
    BY <1>1, <1>5 DEF JobsOn
  <2>2. job.op.remaining \in Seq(D)
    BY <2>1 DEF Operations
  <2>3. rest \in Seq(D) /\ rest # <<>>
    <3>1. Len(<<>>) = 0 /\ <<>> \in Seq(D)
      OBVIOUS
    <3>2. job.op.remaining # <<>>
      BY <1>5, <3>1
    <3>3. rest \in Seq(D) /\ Len(rest) = Len(job.op.remaining) - 1
      BY <2>2, <3>2, HeadTailProperties
    <3>4. Len(job.op.remaining) \in Nat
      BY <2>2, LenProperties
    <3> HIDE DEF rest
    <3> QED BY <1>5, <3>1, <3>3, <3>4
  <2> HIDE DEF rest
  <2>4. op \in Operations(D)
    BY <2>1, <2>3 DEF Operations
  <2> HIDE DEF op
  <2> QED BY <1>1, <2>4 DEF JobsOn
<1> HIDE DEF more, over
<1>6. JobOK(over, texts, pairs) /\ Quiet(over)
  BY <1>4, Restaged
<1>7. more \in JobsOn(D) /\ more.items = job.items /\ more.stage = job.stage
        => JobOK(more, texts, pairs) /\ Quiet(more)
  BY Restaged
<1> QED BY <1>2, <1>5, <1>6, <1>7

(* A run of previews, or of recoveries, starts from a job that is quiet. *)
LEMMA RecoveryRunOK ==
    ASSUME NEW job, NEW texts, NEW pairs, JobOK(job, texts, pairs), NEW selected
    PROVE  /\ JobOK(RecoveryPreviewRunStarted(job, selected), texts, pairs)
           /\ RecoveryPreviewRunStarted(job, selected) # job =>
                 Quiet(RecoveryPreviewRunStarted(job, selected))
           /\ Quiet(job) => /\ JobOK(RecoveryStarted(job, selected), texts, pairs)
                            /\ Quiet(RecoveryStarted(job, selected))
<1> DEFINE D == DOMAIN job.items
           applied == InOrder(KeysWhere(job, HasSuccessfulApply) \cap selected)
           pop == Operation("recovery-preview", applied)
           preview == [job EXCEPT !.stage = "recovery", !.status = "running",
                                  !.operationError = FALSE, !.op = pop]
           can == job.op = None /\ job.status # "running" /\ applied # <<>>
           recoverable == InOrder(KeysWhere(job, Recoverable) \cap selected)
           rop == Operation("recovery-apply", recoverable)
           recovery == [job EXCEPT !.stage = "recovery", !.status = "running",
                                   !.operationError = FALSE, !.op = rop]
           applies == job.snapshots /\ recoverable # <<>>
<1>1. IsJob(job) /\ job \in JobsOn(D)
  BY DEF JobOK, IsJob
<1>2. RecoveryPreviewRunStarted(job, selected) =
        IF can THEN [preview EXCEPT !.rev = job.rev + 1] ELSE job
  BY DEF RecoveryPreviewRunStarted, Reduced
<1>3. RecoveryStarted(job, selected) =
        IF applies THEN [recovery EXCEPT !.rev = job.rev + 1] ELSE job
  BY DEF RecoveryStarted, Reduced
<1>4. applied \in Seq(D) /\ recoverable \in Seq(D)
  <2> DEFINE from == KeysWhere(job, HasSuccessfulApply) \cap selected
             to == KeysWhere(job, Recoverable) \cap selected
  <2>1. from \subseteq D /\ to \subseteq D
    BY DEF KeysWhere
  <2> HIDE DEF from, to
  <2>2. InOrder(from) \in Seq(D) /\ InOrder(to) \in Seq(D)
    BY <2>1, InOrderType, SeqSubset
  <2> QED BY <2>2 DEF from, to
<1>5. ASSUME can PROVE JobOK(preview, texts, pairs) /\ Quiet(preview)
  <2>1. Quiet(job)
    BY <1>5, StoppedIsQuiet
  <2> HIDE DEF applied
  <2>2. pop \in Operations(D)
    BY <1>4, <1>5, OperationType
  <2> HIDE DEF pop
  <2>3. preview \in JobsOn(D) /\ preview.items = job.items /\ preview.stage = "recovery"
    BY <1>1, <2>2 DEF JobsOn
  <2> HIDE DEF preview
  <2> QED BY <2>1, <2>3, Restaged
<1>6. ASSUME applies, Quiet(job) PROVE JobOK(recovery, texts, pairs) /\ Quiet(recovery)
  <2> HIDE DEF recoverable
  <2>1. rop \in Operations(D)
    BY <1>4, <1>6, OperationType
  <2> HIDE DEF rop
  <2>2. recovery \in JobsOn(D) /\ recovery.items = job.items /\ recovery.stage = "recovery"
    BY <1>1, <2>1 DEF JobsOn
  <2> HIDE DEF recovery
  <2> QED BY <1>6, <2>2, Restaged
<1> HIDE DEF preview, recovery, can, applies
<1>7. can => /\ JobOK([preview EXCEPT !.rev = job.rev + 1], texts, pairs)
             /\ Quiet([preview EXCEPT !.rev = job.rev + 1])
  BY <1>1, <1>5, Touched DEF Quiet
<1>8. applies /\ Quiet(job) => /\ JobOK([recovery EXCEPT !.rev = job.rev + 1], texts, pairs)
                               /\ Quiet([recovery EXCEPT !.rev = job.rev + 1])
  BY <1>1, <1>6, Touched DEF Quiet
<1> QED BY <1>2, <1>3, <1>7, <1>8

(* The preview of an item starts. *)
LEMMA RecoveryPreviewStartedOK ==
    ASSUME NEW job, NEW texts, NEW pairs, JobOK(job, texts, pairs), Quiet(job), NEW key
    PROVE  /\ JobOK(RecoveryPreviewStarted(job, key), texts, pairs)
           /\ Quiet(RecoveryPreviewStarted(job, key))
           /\ DOMAIN RecoveryPreviewStarted(job, key).items = DOMAIN job.items
<1> DEFINE item == [job.items[key] EXCEPT
                       !.status = "applied", !.failure = "none", !.preview = "none"]
           with == WithItem(job, key, item)
           next == [with EXCEPT !.stage = "recovery", !.status = "paused"]
           applies == key \in DOMAIN job.items /\ HasSuccessfulApply(job.items[key])
<1>1. IsJob(job) /\ job.items \in [DOMAIN job.items -> Items]
  BY DEF JobOK, IsJob, JobsOn
<1>2. RecoveryPreviewStarted(job, key) =
        IF applies THEN [next EXCEPT !.rev = job.rev + 1] ELSE job
  BY DEF RecoveryPreviewStarted, Reduced
<1>3. ASSUME applies
      PROVE JobOK(next, texts, pairs) /\ Quiet(next) /\ DOMAIN next.items = DOMAIN job.items
  <2>1. /\ job.items[key] \in Items
        /\ ItemOK(key, job.items[key], job.stage, job.status, texts, pairs)
    BY <1>1, <1>3 DEF JobOK
  <2>2. /\ item \in Items /\ item.status = "applied" /\ item.result = job.items[key].result
        /\ item.before = job.items[key].before /\ item.prior = job.items[key].prior
    BY <2>1 DEF Items, ItemStatuses
  <2> HIDE DEF item
  <2>3. ItemOK(key, item, job.stage, job.status, texts, pairs)
    BY <2>1, <2>2 DEF ItemOK
  <2>4. /\ JobOK(with, texts, pairs) /\ with \in JobsOn(DOMAIN job.items)
        /\ with.items = [job.items EXCEPT ![key] = item]
    BY <1>3, <2>2, <2>3, WithItemOK
  <2> HIDE DEF with
  <2>5. Quiet(with) /\ DOMAIN with.items = DOMAIN job.items
    BY <1>1, <2>2, <2>4 DEF Quiet
  <2>6. next \in JobsOn(DOMAIN with.items) /\ next.items = with.items /\ next.stage = "recovery"
    BY <2>4, <2>5 DEF JobsOn
  <2> HIDE DEF next
  <2> QED BY <2>4, <2>5, <2>6, Restaged
<1> HIDE DEF next, applies
<1>4. applies => /\ JobOK([next EXCEPT !.rev = job.rev + 1], texts, pairs)
                 /\ [next EXCEPT !.rev = job.rev + 1].items = next.items
  BY <1>1, <1>3, Touched
<1> QED BY <1>2, <1>3, <1>4 DEF Quiet

(* An item that is worked on gets another status: the job is quiet. *)
LEMMA QuietWithItem ==
    ASSUME NEW job, NEW texts, NEW pairs, JobOK(job, texts, pairs),
           NEW key \in DOMAIN job.items, OnlyRecovering(job, key), NEW item \in Items,
           item.before = job.items[key].before, item.prior = job.items[key].prior,
           item.result = job.items[key].result,
           item.status \notin {"applying", "recovering"},
           item.status = "ready-to-recover" => HasSuccessfulApply(job.items[key])
    PROVE  /\ JobOK(WithItem(job, key, item), texts, pairs)
           /\ WithItem(job, key, item) \in JobsOn(DOMAIN WithItem(job, key, item).items)
           /\ WithItem(job, key, item).stage = job.stage
           /\ Quiet(WithItem(job, key, item))
<1> DEFINE with == WithItem(job, key, item)
<1>1. /\ job.items \in [DOMAIN job.items -> Items]
      /\ ItemOK(key, job.items[key], job.stage, job.status, texts, pairs)
  BY DEF JobOK, IsJob, JobsOn
<1>2. ItemOK(key, item, job.stage, job.status, texts, pairs)
  BY <1>1 DEF ItemOK, HasSuccessfulApply
<1>3. /\ JobOK(with, texts, pairs) /\ with \in JobsOn(DOMAIN job.items)
      /\ with.items = [job.items EXCEPT ![key] = item] /\ with.stage = job.stage
  BY <1>2, WithItemOK
<1> HIDE DEF with
<1>4. DOMAIN with.items = DOMAIN job.items /\ Quiet(with)
  BY <1>1, <1>3 DEF Quiet, OnlyRecovering
<1> QED BY <1>3, <1>4 DEF with

(* Only an item that was applied is recovered. *)
LEMMA UntouchedIsQuiet ==
    ASSUME NEW job, NEW texts, NEW pairs, JobOK(job, texts, pairs), NEW key,
           OnlyRecovering(job, key),
           ~(/\ key \in DOMAIN job.items
             /\ job.items[key].status = "recovering"
             /\ HasSuccessfulApply(job.items[key]))
    PROVE  Quiet(job)
<1>1. ASSUME NEW k \in DOMAIN job.items
      PROVE  job.items[k].status \notin {"applying", "recovering"}
  <2>1. ItemOK(k, job.items[k], job.stage, job.status, texts, pairs)
    BY DEF JobOK
  <2> QED BY <2>1 DEF ItemOK, OnlyRecovering
<1> QED BY <1>1 DEF Quiet

(* The preview of an item has come. *)
LEMMA RecoveryPreviewFinishedOK ==
    ASSUME NEW job, NEW texts, NEW pairs, JobOK(job, texts, pairs), NEW key,
           OnlyRecovering(job, key),
           NEW state \in {"recoverable", "already-recovered", "conflict"}
    PROVE  /\ JobOK(RecoveryPreviewFinished(job, key, state), texts, pairs)
           /\ Quiet(RecoveryPreviewFinished(job, key, state))
<1> DEFINE item == [job.items[key] EXCEPT
                       !.status = "ready-to-recover", !.failure = "none", !.preview = state]
           with == WithItem(job, key, item)
           running == [with EXCEPT !.stage = "recovery", !.status = "running"]
           next == ConsumeOperation(running, key, "recovery-preview")
           applies == key \in DOMAIN job.items /\ HasSuccessfulApply(job.items[key])
<1>1. IsJob(job) /\ job.items \in [DOMAIN job.items -> Items]
  BY DEF JobOK, IsJob, JobsOn
<1>2. RecoveryPreviewFinished(job, key, state) =
        IF applies THEN [next EXCEPT !.rev = job.rev + 1] ELSE job
  BY DEF RecoveryPreviewFinished, Reduced
<1>3. ASSUME applies PROVE JobOK(next, texts, pairs) /\ Quiet(next)
  <2>1. job.items[key] \in Items
    BY <1>1, <1>3
  <2>2. /\ item \in Items /\ item.status = "ready-to-recover"
        /\ item.result = job.items[key].result
        /\ item.before = job.items[key].before /\ item.prior = job.items[key].prior
    BY <2>1 DEF Items, ItemStatuses
  <2> HIDE DEF item
  <2>3. JobOK(with, texts, pairs) /\ with \in JobsOn(DOMAIN with.items) /\ Quiet(with)
    BY <1>3, <2>2, QuietWithItem
  <2> HIDE DEF with
  <2>4. /\ running \in JobsOn(DOMAIN with.items) /\ running.items = with.items
        /\ running.stage = "recovery"
    BY <2>3 DEF JobsOn
  <2> HIDE DEF running
  <2>5. JobOK(running, texts, pairs) /\ Quiet(running)
    BY <2>3, <2>4, Restaged
  <2> QED BY <2>4, <2>5, ConsumeOperationOK
<1>4. ~applies => Quiet(job)
  BY UntouchedIsQuiet
<1> HIDE DEF next, applies
<1>5. applies => /\ JobOK([next EXCEPT !.rev = job.rev + 1], texts, pairs)
                 /\ Quiet([next EXCEPT !.rev = job.rev + 1])
  BY <1>1, <1>3, Touched DEF Quiet
<1> QED BY <1>2, <1>4, <1>5

(* The preview of an item has failed. *)
LEMMA RecoveryPreviewFailedOK ==
    ASSUME NEW job, NEW texts, NEW pairs, JobOK(job, texts, pairs), NEW key,
           OnlyRecovering(job, key), NEW retryable, NEW authorization
    PROVE  /\ JobOK(RecoveryPreviewFailed(job, key, retryable, authorization), texts, pairs)
           /\ Quiet(RecoveryPreviewFailed(job, key, retryable, authorization))
<1> DEFINE failure == IF retryable THEN "retryable" ELSE "final"
           item == [job.items[key] EXCEPT
                       !.status = "recovery-failed", !.preview = "none", !.failure = failure]
           with == WithItem(job, key, item)
           running == [with EXCEPT !.stage = "recovery", !.status = "running"]
           consumed == ConsumeOperation(running, key, "recovery-preview")
           over == [running EXCEPT !.status = "completed", !.op = None]
           next == IF retryable \/ authorization THEN consumed ELSE over
           applies == key \in DOMAIN job.items /\ HasSuccessfulApply(job.items[key])
<1>1. IsJob(job) /\ job.items \in [DOMAIN job.items -> Items]
  BY DEF JobOK, IsJob, JobsOn
<1>2. RecoveryPreviewFailed(job, key, retryable, authorization) =
        IF applies THEN [next EXCEPT !.rev = job.rev + 1] ELSE job
  BY DEF RecoveryPreviewFailed, Reduced
<1>3. ASSUME applies PROVE JobOK(next, texts, pairs) /\ Quiet(next)
  <2>1. job.items[key] \in Items
    BY <1>1, <1>3
  <2>2. failure \in {"none", "retryable", "final"}
    OBVIOUS
  <2> HIDE DEF failure
  <2>3. /\ item \in Items /\ item.status = "recovery-failed"
        /\ item.result = job.items[key].result
        /\ item.before = job.items[key].before /\ item.prior = job.items[key].prior
    <3> DEFINE old == job.items[key]
    <3>1. old \in Items
      BY <2>1
    <3>2. item = [old EXCEPT !.status = "recovery-failed", !.preview = "none",
                             !.failure = failure]
      OBVIOUS
    <3> HIDE DEF old, item
    <3>3. /\ item \in Items /\ item.status = "recovery-failed"
          /\ item.result = old.result /\ item.before = old.before /\ item.prior = old.prior
      BY <2>2, <3>1, <3>2 DEF Items, ItemStatuses
    <3> QED BY <3>3 DEF old
  <2> HIDE DEF item
  <2>4. JobOK(with, texts, pairs) /\ with \in JobsOn(DOMAIN with.items) /\ Quiet(with)
    BY <1>3, <2>3, QuietWithItem
  <2> HIDE DEF with
  <2>5. /\ running \in JobsOn(DOMAIN with.items) /\ running.items = with.items
        /\ running.stage = "recovery"
    BY <2>4 DEF JobsOn
  <2> HIDE DEF running
  <2>6. JobOK(running, texts, pairs) /\ Quiet(running)
    BY <2>4, <2>5, Restaged
  <2>7. over \in JobsOn(DOMAIN running.items) /\ over.items = running.items /\ over.stage = "recovery"
    BY <2>5 DEF JobsOn
  <2> HIDE DEF over
  <2>8. JobOK(over, texts, pairs) /\ Quiet(over)
    BY <2>6, <2>7, Restaged
  <2>9. JobOK(consumed, texts, pairs) /\ Quiet(consumed)
    BY <2>5, <2>6, ConsumeOperationOK
  <2> QED BY <2>8, <2>9
<1>4. ~applies => Quiet(job)
  BY UntouchedIsQuiet
<1> HIDE DEF next, applies
<1>5. applies => /\ JobOK([next EXCEPT !.rev = job.rev + 1], texts, pairs)
                 /\ Quiet([next EXCEPT !.rev = job.rev + 1])
  BY <1>1, <1>3, Touched DEF Quiet
<1> QED BY <1>2, <1>4, <1>5

(* The recovery of an item starts. *)
LEMMA RecoveryItemStartedOK ==
    ASSUME NEW job, NEW texts, NEW pairs, JobOK(job, texts, pairs), Quiet(job), NEW key
    PROVE  /\ JobOK(RecoveryItemStarted(job, key), texts, pairs)
           /\ OnlyRecovering(RecoveryItemStarted(job, key), key)
           /\ DOMAIN RecoveryItemStarted(job, key).items = DOMAIN job.items
           /\ key \in DOMAIN job.items =>
                 RecoveryItemStarted(job, key).items[key].prior = job.items[key].prior
<1> DEFINE item == [job.items[key] EXCEPT
                       !.status = "recovering", !.failure = "none", !.preview = "none"]
           next == WithItem(job, key, item)
           applies == /\ job.stage = "recovery"
                      /\ job.status = "running"
                      /\ key \in DOMAIN job.items
                      /\ Recoverable(job.items[key])
<1>1. IsJob(job) /\ job.items \in [DOMAIN job.items -> Items]
  BY DEF JobOK, IsJob, JobsOn
<1>2. RecoveryItemStarted(job, key) =
        IF applies THEN [next EXCEPT !.rev = job.rev + 1] ELSE job
  BY DEF RecoveryItemStarted, Reduced
<1>3. ASSUME applies
      PROVE  /\ JobOK(next, texts, pairs) /\ OnlyRecovering(next, key)
             /\ DOMAIN next.items = DOMAIN job.items
             /\ next.items[key].prior = job.items[key].prior
  <2>1. /\ job.items[key] \in Items
        /\ ItemOK(key, job.items[key], job.stage, job.status, texts, pairs)
    BY <1>1, <1>3 DEF JobOK
  <2>2. /\ item \in Items /\ item.status = "recovering" /\ item.result = job.items[key].result
        /\ item.before = job.items[key].before /\ item.prior = job.items[key].prior
    BY <2>1 DEF Items, ItemStatuses
  <2> HIDE DEF item
  <2>3. ItemOK(key, item, job.stage, job.status, texts, pairs)
    BY <1>3, <2>1, <2>2 DEF ItemOK, Recoverable, HasSuccessfulApply
  <2>4. JobOK(next, texts, pairs) /\ next.items = [job.items EXCEPT ![key] = item]
    BY <1>3, <2>2, <2>3, WithItemOK
  <2> HIDE DEF next
  <2> QED BY <1>1, <1>3, <2>2, <2>4 DEF Quiet, OnlyRecovering
<1>4. OnlyRecovering(job, key)
  BY DEF Quiet, OnlyRecovering
<1> HIDE DEF next, applies
<1>5. applies => /\ JobOK([next EXCEPT !.rev = job.rev + 1], texts, pairs)
                 /\ [next EXCEPT !.rev = job.rev + 1].items = next.items
  BY <1>1, <1>3, Touched
<1> QED BY <1>2, <1>3, <1>4, <1>5 DEF OnlyRecovering

(* The status of an item after the reply to its recovery. *)
LEMMA ItemAfterRecoveryIs ==
    ASSUME NEW item \in Items, NEW reply
    PROVE  /\ ItemAfterRecovery(item, reply) \in Items
           /\ ItemAfterRecovery(item, reply).status \in
                 {"recovered", "recovery-conflict", "recovery-failed"}
           /\ ItemAfterRecovery(item, reply).result = item.result
           /\ ItemAfterRecovery(item, reply).before = item.before
           /\ ItemAfterRecovery(item, reply).prior = item.prior
<1> DEFINE failure == IF reply.status \in {"network", "failed"} THEN "retryable" ELSE "final"
           recovered == [item EXCEPT !.status = "recovered", !.failure = "none"]
           conflict == [item EXCEPT !.status = "recovery-conflict", !.failure = "none"]
           failed == [item EXCEPT !.status = "recovery-failed", !.failure = failure]
<1>1. ItemAfterRecovery(item, reply) \in {recovered, conflict, failed}
  <2>1. CASE reply.status \in {"recovered", "already-recovered"}
    BY <2>1 DEF ItemAfterRecovery
  <2>2. CASE reply.status \in {"conflict", "verification-failed"}
    BY <2>2 DEF ItemAfterRecovery
  <2>3. CASE reply.status \notin {"recovered", "already-recovered", "conflict",
                                  "verification-failed"}
    BY <2>3 DEF ItemAfterRecovery
  <2> QED BY <2>1, <2>2, <2>3
<1>2. failure \in {"none", "retryable", "final"}
  OBVIOUS
<1> HIDE DEF failure
<1>3. /\ recovered \in Items /\ recovered.status = "recovered" /\ recovered.result = item.result
      /\ recovered.before = item.before /\ recovered.prior = item.prior
  BY DEF Items, ItemStatuses
<1>4. /\ conflict \in Items /\ conflict.status = "recovery-conflict"
      /\ conflict.result = item.result
      /\ conflict.before = item.before /\ conflict.prior = item.prior
  BY DEF Items, ItemStatuses
<1>5. /\ failed \in Items /\ failed.status = "recovery-failed" /\ failed.result = item.result
      /\ failed.before = item.before /\ failed.prior = item.prior
  BY <1>2 DEF Items, ItemStatuses
<1> HIDE DEF recovered, conflict, failed
<1> QED BY <1>1, <1>3, <1>4, <1>5

(* The reply to a recovery is recorded. *)
LEMMA RecoveryItemFinishedOK ==
    ASSUME NEW job, NEW texts, NEW pairs, JobOK(job, texts, pairs), NEW key,
           OnlyRecovering(job, key), NEW reply
    PROVE  /\ JobOK(RecoveryItemFinished(job, key, reply), texts, pairs)
           /\ Quiet(RecoveryItemFinished(job, key, reply))
<1> DEFINE item == ItemAfterRecovery(job.items[key], reply)
           with == WithItem(job, key, item)
           completed == [with EXCEPT !.status = "completed"]
           finished == IF HasStatus(with, {"ready-to-recover", "recovering"}) THEN with
                       ELSE completed
           over == [finished EXCEPT !.status = "completed", !.op = None]
           consumed == ConsumeOperation(finished, key, "recovery-apply")
           next == IF reply.status = "validation" THEN over ELSE consumed
           applies == /\ key \in DOMAIN job.items
                      /\ job.items[key].status = "recovering"
                      /\ HasSuccessfulApply(job.items[key])
<1>1. IsJob(job) /\ job.items \in [DOMAIN job.items -> Items]
  BY DEF JobOK, IsJob, JobsOn
<1>2. RecoveryItemFinished(job, key, reply) =
        IF applies THEN [next EXCEPT !.rev = job.rev + 1] ELSE job
  BY DEF RecoveryItemFinished, Reduced
<1>3. ASSUME applies PROVE JobOK(next, texts, pairs) /\ Quiet(next)
  <2>1. job.items[key] \in Items
    BY <1>1, <1>3
  <2>2. /\ item \in Items /\ item.status \in {"recovered", "recovery-conflict", "recovery-failed"}
        /\ item.result = job.items[key].result
        /\ item.before = job.items[key].before /\ item.prior = job.items[key].prior
    BY <2>1, ItemAfterRecoveryIs
  <2> HIDE DEF item
  <2>3. /\ JobOK(with, texts, pairs) /\ with \in JobsOn(DOMAIN with.items) /\ Quiet(with)
        /\ with.stage = job.stage
    BY <1>3, <2>2, QuietWithItem
  <2>4. job.stage = "recovery"
    BY <1>3 DEF JobOK, ItemOK
  <2> HIDE DEF with
  <2>5. /\ completed \in JobsOn(DOMAIN with.items) /\ completed.items = with.items
        /\ completed.stage = with.stage
    BY <2>3 DEF JobsOn
  <2> HIDE DEF completed
  <2>6. JobOK(completed, texts, pairs) /\ Quiet(completed)
    BY <2>3, <2>5, <2>4, Restaged
  <2>7. JobOK(finished, texts, pairs) /\ Quiet(finished) /\ finished.stage = "recovery"
    BY <2>3, <2>5, <2>6, <2>4
  <2> HIDE DEF finished
  <2>8. /\ over \in JobsOn(DOMAIN finished.items) /\ over.items = finished.items
        /\ over.stage = finished.stage
    BY <2>7 DEF JobOK, IsJob, JobsOn
  <2> HIDE DEF over
  <2>9. JobOK(over, texts, pairs) /\ Quiet(over)
    BY <2>7, <2>8, Restaged
  <2>10. JobOK(consumed, texts, pairs) /\ Quiet(consumed)
    BY <2>7, ConsumeOperationOK
  <2> QED BY <2>9, <2>10
<1>4. ~applies => Quiet(job)
  BY UntouchedIsQuiet
<1> HIDE DEF next, applies
<1>5. applies => /\ JobOK([next EXCEPT !.rev = job.rev + 1], texts, pairs)
                 /\ Quiet([next EXCEPT !.rev = job.rev + 1])
  BY <1>1, <1>3, Touched DEF Quiet
<1> QED BY <1>2, <1>4, <1>5

(* What was kept for a recovery is deleted. *)
LEMMA RecoverySnapshotsDeletedOK ==
    ASSUME NEW job, NEW texts, NEW pairs, JobOK(job, texts, pairs)
    PROVE  /\ JobOK(RecoverySnapshotsDeleted(job), texts, pairs)
           /\ RecoverySnapshotsDeleted(job) # job => Quiet(RecoverySnapshotsDeleted(job))
<1> DEFINE D == DOMAIN job.items
           over == {"recovered", "recovery-conflict", "recovery-failed", "ready-to-recover"}
           Kept(item) ==
             IF item.status \in over \cup {"applied"}
             THEN [item EXCEPT !.status = "applied", !.failure = "none", !.prior = None,
                               !.preview = "none"]
             ELSE [item EXCEPT !.prior = None, !.preview = "none"]
           items == [k \in D |-> Kept(job.items[k])]
           next == [job EXCEPT !.stage = "results", !.status = "completed", !.snapshots = FALSE,
                               !.retryAt = FALSE, !.items = items]
           applies == /\ job.stage \in {"results", "recovery"}
                      /\ job.status # "running"
                      /\ job.op = None
                      /\ \E k \in D : job.items[k].prior # None
<1>1. D \subseteq Keys /\ IsJob(job) /\ job \in JobsOn(D) /\ job.items \in [D -> Items]
  BY DEF JobOK, IsJob, JobsOn
<1>2. RecoverySnapshotsDeleted(job) = IF applies THEN [next EXCEPT !.rev = job.rev + 1] ELSE job
  BY DEF RecoverySnapshotsDeleted, Reduced
<1>3. ASSUME applies PROVE JobOK(next, texts, pairs) /\ Quiet(next)
  <2>1. Quiet(job)
    BY <1>3, StoppedIsQuiet
  <2>2. ASSUME NEW k \in D
        PROVE  /\ items[k] \in Items
               /\ ItemOK(k, items[k], "results", "completed", texts, pairs)
               /\ items[k].status \notin {"applying", "recovering"}
    <3>1. /\ job.items[k] \in Items /\ job.items[k].status \notin {"applying", "recovering"}
          /\ ItemOK(k, job.items[k], job.stage, job.status, texts, pairs)
      BY <1>1, <2>1 DEF JobOK, Quiet
    <3>2. /\ Kept(job.items[k]) \in Items
          /\ Kept(job.items[k]).status \notin {"applying", "recovering", "ready-to-recover"}
          /\ Kept(job.items[k]).result = job.items[k].result
          /\ Kept(job.items[k]).before = job.items[k].before
          /\ Kept(job.items[k]).prior = None
      <4> DEFINE item == job.items[k]
      <4>1. item \in Items /\ item.status \notin {"applying", "recovering"}
        BY <3>1
      <4> HIDE DEF item
      <4>2. CASE item.status \in over \cup {"applied"}
        <5>1. Kept(item) = [item EXCEPT !.status = "applied", !.failure = "none",
                                        !.prior = None, !.preview = "none"]
          BY <4>2
        <5> HIDE DEF Kept
        <5>2. /\ Kept(item) \in Items /\ Kept(item).status = "applied"
              /\ Kept(item).result = item.result /\ Kept(item).before = item.before
              /\ Kept(item).prior = None
          BY <4>1, <5>1 DEF Items, ItemStatuses
        <5> QED BY <5>2 DEF item
      <4>3. CASE item.status \notin over \cup {"applied"}
        <5>1. Kept(item) = [item EXCEPT !.prior = None, !.preview = "none"]
          BY <4>3
        <5>2. item.status # "ready-to-recover"
          BY <4>3
        <5> HIDE DEF Kept
        <5>3. /\ Kept(item) \in Items /\ Kept(item).status = item.status
              /\ Kept(item).result = item.result /\ Kept(item).before = item.before
              /\ Kept(item).prior = None
          BY <4>1, <5>1 DEF Items, ItemStatuses
        <5> QED BY <4>1, <5>2, <5>3 DEF item
      <4> QED BY <4>2, <4>3
    <3>3. items[k] = Kept(job.items[k])
      OBVIOUS
    <3> HIDE DEF Kept, items
    <3> QED BY <3>1, <3>2, <3>3 DEF ItemOK
  <2> HIDE DEF Kept
  <2>3. items \in [D -> Items]
    BY <2>2
  <2> HIDE DEF items
  <2>4. /\ next \in JobsOn(D) /\ next.items = items
        /\ next.stage = "results" /\ next.status = "completed"
    BY <1>1, <2>3 DEF JobsOn
  <2>5. DOMAIN items = D
    BY <2>3
  <2> HIDE DEF next
  <2> QED BY <1>1, <2>2, <2>4, <2>5 DEF JobOK, IsJob, Quiet
<1> HIDE DEF next, applies
<1>4. applies => /\ JobOK([next EXCEPT !.rev = job.rev + 1], texts, pairs)
                 /\ Quiet([next EXCEPT !.rev = job.rev + 1])
  BY <1>1, <1>3, Touched DEF Quiet
<1> QED BY <1>2, <1>4

-----------------------------------------------------------------------------
(* The types as sets *)

AllJobs == UNION {JobsOn(keys) : keys \in SUBSET Keys}

Loops == [at : {"idle", "admission", "load", "next", "wait", "save", "sent"},
          live : BOOLEAN, kind : {"apply", "rescan", "preview", "recover"},
          keys : Seq(Keys), key : Keys \cup {None}, cand : AllJobs \cup {None},
          then : {"idle", "next", "sent", "wait"}]

Mutations == [kind : {"pause", "interrupt", "include", "exclude", "prepare", "retry",
                      "rescan", "preview", "delete-snapshots"},
              arg : {None} \cup Keys \cup SUBSET Keys, cand : AllJobs \cup {None},
              current : BOOLEAN]

TabStates == [view : AllJobs \cup {None}, error : {"none", "conflict", "storage", "stale"},
              barrier : BOOLEAN, queue : Seq(Mutations), loop : Loops]

(* The jobs. *)
LEMMA JobsAre ==
    ASSUME NEW job
    PROVE  /\ IsJob(job) <=> job \in AllJobs
           /\ MaybeJob(job) <=> job \in AllJobs \cup {None}
           /\ IsJob(job) => job # None
<1>1. ASSUME IsJob(job) PROVE job \in AllJobs /\ job # None
  BY <1>1, NoneAssumption DEF IsJob, AllJobs
<1>2. ASSUME job \in AllJobs PROVE IsJob(job)
  <2>1. PICK keys \in SUBSET Keys : job \in JobsOn(keys)
    BY <1>2 DEF AllJobs
  <2>2. DOMAIN job.items = keys
    BY <2>1 DEF JobsOn
  <2> QED BY <2>1, <2>2 DEF IsJob
<1> QED BY <1>1, <1>2 DEF MaybeJob

(* The loops. *)
LEMMA LoopsAre ==
    ASSUME NEW loop
    PROVE  IsLoop(loop) <=> loop \in Loops
<1> DEFINE c == loop.cand
<1>1. MaybeJob(c) <=> c \in AllJobs \cup {None}
  BY JobsAre
<1> QED BY <1>1 DEF IsLoop, Loops

(* The mutations. *)
LEMMA MutationsAre ==
    ASSUME NEW m
    PROVE  IsMutation(m) <=> m \in Mutations
<1> DEFINE c == m.cand
<1>1. MaybeJob(c) <=> c \in AllJobs \cup {None}
  BY JobsAre
<1> QED BY <1>1 DEF IsMutation, Mutations

(* What a tab holds. *)
LEMMA TabsAre ==
    ASSUME NEW r
    PROVE  IsTab(r) <=> r \in TabStates /\ Len(r.queue) <= 2
<1> DEFINE elements == {r.queue[i] : i \in DOMAIN r.queue}
<1>1. MaybeJob(r.view) <=> r.view \in AllJobs \cup {None}
  BY JobsAre
<1>2. IsLoop(r.loop) <=> r.loop \in Loops
  BY LoopsAre
<1>3. ASSUME r.queue \in Seq(elements), \A i \in DOMAIN r.queue : IsMutation(r.queue[i])
      PROVE  r.queue \in Seq(Mutations)
  <2>1. elements \subseteq Mutations
    BY <1>3, MutationsAre
  <2> QED BY <2>1, <1>3, SeqSubset
<1>4. ASSUME r.queue \in Seq(Mutations)
      PROVE  r.queue \in Seq(elements) /\ \A i \in DOMAIN r.queue : IsMutation(r.queue[i])
  <2>1. r.queue \in Seq(ToSet(r.queue)) /\ elements = ToSet(r.queue)
    BY <1>4, ToSetProperties DEF ToSet
  <2>2. \A i \in DOMAIN r.queue : r.queue[i] \in Mutations
    BY <1>4
  <2> QED BY <2>1, <2>2, MutationsAre
<1>5. ASSUME IsTab(r) PROVE r \in TabStates /\ Len(r.queue) <= 2
  <2>1. /\ r \in [view : {r.view}, error : {"none", "conflict", "storage", "stale"},
                  barrier : BOOLEAN, queue : Seq(elements), loop : {r.loop}]
        /\ MaybeJob(r.view) /\ Len(r.queue) <= 2 /\ IsLoop(r.loop)
        /\ \A i \in DOMAIN r.queue : IsMutation(r.queue[i])
    BY <1>5 DEF IsTab
  <2> HIDE DEF elements
  <2>2. r.queue \in Seq(elements)
    BY <2>1
  <2> QED BY <1>1, <1>2, <1>3, <2>1, <2>2 DEF TabStates
<1>6. ASSUME r \in TabStates, Len(r.queue) <= 2 PROVE IsTab(r)
  <2>1. r.queue \in Seq(elements) /\ \A i \in DOMAIN r.queue : IsMutation(r.queue[i])
    BY <1>4, <1>6 DEF TabStates
  <2> HIDE DEF elements
  <2>2. r \in [view : {r.view}, error : {"none", "conflict", "storage", "stale"},
               barrier : BOOLEAN, queue : Seq(elements), loop : {r.loop}]
    BY <1>6, <2>1 DEF TabStates
  <2>3. MaybeJob(r.view) /\ IsLoop(r.loop)
    BY <1>1, <1>2, <1>6 DEF TabStates
  <2> QED BY <1>6, <2>1, <2>2, <2>3 DEF IsTab, elements
<1> QED BY <1>5, <1>6

(* More texts that were read and more that were confirmed keep a job good. *)
LEMMA JobGrows ==
    ASSUME NEW job, NEW texts, NEW pairs, NEW more, NEW others, JobOK(job, texts, pairs),
           \A k \in Keys : texts[k] \subseteq more[k], pairs \subseteq others
    PROVE  JobOK(job, more, others)
<1>1. DOMAIN job.items \subseteq Keys
  BY DEF JobOK, IsJob
<1>2. ASSUME NEW k \in DOMAIN job.items
      PROVE  ItemOK(k, job.items[k], job.stage, job.status, more, others)
  <2>1. ItemOK(k, job.items[k], job.stage, job.status, texts, pairs)
    BY DEF JobOK
  <2>2. k \in Keys
    BY <1>1
  <2> QED BY <2>1, <2>2 DEF ItemOK
<1> QED BY <1>2 DEF JobOK

(* So do they keep a tab. *)
LEMMA TabGrows ==
    ASSUME NEW r, NEW texts, NEW pairs, NEW more, NEW others, TabOK(r, texts, pairs),
           \A k \in Keys : texts[k] \subseteq more[k], pairs \subseteq others
    PROVE  TabOK(r, more, others)
<1>1. IsTab(r)
  BY DEF TabOK
<1>2. MaybeOK(r.view, more, others)
  BY JobGrows DEF TabOK, MaybeOK
<1>3. QueueOK(r.queue, r.loop, r.view, more, others)
  <2>1. QueueOK(r.queue, r.loop, r.view, texts, pairs)
    BY DEF TabOK
  <2>2. \A i \in DOMAIN r.queue : CandOK(r.queue[i], texts, pairs)
                                     => CandOK(r.queue[i], more, others)
    BY JobGrows DEF CandOK
  <2> QED BY <2>1, <2>2 DEF QueueOK
<1>4. LoopOK(r.loop, r.view, more, others)
  <2>1. LoopOK(r.loop, r.view, texts, pairs)
    BY DEF TabOK
  <2>2. JobOK(r.loop.cand, texts, pairs) => JobOK(r.loop.cand, more, others)
    BY JobGrows
  <2> QED BY <2>1, <2>2 DEF LoopOK
<1> QED BY <1>1, <1>2, <1>3, <1>4 DEF TabOK

(* And a request. *)
LEMMA RequestGrows ==
    ASSUME NEW q, NEW tabs, NEW texts, NEW pairs, NEW more, NEW others,
           RequestOK(q, tabs, texts, pairs),
           \A k \in Keys : texts[k] \subseteq more[k], pairs \subseteq others
    PROVE  RequestOK(q, tabs, more, others)
BY DEF RequestOK

-----------------------------------------------------------------------------
(* The operators on a tab *)

\* What is left of a tab when a mutation is over, before the next one begins.
RestOK(r, texts, pairs) ==
    /\ IsTab(r)
    /\ MaybeOK(r.view, texts, pairs)
    /\ LoopOK(r.loop, r.view, texts, pairs)
    /\ \A i \in DOMAIN r.queue : CandOK(r.queue[i], texts, pairs)
    /\ \A i \in DOMAIN r.queue : i > 1 => r.queue[i].kind = "pause"
    /\ r.loop.at \in {"idle", "admission"} \/ (r.loop.at = "save" /\ ~r.loop.live)

(* A tab without a loop. *)
LEMMA NoLoopOK ==
    /\ NoLoop \in Loops /\ NoLoop.at = "idle"
    /\ \A view, texts, pairs : LoopOK(NoLoop, view, texts, pairs)
BY DEF NoLoop, Loops, LoopOK

(* The first mutation has another candidate. *)
LEMMA WithCandidateIs ==
    ASSUME NEW r, IsTab(r), r.queue # <<>>, NEW cand, MaybeJob(cand)
    PROVE  /\ IsTab(WithCandidate(r, cand))
           /\ WithCandidate(r, cand).view = r.view
           /\ WithCandidate(r, cand).loop = r.loop
           /\ WithCandidate(r, cand).queue # <<>>
           /\ Len(WithCandidate(r, cand).queue) = Len(r.queue)
           /\ DOMAIN WithCandidate(r, cand).queue = DOMAIN r.queue
           /\ \A i \in DOMAIN r.queue :
                 /\ WithCandidate(r, cand).queue[i].kind = r.queue[i].kind
                 /\ WithCandidate(r, cand).queue[i].cand =
                       IF i = 1 THEN cand ELSE r.queue[i].cand
<1> DEFINE n == Len(r.queue)
           first == [r.queue[1] EXCEPT !.cand = cand]
           queue == [r.queue EXCEPT ![1] = first]
           next == [r EXCEPT !.queue = queue]
<1>1. r \in TabStates /\ n <= 2 /\ r.queue \in Seq(Mutations) /\ cand \in AllJobs \cup {None}
  BY TabsAre, JobsAre DEF TabStates
<1>2. /\ n \in Nat /\ n # 0 /\ DOMAIN r.queue = 1..n
      /\ \A i \in 1..n : r.queue[i] \in Mutations
  BY <1>1
<1>3. 1 \in 1..n
  BY <1>2
<1>4. first \in Mutations /\ first.kind = r.queue[1].kind /\ first.cand = cand
  BY <1>1, <1>2, <1>3 DEF Mutations
<1> HIDE DEF first
<1>5. queue \in Seq(Mutations) /\ Len(queue) = n /\ DOMAIN queue = 1..n
  BY <1>1, <1>2, <1>4
<1>6. \A i \in 1..n : queue[i] = IF i = 1 THEN first ELSE r.queue[i]
  BY <1>2
<1> HIDE DEF queue, n
<1>7. queue # <<>>
  BY <1>2, <1>5
<1>8. next \in TabStates /\ next.view = r.view /\ next.loop = r.loop /\ next.queue = queue
  BY <1>1, <1>5 DEF TabStates
<1>9. next = WithCandidate(r, cand)
  BY DEF WithCandidate, queue, first
<1> HIDE DEF next
<1>10. IsTab(next)
  BY <1>1, <1>5, <1>8, TabsAre
<1> QED BY <1>2, <1>4, <1>5, <1>6, <1>7, <1>8, <1>9, <1>10 DEF n

\* What a mutation makes of a job.
CandidateOK(m, job, texts, pairs) ==
    LET next == Candidate(m, job)
    IN next # job => /\ JobOK(next, texts, pairs) /\ Quiet(next)
                     /\ m.kind = "pause" => next.stage # "review"

(* The first mutation begins. *)
LEMMA BegunIs ==
    ASSUME NEW r, IsTab(r), NEW texts, NEW pairs,
           \A i \in DOMAIN r.queue : CandOK(r.queue[i], texts, pairs),
           r.queue # <<>> /\ r.view # None /\ Head(r.queue).kind \in OfVisible =>
               CandidateOK(Head(r.queue), r.view, texts, pairs)
    PROVE  /\ IsTab(Begun(r))
           /\ Begun(r).view = r.view
           /\ Begun(r).loop = r.loop
           /\ Len(Begun(r).queue) = Len(r.queue)
           /\ DOMAIN Begun(r).queue = DOMAIN r.queue
           /\ Begun(r).queue = <<>> <=> r.queue = <<>>
           /\ \A i \in DOMAIN r.queue :
                 /\ Begun(r).queue[i].kind = r.queue[i].kind
                 /\ CandOK(Begun(r).queue[i], texts, pairs)
<1> DEFINE cand == Changed(r.view, Candidate(Head(r.queue), r.view))
           begins == r.queue # <<>> /\ r.view # None /\ Head(r.queue).kind \in OfVisible
<1>1. Begun(r) = IF begins THEN WithCandidate(r, cand) ELSE r
  BY DEF Begun
<1>2. ASSUME begins
      PROVE  MaybeJob(cand) /\ (cand # None =>
                 /\ JobOK(cand, texts, pairs) /\ Quiet(cand)
                 /\ Head(r.queue).kind = "pause" => cand.stage # "review")
  <2> DEFINE next == Candidate(Head(r.queue), r.view)
  <2>1. next = r.view \/ (/\ JobOK(next, texts, pairs) /\ Quiet(next)
                          /\ Head(r.queue).kind = "pause" => next.stage # "review")
    BY <1>2 DEF CandidateOK
  <2>2. cand = IF next = r.view THEN None ELSE next
    BY DEF Changed
  <2> HIDE DEF next, cand
  <2> QED BY <2>1, <2>2 DEF MaybeJob, JobOK
<1> HIDE DEF cand
<1>3. CASE ~begins
  BY <1>1, <1>3
<1>4. begins => Head(r.queue) = r.queue[1]
  BY TabsAre DEF TabStates
<1>5. CASE begins
  <2> DEFINE next == WithCandidate(r, cand)
  <2>1. /\ IsTab(next) /\ next.view = r.view /\ next.loop = r.loop /\ next.queue # <<>>
        /\ Len(next.queue) = Len(r.queue) /\ DOMAIN next.queue = DOMAIN r.queue
    BY <1>2, <1>5, WithCandidateIs
  <2>2. \A i \in DOMAIN r.queue : /\ next.queue[i].kind = r.queue[i].kind
                                  /\ next.queue[i].cand = IF i = 1 THEN cand ELSE r.queue[i].cand
    BY <1>2, <1>5, WithCandidateIs
  <2>3. Begun(r) = next
    BY <1>1, <1>5
  <2> HIDE DEF next
  <2>4. \A i \in DOMAIN r.queue : CandOK(next.queue[i], texts, pairs)
    BY <1>2, <1>5, <1>4, <2>2 DEF CandOK
  <2> QED BY <2>1, <2>2, <2>3, <2>4
<1> QED BY <1>3, <1>5

(* A pause never leaves work under way. *)
LEMMA PauseCandidate ==
    ASSUME NEW m, m.kind = "pause", NEW job, NEW texts, NEW pairs, JobOK(job, texts, pairs)
    PROVE  CandidateOK(m, job, texts, pairs)
<1>1. Candidate(m, job) = Paused(job)
  BY DEF Candidate
<1> QED BY <1>1, PausedOK DEF CandidateOK

(* A mutation joins the queue. *)
LEMMA EnqueuedOK ==
    ASSUME NEW r, NEW texts, NEW pairs, TabOK(r, texts, pairs),
           NEW m \in Mutations, m.cand = None, Len(r.queue) < 2,
           r.loop.at \in {"idle", "admission"} \/ (r.loop.at = "save" /\ ~r.loop.live),
           \/ m.kind = "pause"
           \/ /\ r.queue = <<>> /\ r.loop.at = "idle"
              /\ r.view # None => r.view.stage \in StagesOf(m.kind),
           r.view # None /\ m.kind \in OfVisible => CandidateOK(m, r.view, texts, pairs)
    PROVE  /\ TabOK(Enqueued(r, m), texts, pairs)
           /\ Enqueued(r, m).view = r.view
           /\ Enqueued(r, m).loop = r.loop
           /\ Enqueued(r, m).queue # <<>>
           /\ Enqueued(r, m).queue[1].kind = IF r.queue = <<>> THEN m.kind ELSE r.queue[1].kind
<1> DEFINE n == Len(r.queue)
           queue == Append(r.queue, m)
           next == [r EXCEPT !.queue = queue]
<1>1. /\ r \in TabStates /\ r.queue \in Seq(Mutations) /\ n \in Nat /\ n < 2
      /\ DOMAIN r.queue = 1..n /\ IsTab(r)
  BY TabsAre DEF TabStates, TabOK
<1>2. /\ queue \in Seq(Mutations) /\ Len(queue) = n + 1 /\ DOMAIN queue = 1..(n + 1)
      /\ queue[n + 1] = m /\ \A i \in 1..n : queue[i] = r.queue[i]
  BY <1>1
<1>3. r.queue = <<>> <=> n = 0
  BY <1>1
<1>4. /\ MaybeOK(r.view, texts, pairs)
      /\ QueueOK(r.queue, r.loop, r.view, texts, pairs)
      /\ LoopOK(r.loop, r.view, texts, pairs)
  BY DEF TabOK
<1> HIDE DEF n, queue
<1>5. queue # <<>> /\ Head(queue) = queue[1]
  <2>1. Len(queue) # 0
    BY <1>1, <1>2
  <2> QED BY <1>2, <2>1
<1>6. next \in TabStates /\ next.view = r.view /\ next.loop = r.loop /\ next.queue = queue
  BY <1>1, <1>2 DEF TabStates
<1>7. Enqueued(r, m) = IF r.queue = <<>> THEN Begun(next) ELSE next
  BY DEF Enqueued, queue
<1> HIDE DEF next
<1>8. IsTab(next)
  BY <1>1, <1>2, <1>6, TabsAre
<1>9. /\ \A i \in DOMAIN queue : CandOK(queue[i], texts, pairs)
      /\ \A i \in DOMAIN queue : i > 1 => queue[i].kind = "pause"
      /\ queue[1].kind = IF r.queue = <<>> THEN m.kind ELSE r.queue[1].kind
  <2>1. \A i \in 1..(n + 1) : i \in 1..n \/ i = n + 1
    BY <1>1
  <2>2. n # 0 => 1 \in 1..n
    BY <1>1
  <2>3. CandOK(m, texts, pairs)
    BY DEF CandOK
  <2> QED BY <1>1, <1>2, <1>3, <1>4, <2>1, <2>2, <2>3 DEF QueueOK
<1>10. queue[1].kind # "pause" =>
          r.loop.at = "idle" /\ (r.view # None => r.view.stage \in StagesOf(queue[1].kind))
  BY <1>4, <1>9 DEF QueueOK
<1>11. ASSUME r.queue = <<>> PROVE queue[1] = m
  BY <1>2, <1>3, <1>11
<1>12. CASE r.queue = <<>>
  <2> DEFINE begun == Begun(next)
  <2>1. \/ ~(next.queue # <<>> /\ next.view # None /\ Head(next.queue).kind \in OfVisible)
        \/ CandidateOK(Head(next.queue), next.view, texts, pairs)
    BY <1>5, <1>6, <1>11, <1>12
  <2>2. \A i \in DOMAIN next.queue : CandOK(next.queue[i], texts, pairs)
    BY <1>6, <1>9
  <2>3. /\ IsTab(begun) /\ begun.view = next.view /\ begun.loop = next.loop
        /\ DOMAIN begun.queue = DOMAIN next.queue /\ (begun.queue = <<>> <=> next.queue = <<>>)
        /\ \A i \in DOMAIN next.queue :
              /\ begun.queue[i].kind = next.queue[i].kind
              /\ CandOK(begun.queue[i], texts, pairs)
    BY <1>8, <2>1, <2>2, BegunIs
  <2>4. /\ IsTab(begun) /\ begun.view = r.view /\ begun.loop = r.loop
        /\ DOMAIN begun.queue = DOMAIN queue /\ (begun.queue = <<>> <=> queue = <<>>)
        /\ \A i \in DOMAIN queue :
              /\ begun.queue[i].kind = queue[i].kind
              /\ CandOK(begun.queue[i], texts, pairs)
    BY <1>6, <2>3
  <2>5. 1 \in DOMAIN queue
    BY <1>1, <1>2
  <2> HIDE DEF begun
  <2>6. QueueOK(begun.queue, begun.loop, begun.view, texts, pairs)
    BY <1>9, <1>10, <2>4, <2>5 DEF QueueOK
  <2> QED BY <1>4, <1>5, <1>7, <1>9, <1>12, <2>4, <2>5, <2>6 DEF TabOK, begun
<1>13. CASE r.queue # <<>>
  <2>1. QueueOK(queue, r.loop, r.view, texts, pairs)
    BY <1>9, <1>10 DEF QueueOK
  <2> QED BY <1>4, <1>5, <1>6, <1>7, <1>8, <1>9, <1>13, <2>1 DEF TabOK
<1> QED BY <1>12, <1>13

(* A mutation is over, and the next one begins. *)
LEMMA DequeuedOK ==
    ASSUME NEW r, NEW texts, NEW pairs, RestOK(r, texts, pairs), r.queue # <<>>,
           NEW ok \in BOOLEAN,
           ok /\ Head(r.queue).kind \in DOMAIN LoopAfter /\ r.loop.at = "idle" =>
               r.view # None /\ Quiet(r.view)
    PROVE  /\ TabOK(Dequeued(r, ok), texts, pairs)
           /\ Dequeued(r, ok).view = r.view
           /\ Dequeued(r, ok).loop.at \in {"idle", "admission", "save"}
           /\ Dequeued(r, ok).queue # <<>> => Dequeued(r, ok).queue[1].kind = "pause"
<1> DEFINE kind == Head(r.queue).kind
           queue == Tail(r.queue)
           begins == ok /\ kind \in DOMAIN LoopAfter /\ r.loop.at = "idle"
           loop == IF begins THEN Loop(LoopAfter[kind], <<>>) ELSE r.loop
           barrier == IF kind = "pause" THEN ok ELSE r.barrier
           next == [r EXCEPT !.queue = queue, !.barrier = barrier, !.loop = loop]
           n == Len(r.queue)
<1>1. /\ r \in TabStates /\ r.queue \in Seq(Mutations) /\ n \in Nat /\ n <= 2 /\ n # 0
      /\ DOMAIN r.queue = 1..n
  BY TabsAre DEF RestOK, TabStates
<1>2. /\ queue \in Seq(Mutations) /\ Len(queue) = n - 1 /\ DOMAIN queue = 1..(n - 1)
      /\ \A i \in 1..(n - 1) : queue[i] = r.queue[i + 1]
  BY <1>1
<1>3. loop \in Loops /\ LoopOK(loop, r.view, texts, pairs)
  <2>1. DOMAIN LoopAfter = {"retry", "rescan", "preview"}
        /\ \A x \in DOMAIN LoopAfter : LoopAfter[x] \in {"apply", "rescan", "preview"}
    BY DEF LoopAfter
  <2>2. CASE begins
    <3> DEFINE what == LoopAfter[kind]
               new == Loop(what, <<>>)
    <3>1. loop = new
      BY <2>2
    <3>2. what \in {"apply", "rescan", "preview", "recover"}
      BY <2>1, <2>2
    <3> HIDE DEF what
    <3>3. NoLoop \in Loops /\ <<>> \in Seq(Keys)
      BY NoLoopOK
    <3>4. new \in Loops /\ new.at = "admission" /\ new.live
      BY <3>2, <3>3 DEF Loop, Loops
    <3> HIDE DEF new, loop
    <3> QED BY <2>2, <3>4, <3>1 DEF LoopOK
  <2>3. CASE ~begins
    <3>1. loop = r.loop
      BY <2>3
    <3> HIDE DEF loop
    <3> QED BY <1>1, <3>1 DEF RestOK, TabStates
  <2> QED BY <2>2, <2>3
<1>4. loop.at \in {"idle", "admission"} \/ (loop.at = "save" /\ ~loop.live)
  BY DEF RestOK, Loop, NoLoop
<1>5. barrier \in BOOLEAN
  BY <1>1 DEF TabStates
<1>6. Dequeued(r, ok) = Begun(next)
  BY DEF Dequeued
<1> HIDE DEF loop, barrier, queue, n
<1>7. /\ next \in TabStates /\ next.view = r.view /\ next.loop = loop /\ next.queue = queue
  BY <1>1, <1>2, <1>3, <1>5 DEF TabStates
<1> HIDE DEF next
<1>8. \A i \in DOMAIN queue : /\ i + 1 \in DOMAIN r.queue /\ i + 1 > 1
                              /\ queue[i] = r.queue[i + 1]
  BY <1>1, <1>2
<1>9. \A i \in DOMAIN queue :
         /\ queue[i].kind = "pause"
         /\ CandOK(queue[i], texts, pairs)
  BY <1>8 DEF RestOK
<1>10. IsTab(next)
  BY <1>1, <1>2, <1>7, TabsAre
<1>11. queue # <<>> => Head(queue) = queue[1] /\ 1 \in DOMAIN queue
  <2>1. Len(queue) = 0 => queue = <<>>
    BY <1>2
  <2> QED BY <1>1, <1>2, <2>1
<1>12. next.queue # <<>> /\ next.view # None /\ Head(next.queue).kind \in OfVisible =>
         CandidateOK(Head(next.queue), next.view, texts, pairs)
  <2>1. r.view # None => JobOK(r.view, texts, pairs)
    BY DEF RestOK, MaybeOK
  <2> QED BY <1>7, <1>9, <1>11, <2>1, PauseCandidate
<1> DEFINE begun == Begun(next)
<1>13. /\ IsTab(begun) /\ begun.view = next.view /\ begun.loop = next.loop
       /\ DOMAIN begun.queue = DOMAIN next.queue /\ (begun.queue = <<>> <=> next.queue = <<>>)
       /\ \A i \in DOMAIN next.queue :
             /\ begun.queue[i].kind = next.queue[i].kind
             /\ CandOK(begun.queue[i], texts, pairs)
  BY <1>7, <1>9, <1>10, <1>12, BegunIs
<1> HIDE DEF begun
<1>14. begun.queue # <<>> => begun.queue[1].kind = "pause"
  BY <1>7, <1>9, <1>11, <1>13
<1>15. QueueOK(begun.queue, begun.loop, begun.view, texts, pairs)
  BY <1>4, <1>7, <1>9, <1>13, <1>14 DEF QueueOK
<1>16. TabOK(begun, texts, pairs)
  BY <1>3, <1>7, <1>13, <1>15 DEF TabOK, RestOK
<1> QED BY <1>4, <1>6, <1>7, <1>13, <1>14, <1>16 DEF begun

(* A mutation that is over leaves only pauses. *)
LEMMA TabIsRest ==
    ASSUME NEW r, NEW texts, NEW pairs, TabOK(r, texts, pairs), r.queue # <<>>
    PROVE  RestOK(r, texts, pairs)
BY DEF TabOK, QueueOK, RestOK

(* What is stopped. *)
LEMMA StoppedIs ==
    ASSUME NEW r, IsTab(r)
    PROVE  /\ IsTab(Stopped(r))
           /\ Stopped(r).view = r.view
           /\ Stopped(r).loop = IF r.loop.at = "save" THEN [r.loop EXCEPT !.live = FALSE]
                                                      ELSE NoLoop
           /\ Len(Stopped(r).queue) = Len(r.queue)
           /\ DOMAIN Stopped(r).queue = DOMAIN r.queue
           /\ Stopped(r).queue = <<>> <=> r.queue = <<>>
           /\ r.queue # <<>> => Head(Stopped(r).queue).kind = Head(r.queue).kind
           /\ \A i \in DOMAIN r.queue : /\ Stopped(r).queue[i].kind = r.queue[i].kind
                                        /\ Stopped(r).queue[i].cand = r.queue[i].cand
<1> DEFINE n == Len(r.queue)
           queue == [i \in DOMAIN r.queue |-> [r.queue[i] EXCEPT !.current = FALSE]]
           loop == IF r.loop.at = "save" THEN [r.loop EXCEPT !.live = FALSE] ELSE NoLoop
           next == [r EXCEPT !.loop = loop, !.queue = queue]
<1>1. r \in TabStates /\ r.queue \in Seq(Mutations) /\ n \in Nat /\ n <= 2 /\ DOMAIN r.queue = 1..n
  BY TabsAre DEF TabStates
<1>2. ASSUME NEW i \in 1..n
      PROVE  /\ queue[i] \in Mutations
             /\ queue[i].kind = r.queue[i].kind /\ queue[i].cand = r.queue[i].cand
  <2>1. r.queue[i] \in Mutations /\ i \in DOMAIN r.queue
    BY <1>1
  <2>2. queue[i] = [r.queue[i] EXCEPT !.current = FALSE]
    BY <2>1
  <2> HIDE DEF queue
  <2> QED BY <2>1, <2>2 DEF Mutations
<1>3. queue \in Seq(Mutations) /\ Len(queue) = n /\ DOMAIN queue = 1..n
  <2>1. queue \in [1..n -> Mutations]
    BY <1>1, <1>2
  <2> HIDE DEF queue
  <2> QED BY <1>1, <2>1, SeqDef, LenProperties
<1>4. loop \in Loops
  <2>1. r.loop \in Loops
    BY <1>1 DEF TabStates
  <2>2. [r.loop EXCEPT !.live = FALSE] \in Loops
    BY <2>1 DEF Loops
  <2> QED BY <2>2, NoLoopOK
<1>5. Stopped(r) = next
  BY DEF Stopped
<1> HIDE DEF queue, loop, n
<1>6. next \in TabStates /\ next.view = r.view /\ next.loop = loop /\ next.queue = queue
  BY <1>1, <1>3, <1>4 DEF TabStates
<1> HIDE DEF next
<1>7. IsTab(next)
  BY <1>1, <1>3, <1>6, TabsAre DEF n
<1>8. queue = <<>> <=> r.queue = <<>>
  <2>1. queue = <<>> <=> n = 0
    BY <1>3
  <2>2. r.queue = <<>> <=> n = 0
    BY <1>1 DEF n
  <2> QED BY <2>1, <2>2
<1>9. r.queue # <<>> => Head(queue) = queue[1] /\ Head(r.queue) = r.queue[1] /\ 1 \in 1..n
  <2>1. n = 0 => r.queue = <<>>
    BY <1>1 DEF n
  <2> QED BY <1>1, <1>3, <1>8, <2>1
<1> QED BY <1>1, <1>2, <1>3, <1>5, <1>6, <1>7, <1>8, <1>9 DEF loop, n

(* A tab that has stopped has no loop, or one that is only saving. *)
LEMMA StoppedOK ==
    ASSUME NEW r, NEW texts, NEW pairs, TabOK(r, texts, pairs),
           r.loop.at = "save" => r.view.stage = "apply"
    PROVE  /\ TabOK(Stopped(r), texts, pairs)
           /\ \/ Stopped(r).loop.at = "idle"
              \/ Stopped(r).loop.at = "save" /\ ~Stopped(r).loop.live
<1> DEFINE next == Stopped(r)
<1>1. /\ IsTab(next) /\ next.view = r.view
      /\ next.loop = IF r.loop.at = "save" THEN [r.loop EXCEPT !.live = FALSE] ELSE NoLoop
      /\ DOMAIN next.queue = DOMAIN r.queue /\ (next.queue = <<>> <=> r.queue = <<>>)
      /\ \A i \in DOMAIN r.queue : /\ next.queue[i].kind = r.queue[i].kind
                                   /\ next.queue[i].cand = r.queue[i].cand
  BY StoppedIs DEF TabOK
<1>2. r \in TabStates /\ r.loop \in Loops
  BY TabsAre DEF TabOK, TabStates
<1> HIDE DEF next
<1>3. LoopOK(next.loop, next.view, texts, pairs) /\
      (next.loop.at = "idle" \/ (next.loop.at = "save" /\ ~next.loop.live))
  <2>1. CASE r.loop.at = "save"
    <3> DEFINE loop == [r.loop EXCEPT !.live = FALSE]
    <3>1. /\ loop.at = "save" /\ ~loop.live /\ loop.cand = r.loop.cand /\ loop.then = r.loop.then
          /\ loop.key = r.loop.key /\ loop.kind = r.loop.kind /\ next.loop = loop
      BY <1>1, <1>2, <2>1 DEF Loops
    <3> HIDE DEF loop
    <3>2. LoopOK(r.loop, r.view, texts, pairs)
      BY DEF TabOK
    <3> QED BY <1>1, <2>1, <3>1, <3>2 DEF LoopOK, ToSend
  <2>2. CASE r.loop.at # "save"
    BY <1>1, <2>2, NoLoopOK
  <2> QED BY <2>1, <2>2
<1>4. QueueOK(next.queue, next.loop, next.view, texts, pairs)
  <2>1. QueueOK(r.queue, r.loop, r.view, texts, pairs)
    BY DEF TabOK
  <2>2. r.queue # <<>> => 1 \in DOMAIN r.queue
    BY <1>2 DEF TabStates
  <2>3. r.loop.at # "save" => next.loop.at = "idle"
    BY <1>1, NoLoopOK
  <2>4. \A i \in DOMAIN next.queue : CandOK(next.queue[i], texts, pairs)
    BY <1>1, <2>1 DEF CandOK, QueueOK
  <2> QED BY <1>1, <1>3, <2>1, <2>2, <2>3, <2>4 DEF QueueOK
<1>5. MaybeOK(next.view, texts, pairs)
  BY <1>1 DEF TabOK
<1> QED BY <1>1, <1>3, <1>4, <1>5 DEF TabOK, next

(* What ends with a conflict or a failure of the storage has no loop. *)
LEMMA StoppedRest ==
    ASSUME NEW r, NEW texts, NEW pairs, IsTab(r), MaybeOK(r.view, texts, pairs),
           \A i \in DOMAIN r.queue : CandOK(r.queue[i], texts, pairs),
           \A i \in DOMAIN r.queue : i > 1 => r.queue[i].kind = "pause",
           r.loop.at # "save"
    PROVE  /\ RestOK(Stopped(r), texts, pairs)
           /\ Stopped(r).view = r.view
           /\ Stopped(r).loop.at = "idle"
           /\ r.queue # <<>> => /\ Stopped(r).queue # <<>>
                                /\ Head(Stopped(r).queue).kind = Head(r.queue).kind
<1> DEFINE next == Stopped(r)
<1>1. /\ IsTab(next) /\ next.view = r.view /\ next.loop = NoLoop
      /\ DOMAIN next.queue = DOMAIN r.queue /\ (next.queue = <<>> <=> r.queue = <<>>)
      /\ r.queue # <<>> => Head(next.queue).kind = Head(r.queue).kind
      /\ \A i \in DOMAIN r.queue : /\ next.queue[i].kind = r.queue[i].kind
                                   /\ next.queue[i].cand = r.queue[i].cand
  BY StoppedIs
<1> HIDE DEF next
<1>2. \A i \in DOMAIN next.queue : CandOK(next.queue[i], texts, pairs)
  BY <1>1 DEF CandOK
<1>3. RestOK(next, texts, pairs)
  BY <1>1, <1>2, NoLoopOK DEF RestOK
<1> QED BY <1>1, <1>3, NoLoopOK DEF next

TabErrors == {"none", "conflict", "storage", "stale"}

Showing(r, job, error) == [r EXCEPT !.view = job, !.error = error]

(* A tab shows another job or error. *)
LEMMA ShowingIs ==
    ASSUME NEW r, IsTab(r), NEW job, MaybeJob(job), NEW error \in TabErrors
    PROVE  /\ IsTab(Showing(r, job, error))
           /\ Showing(r, job, error).view = job
           /\ Showing(r, job, error).loop = r.loop
           /\ Showing(r, job, error).queue = r.queue
<1> DEFINE next == [r EXCEPT !.view = job, !.error = error]
<1>1. r \in TabStates /\ Len(r.queue) <= 2 /\ job \in AllJobs \cup {None}
  BY TabsAre, JobsAre
<1>2. next \in TabStates /\ next.view = job /\ next.loop = r.loop /\ next.queue = r.queue
  BY <1>1 DEF TabStates, TabErrors
<1> HIDE DEF next
<1>3. IsTab(next)
  BY <1>1, <1>2, TabsAre
<1> QED BY <1>2, <1>3 DEF next, Showing

(* A tab has another loop. *)
LEMMA Looping ==
    ASSUME NEW r, IsTab(r), NEW loop \in Loops
    PROVE  /\ IsTab([r EXCEPT !.loop = loop])
           /\ [r EXCEPT !.loop = loop].view = r.view
           /\ [r EXCEPT !.loop = loop].loop = loop
           /\ [r EXCEPT !.loop = loop].queue = r.queue
<1> DEFINE next == [r EXCEPT !.loop = loop]
<1>1. r \in TabStates /\ Len(r.queue) <= 2
  BY TabsAre
<1>2. next \in TabStates /\ next.view = r.view /\ next.loop = loop /\ next.queue = r.queue
  BY <1>1 DEF TabStates
<1> HIDE DEF next
<1>3. IsTab(next)
  BY <1>1, <1>2, TabsAre
<1> QED BY <1>2, <1>3 DEF next

-----------------------------------------------------------------------------
(* What is shown of a job that is stored *)

RevOK(job, view) ==
    job # None /\ view # None => view.rev <= job.rev /\ (view.rev = job.rev => view = job)

\* The requests, and the tabs that wait for them.
CallsOK(calls, tabs, texts, pairs) ==
    /\ calls \in [Calls -> Requests]
    /\ \A c \in Calls : RequestOK(calls[c], tabs, texts, pairs)
    /\ \A c, d \in Calls : calls[c].owner # None /\ calls[c].owner = calls[d].owner => c = d

(* A tab takes a step, in its storage and in what it waits for. *)
LEMMA TabStepInv ==
    ASSUME Inv, NEW t \in Tabs, NEW r, tab' = [tab EXCEPT ![t] = r],
           seen' = seen, confirmed' \subseteq Keys \X Texts, Reviewed \subseteq Reviewed',
           UNCHANGED <<content, edits, replaced>>, faults' \in Nat,
           TabOK(r, seen, Reviewed'),
           \/ stored' = stored /\ r.view \in {None, stored, tab[t].view}
           \/ /\ stored # None /\ JobOK(stored', seen, Reviewed')
              /\ stored'.rev = stored.rev + 1
              /\ r.view \in {tab[t].view, stored'}
           \/ stored' = None,
           Tabs = {t} => OneTabOK(r, stored', Reviewed'),
           CallsOK(call', tab', seen, Reviewed')
    PROVE  Inv'
<1>1. /\ MaybeJob(stored) /\ \A u \in Tabs : IsTab(tab[u])
      /\ tab \in [Tabs -> {tab[u] : u \in Tabs}]
      /\ content \in [Keys -> Texts] /\ edits \in Nat
      /\ replaced \in [Keys -> Texts \cup {None}] /\ seen \in [Keys -> SUBSET Texts]
  BY DEF Inv, TypeOK
<1>2. \A u \in Tabs : tab'[u] = IF u = t THEN r ELSE tab[u]
  BY <1>1
<1>3. MaybeOK(stored, seen, Reviewed) => MaybeOK(stored, seen, Reviewed')
  BY JobGrows DEF MaybeOK
<1>4. MaybeOK(stored', seen, Reviewed') /\ MaybeJob(stored')
  BY <1>1, <1>3 DEF Inv, MaybeOK, MaybeJob, JobOK
<1>5. \A u \in Tabs : TabOK(tab'[u], seen, Reviewed')
  <2>1. \A u \in Tabs : TabOK(tab[u], seen, Reviewed')
    BY TabGrows DEF Inv
  <2> QED BY <1>2, <2>1
<1>6. TypeOK'
  <2>1. \A u \in Tabs : IsTab(tab'[u])
    BY <1>5 DEF TabOK
  <2>2. tab' \in [Tabs -> {tab'[u] : u \in Tabs}]
    BY <1>1
  <2>3. call' \in [Calls -> Requests]
    BY DEF CallsOK
  <2> QED BY <1>1, <1>4, <2>1, <2>2, <2>3 DEF TypeOK
<1>7. ASSUME NEW u \in Tabs PROVE RevOK(stored', tab'[u].view)
  <2>1. RevOK(stored, tab[u].view) /\ RevOK(stored, tab[t].view)
    BY DEF Inv, RevisionIdentifiesJob, RevOK
  <2>2. /\ tab[u].view # None => tab[u].view.rev \in Nat
        /\ stored # None => stored.rev \in Nat
        /\ stored' # None => stored'.rev \in Nat
    <3>1. \A job : IsJob(job) => job.rev \in Nat
      BY DEF IsJob, JobsOn
    <3>2. tab[u].view # None => IsJob(tab[u].view)
      BY DEF Inv, TabOK, MaybeOK, JobOK
    <3> QED BY <1>1, <1>4, <3>1, <3>2 DEF MaybeJob
  <2>3. tab[t].view # None => tab[t].view.rev \in Nat
    <3>1. \A job : IsJob(job) => job.rev \in Nat
      BY DEF IsJob, JobsOn
    <3> QED BY <3>1 DEF Inv, TabOK, MaybeOK, JobOK
  <2>4. CASE stored' = stored
    BY <1>2, <2>1, <2>2, <2>4 DEF RevOK
  <2>5. CASE stored' # None /\ stored # None /\ stored'.rev = stored.rev + 1
    BY <1>2, <2>1, <2>2, <2>3, <2>5 DEF RevOK
  <2>6. CASE stored' = None
    BY <2>6 DEF RevOK
  <2> QED BY <2>4, <2>5, <2>6
<1>8. RevisionIdentifiesJob'
  BY <1>7 DEF RevisionIdentifiesJob, RevOK
<1>9. ASSUME NEW u \in Tabs, Tabs = {u} PROVE OneTabOK(tab'[u], stored', Reviewed')
  BY <1>2, <1>9
<1> QED BY <1>4, <1>5, <1>6, <1>8, <1>9 DEF Inv, CallsOK

(* The requests of an invariant. *)
LEMMA CallsOfInv ==
    ASSUME Inv
    PROVE  CallsOK(call, tab, seen, Reviewed)
BY DEF Inv, TypeOK, CallsOK

(* A tab whose loop has not sent anything waits for nothing. *)
LEMMA CallsKept ==
    ASSUME Inv, NEW t \in Tabs, NEW r, tab' = [tab EXCEPT ![t] = r], call' = call,
           Reviewed \subseteq Reviewed', tab[t].loop.at # "sent"
    PROVE  CallsOK(call', tab', seen, Reviewed')
<1>1. CallsOK(call, tab, seen, Reviewed)
  BY CallsOfInv
<1>2. \A u \in Tabs : u # t => tab'[u] = tab[u]
  BY DEF Inv, TypeOK
<1>3. ASSUME NEW c \in Calls PROVE RequestOK(call[c], tab', seen, Reviewed')
  <2>1. RequestOK(call[c], tab, seen, Reviewed) /\ call[c] \in Requests
    BY <1>1 DEF CallsOK, RequestOK
  <2>2. RequestOK(call[c], tab, seen, Reviewed')
    BY <2>1, RequestGrows
  <2>3. call[c].owner \in Tabs \cup {None} /\ call[c].owner # t
    <3>1. call[c].owner \in Tabs \cup {None}
      BY <2>1 DEF Requests
    <3>2. t # None
      BY TabsAssumption
    <3> QED BY <2>1, <3>1, <3>2 DEF RequestOK
  <2> QED BY <1>2, <2>2, <2>3 DEF RequestOK
<1> QED BY <1>1, <1>3 DEF CallsOK

-----------------------------------------------------------------------------
(* The steps of a tab: the queue of mutations *)

(* What is known of a tab. *)
LEMMA TabFacts ==
    ASSUME Inv, NEW t \in Tabs
    PROVE  /\ IsTab(tab[t]) /\ TabOK(tab[t], seen, Reviewed)
           /\ MaybeJob(tab[t].view) /\ MaybeOK(tab[t].view, seen, Reviewed)
           /\ MaybeJob(stored) /\ MaybeOK(stored, seen, Reviewed)
           /\ Tabs = {t} => OneTabOK(tab[t], stored, Reviewed)
           /\ faults \in Nat
BY DEF Inv, TypeOK, TabOK, IsTab

(* A step of a tab that waits for no reply and confirms nothing. *)
LEMMA QuietStepInv ==
    ASSUME Inv, NEW t \in Tabs, NEW r, tab' = [tab EXCEPT ![t] = r],
           UNCHANGED <<content, call, edits, confirmed, replaced, seen>>, faults' \in Nat,
           TabOK(r, seen, Reviewed), tab[t].loop.at # "sent",
           \/ stored' = stored /\ r.view \in {None, stored, tab[t].view}
           \/ /\ stored # None /\ JobOK(stored', seen, Reviewed)
              /\ stored'.rev = stored.rev + 1
              /\ r.view \in {tab[t].view, stored'}
           \/ stored' = None,
           Tabs = {t} => OneTabOK(r, stored', Reviewed)
    PROVE  Inv'
<1>1. Reviewed' = Reviewed /\ confirmed' \subseteq Keys \X Texts
  BY DEF Reviewed, Inv, TypeOK
<1>2. CallsOK(call', tab', seen, Reviewed')
  BY <1>1, CallsKept
<1> HIDE DEF Reviewed
<1> QED BY <1>1, <1>2, TabStepInv

(* One tab that shows what it has shown, or what is stored. *)
LEMMA OneTabKept ==
    ASSUME NEW old, NEW r, NEW job, NEW pairs, OneTabOK(old, job, pairs),
           r.view \in {None, old.view, job},
           r.queue # <<>> => r.queue[1].kind # "prepare"
    PROVE  OneTabOK(r, job, pairs)
BY DEF OneTabOK

(* The head of a queue. *)
LEMMA HeadOf ==
    ASSUME NEW r, IsTab(r), r.queue # <<>>
    PROVE  /\ Head(r.queue) = r.queue[1] /\ 1 \in DOMAIN r.queue
           /\ r.queue[1] \in Mutations
BY TabsAre DEF TabStates

(* A mutation that changes nothing is over. *)
LEMMA NothingToSaveInv ==
    ASSUME Inv, NEW t \in Tabs, NothingToSave(t)
    PROVE  Inv'
<1> DEFINE r == tab[t]
           ok == Head(r.queue).kind = "pause"
           next == Dequeued(r, ok)
<1>1. /\ tab' = [tab EXCEPT ![t] = next] /\ r.queue # <<>>
      /\ UNCHANGED <<stored, content, call, edits, faults, confirmed, replaced, seen>>
  BY DEF NothingToSave, SetTab, history
<1>2. /\ IsTab(r) /\ TabOK(r, seen, Reviewed) /\ RestOK(r, seen, Reviewed)
      /\ Tabs = {t} => OneTabOK(r, stored, Reviewed)
      /\ faults' \in Nat
  BY <1>1, TabFacts, TabIsRest
<1>3. ok => Head(r.queue).kind \notin DOMAIN LoopAfter
  BY DEF LoopAfter
<1>4. /\ TabOK(next, seen, Reviewed) /\ next.view = r.view
      /\ next.queue # <<>> => next.queue[1].kind = "pause"
  BY <1>1, <1>2, <1>3, DequeuedOK
<1> HIDE DEF next, ok
<1>5. r.loop.at # "sent"
  BY <1>2 DEF RestOK
<1>6. Tabs = {t} => OneTabOK(next, stored', Reviewed)
  BY <1>1, <1>2, <1>4, OneTabKept
<1> QED BY <1>1, <1>2, <1>4, <1>5, <1>6, QuietStepInv

(* A mutation ends: the job is stored, refused, or left. *)
LEMMA EndedInv ==
    ASSUME Inv, NEW t \in Tabs, NEW r, NEW ok \in BOOLEAN, tab[t].queue # <<>>,
           RestOK(r, seen, Reviewed), r.queue # <<>>,
           ok /\ Head(r.queue).kind \in DOMAIN LoopAfter /\ r.loop.at = "idle" =>
               r.view # None /\ Quiet(r.view),
           tab' = [tab EXCEPT ![t] = Dequeued(r, ok)],
           UNCHANGED <<content, call, edits, confirmed, replaced, seen>>, faults' \in Nat,
           \/ stored' = stored /\ r.view \in {None, stored, tab[t].view}
           \/ /\ stored # None /\ JobOK(stored', seen, Reviewed)
              /\ stored'.rev = stored.rev + 1
              /\ \/ r.view = stored'
                 \/ /\ r.view = tab[t].view
                    /\ r.view.stage # "review" \/ stored'.stage # "review"
    PROVE  Inv'
<1> DEFINE next == Dequeued(r, ok)
<1>1. /\ TabOK(next, seen, Reviewed) /\ next.view = r.view
      /\ next.queue # <<>> => next.queue[1].kind = "pause"
  BY DequeuedOK
<1>2. /\ IsTab(tab[t]) /\ TabOK(tab[t], seen, Reviewed) /\ RestOK(tab[t], seen, Reviewed)
      /\ Tabs = {t} => OneTabOK(tab[t], stored, Reviewed)
  BY TabFacts, TabIsRest
<1>3. tab' = [tab EXCEPT ![t] = next]
  OBVIOUS
<1> HIDE DEF next
<1>4. tab[t].loop.at # "sent"
  BY <1>2 DEF RestOK
<1>5. Tabs = {t} => OneTabOK(next, stored', Reviewed)
  BY <1>1, <1>2 DEF OneTabOK
<1> QED BY <1>1, <1>3, <1>4, <1>5, QuietStepInv

(* A mutation that is not the pause of a loop ends with a conflict or with a
   failure of the storage. *)
LEMMA StoppedEnds ==
    ASSUME Inv, NEW t \in Tabs, tab[t].queue # <<>>, tab[t].loop.at # "save",
           NEW job, job = stored \/ job = tab[t].view, NEW error \in {"conflict", "storage"},
           tab' = [tab EXCEPT ![t] =
               Dequeued(Stopped(Showing(tab[t], job, error)), FALSE)],
           UNCHANGED <<stored, content, call, edits, confirmed, replaced, seen>>, faults' \in Nat
    PROVE  Inv'
<1> DEFINE shown == Showing(tab[t], job, error)
           r == Stopped(shown)
<1>1. /\ IsTab(tab[t]) /\ RestOK(tab[t], seen, Reviewed)
      /\ MaybeJob(job) /\ MaybeOK(job, seen, Reviewed)
  BY TabFacts, TabIsRest
<1>2. error \in TabErrors
  BY DEF TabErrors
<1>3. /\ IsTab(shown) /\ shown.view = job /\ shown.loop = tab[t].loop
      /\ shown.queue = tab[t].queue
  BY <1>1, <1>2, ShowingIs
<1> HIDE DEF shown
<1>4. /\ RestOK(r, seen, Reviewed) /\ r.view = job /\ r.queue # <<>>
  BY <1>1, <1>3, StoppedRest DEF RestOK
<1>5. tab' = [tab EXCEPT ![t] = Dequeued(r, FALSE)]
  BY DEF shown
<1> HIDE DEF r
<1> QED BY <1>4, <1>5, EndedInv

(* What a tab makes of a conflict or a failure of the storage. *)
LEMMA Errors ==
    ASSUME NEW r, IsTab(r)
    PROVE  /\ Conflicted(r) = Stopped(Showing(r, stored, "conflict"))
           /\ StorageFailed(r) = Stopped(Showing(r, r.view, "storage"))
<1>1. r \in TabStates
  BY TabsAre
<1>2. [r EXCEPT !.error = "storage"] = [r EXCEPT !.view = r.view, !.error = "storage"]
  BY <1>1 DEF TabStates
<1> QED BY <1>2 DEF Conflicted, StorageFailed, Showing

(* Faults are counted. *)
LEMMA FaultsCounted ==
    ASSUME Inv, NEW kind, Fault(kind) \/ UNCHANGED faults
    PROVE  faults' \in Nat
BY DEF Inv, TypeOK, Fault

(* A mutation that is saved is shown, if nothing has stopped it. *)
LEMMA ShownEnds ==
    ASSUME Inv, NEW t \in Tabs, tab[t].queue # <<>>, tab[t].loop.at # "save",
           NEW cand, JobOK(cand, seen, Reviewed), Quiet(cand),
           tab' = [tab EXCEPT ![t] = Dequeued(Shown(tab[t], cand), TRUE)],
           UNCHANGED <<content, call, edits, confirmed, replaced, seen>>, faults' \in Nat,
           stored # None, stored' = cand, cand.rev = stored.rev + 1
    PROVE  Inv'
<1> DEFINE r == Shown(tab[t], cand)
<1>1. IsTab(tab[t]) /\ RestOK(tab[t], seen, Reviewed)
  BY TabFacts, TabIsRest
<1>2. MaybeJob(cand) /\ cand # None
  BY JobsAre DEF JobOK, MaybeJob
<1>3. "none" \in TabErrors
  BY DEF TabErrors
<1>4. /\ IsTab(r) /\ r.view = cand /\ r.loop = tab[t].loop /\ r.queue = tab[t].queue
  <2>1. r = Showing(tab[t], cand, "none")
    BY DEF Shown, Showing
  <2> QED BY <1>1, <1>2, <1>3, <2>1, ShowingIs
<1>5. tab' = [tab EXCEPT ![t] = Dequeued(r, TRUE)]
  OBVIOUS
<1> HIDE DEF r
<1>6. LoopOK(r.loop, cand, seen, Reviewed)
  BY <1>1, <1>2, <1>4 DEF RestOK, LoopOK
<1>7. RestOK(r, seen, Reviewed)
  BY <1>1, <1>4, <1>6 DEF RestOK, MaybeOK
<1> QED BY <1>2, <1>4, <1>5, <1>7, EndedInv

(* The first mutation is saved, or not. *)
LEMMA MutationSavedInv ==
    ASSUME Inv, NEW t \in Tabs, MutationSaved(t)
    PROVE  Inv'
<1> DEFINE r == tab[t]
           m == Head(r.queue)
<1>1. /\ r.queue # <<>> /\ m.cand # None /\ r.loop.at # "save"
      /\ UNCHANGED <<content, call, edits, confirmed, replaced, seen>>
  BY DEF MutationSaved, history
<1>2. IsTab(r) /\ TabOK(r, seen, Reviewed) /\ RestOK(r, seen, Reviewed)
  BY <1>1, TabFacts, TabIsRest
<1>3. /\ m = r.queue[1] /\ 1 \in DOMAIN r.queue
      /\ JobOK(m.cand, seen, Reviewed) /\ Quiet(m.cand)
      /\ m.kind = "pause" => m.cand.stage # "review"
  BY <1>1, <1>2, HeadOf DEF RestOK, CandOK
<1>4. stored # None => stored.rev \in Nat
  BY TabFacts DEF MaybeJob, IsJob, JobsOn
<1>5. m.cand.rev \in Nat
  BY <1>3 DEF JobOK, IsJob, JobsOn
<1>6. r.view # None => r.view.rev \in Nat
  BY TabFacts DEF MaybeJob, IsJob, JobsOn
<1>7. m.kind # "pause" /\ m.kind \in OfVisible /\ r.view # None => r.view.stage # "review"
  BY <1>1, <1>2, <1>3 DEF TabOK, QueueOK, StagesOf
<1>8. ASSUME SetTab(t, Dequeued(r, FALSE)), UNCHANGED <<stored, faults>>
      PROVE  Inv'
  <2>1. faults' \in Nat
    BY <1>8, TabFacts
  <2> QED BY <1>1, <1>2, <1>8, <2>1, EndedInv DEF SetTab
<1>9. ASSUME m.kind \in OfVisible, CanSave(r, m.cand), stored' = m.cand, UNCHANGED faults,
             SetTab(t, IF m.current THEN Dequeued(Shown(r, m.cand), TRUE) ELSE Dequeued(r, FALSE))
      PROVE  Inv'
  <2>1. stored # None /\ m.cand.rev = stored.rev + 1 /\ r.view # None
    BY <1>9 DEF CanSave, RevisionsMatch, Follows
  <2>2. faults' \in Nat
    BY <1>9, TabFacts
  <2>3. CASE m.current
    BY <1>1, <1>3, <1>9, <2>1, <2>2, <2>3, ShownEnds DEF SetTab
  <2>4. CASE ~m.current
    <3>1. r.view.stage # "review" \/ stored'.stage # "review"
      BY <1>3, <1>7, <1>9, <2>1
    <3> QED BY <1>1, <1>2, <1>3, <1>9, <2>1, <2>2, <2>4, <3>1, EndedInv DEF SetTab
  <2> QED BY <2>3, <2>4
<1>10. ASSUME RevisionsMatch(m.cand.rev - 1), stored' = m.cand, UNCHANGED faults,
              SetTab(t, Dequeued(Shown(r, m.cand), TRUE))
       PROVE  Inv'
  <2>1. stored # None /\ m.cand.rev = stored.rev + 1
    BY <1>4, <1>5, <1>10 DEF RevisionsMatch
  <2>2. faults' \in Nat
    BY <1>10, TabFacts
  <2> QED BY <1>1, <1>3, <1>10, <2>1, <2>2, ShownEnds DEF SetTab
<1>11. ASSUME SetTab(t, Dequeued(Conflicted(r), FALSE)), UNCHANGED <<stored, faults>>
       PROVE  Inv'
  <2>1. faults' \in Nat
    BY <1>11, TabFacts
  <2> QED BY <1>1, <1>2, <1>11, <2>1, Errors, StoppedEnds DEF SetTab
<1>12. ASSUME SetTab(t, Dequeued(StorageFailed(r), FALSE)), UNCHANGED stored, faults' \in Nat
       PROVE  Inv'
  BY <1>1, <1>2, <1>12, Errors, StoppedEnds DEF SetTab
<1>13. ASSUME IF m.kind \in OfVisible THEN CanFail(r, m.cand) ELSE Fault("storage")
       PROVE  faults' \in Nat
  BY <1>13, FaultsCounted DEF CanFail
<1> HIDE DEF m, r
<1>14. \/ SetTab(t, Dequeued(r, FALSE)) /\ UNCHANGED <<stored, faults>>
       \/ /\ m.kind \in OfVisible /\ CanSave(r, m.cand) /\ stored' = m.cand /\ UNCHANGED faults
          /\ SetTab(t, IF m.current THEN Dequeued(Shown(r, m.cand), TRUE)
                                    ELSE Dequeued(r, FALSE))
       \/ /\ RevisionsMatch(m.cand.rev - 1) /\ stored' = m.cand /\ UNCHANGED faults
          /\ SetTab(t, Dequeued(Shown(r, m.cand), TRUE))
       \/ SetTab(t, Dequeued(Conflicted(r), FALSE)) /\ UNCHANGED <<stored, faults>>
       \/ /\ IF m.kind \in OfVisible THEN CanFail(r, m.cand) ELSE Fault("storage")
          /\ SetTab(t, Dequeued(StorageFailed(r), FALSE)) /\ UNCHANGED stored
  BY DEF MutationSaved, m, r
<1> QED BY <1>8, <1>9, <1>10, <1>11, <1>12, <1>13, <1>14

(* The candidate for the stored job, when a mutation starts from it. *)
LEMMA StoredCandidateOK ==
    ASSUME Inv, NEW t \in Tabs, tab[t].queue # <<>>, Head(tab[t].queue).kind \notin OfVisible,
           stored # None, Candidate(Head(tab[t].queue), stored) # stored
    PROVE  /\ JobOK(Candidate(Head(tab[t].queue), stored), seen, Reviewed)
           /\ Quiet(Candidate(Head(tab[t].queue), stored))
<1> DEFINE m == Head(tab[t].queue)
           next == Candidate(m, stored)
<1>1. m = tab[t].queue[1] /\ m \in Mutations
  BY TabFacts, HeadOf
<1>2. JobOK(stored, seen, Reviewed)
  BY TabFacts DEF MaybeOK
<1>3. m.kind \in {"interrupt", "include", "exclude", "prepare"}
  BY <1>1 DEF Mutations, OfVisible
<1> HIDE DEF m
<1>4. CASE m.kind = "interrupt"
  <2>1. next = Interrupted(stored)
    BY <1>4 DEF Candidate
  <2> QED BY <1>2, <2>1, PausedOK DEF m
<1>5. CASE m.kind = "include"
  <2>1. next = SetIncluded(stored, m.arg, TRUE)
    BY <1>5 DEF Candidate
  <2> QED BY <1>2, <2>1, SetIncludedOK DEF m
<1>6. CASE m.kind = "exclude"
  <2>1. next = SetIncluded(stored, m.arg, FALSE)
    BY <1>6 DEF Candidate
  <2> QED BY <1>2, <2>1, SetIncludedOK DEF m
<1>7. CASE m.kind = "prepare"
  <2>1. next = ApplyPrepared(stored, m.arg)
    BY <1>7 DEF Candidate
  <2>2. ASSUME stored.stage = "review", NEW k \in DOMAIN stored.items, stored.items[k].included
        PROVE  <<k, stored.items[k].before>> \in Reviewed
    <3>1. CASE \E u \in Tabs : Tabs = {u}
      <4>1. Tabs = {t}
        BY <3>1
      <4> QED BY <4>1, <1>1, <1>7, <2>2, TabFacts DEF OneTabOK
    <3>2. CASE ~\E u \in Tabs : Tabs = {u}
      <4>1. Reviewed = Keys \X Texts
        BY <3>2 DEF Reviewed
      <4>2. k \in Keys /\ stored.items[k].before \in Texts
        BY <1>2 DEF JobOK, IsJob, JobsOn, Items
      <4> QED BY <4>1, <4>2
    <3> QED BY <3>1, <3>2
  <2> QED BY <1>2, <2>1, <2>2, ApplyPreparedOK DEF m
<1> QED BY <1>3, <1>4, <1>5, <1>6, <1>7 DEF m

(* A mutation starts from the stored job. *)
LEMMA JobLoadedInv ==
    ASSUME Inv, NEW t \in Tabs, JobLoaded(t)
    PROVE  Inv'
<1> DEFINE r == tab[t]
           m == Head(r.queue)
           next == Candidate(m, stored)
           error == IF m.kind = "prepare" THEN "conflict" ELSE "none"
<1>1. /\ r.queue # <<>> /\ m.kind \notin OfVisible /\ m.cand = None
      /\ UNCHANGED <<stored, content, call, edits, confirmed, replaced, seen>>
  BY DEF JobLoaded, history
<1>2. IsTab(r) /\ TabOK(r, seen, Reviewed) /\ RestOK(r, seen, Reviewed)
  BY <1>1, TabFacts, TabIsRest
<1>3. m = r.queue[1] /\ 1 \in DOMAIN r.queue /\ m.kind # "pause" /\ m.kind \notin DOMAIN LoopAfter
  BY <1>1, <1>2, HeadOf DEF OfVisible, LoopAfter
<1>4. r.loop.at = "idle"
  BY <1>1, <1>2, <1>3 DEF TabOK, QueueOK
<1>5. ASSUME SetTab(t, Dequeued(Conflicted(r), FALSE)), UNCHANGED faults
      PROVE  Inv'
  <2>1. faults' \in Nat
    BY <1>5, TabFacts
  <2> QED BY <1>1, <1>2, <1>4, <1>5, <2>1, Errors, StoppedEnds DEF SetTab
<1>6. ASSUME SetTab(t, Dequeued(StorageFailed(r), FALSE)), Fault("storage")
      PROVE  Inv'
  <2>1. faults' \in Nat
    BY <1>6, FaultsCounted
  <2> QED BY <1>1, <1>2, <1>4, <1>6, <2>1, Errors, StoppedEnds DEF SetTab
<1>7. ASSUME stored # None, next # stored, SetTab(t, WithCandidate(r, next)), UNCHANGED faults
      PROVE  Inv'
  <2> DEFINE with == WithCandidate(r, next)
  <2>1. JobOK(next, seen, Reviewed) /\ Quiet(next)
    BY <1>1, <1>7, StoredCandidateOK
  <2>2. MaybeJob(next)
    BY <2>1 DEF JobOK, MaybeJob
  <2>3. /\ IsTab(with) /\ with.view = r.view /\ with.loop = r.loop /\ with.queue # <<>>
        /\ DOMAIN with.queue = DOMAIN r.queue
        /\ \A i \in DOMAIN r.queue : /\ with.queue[i].kind = r.queue[i].kind
                                     /\ with.queue[i].cand = IF i = 1 THEN next
                                                             ELSE r.queue[i].cand
    BY <1>1, <1>2, <2>2, WithCandidateIs
  <2>4. tab' = [tab EXCEPT ![t] = with]
    BY <1>7 DEF SetTab
  <2>5. faults' \in Nat
    BY <1>7, TabFacts
  <2> HIDE DEF with, next
  <2>6. \A i \in DOMAIN with.queue : CandOK(with.queue[i], seen, Reviewed)
    BY <1>2, <1>3, <2>1, <2>3 DEF RestOK, CandOK
  <2>7. QueueOK(with.queue, with.loop, with.view, seen, Reviewed)
    BY <1>1, <1>2, <1>3, <2>3, <2>6 DEF TabOK, QueueOK
  <2>8. TabOK(with, seen, Reviewed)
    BY <1>2, <2>3, <2>7 DEF TabOK
  <2>9. Tabs = {t} => OneTabOK(with, stored', Reviewed)
    <3>1. Tabs = {t} => OneTabOK(r, stored, Reviewed)
      BY TabFacts
    <3> QED BY <1>1, <1>3, <2>3, <3>1 DEF OneTabOK
  <2> QED BY <1>1, <1>4, <2>3, <2>4, <2>5, <2>8, <2>9, QuietStepInv
<1>8. ASSUME stored # None, SetTab(t, Dequeued([r EXCEPT !.view = stored, !.error = error], TRUE)),
             UNCHANGED faults
      PROVE  Inv'
  <2> DEFINE shown == Showing(r, stored, error)
  <2>1. error \in TabErrors /\ MaybeJob(stored)
    BY TabFacts DEF TabErrors
  <2> HIDE DEF error
  <2>2. /\ IsTab(shown) /\ shown.view = stored /\ shown.loop = r.loop /\ shown.queue = r.queue
    BY <1>2, <2>1, ShowingIs
  <2>3. tab' = [tab EXCEPT ![t] = Dequeued(shown, TRUE)]
    BY <1>8 DEF SetTab, Showing
  <2>4. faults' \in Nat
    BY <1>8, TabFacts
  <2> HIDE DEF shown
  <2>5. LoopOK(shown.loop, shown.view, seen, Reviewed)
    BY <1>4, <2>2 DEF LoopOK
  <2>6. MaybeOK(stored, seen, Reviewed)
    BY TabFacts
  <2>7. RestOK(shown, seen, Reviewed)
    BY <1>2, <2>2, <2>5, <2>6 DEF RestOK
  <2> QED BY <1>1, <1>3, <2>2, <2>3, <2>4, <2>7, EndedInv
<1> HIDE DEF r, m, next, error
<1>9. \/ SetTab(t, Dequeued(Conflicted(r), FALSE)) /\ UNCHANGED faults
      \/ stored # None /\ next # stored /\ SetTab(t, WithCandidate(r, next)) /\ UNCHANGED faults
      \/ /\ stored # None /\ UNCHANGED faults
         /\ SetTab(t, Dequeued([r EXCEPT !.view = stored, !.error = error], TRUE))
      \/ Fault("storage") /\ SetTab(t, Dequeued(StorageFailed(r), FALSE))
  BY DEF JobLoaded, r, m, next, error
<1> QED BY <1>5, <1>6, <1>7, <1>8, <1>9

-----------------------------------------------------------------------------
(* The steps of a tab: its loop *)

(* A tab goes on with another loop, and shows what it has shown. *)
LEMMA LoopStepInv ==
    ASSUME Inv, NEW t \in Tabs, NEW loop \in Loops, NEW error \in TabErrors,
           tab' = [tab EXCEPT ![t] = Showing([tab[t] EXCEPT !.loop = loop], tab[t].view, error)],
           LoopOK(loop, tab[t].view, seen, Reviewed), tab[t].queue = <<>>,
           UNCHANGED <<stored, content, edits, confirmed, replaced, seen>>, faults' \in Nat,
           \/ call' = call /\ tab[t].loop.at # "sent"
           \/ CallsOK(call', tab', seen, Reviewed)
    PROVE  Inv'
<1> DEFINE with == [tab[t] EXCEPT !.loop = loop]
           next == Showing(with, tab[t].view, error)
<1>1. /\ IsTab(tab[t]) /\ TabOK(tab[t], seen, Reviewed) /\ MaybeJob(tab[t].view)
      /\ Tabs = {t} => OneTabOK(tab[t], stored, Reviewed)
  BY TabFacts
<1>2. IsTab(with) /\ with.view = tab[t].view /\ with.loop = loop /\ with.queue = tab[t].queue
  BY <1>1, Looping
<1> HIDE DEF with
<1>3. IsTab(next) /\ next.view = tab[t].view /\ next.loop = loop /\ next.queue = <<>>
  <2>1. IsTab(with) /\ MaybeJob(tab[t].view) /\ error \in TabErrors
    BY <1>1, <1>2
  <2>2. /\ IsTab(next) /\ next.view = tab[t].view /\ next.loop = with.loop
        /\ next.queue = with.queue
    BY <2>1, ShowingIs
  <2> QED BY <1>2, <2>2
<1>4. tab' = [tab EXCEPT ![t] = next]
  BY DEF with
<1> HIDE DEF next
<1>5. TabOK(next, seen, Reviewed)
  BY <1>1, <1>3 DEF TabOK, QueueOK
<1>6. Tabs = {t} => OneTabOK(next, stored', Reviewed)
  BY <1>1, <1>3, OneTabKept
<1>7. Reviewed' = Reviewed /\ confirmed' \subseteq Keys \X Texts
  BY DEF Reviewed, Inv, TypeOK
<1>8. CallsOK(call', tab', seen, Reviewed')
  BY <1>4, <1>7, CallsKept
<1> HIDE DEF Reviewed
<1> QED BY <1>3, <1>4, <1>5, <1>6, <1>7, <1>8, TabStepInv

(* The loop of a tab, and its error, in one record. *)
LEMMA Reshown ==
    ASSUME NEW r, IsTab(r), NEW loop \in Loops, NEW error
    PROVE  /\ [r EXCEPT !.loop = loop] = Showing([r EXCEPT !.loop = loop], r.view, r.error)
           /\ [r EXCEPT !.loop = loop, !.error = error] =
                 Showing([r EXCEPT !.loop = loop], r.view, error)
           /\ r.error \in TabErrors
<1>1. r \in TabStates
  BY TabsAre
<1> QED BY <1>1 DEF TabStates, TabErrors, Showing

(* A tab goes on with another loop. *)
LEMMA LoopingInv ==
    ASSUME Inv, NEW t \in Tabs, NEW loop \in Loops, tab[t].queue = <<>>,
           SetTab(t, [tab[t] EXCEPT !.loop = loop]),
           LoopOK(loop, tab[t].view, seen, Reviewed),
           UNCHANGED <<stored, content, edits, confirmed, replaced, seen>>, faults' \in Nat,
           \/ call' = call /\ tab[t].loop.at # "sent"
           \/ CallsOK(call', tab', seen, Reviewed)
    PROVE  Inv'
<1> DEFINE next == [tab[t] EXCEPT !.loop = loop]
<1>1. next = Showing(next, tab[t].view, tab[t].error) /\ tab[t].error \in TabErrors
  BY TabFacts, Reshown
<1>2. tab' = [tab EXCEPT ![t] = Showing(next, tab[t].view, tab[t].error)]
  BY <1>1 DEF SetTab
<1> QED BY <1>1, <1>2, LoopStepInv

(* A tab ends its loop with an error. *)
LEMMA LoopErrorInv ==
    ASSUME Inv, NEW t \in Tabs, NEW error \in TabErrors, tab[t].queue = <<>>,
           SetTab(t, [tab[t] EXCEPT !.loop = NoLoop, !.error = error]), tab[t].loop.at # "sent",
           UNCHANGED <<stored, content, call, edits, confirmed, replaced, seen>>, faults' \in Nat
    PROVE  Inv'
<1> DEFINE next == [tab[t] EXCEPT !.loop = NoLoop]
<1>1. [tab[t] EXCEPT !.loop = NoLoop, !.error = error] = Showing(next, tab[t].view, error)
  <2> DEFINE r    == tab[t]
             idle == NoLoop
  <2>1. r \in TabStates /\ idle \in Loops
    BY TabFacts, TabsAre, NoLoopOK
  <2> HIDE DEF r, idle
  <2>2. [r EXCEPT !.loop = idle, !.error = error] = Showing([r EXCEPT !.loop = idle], r.view, error)
    BY <2>1 DEF TabStates, TabErrors, Showing
  <2> QED BY <2>2 DEF r, idle
<1>2. tab' = [tab EXCEPT ![t] = Showing(next, tab[t].view, error)]
  BY <1>1 DEF SetTab
<1>3. LoopOK(NoLoop, tab[t].view, seen, Reviewed) /\ NoLoop \in Loops
  BY NoLoopOK
<1> QED BY <1>2, <1>3, LoopStepInv

(* A loop that is under way has nothing behind it. *)
LEMMA LoopFacts ==
    ASSUME Inv, NEW t \in Tabs, tab[t].loop.at \notin {"idle", "save"}
    PROVE  /\ tab[t].loop.at # "admission" => tab[t].queue = <<>>
           /\ tab[t].loop \in Loops /\ tab[t].loop.live
           /\ tab[t].view # None /\ JobOK(tab[t].view, seen, Reviewed)
           /\ LoopOK(tab[t].loop, tab[t].view, seen, Reviewed)
<1>1. IsTab(tab[t]) /\ TabOK(tab[t], seen, Reviewed)
  BY TabFacts
<1>2. tab[t].loop \in Loops
  BY <1>1, TabsAre DEF TabStates
<1> QED BY <1>1, <1>2 DEF TabOK, QueueOK, LoopOK, MaybeOK

\* What may follow a save.
Thens == {"idle", "next", "sent", "wait"}

(* What a loop is about to save. *)
LEMMA SavingOK ==
    ASSUME NEW loop \in Loops, loop.live, NEW view, view # None, NEW texts, NEW pairs,
           NEW cand, JobOK(cand, texts, pairs), NEW then \in Thens,
           then = "sent" => ToSend(loop, cand),
           then \in {"next", "wait"} /\ loop.kind # "apply" => Quiet(cand)
    PROVE  Saving(loop, cand, then) \in Loops /\ LoopOK(Saving(loop, cand, then), view, texts, pairs)
<1> DEFINE next == Saving(loop, cand, then)
<1>1. cand \in AllJobs \cup {None}
  BY JobsAre DEF JobOK
<1>2. /\ next \in Loops /\ next.at = "save" /\ next.cand = cand /\ next.then = then
      /\ next.live /\ next.key = loop.key /\ next.kind = loop.kind
  BY <1>1 DEF Saving, Loops, Thens
<1> HIDE DEF next
<1>3. LoopOK(next, view, texts, pairs)
  BY <1>2 DEF LoopOK, ToSend
<1> QED BY <1>2, <1>3 DEF next

(* A loop saves what it has made of the job. *)
LEMMA SavingInv ==
    ASSUME Inv, NEW t \in Tabs, tab[t].queue = <<>>, NEW loop \in Loops, loop.live,
           tab[t].view # None,
           NEW cand, JobOK(cand, seen, Reviewed), NEW then \in Thens,
           then = "sent" => ToSend(loop, cand),
           then \in {"next", "wait"} /\ loop.kind # "apply" => Quiet(cand),
           SetTab(t, [tab[t] EXCEPT !.loop = Saving(loop, cand, then)]),
           UNCHANGED <<stored, content, edits, confirmed, replaced, seen>>, faults' \in Nat,
           \/ call' = call /\ tab[t].loop.at # "sent"
           \/ CallsOK(call', tab', seen, Reviewed)
    PROVE  Inv'
<1> DEFINE next == Saving(loop, cand, then)
<1>1. next \in Loops /\ LoopOK(next, tab[t].view, seen, Reviewed)
  BY SavingOK
<1>2. SetTab(t, [tab[t] EXCEPT !.loop = next])
  OBVIOUS
<1> HIDE DEF next
<1> QED BY <1>1, <1>2, LoopingInv

(* A loop is admitted once the mutations are over. *)
LEMMA AdmitInv ==
    ASSUME Inv, NEW t \in Tabs, Admit(t)
    PROVE  Inv'
<1> DEFINE r == tab[t]
           first == IF r.loop.kind \in {"apply", "recover"} THEN "load" ELSE "next"
           keys == IF r.loop.kind # "preview" THEN r.loop.keys
                   ELSE IF r.view.op = None THEN <<>> ELSE r.view.op.remaining
           going == [r.loop EXCEPT !.at = first, !.keys = keys]
           loop == IF ~r.barrier THEN NoLoop ELSE going
<1>1. /\ r.loop.at = "admission" /\ r.queue = <<>>
      /\ SetTab(t, [r EXCEPT !.loop = loop])
      /\ UNCHANGED <<stored, content, call, edits, faults, confirmed, replaced, seen>>
  BY DEF Admit, history
<1>2. /\ r.loop \in Loops /\ r.loop.live /\ r.view # None /\ JobOK(r.view, seen, Reviewed)
      /\ Quiet(r.view)
  BY <1>1, LoopFacts DEF LoopOK
<1>3. keys \in Seq(Keys)
  <2>1. r.loop.keys \in Seq(Keys)
    BY <1>2 DEF Loops
  <2>2. r.view.op # None => r.view.op.remaining \in Seq(Keys)
    BY <1>2, RemainingType DEF JobOK
  <2> QED BY <2>1, <2>2
<1>4. first \in {"load", "next"}
  OBVIOUS
<1> HIDE DEF first, keys
<1>5. going \in Loops /\ LoopOK(going, r.view, seen, Reviewed)
  <2>1. going \in Loops /\ going.at \in {"load", "next"} /\ going.live
    BY <1>2, <1>3, <1>4 DEF Loops
  <2> HIDE DEF going
  <2> QED BY <1>2, <2>1 DEF LoopOK
<1>6. loop \in Loops /\ LoopOK(loop, r.view, seen, Reviewed)
  BY <1>5, NoLoopOK
<1>7. faults' \in Nat
  BY <1>1, TabFacts
<1> HIDE DEF going, loop
<1> QED BY <1>1, <1>6, <1>7, LoopingInv

(* An apply or a recovery starts from the stored job. *)
LEMMA LoadInv ==
    ASSUME Inv, NEW t \in Tabs, Load(t)
    PROVE  Inv'
<1> DEFINE r == tab[t]
           started == Started(r)
           stopped == CredentialInterrupted(stored)
<1>1. /\ r.loop.at = "load"
      /\ UNCHANGED <<stored, content, call, edits, confirmed, replaced, seen>>
  BY DEF Load, history
<1>2. /\ r.queue = <<>> /\ r.loop \in Loops /\ r.loop.live /\ r.view # None
      /\ JobOK(r.view, seen, Reviewed) /\ Quiet(r.view)
  BY <1>1, LoopFacts DEF LoopOK
<1>3. stored = r.view =>
        /\ JobOK(started, seen, Reviewed) /\ (r.loop.kind # "apply" => Quiet(started))
        /\ JobOK(stopped, seen, Reviewed)
  <2>1. stored = r.view => JobOK(ApplyStarted(stored), seen, Reviewed)
    BY <1>2, ApplyStartedOK
  <2>2. stored = r.view =>
          /\ JobOK(RecoveryStarted(stored, ToSet(r.loop.keys)), seen, Reviewed)
          /\ Quiet(RecoveryStarted(stored, ToSet(r.loop.keys)))
    BY <1>2, RecoveryRunOK
  <2>3. stored = r.view => JobOK(stopped, seen, Reviewed)
    BY <1>2, CredentialInterruptedOK
  <2> QED BY <2>1, <2>2, <2>3 DEF Started
<1> HIDE DEF started, stopped
<1>4. ASSUME SetTab(t, [r EXCEPT !.loop = NoLoop]), UNCHANGED faults
      PROVE  Inv'
  <2>1. faults' \in Nat
    BY <1>4, TabFacts
  <2> QED BY <1>1, <1>2, <1>4, <2>1, NoLoopOK, LoopingInv
<1>5. ASSUME stored = r.view, SetTab(t, [r EXCEPT !.loop = Saving(r.loop, started, "next")]),
             UNCHANGED faults
      PROVE  Inv'
  <2>1. faults' \in Nat /\ "next" \in Thens
    BY <1>5, TabFacts DEF Thens
  <2> QED BY <1>1, <1>2, <1>3, <1>5, <2>1, SavingInv
<1>6. ASSUME stored = r.view, SetTab(t, [r EXCEPT !.loop = Saving(r.loop, stopped, "idle")]),
             Fault("credentials")
      PROVE  Inv'
  <2>1. faults' \in Nat /\ "idle" \in Thens
    BY <1>6, FaultsCounted DEF Thens
  <2> QED BY <1>1, <1>2, <1>3, <1>6, <2>1, SavingInv
<1>7. ASSUME SetTab(t, [r EXCEPT !.loop = NoLoop, !.error = "stale"]), UNCHANGED faults
      PROVE  Inv'
  <2>1. faults' \in Nat /\ "stale" \in TabErrors
    BY <1>7, TabFacts DEF TabErrors
  <2> QED BY <1>1, <1>2, <1>7, <2>1, LoopErrorInv
<1>8. ASSUME SetTab(t, [r EXCEPT !.loop = NoLoop, !.error = "storage"]), Fault("storage")
      PROVE  Inv'
  <2>1. faults' \in Nat /\ "storage" \in TabErrors
    BY <1>8, FaultsCounted DEF TabErrors
  <2> QED BY <1>1, <1>2, <1>8, <2>1, LoopErrorInv
<1> DEFINE nothing == IF r.loop.kind = "apply" THEN started = stored
                      ELSE ~\E k \in ToSet(r.loop.keys) \cap DOMAIN stored.items :
                                Recoverable(stored.items[k])
<1>9. \/ /\ stored = r.view /\ UNCHANGED faults
         /\ SetTab(t, [r EXCEPT !.loop = IF nothing THEN NoLoop
                                         ELSE Saving(r.loop, started, "next")])
      \/ /\ stored = r.view /\ Fault("credentials")
         /\ SetTab(t, [r EXCEPT !.loop = Saving(r.loop, stopped, "idle")])
      \/ SetTab(t, [r EXCEPT !.loop = NoLoop, !.error = "stale"]) /\ UNCHANGED faults
      \/ SetTab(t, [r EXCEPT !.loop = NoLoop, !.error = "storage"]) /\ Fault("storage")
  BY DEF Load, started, stopped
<1> HIDE DEF r, nothing
<1> QED BY <1>4, <1>5, <1>6, <1>7, <1>8, <1>9

(* The next item of an apply. *)
LEMMA ApplyItemsOK ==
    ASSUME NEW job, NEW texts, NEW pairs, JobOK(job, texts, pairs), ApplyItems(job) # <<>>
    PROVE  /\ Head(ApplyItems(job)) \in DOMAIN job.items
           /\ job.items[Head(ApplyItems(job))].prior # None
<1>1. Head(ApplyItems(job)) \in KeysWhere(job, CanApply)
  BY InOrderType DEF ApplyItems
<1> QED BY <1>1 DEF KeysWhere, CanApply

(* What a loop works on next. *)
LEMMA RemainingOK ==
    ASSUME NEW r, NEW texts, NEW pairs, JobOK(r.view, texts, pairs), r.loop \in Loops
    PROVE  /\ Remaining(r) \in Seq(Keys)
           /\ Remaining(r) # <<>> =>
                 /\ Head(Remaining(r)) \in DOMAIN r.view.items
                 /\ r.loop.kind \in {"apply", "recover"} =>
                       r.view.items[Head(Remaining(r))].prior # None
<1>1. r.loop.keys \in Seq(Keys) /\ r.loop.kind \in {"apply", "rescan", "preview", "recover"}
  BY DEF Loops
<1>2. CASE r.loop.kind = "apply"
  <2>1. Remaining(r) = ApplyItems(r.view)
    BY <1>2 DEF Remaining
  <2>2. ApplyItems(r.view) \in Seq(Keys)
    BY InOrderType DEF ApplyItems
  <2> QED BY <1>2, <2>1, <2>2, ApplyItemsOK
<1>3. CASE r.loop.kind = "rescan"
  <2>1. Remaining(r) = IF IsRescanning(r.view) THEN r.view.op.remaining ELSE <<>>
    BY <1>3 DEF Remaining
  <2>2. r.view.op # None => /\ r.view.op.remaining \in Seq(Keys)
                            /\ Head(r.view.op.remaining) \in DOMAIN r.view.items
    BY RemainingType DEF JobOK
  <2> QED BY <1>3, <2>1, <2>2 DEF IsRescanning
<1>4. CASE r.loop.kind = "preview"
  <2> DEFINE set == KeysWhere(r.view, HasSuccessfulApply)
  <2>1. Remaining(r) = AsListed(r.loop.keys, set)
    BY <1>4 DEF Remaining
  <2>2. \A k \in set : k \in DOMAIN r.view.items
    BY DEF KeysWhere
  <2> HIDE DEF set
  <2>3. AsListed(r.loop.keys, set) \in Seq(Keys \cap set)
    BY <1>1, AsListedType
  <2>4. AsListed(r.loop.keys, set) \in Seq(Keys)
    BY <2>3, SeqSubset
  <2>5. AsListed(r.loop.keys, set) # <<>> => Head(AsListed(r.loop.keys, set)) \in set
    BY <1>1, AsListedHead
  <2> QED BY <1>4, <2>1, <2>2, <2>4, <2>5
<1>5. CASE r.loop.kind = "recover"
  <2> DEFINE set == {k \in KeysWhere(r.view, HasSuccessfulApply) :
                        r.view.items[k].preview = "recoverable"}
  <2>1. Remaining(r) = AsListed(r.loop.keys, set)
    BY <1>5 DEF Remaining
  <2>2. \A k \in set : k \in DOMAIN r.view.items /\ r.view.items[k].prior # None
    BY DEF KeysWhere, HasSuccessfulApply
  <2> HIDE DEF set
  <2>3. AsListed(r.loop.keys, set) \in Seq(Keys \cap set)
    BY <1>1, AsListedType
  <2>4. AsListed(r.loop.keys, set) \in Seq(Keys)
    BY <2>3, SeqSubset
  <2>5. AsListed(r.loop.keys, set) # <<>> => Head(AsListed(r.loop.keys, set)) \in set
    BY <1>1, AsListedHead
  <2> QED BY <1>5, <2>1, <2>2, <2>4, <2>5
<1> QED BY <1>1, <1>2, <1>3, <1>4, <1>5

(* The item that is started. *)
LEMMA ItemStartedOK ==
    ASSUME NEW r, NEW texts, NEW pairs, JobOK(r.view, texts, pairs),
           r.loop.kind \in {"apply", "preview", "recover"},
           r.loop.kind # "apply" => Quiet(r.view), NEW key \in DOMAIN r.view.items,
           r.loop.kind \in {"apply", "recover"} => r.view.items[key].prior # None
    PROVE  /\ JobOK(ItemStarted(r, key), texts, pairs)
           /\ key \in DOMAIN ItemStarted(r, key).items
           /\ r.loop.kind \in {"apply", "recover"} => ItemStarted(r, key).items[key].prior # None
           /\ r.loop.kind # "apply" => OnlyRecovering(ItemStarted(r, key), key)
<1>1. CASE r.loop.kind = "apply"
  <2>1. ItemStarted(r, key) = ApplyItemStarted(r.view, key)
    BY <1>1 DEF ItemStarted
  <2> QED BY <1>1, <2>1, ApplyItemStartedOK
<1>2. CASE r.loop.kind = "preview"
  <2>1. ItemStarted(r, key) = RecoveryPreviewStarted(r.view, key)
    BY <1>2 DEF ItemStarted
  <2> DEFINE next == ItemStarted(r, key)
  <2>2. JobOK(next, texts, pairs) /\ Quiet(next) /\ DOMAIN next.items = DOMAIN r.view.items
    BY <1>2, <2>1, RecoveryPreviewStartedOK
  <2> HIDE DEF next
  <2>3. OnlyRecovering(next, key)
    BY <2>2 DEF Quiet, OnlyRecovering
  <2> QED BY <1>2, <2>2, <2>3 DEF next
<1>3. CASE r.loop.kind = "recover"
  <2>1. ItemStarted(r, key) = RecoveryItemStarted(r.view, key)
    BY <1>3 DEF ItemStarted
  <2> QED BY <1>3, <2>1, RecoveryItemStartedOK
<1> QED BY <1>1, <1>2, <1>3

(* A request is sent for an item that the tab shows. *)
LEMMA RequestSent ==
    ASSUME Inv, NEW t \in Tabs, tab[t].loop.at # "sent",
           NEW next, tab' = [tab EXCEPT ![t] = next],
           NEW r, r.loop \in Loops, JobOK(r.view, seen, Reviewed),
           next.loop.at = "sent", next.loop.key = r.loop.key,
           r.loop.key \in DOMAIN r.view.items,
           r.loop.kind \in {"apply", "recover"} => r.view.items[r.loop.key].prior # None,
           Request(t, r)
    PROVE  CallsOK(call', tab', seen, Reviewed)
<1> DEFINE item == r.view.items[r.loop.key]
           text == IF r.loop.kind = "recover" THEN item.prior ELSE item.before
           request == [NoCall EXCEPT !.phase = "read", !.owner = t, !.kind = r.loop.kind,
                                     !.key = r.loop.key, !.text = text]
<1>1. /\ call \in [Calls -> Requests] /\ \A c \in Calls : RequestOK(call[c], tab, seen, Reviewed)
      /\ \A c, d \in Calls : call[c].owner # None /\ call[c].owner = call[d].owner => c = d
  BY DEF Inv, TypeOK
<1>2. PICK c \in Calls : call[c].phase = "free" /\ call' = [call EXCEPT ![c] = request]
  BY DEF Request
<1>3. /\ tab'[t] = next
      /\ \A u \in Tabs : u # t => tab'[u] = tab[u]
  BY DEF Inv, TypeOK
<1>4. t # None
  BY TabsAssumption
<1>5. item \in Items /\ r.loop.key \in Keys
      /\ (item.prior # None => item.prior = item.before /\ <<r.loop.key, item.before>> \in Reviewed)
  BY DEF JobOK, IsJob, JobsOn, ItemOK
<1>6. r.loop.kind \in {"apply", "rescan", "preview", "recover"}
  BY DEF Loops
<1>7. /\ text \in Texts
      /\ r.loop.kind \in {"apply", "recover"} => <<r.loop.key, text>> \in Reviewed
  BY <1>5, <1>6 DEF Items
<1> HIDE DEF item, text
<1>8. /\ request \in Requests /\ request.phase = "read" /\ request.owner = t
      /\ request.kind = r.loop.kind /\ request.key = r.loop.key /\ request.text = text
  BY <1>5, <1>6, <1>7 DEF NoCall, Requests
<1> HIDE DEF request
<1>9. RequestOK(request, tab', seen, Reviewed)
  BY <1>3, <1>5, <1>7, <1>8 DEF RequestOK
<1>10. ASSUME NEW d \in Calls
       PROVE  call[d].owner \in Tabs \cup {None} /\ call[d].owner # t
  <2>1. call[d].owner \in Tabs \cup {None}
    BY <1>1 DEF Requests
  <2> QED BY <1>1, <1>4, <2>1 DEF RequestOK
<1>11. ASSUME NEW d \in Calls PROVE RequestOK(call[d], tab', seen, Reviewed)
  <2>1. RequestOK(call[d], tab, seen, Reviewed)
    BY <1>1
  <2> QED BY <1>3, <1>10, <2>1 DEF RequestOK
<1>12. \A d \in Calls : call'[d] = IF d = c THEN request ELSE call[d]
  BY <1>1, <1>2
<1>13. call' \in [Calls -> Requests]
  BY <1>1, <1>2, <1>8
<1>14. \A d, e \in Calls : call'[d].owner # None /\ call'[d].owner = call'[e].owner => d = e
  BY <1>1, <1>8, <1>10, <1>12
<1>15. \A d \in Calls : RequestOK(call'[d], tab', seen, Reviewed)
  BY <1>9, <1>11, <1>12
<1> QED BY <1>13, <1>14, <1>15 DEF CallsOK

(* A loop goes on with its next item. *)
LEMMA NextItemInv ==
    ASSUME Inv, NEW t \in Tabs, NextItem(t)
    PROVE  Inv'
<1> DEFINE r == tab[t]
           keys == Remaining(r)
           key == Head(keys)
           rest == Tail(keys)
           at == [r.loop EXCEPT !.key = key, !.keys = rest]
           waiting == [r.loop EXCEPT !.at = "wait"]
           asking == [at EXCEPT !.at = "sent"]
           started == ItemStarted(r, key)
           stopped == CredentialInterrupted(r.view)
<1>1. r.loop.at = "next" /\ UNCHANGED <<stored, content, edits, confirmed, replaced, seen>>
  BY DEF NextItem, history
<1>2. /\ r.queue = <<>> /\ r.loop \in Loops /\ r.loop.live /\ r.view # None
      /\ JobOK(r.view, seen, Reviewed) /\ (r.loop.kind # "apply" => Quiet(r.view))
  BY <1>1, LoopFacts DEF LoopOK
<1>3. /\ keys \in Seq(Keys)
      /\ keys # <<>> => /\ key \in DOMAIN r.view.items
                        /\ r.loop.kind \in {"apply", "recover"} => r.view.items[key].prior # None
  BY <1>2, RemainingOK
<1>4. keys # <<>> => key \in Keys /\ rest \in Seq(Keys)
  BY <1>3, HeadTailProperties
<1> HIDE DEF keys, key, rest
<1>5. keys # <<>> => /\ at \in Loops /\ at.live /\ at.kind = r.loop.kind /\ at.key = key
                     /\ asking \in Loops /\ asking.at = "sent" /\ asking.live
                     /\ asking.kind = r.loop.kind /\ asking.key = key
  BY <1>2, <1>4 DEF Loops
<1>6. waiting \in Loops /\ waiting.at = "wait" /\ waiting.live /\ waiting.kind = r.loop.kind
  BY <1>2 DEF Loops
<1>7. JobOK(stopped, seen, Reviewed)
  BY <1>2, CredentialInterruptedOK
<1> HIDE DEF at, asking, waiting, started, stopped
<1>8. ASSUME SetTab(t, [r EXCEPT !.loop = NoLoop]), UNCHANGED <<call, faults>>
      PROVE  Inv'
  <2>1. faults' \in Nat
    BY <1>8, TabFacts
  <2> QED BY <1>1, <1>2, <1>8, <2>1, NoLoopOK, LoopingInv
<1>9. ASSUME SetTab(t, [r EXCEPT !.loop = waiting]), UNCHANGED <<call, faults>>
      PROVE  Inv'
  <2>1. faults' \in Nat
    BY <1>9, TabFacts
  <2>2. LoopOK(waiting, r.view, seen, Reviewed)
    BY <1>2, <1>6 DEF LoopOK
  <2> QED BY <1>1, <1>2, <1>6, <1>9, <2>1, <2>2, LoopingInv
<1>10. ASSUME SetTab(t, [r EXCEPT !.loop = Saving(r.loop, stopped, "idle")]),
              Fault("credentials"), UNCHANGED call
       PROVE  Inv'
  <2>1. faults' \in Nat /\ "idle" \in Thens
    BY <1>10, FaultsCounted DEF Thens
  <2> QED BY <1>1, <1>2, <1>7, <1>10, <2>1, SavingInv
<1>11. ASSUME keys # <<>>, r.loop.kind # "rescan",
              SetTab(t, [r EXCEPT !.loop = Saving(at, started, "sent")]),
              UNCHANGED <<call, faults>>
       PROVE  Inv'
  <2>1. faults' \in Nat /\ "sent" \in Thens
    BY <1>11, TabFacts DEF Thens
  <2>2. r.loop.kind \in {"apply", "preview", "recover"}
    BY <1>2, <1>11 DEF Loops
  <2>3. /\ JobOK(started, seen, Reviewed) /\ key \in DOMAIN started.items
        /\ r.loop.kind \in {"apply", "recover"} => started.items[key].prior # None
        /\ r.loop.kind # "apply" => OnlyRecovering(started, key)
    BY <1>2, <1>3, <1>11, <2>2, ItemStartedOK DEF started
  <2>4. ToSend(at, started)
    BY <1>5, <1>11, <2>3 DEF ToSend
  <2> QED BY <1>1, <1>2, <1>5, <1>11, <2>1, <2>3, <2>4, SavingInv
<1>12. ASSUME keys # <<>>, r.loop.kind = "rescan",
              SetTab(t, [r EXCEPT !.loop = asking]),
              Request(t, [r EXCEPT !.loop = at]), UNCHANGED faults
       PROVE  Inv'
  <2>1. faults' \in Nat /\ IsTab(r)
    BY <1>12, TabFacts
  <2> DEFINE next == [r EXCEPT !.loop = asking]
             from == [r EXCEPT !.loop = at]
  <2>2. next.loop = asking /\ from.loop = at /\ from.view = r.view
    BY <1>5, <1>12, <2>1, Looping
  <2>3. tab' = [tab EXCEPT ![t] = next] /\ Request(t, from)
    BY <1>12 DEF SetTab
  <2> HIDE DEF next, from
  <2>4. CallsOK(call', tab', seen, Reviewed)
    BY <1>1, <1>2, <1>3, <1>5, <1>12, <2>2, <2>3, RequestSent
  <2>5. OnlyRecovering(r.view, key)
    BY <1>2, <1>12 DEF Quiet, OnlyRecovering
  <2>6. LoopOK(asking, r.view, seen, Reviewed)
    BY <1>2, <1>3, <1>5, <1>12, <2>5 DEF LoopOK
  <2> QED BY <1>1, <1>2, <1>5, <1>12, <2>1, <2>4, <2>6, LoopingInv
<1>13. \/ SetTab(t, [r EXCEPT !.loop = NoLoop]) /\ UNCHANGED <<call, faults>>
       \/ SetTab(t, [r EXCEPT !.loop = waiting]) /\ UNCHANGED <<call, faults>>
       \/ /\ SetTab(t, [r EXCEPT !.loop = Saving(r.loop, stopped, "idle")])
          /\ Fault("credentials") /\ UNCHANGED call
       \/ /\ keys # <<>> /\ r.loop.kind # "rescan"
          /\ SetTab(t, [r EXCEPT !.loop = Saving(at, started, "sent")])
          /\ UNCHANGED <<call, faults>>
       \/ /\ keys # <<>> /\ r.loop.kind = "rescan"
          /\ SetTab(t, [r EXCEPT !.loop = asking])
          /\ Request(t, [r EXCEPT !.loop = at]) /\ UNCHANGED faults
  BY DEF NextItem, keys, key, rest, at, asking, waiting, started, stopped
<1> HIDE DEF r
<1> QED BY <1>8, <1>9, <1>10, <1>11, <1>12, <1>13

(* The deadline of a throttled loop has passed. *)
LEMMA DeadlinePassedInv ==
    ASSUME Inv, NEW t \in Tabs, DeadlinePassed(t)
    PROVE  Inv'
<1> DEFINE r == tab[t]
           cleared == RetryAtCleared(r.view)
<1>1. /\ r.loop.at = "wait" /\ SetTab(t, [r EXCEPT !.loop = Saving(r.loop, cleared, "next")])
      /\ UNCHANGED <<stored, content, call, edits, faults, confirmed, replaced, seen>>
  BY DEF DeadlinePassed, history
<1>2. /\ r.queue = <<>> /\ r.loop \in Loops /\ r.loop.live /\ r.view # None
      /\ JobOK(r.view, seen, Reviewed) /\ (r.loop.kind # "apply" => Quiet(r.view))
  BY <1>1, LoopFacts DEF LoopOK
<1>3. JobOK(cleared, seen, Reviewed) /\ cleared.items = r.view.items
  BY <1>2, RetryAtOK
<1> HIDE DEF cleared
<1>4. r.loop.kind # "apply" => Quiet(cleared)
  BY <1>2, <1>3 DEF Quiet
<1>5. faults' \in Nat /\ "next" \in Thens
  BY <1>1, TabFacts DEF Thens
<1> QED BY <1>1, <1>2, <1>3, <1>4, <1>5, SavingInv

(* A loop that was saving is over. *)
LEMMA UnloopedOK ==
    ASSUME NEW r, NEW texts, NEW pairs, IsTab(r), MaybeOK(r.view, texts, pairs),
           \A i \in DOMAIN r.queue : CandOK(r.queue[i], texts, pairs),
           \A i \in DOMAIN r.queue : r.queue[i].kind = "pause"
    PROVE  /\ TabOK([r EXCEPT !.loop = NoLoop], texts, pairs)
           /\ [r EXCEPT !.loop = NoLoop].view = r.view
           /\ r.queue # <<>> => [r EXCEPT !.loop = NoLoop].queue[1].kind = "pause"
<1> DEFINE next == [r EXCEPT !.loop = NoLoop]
<1>1. /\ IsTab(next) /\ next.view = r.view /\ next.loop = NoLoop /\ next.queue = r.queue
      /\ NoLoop.at = "idle" /\ LoopOK(NoLoop, r.view, texts, pairs)
  BY NoLoopOK, Looping
<1>2. r.queue # <<>> => r.queue[1].kind = "pause"
  BY HeadOf
<1> HIDE DEF next
<1>3. QueueOK(next.queue, next.loop, next.view, texts, pairs)
  BY <1>1, <1>2 DEF QueueOK
<1> QED BY <1>1, <1>2, <1>3 DEF TabOK, next

(* What waits behind a save. *)
LEMMA BehindSave ==
    ASSUME NEW r, NEW texts, NEW pairs, TabOK(r, texts, pairs), r.loop.at = "save"
    PROVE  /\ IsTab(r) /\ MaybeOK(r.view, texts, pairs)
           /\ \A i \in DOMAIN r.queue : CandOK(r.queue[i], texts, pairs)
           /\ \A i \in DOMAIN r.queue : r.queue[i].kind = "pause"
           /\ r.loop.live => r.queue = <<>>
           /\ r.loop \in Loops /\ r.view # None
           /\ JobOK(r.loop.cand, texts, pairs)
<1>1. /\ IsTab(r) /\ MaybeOK(r.view, texts, pairs)
      /\ QueueOK(r.queue, r.loop, r.view, texts, pairs) /\ LoopOK(r.loop, r.view, texts, pairs)
  BY DEF TabOK
<1>2. r.queue # <<>> => r.queue[1].kind = "pause"
  BY <1>1 DEF QueueOK
<1>3. DOMAIN r.queue = 1..Len(r.queue) /\ Len(r.queue) \in Nat
  BY <1>1 DEF IsTab
<1>4. \A i \in DOMAIN r.queue : r.queue[i].kind = "pause"
  <2> TAKE i \in DOMAIN r.queue
  <2>1. i > 1 => r.queue[i].kind = "pause"
    BY <1>1 DEF QueueOK
  <2>2. r.queue # <<>>
    BY <1>3
  <2> QED BY <1>2, <1>3, <2>1, <2>2
<1>5. r.loop \in Loops
  BY <1>1, LoopsAre DEF IsTab
<1> QED BY <1>1, <1>4, <1>5 DEF QueueOK, LoopOK

(* A save of the loop ends with a conflict or a failure of the storage. *)
LEMMA LoopStoppedInv ==
    ASSUME Inv, NEW t \in Tabs, tab[t].loop.at = "save",
           NEW job, job = stored \/ job = tab[t].view, NEW error \in {"conflict", "storage"},
           tab' = [tab EXCEPT ![t] =
               [Stopped(Showing(tab[t], job, error)) EXCEPT !.loop = NoLoop]],
           UNCHANGED <<stored, content, call, edits, confirmed, replaced, seen>>, faults' \in Nat
    PROVE  Inv'
<1> DEFINE r == tab[t]
           showing == Showing(r, job, error)
           stopped == Stopped(showing)
           next == [stopped EXCEPT !.loop = NoLoop]
<1>1. /\ IsTab(r) /\ TabOK(r, seen, Reviewed)
      /\ MaybeJob(job) /\ MaybeOK(job, seen, Reviewed) /\ error \in TabErrors
  BY TabFacts DEF TabErrors
<1>2. IsTab(showing) /\ showing.view = job /\ showing.queue = r.queue
  BY <1>1, ShowingIs
<1> HIDE DEF showing
<1>3. /\ IsTab(stopped) /\ stopped.view = showing.view
      /\ DOMAIN stopped.queue = DOMAIN showing.queue
      /\ \A i \in DOMAIN showing.queue : /\ stopped.queue[i].kind = showing.queue[i].kind
                                         /\ stopped.queue[i].cand = showing.queue[i].cand
  BY <1>2, StoppedIs
<1> HIDE DEF stopped
<1>4. /\ IsTab(stopped) /\ stopped.view = job /\ DOMAIN stopped.queue = DOMAIN r.queue
      /\ \A i \in DOMAIN r.queue : /\ stopped.queue[i].kind = r.queue[i].kind
                                   /\ stopped.queue[i].cand = r.queue[i].cand
  BY <1>2, <1>3
<1>5. /\ \A i \in DOMAIN stopped.queue : CandOK(stopped.queue[i], seen, Reviewed)
      /\ \A i \in DOMAIN stopped.queue : stopped.queue[i].kind = "pause"
  BY <1>1, <1>4, BehindSave DEF CandOK
<1>6. /\ TabOK(next, seen, Reviewed) /\ next.view = job /\ next.queue = stopped.queue
      /\ stopped.queue # <<>> => next.queue[1].kind = "pause"
  BY <1>1, <1>4, <1>5, UnloopedOK, Looping, NoLoopOK
<1>7. tab' = [tab EXCEPT ![t] = next]
  BY DEF next, stopped, showing
<1> HIDE DEF next
<1>8. Tabs = {t} => OneTabOK(next, stored, Reviewed)
  BY <1>6, TabFacts, OneTabKept
<1> QED BY <1>6, <1>7, <1>8, QuietStepInv

(* What a loop does once its save is stored and shown. *)
GoneOn(r) == [r EXCEPT !.at = r.then, !.cand = None]

(* A loop that has saved is as good as its save. *)
LEMMA GoneOnOK ==
    ASSUME NEW r, NEW texts, NEW pairs, TabOK(r, texts, pairs), r.loop.at = "save", r.loop.live,
           r.loop.then # "idle"
    PROVE  /\ GoneOn(r.loop) \in Loops
           /\ GoneOn(r.loop).at = r.loop.then /\ GoneOn(r.loop).key = r.loop.key
           /\ LoopOK(GoneOn(r.loop), r.loop.cand, texts, pairs)
<1> DEFINE loop == GoneOn(r.loop)
           cand == r.loop.cand
<1>1. r.loop \in Loops /\ LoopOK(r.loop, r.view, texts, pairs) /\ JobOK(cand, texts, pairs)
  BY BehindSave DEF TabOK
<1>2. r.loop.then \in {"next", "sent", "wait"}
  BY <1>1 DEF Loops
<1>3. /\ loop \in Loops /\ loop.at = r.loop.then /\ loop.live /\ loop.kind = r.loop.kind
      /\ loop.key = r.loop.key
  BY <1>1, <1>2 DEF Loops, GoneOn
<1>4. /\ r.loop.then = "sent" => ToSend(r.loop, cand)
      /\ r.loop.then \in {"next", "wait"} /\ r.loop.kind # "apply" => Quiet(cand)
  BY <1>1 DEF LoopOK
<1>5. cand # None
  BY <1>1, JobsAre DEF JobOK
<1> HIDE DEF loop, cand
<1>6. LoopOK(loop, cand, texts, pairs)
  BY <1>2, <1>3, <1>4, <1>5 DEF LoopOK, ToSend
<1> QED BY <1>3, <1>6 DEF loop, cand

(* A tab that shows another job, with another loop and nothing queued. *)
LEMMA ShownLoopOK ==
    ASSUME NEW r, IsTab(r), r.queue = <<>>, NEW texts, NEW pairs,
           NEW job, JobOK(job, texts, pairs), NEW loop \in Loops, LoopOK(loop, job, texts, pairs)
    PROVE  /\ TabOK([Shown(r, job) EXCEPT !.loop = loop], texts, pairs)
           /\ [Shown(r, job) EXCEPT !.loop = loop].view = job
           /\ [Shown(r, job) EXCEPT !.loop = loop].loop = loop
           /\ [Shown(r, job) EXCEPT !.loop = loop].queue = <<>>
<1> DEFINE shown == Showing(r, job, "none")
           next == [shown EXCEPT !.loop = loop]
<1>1. Shown(r, job) = shown /\ MaybeJob(job) /\ "none" \in TabErrors
  BY DEF Shown, Showing, JobOK, MaybeJob, TabErrors
<1>2. IsTab(shown) /\ shown.view = job /\ shown.queue = <<>>
  BY <1>1, ShowingIs
<1> HIDE DEF shown
<1>3. IsTab(next) /\ next.view = job /\ next.queue = <<>> /\ next.loop = loop
  BY <1>2, Looping
<1> HIDE DEF next
<1>4. DOMAIN next.queue = {}
  BY <1>3
<1>5. TabOK(next, texts, pairs)
  BY <1>3, <1>4 DEF TabOK, QueueOK, MaybeOK
<1> QED BY <1>1, <1>3, <1>5 DEF next

(* The save of a loop is stored, refused or dropped. *)
LEMMA LoopSavedInv ==
    ASSUME Inv, NEW t \in Tabs, LoopSaved(t)
    PROVE  Inv'
<1> DEFINE r == tab[t]
           cand == r.loop.cand
           ended == [r EXCEPT !.loop = NoLoop]
           shown == Shown(r, cand)
           done == [shown EXCEPT !.loop = NoLoop]
           on == [shown EXCEPT !.loop = GoneOn(r.loop)]
<1>1. r.loop.at = "save" /\ UNCHANGED <<content, edits, confirmed, replaced, seen>>
  BY DEF LoopSaved, history
<1>2. /\ IsTab(r) /\ TabOK(r, seen, Reviewed) /\ MaybeOK(r.view, seen, Reviewed)
      /\ \A i \in DOMAIN r.queue : CandOK(r.queue[i], seen, Reviewed)
      /\ \A i \in DOMAIN r.queue : r.queue[i].kind = "pause"
      /\ (r.loop.live => r.queue = <<>>) /\ r.loop \in Loops /\ r.view # None
      /\ JobOK(cand, seen, Reviewed) /\ LoopOK(r.loop, r.view, seen, Reviewed)
  BY <1>1, TabFacts, BehindSave DEF TabOK
<1>3. /\ TabOK(ended, seen, Reviewed) /\ ended.view = r.view
      /\ ended.queue # <<>> => ended.queue[1].kind = "pause"
  BY <1>2, UnloopedOK, Looping, NoLoopOK
<1>4. /\ UNCHANGED faults => faults' \in Nat
      /\ Tabs = {t} => OneTabOK(r, stored, Reviewed)
  BY TabFacts
<1>5. CanSave(r, cand) => stored # None /\ cand.rev = stored.rev + 1
  BY DEF CanSave, Follows, RevisionsMatch
<1> HIDE DEF ended, cand
<1>6. ASSUME tab' = [tab EXCEPT ![t] = ended], UNCHANGED <<stored, call, faults>>
      PROVE  Inv'
  <2>1. Tabs = {t} => OneTabOK(ended, stored, Reviewed)
    BY <1>3, <1>4, OneTabKept
  <2> QED BY <1>1, <1>3, <1>4, <1>6, <2>1, QuietStepInv
<1>7. ASSUME ~r.loop.live, CanSave(r, cand), stored' = cand,
             tab' = [tab EXCEPT ![t] = ended], UNCHANGED <<call, faults>>
      PROVE  Inv'
  <2>1. r.view.stage = "apply"
    BY <1>1, <1>2, <1>7 DEF LoopOK
  <2>2. OneTabOK(ended, stored', Reviewed)
    BY <1>3, <2>1 DEF OneTabOK
  <2> QED BY <1>1, <1>2, <1>3, <1>4, <1>5, <1>7, <2>2, QuietStepInv
<1>8. ASSUME r.loop.live, CanSave(r, cand), stored' = cand,
             tab' = [tab EXCEPT ![t] = done], UNCHANGED <<call, faults>>
      PROVE  Inv'
  <2>1. /\ TabOK(done, seen, Reviewed) /\ done.view = cand /\ done.queue = <<>>
    BY <1>2, <1>8, NoLoopOK, ShownLoopOK
  <2> HIDE DEF done
  <2>2. OneTabOK(done, stored', Reviewed)
    BY <1>8, <2>1 DEF OneTabOK
  <2> QED BY <1>1, <1>2, <1>4, <1>5, <1>8, <2>1, <2>2, QuietStepInv
<1>9. ASSUME r.loop.live, r.loop.then # "idle", CanSave(r, cand), stored' = cand,
             tab' = [tab EXCEPT ![t] = on], UNCHANGED faults,
             IF r.loop.then = "sent" THEN Request(t, shown) ELSE UNCHANGED call
      PROVE  Inv'
  <2>1. /\ GoneOn(r.loop) \in Loops /\ LoopOK(GoneOn(r.loop), cand, seen, Reviewed)
        /\ GoneOn(r.loop).at = r.loop.then /\ GoneOn(r.loop).key = r.loop.key
    BY <1>1, <1>2, <1>9, GoneOnOK DEF cand
  <2>2. /\ TabOK(on, seen, Reviewed) /\ on.view = cand /\ on.queue = <<>>
        /\ on.loop = GoneOn(r.loop)
    BY <1>2, <1>9, <2>1, ShownLoopOK
  <2>3. shown.view = cand /\ shown.loop = r.loop
    BY <1>2 DEF Shown, IsTab
  <2> HIDE DEF on, shown
  <2>4. OneTabOK(on, stored', Reviewed)
    BY <1>9, <2>2 DEF OneTabOK
  <2>5. ASSUME r.loop.then = "sent", Request(t, shown)
        PROVE  CallsOK(call', tab', seen, Reviewed)
    <3>1. ToSend(r.loop, cand)
      BY <1>1, <1>2, <2>5 DEF LoopOK, cand
    <3>2. /\ shown.loop.key \in DOMAIN shown.view.items
          /\ shown.loop.kind \in {"apply", "recover"} =>
                shown.view.items[shown.loop.key].prior # None
          /\ JobOK(shown.view, seen, Reviewed) /\ shown.loop \in Loops
          /\ on.loop.at = "sent" /\ on.loop.key = shown.loop.key
      BY <1>2, <2>1, <2>2, <2>3, <2>5, <3>1 DEF ToSend
    <3>3. tab[t].loop.at # "sent"
      BY <1>1
    <3> HIDE DEF r
    <3> QED BY <1>9, <2>5, <3>2, <3>3, RequestSent
  <2>6. Reviewed' = Reviewed /\ confirmed' \subseteq Keys \X Texts
    BY <1>1 DEF Reviewed, Inv, TypeOK
  <2>7. CallsOK(call', tab', seen, Reviewed)
    BY <1>1, <1>9, <2>5, <2>6, CallsKept
  <2> QED BY <1>1, <1>2, <1>4, <1>5, <1>9, <2>2, <2>4, <2>6, <2>7, TabStepInv
<1>10. ASSUME tab' = [tab EXCEPT ![t] = [Conflicted(r) EXCEPT !.loop = NoLoop]],
              UNCHANGED <<stored, call, faults>>
       PROVE  Inv'
  <2>1. tab' = [tab EXCEPT ![t] =
               [Stopped(Showing(tab[t], stored, "conflict")) EXCEPT !.loop = NoLoop]]
    BY <1>2, <1>10, Errors
  <2> QED BY <1>1, <1>4, <1>10, <2>1, LoopStoppedInv
<1>11. ASSUME tab' = [tab EXCEPT ![t] = [StorageFailed(r) EXCEPT !.loop = NoLoop]],
              CanFail(r, cand), UNCHANGED <<stored, call>>
       PROVE  Inv'
  <2>1. tab' = [tab EXCEPT ![t] =
               [Stopped(Showing(tab[t], tab[t].view, "storage")) EXCEPT !.loop = NoLoop]]
    BY <1>2, <1>11, Errors
  <2>2. faults' \in Nat
    BY <1>11, FaultsCounted DEF CanFail
  <2> QED BY <1>1, <1>11, <2>1, <2>2, LoopStoppedInv
<1>12. \/ tab' = [tab EXCEPT ![t] = ended] /\ UNCHANGED <<stored, call, faults>>
       \/ /\ CanSave(r, cand) /\ stored' = cand /\ UNCHANGED faults
          /\ tab' = [tab EXCEPT ![t] = IF ~r.loop.live THEN ended
                                       ELSE IF r.loop.then = "idle" THEN done ELSE on]
          /\ IF r.loop.live /\ r.loop.then = "sent" THEN Request(t, shown) ELSE UNCHANGED call
       \/ /\ tab' = [tab EXCEPT ![t] = [Conflicted(r) EXCEPT !.loop = NoLoop]]
          /\ UNCHANGED <<stored, call, faults>>
       \/ /\ tab' = [tab EXCEPT ![t] = [StorageFailed(r) EXCEPT !.loop = NoLoop]]
          /\ CanFail(r, cand) /\ UNCHANGED <<stored, call>>
  BY DEF LoopSaved, SetTab, GoneOn, ended, cand
<1> HIDE DEF r, done, on, shown
<1> QED BY <1>6, <1>7, <1>8, <1>9, <1>10, <1>11, <1>12

(* The job after a reply. *)
LEMMA AfterReplyOK ==
    ASSUME NEW r, NEW texts, NEW pairs, JobOK(r.view, texts, pairs), r.loop \in Loops,
           r.loop.kind # "apply" => OnlyRecovering(r.view, r.loop.key),
           r.loop.kind = "rescan" => Quiet(r.view),
           NEW reply \in Replies,
           reply.status \in {"updated", "already-applied"} =>
               reply.observed \in texts[r.loop.key]
    PROVE  /\ JobOK(AfterReply(r, reply), texts, pairs)
           /\ r.loop.kind # "apply" => Quiet(AfterReply(r, reply))
<1> DEFINE job == r.view
           key == r.loop.key
           stops == \/ reply.status = "401"
                    \/ r.loop.kind = "rescan" /\ reply.status = "permission"
           retryable == reply.status \in {"network", "failed"}
           failed == IF reply.status = "400" THEN [reply EXCEPT !.status = "failed"] ELSE reply
<1>1. CASE stops
  <2>1. AfterReply(r, reply) = CredentialInterrupted(job)
    BY <1>1 DEF AfterReply
  <2> QED BY <2>1, CredentialInterruptedOK
<1>2. CASE ~stops /\ r.loop.kind = "apply"
  <2>1. AfterReply(r, reply) = ApplyItemFinished(job, key, reply)
    BY <1>2 DEF AfterReply
  <2> QED BY <1>2, <2>1, ApplyItemFinishedOK
<1>3. CASE ~stops /\ r.loop.kind = "recover"
  <2>1. AfterReply(r, reply) = RecoveryItemFinished(job, key, failed)
    BY <1>3 DEF AfterReply
  <2> HIDE DEF failed
  <2>2. /\ JobOK(RecoveryItemFinished(job, key, failed), texts, pairs)
        /\ Quiet(RecoveryItemFinished(job, key, failed))
    BY <1>3, RecoveryItemFinishedOK
  <2> QED BY <2>1, <2>2
<1>4. CASE ~stops /\ r.loop.kind = "preview"
  <2>1. CASE reply.status \in {"recoverable", "already-recovered", "conflict"}
    <3>1. AfterReply(r, reply) = RecoveryPreviewFinished(job, key, reply.status)
      BY <1>4, <2>1 DEF AfterReply
    <3> QED BY <1>4, <2>1, <3>1, RecoveryPreviewFinishedOK
  <2>2. CASE reply.status \notin {"recoverable", "already-recovered", "conflict"}
    <3> DEFINE authorization == reply.status = "permission"
    <3>1. AfterReply(r, reply) = RecoveryPreviewFailed(job, key, retryable, authorization)
      BY <1>4, <2>2 DEF AfterReply
    <3> HIDE DEF retryable, authorization
    <3>2. /\ JobOK(RecoveryPreviewFailed(job, key, retryable, authorization), texts, pairs)
          /\ Quiet(RecoveryPreviewFailed(job, key, retryable, authorization))
      BY <1>4, RecoveryPreviewFailedOK
    <3> QED BY <3>1, <3>2
  <2> QED BY <2>1, <2>2
<1>5. CASE ~stops /\ r.loop.kind = "rescan"
  <2>1. CASE reply.status = "429"
    <3>1. AfterReply(r, reply) = RetryAtSet(job)
      BY <1>5, <2>1 DEF AfterReply
    <3> QED BY <1>5, <3>1, RetryAtOK DEF Quiet
  <2>2. CASE reply.status = "scanned"
    <3>1. AfterReply(r, reply) = StaleItemRescanned(job, key, reply.observed)
      BY <1>5, <2>2 DEF AfterReply
    <3>2. reply.observed \in Texts \cup {None}
      BY DEF Replies
    <3> QED BY <1>5, <3>1, <3>2, StaleItemRescannedOK
  <2>3. CASE reply.status \notin {"429", "scanned"}
    <3>1. AfterReply(r, reply) = StaleRescanFailed(job)
      BY <1>5, <2>3 DEF AfterReply
    <3> QED BY <1>5, <3>1, StaleRescanOK DEF Quiet
  <2> QED BY <2>1, <2>2, <2>3
<1>6. r.loop.kind \in {"apply", "rescan", "preview", "recover"}
  BY DEF Loops
<1> HIDE DEF stops
<1> QED BY <1>1, <1>2, <1>3, <1>4, <1>5, <1>6

(* The answer to a request is saved. *)
LEMMA AnsweredInv ==
    ASSUME Inv, NEW t \in Tabs, tab[t].loop.at = "sent", NEW reply \in Replies,
           reply.status \in {"updated", "already-applied"} =>
               reply.observed \in seen[tab[t].loop.key],
           Answered(t, tab[t], reply), CallsOK(call', tab', seen, Reviewed),
           UNCHANGED <<stored, content, edits, confirmed, replaced, seen>>, faults' \in Nat
    PROVE  Inv'
<1> DEFINE r == tab[t]
           after == AfterReply(r, reply)
           cand == WithNotices(after, reply)
           then == IF reply.throttled THEN "wait" ELSE IF GoesOn(r, reply) THEN "next" ELSE "idle"
<1>1. SetTab(t, [r EXCEPT !.loop = Saving(r.loop, cand, then)])
  BY DEF Answered
<1>2. /\ r.queue = <<>> /\ r.loop \in Loops /\ r.loop.live /\ r.view # None
      /\ JobOK(r.view, seen, Reviewed) /\ LoopOK(r.loop, r.view, seen, Reviewed)
  BY LoopFacts
<1>3. /\ r.loop.kind # "apply" => OnlyRecovering(r.view, r.loop.key)
      /\ r.loop.kind = "rescan" => Quiet(r.view)
  BY <1>2 DEF LoopOK
<1>4. JobOK(after, seen, Reviewed) /\ (r.loop.kind # "apply" => Quiet(after))
  BY <1>2, <1>3, AfterReplyOK
<1> HIDE DEF after
<1>5. JobOK(cand, seen, Reviewed) /\ (r.loop.kind # "apply" => Quiet(cand))
  BY <1>4, RetryAtOK DEF WithNotices, Quiet
<1>6. then \in Thens /\ then # "sent"
  BY DEF Thens
<1> HIDE DEF r, cand, then
<1> QED BY <1>1, <1>2, <1>5, <1>6, SavingInv DEF r

(* A free slot. *)
LEMMA NoCallOK ==
    ASSUME NEW tabs, NEW texts, NEW pairs
    PROVE  RequestOK(NoCall, tabs, texts, pairs) /\ NoCall \in Requests /\ NoCall.owner = None
BY DEF RequestOK, NoCall, Requests

(* What a tab no longer waits for, and what the others wait for. *)
LEMMA CallsWithout ==
    ASSUME Inv, NEW t \in Tabs, NEW r, tab' = [tab EXCEPT ![t] = r],
           call' \in [Calls -> Requests],
           \A c \in Calls :
               \/ call'[c] = call[c] /\ call[c].owner # t
               \/ call'[c] = NoCall
               \/ call'[c] = [call[c] EXCEPT !.owner = None]
    PROVE  CallsOK(call', tab', seen, Reviewed)
<1>1. /\ call \in [Calls -> Requests] /\ \A c \in Calls : RequestOK(call[c], tab, seen, Reviewed)
      /\ \A c, d \in Calls : call[c].owner # None /\ call[c].owner = call[d].owner => c = d
  BY DEF Inv, TypeOK
<1>2. \A u \in Tabs : u # t => tab'[u] = tab[u]
  BY DEF Inv, TypeOK
<1>3. ASSUME NEW c \in Calls
      PROVE  /\ RequestOK(call'[c], tab', seen, Reviewed)
             /\ call'[c].owner # None => call'[c].owner = call[c].owner
  <2>1. RequestOK(call[c], tab, seen, Reviewed) /\ call[c] \in Requests
    BY <1>1
  <2>2. call[c].owner \in Tabs \cup {None}
    BY <2>1 DEF Requests
  <2>3. CASE call'[c] = call[c] /\ call[c].owner # t
    BY <1>2, <2>1, <2>2, <2>3 DEF RequestOK
  <2>4. CASE call'[c] = NoCall
    BY <2>4, NoCallOK
  <2>5. CASE call'[c] = [call[c] EXCEPT !.owner = None]
    <3> DEFINE q == [call[c] EXCEPT !.owner = None]
    <3>1. /\ q \in Requests /\ q.owner = None /\ q.phase = call[c].phase /\ q.key = call[c].key
          /\ q.text = call[c].text /\ q.kind = call[c].kind /\ q.update = call[c].update
          /\ q.reply = call[c].reply
      BY <2>1 DEF Requests
    <3> HIDE DEF q
    <3>2. RequestOK(q, tab', seen, Reviewed)
      BY <2>1, <3>1 DEF RequestOK
    <3> QED BY <2>5, <3>1, <3>2 DEF q
  <2> QED BY <2>3, <2>4, <2>5
<1>4. \A c, d \in Calls : call'[c].owner # None /\ call'[c].owner = call'[d].owner => c = d
  BY <1>1, <1>3
<1> QED BY <1>3, <1>4 DEF CallsOK

(* A tab abandons its request. *)
LEMMA AbandonedOK ==
    ASSUME Inv, NEW t \in Tabs, NEW r, tab' = [tab EXCEPT ![t] = r], call' = Abandoned(t)
    PROVE  CallsOK(call', tab', seen, Reviewed)
<1>1. call \in [Calls -> Requests]
  BY DEF Inv, TypeOK
<1>2. ASSUME NEW c \in Calls
      PROVE  /\ call'[c] \in Requests
             /\ \/ call'[c] = call[c] /\ call[c].owner # t
                \/ call'[c] = NoCall
                \/ call'[c] = [call[c] EXCEPT !.owner = None]
  <2>1. call'[c] = IF call[c].owner # t THEN call[c]
                   ELSE IF call[c].phase = "done" THEN NoCall
                   ELSE [call[c] EXCEPT !.owner = None]
    BY DEF Abandoned
  <2>2. NoCall \in Requests
    BY DEF NoCall, Requests
  <2>3. [call[c] EXCEPT !.owner = None] \in Requests
    BY <1>1 DEF Requests
  <2> QED BY <1>1, <2>1, <2>2, <2>3
<1>3. call' = [c \in Calls |-> call'[c]]
  BY DEF Abandoned
<1>4. call' \in [Calls -> Requests]
  BY <1>2, <1>3
<1> QED BY <1>2, <1>4, CallsWithout

(* A tab receives the reply to its request. *)
LEMMA ReplyInv ==
    ASSUME Inv, NEW t \in Tabs, NEW c \in Calls, Reply(t, c)
    PROVE  Inv'
<1> DEFINE reply == call[c].reply
           r == [tab[t] EXCEPT !.loop = Saving(tab[t].loop,
                    WithNotices(AfterReply(tab[t], reply), reply),
                    IF reply.throttled THEN "wait"
                    ELSE IF GoesOn(tab[t], reply) THEN "next" ELSE "idle")]
<1>1. /\ call[c].owner = t /\ call[c].phase = "done" /\ Answered(t, tab[t], reply)
      /\ call' = [call EXCEPT ![c] = NoCall]
      /\ UNCHANGED <<stored, content, edits, faults, confirmed, replaced, seen>>
  BY DEF Reply, history
<1>2. /\ call \in [Calls -> Requests] /\ RequestOK(call[c], tab, seen, Reviewed)
      /\ \A d, e \in Calls : call[d].owner # None /\ call[d].owner = call[e].owner => d = e
  BY DEF Inv, TypeOK
<1>3. t # None
  BY TabsAssumption
<1>4. /\ tab[t].loop.at = "sent" /\ tab[t].loop.key = call[c].key /\ reply \in Replies
      /\ reply.status \in {"updated", "already-applied"} =>
            reply.observed \in seen[tab[t].loop.key]
  BY <1>1, <1>2, <1>3 DEF RequestOK
<1>5. tab' = [tab EXCEPT ![t] = r]
  BY <1>1 DEF Answered, SetTab
<1> HIDE DEF r, reply
<1>6. call' \in [Calls -> Requests]
  BY <1>1, <1>2, NoCallOK
<1>7. \A d \in Calls : \/ call'[d] = call[d] /\ call[d].owner # t
                       \/ call'[d] = NoCall
  BY <1>1, <1>2, <1>3
<1>8. CallsOK(call', tab', seen, Reviewed)
  BY <1>5, <1>6, <1>7, CallsWithout
<1>9. faults' \in Nat
  BY <1>1, TabFacts
<1> QED BY <1>1, <1>4, <1>8, <1>9, AnsweredInv

(* The network fails while a tab waits for a reply. *)
LEMMA NetworkFailsInv ==
    ASSUME Inv, NEW t \in Tabs, NetworkFails(t)
    PROVE  Inv'
<1> DEFINE reply == Answer("network", None)
           r == [tab[t] EXCEPT !.loop = Saving(tab[t].loop,
                    WithNotices(AfterReply(tab[t], reply), reply),
                    IF reply.throttled THEN "wait"
                    ELSE IF GoesOn(tab[t], reply) THEN "next" ELSE "idle")]
<1>1. /\ tab[t].loop.at = "sent" /\ Fault("network") /\ Answered(t, tab[t], reply)
      /\ call' = Abandoned(t)
      /\ UNCHANGED <<stored, content, edits, confirmed, replaced, seen>>
  BY DEF NetworkFails, history
<1>2. reply \in Replies /\ reply.status = "network"
  BY DEF Answer, Replies
<1>3. tab' = [tab EXCEPT ![t] = r]
  BY <1>1 DEF Answered, SetTab
<1> HIDE DEF r, reply
<1>4. CallsOK(call', tab', seen, Reviewed)
  BY <1>1, <1>3, AbandonedOK
<1>5. faults' \in Nat
  BY <1>1, FaultsCounted
<1> QED BY <1>1, <1>2, <1>4, <1>5, AnsweredInv

-----------------------------------------------------------------------------
(* The steps of a user *)

(* A new mutation. *)
LEMMA MutationIs ==
    ASSUME NEW kind, NEW arg, arg \in {None} \cup Keys \cup SUBSET Keys,
           kind \in {"pause", "interrupt", "include", "exclude", "prepare", "retry",
                     "rescan", "preview", "delete-snapshots"}
    PROVE  /\ Mutation(kind, arg) \in Mutations /\ Mutation(kind, arg).kind = kind
           /\ Mutation(kind, arg).arg = arg /\ Mutation(kind, arg).cand = None
BY DEF Mutation, Mutations

(* A tab stops what it is doing, and abandons its request. *)
LEMMA AbandonStepInv ==
    ASSUME Inv, NEW t \in Tabs, NEW r, tab' = [tab EXCEPT ![t] = r], call' = Abandoned(t),
           UNCHANGED <<stored, content, edits, faults, confirmed, replaced, seen>>,
           TabOK(r, seen, Reviewed), r.view \in {None, stored, tab[t].view},
           r.queue # <<>> => r.queue[1].kind # "prepare"
    PROVE  Inv'
<1>1. CallsOK(call', tab', seen, Reviewed)
  BY AbandonedOK
<1>2. Reviewed' = Reviewed /\ confirmed' \subseteq Keys \X Texts
  BY DEF Reviewed, Inv, TypeOK
<1>3. Tabs = {t} => OneTabOK(r, stored, Reviewed)
  BY TabFacts, OneTabKept
<1>4. faults' \in Nat
  BY TabFacts
<1> QED BY <1>1, <1>2, <1>3, <1>4, TabStepInv

(* A user pauses the run. *)
LEMMA PauseInv ==
    ASSUME Inv, NEW t \in Tabs, Pause(t)
    PROVE  Inv'
<1> DEFINE r == tab[t]
           stopped == Stopped(r)
           m == Mutation("pause", None)
           next == Enqueued(stopped, m)
<1>1. /\ r.view # None /\ r.view.stage = "apply" /\ Len(r.queue) < 2
      /\ tab' = [tab EXCEPT ![t] = next] /\ call' = Abandoned(t)
      /\ UNCHANGED <<stored, content, edits, faults, confirmed, replaced, seen>>
  BY DEF Pause, Usable, Offered, SetTab, history
<1>2. IsTab(r) /\ TabOK(r, seen, Reviewed) /\ JobOK(r.view, seen, Reviewed)
  BY <1>1, TabFacts DEF MaybeOK
<1>3. /\ TabOK(stopped, seen, Reviewed)
      /\ \/ stopped.loop.at = "idle"
         \/ stopped.loop.at = "save" /\ ~stopped.loop.live
  BY <1>1, <1>2, StoppedOK
<1>4. /\ stopped.view = r.view /\ Len(stopped.queue) = Len(r.queue)
      /\ stopped.queue = <<>> <=> r.queue = <<>>
  BY <1>2, StoppedIs
<1>5. r.queue # <<>> => stopped.queue[1].kind # "prepare"
  <2>1. r.queue # <<>> => r.queue[1].kind # "prepare"
    BY <1>1, <1>2 DEF TabOK, QueueOK, StagesOf, OfVisible
  <2>2. r.queue # <<>> => 1 \in DOMAIN r.queue
    BY <1>2, HeadOf
  <2>3. \A i \in DOMAIN r.queue : stopped.queue[i].kind = r.queue[i].kind
    BY <1>2, StoppedIs
  <2> QED BY <2>1, <2>2, <2>3
<1>6. m \in Mutations /\ m.kind = "pause" /\ m.cand = None
  BY MutationIs
<1> HIDE DEF stopped, m
<1>7. CandidateOK(m, stopped.view, seen, Reviewed)
  BY <1>2, <1>4, <1>6, PauseCandidate
<1>8. /\ TabOK(next, seen, Reviewed) /\ next.view = stopped.view
      /\ next.queue[1].kind = IF stopped.queue = <<>> THEN m.kind ELSE stopped.queue[1].kind
  BY <1>1, <1>3, <1>4, <1>6, <1>7, EnqueuedOK
<1> HIDE DEF next
<1>9. next.queue[1].kind # "prepare"
  BY <1>4, <1>5, <1>6, <1>8
<1> QED BY <1>1, <1>4, <1>8, <1>9, AbandonStepInv

(* A tab that has just been opened. *)
LEMMA FreshOK ==
    ASSUME NEW job, MaybeJob(job), NEW texts, NEW pairs, MaybeOK(job, texts, pairs)
    PROVE  /\ TabOK(Fresh(job), texts, pairs)
           /\ Fresh(job).view = job /\ Fresh(job).queue = <<>> /\ Fresh(job).loop = NoLoop
<1> DEFINE r == Fresh(job)
<1>1. /\ r.view = job /\ r.error = "none" /\ r.barrier = TRUE /\ r.queue = <<>>
      /\ r.loop = NoLoop
  BY DEF Fresh
<1>2. r \in TabStates
  <2>1. job \in AllJobs \cup {None} /\ NoLoop \in Loops /\ <<>> \in Seq(Mutations)
    BY JobsAre, NoLoopOK
  <2> QED BY <2>1 DEF Fresh, TabStates
<1> HIDE DEF r
<1>3. IsTab(r)
  BY <1>1, <1>2, TabsAre
<1>4. DOMAIN r.queue = {}
  BY <1>1
<1>5. QueueOK(r.queue, r.loop, r.view, texts, pairs)
  BY <1>1, <1>4 DEF QueueOK
<1> QED BY <1>1, <1>3, <1>5, NoLoopOK DEF r, TabOK

(* A tab is closed and opened again. *)
LEMMA ReloadInv ==
    ASSUME Inv, NEW t \in Tabs, Reload(t)
    PROVE  Inv'
<1> DEFINE m == Mutation("interrupt", None)
           none == Fresh(None)
           interrupting == Enqueued(none, m)
           fresh == Fresh(stored)
<1>1. /\ \/ tab' = [tab EXCEPT ![t] = interrupting]
         \/ tab' = [tab EXCEPT ![t] = fresh]
      /\ call' = Abandoned(t)
      /\ UNCHANGED <<stored, content, edits, faults, confirmed, replaced, seen>>
  BY DEF Reload, SetTab, history
<1>2. MaybeJob(stored) /\ MaybeOK(stored, seen, Reviewed)
  BY TabFacts
<1>3. TabOK(fresh, seen, Reviewed) /\ fresh.view = stored /\ fresh.queue = <<>>
  BY <1>2, FreshOK
<1> HIDE DEF fresh
<1>4. /\ TabOK(none, seen, Reviewed) /\ none.view = None /\ none.queue = <<>>
      /\ none.loop.at = "idle"
  BY FreshOK, NoLoopOK DEF MaybeJob, MaybeOK
<1>5. m \in Mutations /\ m.kind = "interrupt" /\ m.cand = None
  BY MutationIs
<1> HIDE DEF none, m
<1>6. Len(none.queue) < 2
  BY <1>4
<1>7. /\ TabOK(interrupting, seen, Reviewed) /\ interrupting.view = None
      /\ interrupting.queue[1].kind = "interrupt"
  BY <1>4, <1>5, <1>6, EnqueuedOK DEF OfVisible
<1> HIDE DEF interrupting
<1> QED BY <1>1, <1>3, <1>7, AbandonStepInv

(* A user deletes the job. *)
LEMMA DeleteJobInv ==
    ASSUME Inv, NEW t \in Tabs, DeleteJob(t)
    PROVE  Inv'
<1> DEFINE r == tab[t]
           stopped == Stopped(r)
           next == Showing(stopped, None, "none")
<1>1. /\ r.loop.at = "idle" /\ r.queue = <<>> /\ stored' = None
      /\ tab' = [tab EXCEPT ![t] = next]
      /\ UNCHANGED <<content, call, edits, faults, confirmed, replaced, seen>>
  BY DEF DeleteJob, Usable, Offered, IsIdle, SetTab, Showing, history
<1>2. IsTab(r)
  BY TabFacts
<1>3. /\ IsTab(stopped) /\ stopped.queue = <<>> /\ stopped.loop = NoLoop
  BY <1>1, <1>2, StoppedIs
<1> HIDE DEF stopped
<1>4. /\ IsTab(next) /\ next.view = None /\ next.queue = <<>> /\ next.loop = NoLoop
  BY <1>3, ShowingIs DEF MaybeJob, TabErrors
<1> HIDE DEF next
<1>5. DOMAIN next.queue = {}
  BY <1>4
<1>6. TabOK(next, seen, Reviewed)
  BY <1>4, <1>5, NoLoopOK DEF TabOK, QueueOK, MaybeOK
<1>7. OneTabOK(next, stored', Reviewed)
  BY <1>1, <1>4 DEF OneTabOK
<1>8. faults' \in Nat
  BY <1>1, TabFacts
<1> QED BY <1>1, <1>6, <1>7, <1>8, QuietStepInv

(* What a control is used with. *)
LEMMA ArgumentsAre ==
    ASSUME NEW job, IsJob(job), NEW control, NEW arg \in Arguments(job, control)
    PROVE  arg \in {None} \cup Keys \cup SUBSET Keys
<1>1. DOMAIN job.items \subseteq Keys
  BY DEF IsJob
<1>2. Selection(job) \subseteq DOMAIN job.items
  BY DEF Selection
<1>3. KeysWhere(job, HasSuccessfulApply) \subseteq DOMAIN job.items
  BY DEF KeysWhere
<1>4. CASE control \in {"include", "exclude"}
  BY <1>1, <1>2, <1>4 DEF Arguments
<1>5. CASE control = "prepare"
  BY <1>1, <1>2, <1>5 DEF Arguments
<1>6. CASE control = "preview"
  BY <1>1, <1>3, <1>6 DEF Arguments
<1>7. CASE control \notin {"include", "exclude", "prepare", "preview"}
  BY <1>7 DEF Arguments
<1> QED BY <1>4, <1>5, <1>6, <1>7

(* What a user is offered, other than to pause or to run, and what it makes. *)
LEMMA OfferedOK ==
    ASSUME NEW r, NEW texts, NEW pairs, TabOK(r, texts, pairs), NEW control,
           control \in {"include", "exclude", "prepare", "retry", "rescan", "preview",
                        "delete-snapshots"},
           Offered(r, control), NEW arg
    PROVE  /\ r.view # None /\ JobOK(r.view, texts, pairs)
           /\ r.loop.at = "idle" /\ r.queue = <<>>
           /\ r.view.stage \in StagesOf(control)
           /\ control \in OfVisible =>
                 CandidateOK(Mutation(control, arg), r.view, texts, pairs)
<1> DEFINE job == r.view
           m == Mutation(control, arg)
           next == Candidate(m, job)
<1>1. job # None /\ JobOK(job, texts, pairs)
  BY DEF Offered, TabOK, MaybeOK
<1>2. r.loop.at = "idle" /\ r.queue = <<>>
  BY DEF Offered, IsIdle
<1>3. job.stage \in StagesOf(control)
  <2>1. CASE control \in {"include", "exclude", "prepare"}
    BY <2>1 DEF Offered, StagesOf, OfVisible
  <2>2. CASE control \in {"retry", "rescan"}
    BY <2>2 DEF Offered, StagesOf, OfVisible
  <2>3. CASE control \in {"preview", "delete-snapshots"}
    BY <2>3 DEF Offered, StagesOf, OfVisible
  <2> QED BY <2>1, <2>2, <2>3
<1>4. m.kind = control /\ m.arg = arg
  BY DEF Mutation
<1> HIDE DEF m
<1>5. ASSUME control = "retry" PROVE CandidateOK(m, job, texts, pairs)
  <2>1. next = RetryEligible(job)
    BY <1>4, <1>5 DEF Candidate
  <2>2. job.status # "running"
    BY <1>5 DEF Offered, IsFree
  <2>3. Quiet(job)
    BY <1>1, <2>2, StoppedIsQuiet
  <2> HIDE DEF job
  <2>4. JobOK(next, texts, pairs) /\ Quiet(next)
    BY <1>1, <2>1, <2>3, RetryEligibleOK
  <2> HIDE DEF next
  <2> QED BY <1>4, <1>5, <2>4 DEF CandidateOK, next
<1>6. ASSUME control = "rescan" PROVE CandidateOK(m, job, texts, pairs)
  <2>1. next = StaleRescanStarted(job)
    BY <1>4, <1>6 DEF Candidate
  <2> HIDE DEF job
  <2>2. JobOK(next, texts, pairs) /\ (next # job => Quiet(next))
    BY <1>1, <2>1, StaleRescanOK
  <2> HIDE DEF next
  <2> QED BY <1>4, <1>6, <2>2 DEF CandidateOK, next
<1>7. ASSUME control = "preview" PROVE CandidateOK(m, job, texts, pairs)
  <2>1. next = RecoveryPreviewRunStarted(job, arg)
    BY <1>4, <1>7 DEF Candidate
  <2> HIDE DEF job
  <2>2. JobOK(next, texts, pairs) /\ (next # job => Quiet(next))
    BY <1>1, <2>1, RecoveryRunOK
  <2> HIDE DEF next
  <2> QED BY <1>4, <1>7, <2>2 DEF CandidateOK, next
<1>8. ASSUME control = "delete-snapshots" PROVE CandidateOK(m, job, texts, pairs)
  <2>1. next = RecoverySnapshotsDeleted(job)
    BY <1>4, <1>8 DEF Candidate
  <2> HIDE DEF job
  <2>2. JobOK(next, texts, pairs) /\ (next # job => Quiet(next))
    BY <1>1, <2>1, RecoverySnapshotsDeletedOK
  <2> HIDE DEF next
  <2> QED BY <1>4, <1>8, <2>2 DEF CandidateOK, next
<1> QED BY <1>1, <1>2, <1>3, <1>5, <1>6, <1>7, <1>8 DEF OfVisible, m

(* A user asks for a mutation. *)
LEMMA MutateInv ==
    ASSUME Inv, NEW t \in Tabs, NEW control \in Controls, Mutate(t, control)
    PROVE  Inv'
<1> DEFINE r == tab[t]
           job == r.view
           pairs == {<<k, job.items[k].before>> : k \in Selection(job)}
<1>1. /\ control \in {"include", "exclude", "prepare", "retry", "rescan", "preview",
                      "delete-snapshots"}
      /\ Offered(r, control)
      /\ confirmed' = IF control # "prepare" THEN confirmed ELSE confirmed \cup pairs
      /\ UNCHANGED <<stored, content, call, edits, faults, replaced, seen>>
  BY DEF Mutate, Usable
<1>2. PICK arg \in Arguments(job, control) :
          tab' = [tab EXCEPT ![t] = Enqueued(r, Mutation(control, arg))]
  BY DEF Mutate, SetTab
<1> DEFINE m == Mutation(control, arg)
           next == Enqueued(r, m)
<1>3. TabOK(r, seen, Reviewed) /\ (Tabs = {t} => OneTabOK(r, stored, Reviewed))
  BY TabFacts
<1>4. /\ r.loop.at = "idle" /\ r.queue = <<>> /\ job # None /\ JobOK(job, seen, Reviewed)
      /\ job.stage \in StagesOf(control)
      /\ control \in OfVisible => CandidateOK(m, job, seen, Reviewed)
  BY <1>1, <1>3, OfferedOK
<1>5. m \in Mutations /\ m.kind = control /\ m.cand = None
  BY <1>1, <1>4, ArgumentsAre, MutationIs DEF JobOK
<1> HIDE DEF m
<1>6. Len(r.queue) < 2
  BY <1>4
<1>7. TabOK(next, seen, Reviewed) /\ next.view = job /\ next.queue[1].kind = control
  BY <1>3, <1>4, <1>5, <1>6, EnqueuedOK
<1>8. tab' = [tab EXCEPT ![t] = next]
  BY <1>2 DEF m
<1> HIDE DEF next
<1>9. confirmed' \subseteq Keys \X Texts /\ confirmed \subseteq confirmed'
  <2>1. \A k \in Selection(job) : k \in Keys /\ job.items[k].before \in Texts
    BY <1>4 DEF JobOK, IsJob, JobsOn, Items, Selection
  <2>2. confirmed \subseteq Keys \X Texts
    BY DEF Inv, TypeOK
  <2> QED BY <1>1, <2>1, <2>2
<1>10. Reviewed \subseteq Reviewed'
  BY <1>9 DEF Reviewed
<1>11. TabOK(next, seen, Reviewed')
  BY <1>7, <1>10, TabGrows
<1>12. ASSUME Tabs = {t} PROVE OneTabOK(next, stored', Reviewed')
  <2>1. /\ next.view # None /\ stored # None /\ next.view.stage = "review"
           /\ stored.stage = "review" => next.view = stored
    BY <1>3, <1>7, <1>12 DEF OneTabOK
  <2>2. ASSUME control = "prepare", stored # None, stored.stage = "review"
        PROVE  \A k \in DOMAIN stored.items :
                   stored.items[k].included => <<k, stored.items[k].before>> \in Reviewed'
    <3>1. job.stage = "review"
      BY <1>4, <2>2 DEF StagesOf, OfVisible
    <3>2. job = stored
      BY <1>4, <1>7, <2>1, <2>2, <3>1
    <3>3. Reviewed' = confirmed'
      BY <1>12 DEF Reviewed
    <3> QED BY <1>1, <2>2, <3>2, <3>3 DEF Selection
  <2> QED BY <1>1, <1>7, <2>1, <2>2 DEF OneTabOK
<1>13. faults' \in Nat
  BY <1>1, TabFacts
<1>14. CallsOK(call', tab', seen, Reviewed')
  BY <1>1, <1>4, <1>8, <1>10, CallsKept
<1> QED BY <1>1, <1>7, <1>8, <1>9, <1>10, <1>11, <1>12, <1>13, <1>14, TabStepInv

(* A user starts or resumes an apply, or starts a recovery. *)
LEMMA RunInv ==
    ASSUME Inv, NEW t \in Tabs, NEW control \in Controls, Run(t, control)
    PROVE  Inv'
<1> DEFINE r == tab[t]
           keys == InOrder(KeysWhere(r.view, Recoverable))
           recover == Loop("recover", keys)
           apply == Loop("apply", <<>>)
           loop == IF control = "recover" THEN recover ELSE apply
           next == [r EXCEPT !.loop = loop]
<1>1. /\ control \in {"start", "resume", "recover"} /\ Offered(r, control)
      /\ tab' = [tab EXCEPT ![t] = next]
      /\ UNCHANGED <<stored, content, call, edits, faults, confirmed, replaced, seen>>
  BY DEF Run, Usable, SetTab, history
<1>2. /\ IsTab(r) /\ TabOK(r, seen, Reviewed) /\ MaybeOK(r.view, seen, Reviewed)
      /\ Tabs = {t} => OneTabOK(r, stored, Reviewed)
  BY TabFacts
<1>3. /\ r.view # None /\ r.loop.at = "idle" /\ r.view.status # "running"
      /\ r.queue = <<>> \/ r.view.stage = "apply"
  <2>1. CASE control = "start"
    BY <1>1, <2>1 DEF Offered, IsIdle, IsFree
  <2>2. CASE control = "resume"
    BY <1>1, <2>2 DEF Offered
  <2>3. CASE control = "recover"
    BY <1>1, <2>3 DEF Offered, IsIdle, IsFree
  <2> QED BY <1>1, <2>1, <2>2, <2>3
<1>4. JobOK(r.view, seen, Reviewed) /\ Quiet(r.view)
  BY <1>2, <1>3, StoppedIsQuiet DEF MaybeOK
<1>5. loop \in Loops /\ loop.at = "admission" /\ loop.live
  <2>1. keys \in Seq(Keys) /\ <<>> \in Seq(Keys)
    BY InOrderType
  <2> HIDE DEF keys
  <2>2. recover \in Loops /\ recover.at = "admission" /\ recover.live
    BY <2>1, NoLoopOK DEF Loop, Loops
  <2>3. apply \in Loops /\ apply.at = "admission" /\ apply.live
    BY <2>1, NoLoopOK DEF Loop, Loops
  <2> QED BY <2>2, <2>3
<1> HIDE DEF loop
<1>6. LoopOK(loop, r.view, seen, Reviewed)
  BY <1>3, <1>4, <1>5 DEF LoopOK
<1>7. IsTab(next) /\ next.view = r.view /\ next.loop = loop /\ next.queue = r.queue
  BY <1>2, <1>5, Looping
<1> HIDE DEF next
<1>8. r.queue # <<>> => r.queue[1].kind = "pause"
  BY <1>2, <1>3 DEF TabOK, QueueOK, StagesOf
<1>9. QueueOK(next.queue, next.loop, next.view, seen, Reviewed)
  BY <1>2, <1>5, <1>7, <1>8 DEF TabOK, QueueOK
<1>10. TabOK(next, seen, Reviewed)
  BY <1>2, <1>6, <1>7, <1>9 DEF TabOK
<1>11. Tabs = {t} => OneTabOK(next, stored', Reviewed)
  BY <1>1, <1>2, <1>7 DEF OneTabOK
<1>12. faults' \in Nat
  BY <1>1, TabFacts
<1> QED BY <1>1, <1>3, <1>7, <1>10, <1>11, <1>12, QuietStepInv

-----------------------------------------------------------------------------
(* The steps of the server and of others *)

(* A step that leaves the tabs and their storage alone. *)
LEMMA OutsideInv ==
    ASSUME Inv, UNCHANGED <<stored, tab, confirmed>>, edits' \in Nat, faults' \in Nat,
           content' \in [Keys -> Texts], replaced' \in [Keys -> Texts \cup {None}],
           seen' \in [Keys -> SUBSET Texts], \A k \in Keys : seen[k] \subseteq seen'[k],
           CallsOK(call', tab, seen', Reviewed)
    PROVE  Inv'
<1>1. Reviewed' = Reviewed
  BY DEF Reviewed
<1>2. TypeOK'
  BY DEF Inv, TypeOK, CallsOK
<1>3. MaybeOK(stored, seen', Reviewed)
  BY JobGrows DEF Inv, MaybeOK
<1>4. \A t \in Tabs : TabOK(tab[t], seen', Reviewed)
  BY TabGrows DEF Inv
<1>5. RevisionIdentifiesJob'
  BY DEF Inv, RevisionIdentifiesJob
<1>6. \A t \in Tabs : Tabs = {t} => OneTabOK(tab[t], stored, Reviewed)
  BY DEF Inv
<1> QED BY <1>1, <1>2, <1>3, <1>4, <1>5, <1>6 DEF Inv, CallsOK

(* The server goes on with a request. *)
LEMMA CallStepOK ==
    ASSUME Inv, NEW c \in Calls, NEW q, call' = [call EXCEPT ![c] = q],
           NEW texts, \A k \in Keys : seen[k] \subseteq texts[k],
           RequestOK(q, tab, texts, Reviewed), q.owner \in {None, call[c].owner}
    PROVE  CallsOK(call', tab, texts, Reviewed)
<1>1. /\ call \in [Calls -> Requests] /\ \A d \in Calls : RequestOK(call[d], tab, seen, Reviewed)
      /\ \A d, e \in Calls : call[d].owner # None /\ call[d].owner = call[e].owner => d = e
  BY DEF Inv, TypeOK
<1>2. \A d \in Calls : RequestOK(call[d], tab, texts, Reviewed)
  BY <1>1, RequestGrows
<1>3. q \in Requests
  BY DEF RequestOK
<1> QED BY <1>1, <1>2, <1>3 DEF CallsOK

(* A request that is answered; one that was abandoned is forgotten. *)
Finished(q, reply) == IF q.owner = None THEN NoCall
                      ELSE [q EXCEPT !.phase = "done", !.reply = reply]

(* An answer to a request. *)
LEMMA FinishedOK ==
    ASSUME Inv, NEW c \in Calls, call[c].phase # "free", NEW reply \in Replies,
           NEW texts, \A k \in Keys : seen[k] \subseteq texts[k],
           reply.status \in {"updated", "already-applied"} =>
               reply.observed \in texts[call[c].key],
           Done(c, reply)
    PROVE  CallsOK(call', tab, texts, Reviewed)
<1> DEFINE q == call[c]
           done == [q EXCEPT !.phase = "done", !.reply = reply]
<1>1. q \in Requests /\ RequestOK(q, tab, seen, Reviewed)
  BY DEF Inv, TypeOK
<1>2. call' = [call EXCEPT ![c] = Finished(q, reply)]
  BY DEF Done, Finished
<1>3. RequestOK(q, tab, texts, Reviewed)
  BY <1>1, RequestGrows
<1>4. /\ done \in Requests /\ done.phase = "done" /\ done.reply = reply /\ done.owner = q.owner
      /\ done.key = q.key /\ done.text = q.text /\ done.kind = q.kind
  BY <1>1 DEF Requests
<1> HIDE DEF done
<1>5. RequestOK(done, tab, texts, Reviewed)
  BY <1>3, <1>4 DEF RequestOK
<1>6. Finished(q, reply) = NoCall \/ Finished(q, reply) = done
  BY DEF Finished, done
<1>7. /\ RequestOK(Finished(q, reply), tab, texts, Reviewed)
      /\ Finished(q, reply).owner \in {None, q.owner}
  BY <1>4, <1>5, <1>6, NoCallOK
<1> QED BY <1>2, <1>7, CallStepOK

(* An answer, with or without the notice of a limit. *)
LEMMA AnswersOK ==
    ASSUME Inv, NEW c \in Calls, call[c].phase # "free", NEW status, NEW observed,
           Answer(status, observed) \in Replies,
           NEW texts, \A k \in Keys : seen[k] \subseteq texts[k],
           status \in {"updated", "already-applied"} => observed \in texts[call[c].key],
           Answers(c, status, observed)
    PROVE  CallsOK(call', tab, texts, Reviewed) /\ faults' \in Nat
<1> DEFINE reply == Answer(status, observed)
           limited == Answer("429", None)
           noticed == Throttled(reply)
<1>1. reply.status = status /\ reply.observed = observed
  BY DEF Answer
<1>2. limited \in Replies /\ limited.status = "429"
  BY DEF Answer, Replies
<1>3. /\ noticed \in Replies /\ noticed.status = status /\ noticed.observed = observed
  BY <1>1 DEF Replies, Throttled
<1>4. faults' \in Nat
  BY FaultsCounted DEF Answers
<1>5. Done(c, reply) \/ Done(c, limited) \/ Done(c, noticed)
  BY DEF Answers
<1> HIDE DEF reply, limited, noticed
<1>6. reply \in Replies
  BY DEF reply
<1> QED BY <1>1, <1>2, <1>3, <1>4, <1>5, <1>6, FinishedOK

(* A call of the server fails. *)
LEMMA CallFailsOK ==
    ASSUME Inv, NEW c \in Calls, call[c].phase # "free", CallFails(c)
    PROVE  CallsOK(call', tab, seen, Reviewed) /\ faults' \in Nat
<1> DEFINE statuses == {"network", "permission", "validation", "failed", "401", "400"}
<1>1. PICK status \in statuses : \/ Done(c, Answer(status, None))
                                  \/ Done(c, Throttled(Answer(status, None)))
  BY DEF CallFails
<1>2. /\ Answer(status, None) \in Replies
      /\ Answer(status, None).status \notin {"updated", "already-applied"}
  BY DEF Answer, Replies
<1>3. faults' \in Nat
  BY FaultsCounted DEF CallFails
<1>4. /\ Throttled(Answer(status, None)) \in Replies
      /\ Throttled(Answer(status, None)).status \notin {"updated", "already-applied"}
  BY <1>2 DEF Replies, Throttled
<1> DEFINE replies == {Answer(status, None), Throttled(Answer(status, None))}
<1>5. PICK reply \in replies : /\ Done(c, reply) /\ reply \in Replies
                               /\ reply.status \notin {"updated", "already-applied"}
  BY <1>1, <1>2, <1>4
<1>6. CallsOK(call', tab, seen, Reviewed)
  BY <1>5, FinishedOK
<1> QED BY <1>3, <1>6

(* The server makes a request fail. *)
LEMMA CallFailedInv ==
    ASSUME Inv, NEW c \in Calls, CallFailed(c)
    PROVE  Inv'
<1>1. /\ call[c].phase # "free" /\ CallFails(c)
      /\ UNCHANGED <<stored, tab, content, edits, confirmed, replaced, seen>>
  BY DEF CallFailed, history
<1>2. CallsOK(call', tab, seen, Reviewed) /\ faults' \in Nat
  BY <1>1, CallFailsOK
<1> QED BY <1>1, <1>2, OutsideInv DEF Inv, TypeOK

(* Somebody else edits an item. *)
LEMMA EditInv ==
    ASSUME Inv, NEW k \in Keys, Edit(k)
    PROVE  Inv'
<1>1. /\ \E text \in Texts : content' = [content EXCEPT ![k] = text]
      /\ edits' = edits + 1 /\ replaced' = [replaced EXCEPT ![k] = None]
      /\ UNCHANGED <<stored, tab, call, faults, confirmed, seen>>
  BY DEF Edit
<1>2. CallsOK(call, tab, seen, Reviewed)
  BY CallsOfInv
<1> QED BY <1>1, <1>2, OutsideInv DEF Inv, TypeOK

(* The texts that the server knows once it has read an item. *)
LEMMA SeenGrows ==
    ASSUME Inv, NEW key \in Keys, NEW text \in Texts,
           seen' = [seen EXCEPT ![key] = @ \cup {text}]
    PROVE  /\ seen' \in [Keys -> SUBSET Texts] /\ \A k \in Keys : seen[k] \subseteq seen'[k]
           /\ text \in seen'[key]
BY DEF Inv, TypeOK

(* A request that the server works on. *)
LEMMA RequestFacts ==
    ASSUME Inv, NEW c \in Calls, call[c].phase # "free"
    PROVE  /\ call[c] \in Requests /\ RequestOK(call[c], tab, seen, Reviewed)
           /\ call[c].key \in Keys /\ call[c].text \in Texts /\ content[call[c].key] \in Texts
           /\ call[c].kind \in {"apply", "rescan", "preview", "recover"}
<1>1. call[c] \in Requests /\ RequestOK(call[c], tab, seen, Reviewed)
  BY DEF Inv, TypeOK
<1>2. call[c].key \in Keys /\ call[c].text \in Texts
  BY <1>1 DEF RequestOK
<1> QED BY <1>1, <1>2 DEF Inv, TypeOK, Requests

(* The server reads an item: it answers, or goes on to write. *)
LEMMA ReadInv ==
    ASSUME Inv, NEW c \in Calls, Read(c)
    PROVE  Inv'
<1> DEFINE q == call[c]
           current == content[q.key]
           status == StateOf(q.kind, q.text, current)
           observed == IF q.kind = "rescan" THEN Proposed(current) ELSE current
           update == Update(q.kind, q.text, current)
           writing == [q EXCEPT !.phase = "write", !.update = update]
<1>1. /\ q.phase = "read"
      /\ IF ToWrite(q.kind, q.text, current)
         THEN call' = [call EXCEPT ![c] = writing] /\ UNCHANGED faults
         ELSE Answers(c, status, observed)
      /\ seen' = [seen EXCEPT ![q.key] = @ \cup {current}]
      /\ UNCHANGED <<stored, tab, content, edits, confirmed, replaced>>
  BY DEF Read
<1>2. /\ q \in Requests /\ RequestOK(q, tab, seen, Reviewed)
      /\ q.key \in Keys /\ q.text \in Texts /\ current \in Texts
      /\ q.kind \in {"apply", "rescan", "preview", "recover"}
  BY <1>1, RequestFacts
<1> HIDE DEF current
<1>3. /\ seen' \in [Keys -> SUBSET Texts] /\ \A k \in Keys : seen[k] \subseteq seen'[k]
      /\ current \in seen'[q.key]
  BY <1>1, <1>2, SeenGrows
<1>4. ASSUME ToWrite(q.kind, q.text, current)
      PROVE  CallsOK(call', tab, seen', Reviewed) /\ faults' \in Nat
  <2>1. faults' \in Nat
    BY <1>1, <1>4 DEF Inv, TypeOK
  <2>2. /\ \/ q.kind = "apply" /\ update = Rewrite[q.text]
           \/ q.kind = "recover" /\ update = q.text
        /\ update \in Texts
    BY <1>2, <1>4, JobAssumption DEF ToWrite, Update
  <2> HIDE DEF update
  <2>3. /\ writing \in Requests /\ writing.phase = "write" /\ writing.update = update
        /\ writing.owner = q.owner /\ writing.key = q.key /\ writing.text = q.text
        /\ writing.kind = q.kind /\ writing.reply = q.reply
    BY <1>2, <2>2 DEF Requests
  <2> HIDE DEF writing
  <2>4. RequestOK(q, tab, seen', Reviewed)
    BY <1>2, <1>3, RequestGrows
  <2>5. RequestOK(writing, tab, seen', Reviewed)
    BY <1>1, <2>2, <2>3, <2>4 DEF RequestOK
  <2> QED BY <1>1, <1>3, <1>4, <2>1, <2>3, <2>5, CallStepOK
<1>5. ASSUME ~ToWrite(q.kind, q.text, current)
      PROVE  CallsOK(call', tab, seen', Reviewed) /\ faults' \in Nat
  <2>1. status \in {"already-applied", "stale", "scanned", "already-recovered", "recoverable",
                    "conflict"}
    BY <1>2 DEF StateOf
  <2>2. status = "already-applied" => q.kind = "apply"
    BY <1>2 DEF StateOf
  <2>3. observed \in Texts \cup {None}
    BY <1>2 DEF Proposed
  <2>4. q.kind = "apply" => observed = current
    OBVIOUS
  <2> HIDE DEF status, observed
  <2>5. Answer(status, observed) \in Replies
    BY <2>1, <2>3 DEF Answer, Replies
  <2>6. status \in {"updated", "already-applied"} => observed \in seen'[q.key]
    BY <1>3, <2>1, <2>2, <2>4
  <2> QED BY <1>1, <1>3, <1>5, <2>5, <2>6, AnswersOK
<1> HIDE DEF q, status, observed, update, writing
<1> QED BY <1>1, <1>3, <1>4, <1>5, OutsideInv DEF Inv, TypeOK

(* The server writes an item: the write is answered for by a verification,
   or fails. *)
LEMMA WriteInv ==
    ASSUME Inv, NEW c \in Calls, Write(c)
    PROVE  Inv'
<1> DEFINE q == call[c]
           verifying == [q EXCEPT !.phase = "verify"]
           text == IF q.kind = "apply" /\ content[q.key] = q.text THEN q.text
                   ELSE IF q.kind = "apply" /\ content[q.key] = Rewrite[q.text]
                   THEN replaced[q.key] ELSE None
<1>1. /\ q.phase = "write" /\ content' = [content EXCEPT ![q.key] = q.update]
      /\ replaced' = [replaced EXCEPT ![q.key] = text]
      /\ \/ call' = [call EXCEPT ![c] = verifying] /\ UNCHANGED faults
         \/ CallFails(c)
      /\ UNCHANGED <<stored, tab, edits, confirmed, seen>>
  BY DEF Write
<1>2. /\ q \in Requests /\ RequestOK(q, tab, seen, Reviewed)
      /\ q.key \in Keys /\ q.text \in Texts
  BY <1>1, RequestFacts
<1>3. q.update \in Texts
  BY <1>1, <1>2, JobAssumption DEF RequestOK
<1>4. content' \in [Keys -> Texts]
  BY <1>1, <1>3 DEF Inv, TypeOK
<1>5. text \in Texts \cup {None}
  BY <1>2 DEF Inv, TypeOK
<1> HIDE DEF text
<1>6. replaced' \in [Keys -> Texts \cup {None}]
  BY <1>1, <1>5 DEF Inv, TypeOK
<1>7. ASSUME call' = [call EXCEPT ![c] = verifying], UNCHANGED faults
      PROVE  CallsOK(call', tab, seen, Reviewed) /\ faults' \in Nat
  <2>1. faults' \in Nat
    BY <1>7 DEF Inv, TypeOK
  <2>2. /\ verifying \in Requests /\ verifying.phase = "verify"
        /\ verifying.owner = q.owner /\ verifying.key = q.key /\ verifying.text = q.text
        /\ verifying.kind = q.kind
    BY <1>2 DEF Requests
  <2> HIDE DEF verifying
  <2>3. RequestOK(verifying, tab, seen, Reviewed)
    BY <1>1, <1>2, <2>2 DEF RequestOK
  <2> QED BY <1>7, <2>1, <2>2, <2>3, CallStepOK
<1>8. ASSUME CallFails(c)
      PROVE  CallsOK(call', tab, seen, Reviewed) /\ faults' \in Nat
  BY <1>1, <1>8, CallFailsOK
<1> HIDE DEF q, verifying
<1> QED BY <1>1, <1>4, <1>6, <1>7, <1>8, OutsideInv DEF Inv, TypeOK

(* The server reads back what it has written. *)
LEMMA VerifyInv ==
    ASSUME Inv, NEW c \in Calls, Verify(c)
    PROVE  Inv'
<1> DEFINE q == call[c]
           current == content[q.key]
           status == IF q.kind = "apply" THEN "updated"
                     ELSE IF current = q.text THEN "recovered" ELSE "verification-failed"
<1>1. /\ q.phase = "verify" /\ Answers(c, status, current)
      /\ seen' = [seen EXCEPT ![q.key] = @ \cup {current}]
      /\ UNCHANGED <<stored, tab, content, edits, confirmed, replaced>>
  BY DEF Verify
<1>2. q.key \in Keys /\ current \in Texts
  BY <1>1, RequestFacts
<1> HIDE DEF current
<1>3. /\ seen' \in [Keys -> SUBSET Texts] /\ \A k \in Keys : seen[k] \subseteq seen'[k]
      /\ current \in seen'[q.key]
  BY <1>1, <1>2, SeenGrows
<1>4. status \in {"updated", "recovered", "verification-failed"}
  OBVIOUS
<1> HIDE DEF status
<1>5. Answer(status, current) \in Replies
  BY <1>2, <1>4 DEF Answer, Replies
<1>6. CallsOK(call', tab, seen', Reviewed) /\ faults' \in Nat
  BY <1>1, <1>3, <1>5, AnswersOK
<1> QED BY <1>1, <1>3, <1>6, OutsideInv DEF Inv, TypeOK

-----------------------------------------------------------------------------
(* The invariant *)

(* What the scan leaves. *)
LEMMA InitInv ==
    ASSUME Init
    PROVE  Inv
<1>1. /\ stored = Scanned /\ tab = [t \in Tabs |-> Fresh(Scanned)] /\ content = Before
      /\ call = [c \in Calls |-> NoCall] /\ edits = 0 /\ faults = 0 /\ confirmed = {}
      /\ replaced = [k \in Keys |-> None] /\ seen = [k \in Keys |-> {}]
  BY DEF Init
<1> DEFINE items == [k \in Keys |-> PendingItem(Before[k])]
<1>2. JobOK(Scanned, seen, Reviewed)
  <2>1. ASSUME NEW k \in Keys
        PROVE  /\ items[k] \in Items
               /\ ItemOK(k, items[k], "review", "completed", seen, Reviewed)
    <3>1. Before[k] \in Texts
      BY TabsAssumption
    <3> QED BY <3>1, ReviewItem
  <2>2. items \in [Keys -> Items]
    BY <2>1
  <2> HIDE DEF items
  <2>3. Scanned.items = items
    BY DEF Scanned, items
  <2>4. /\ Scanned \in JobsOn(Keys)
        /\ Scanned.stage = "review" /\ Scanned.status = "completed"
    BY <2>2 DEF Scanned, JobsOn, items
  <2>5. DOMAIN items = Keys
    BY <2>2
  <2> QED BY <2>1, <2>3, <2>4, <2>5 DEF JobOK, IsJob
<1>3. MaybeJob(Scanned) /\ MaybeOK(Scanned, seen, Reviewed)
  BY <1>2 DEF MaybeJob, MaybeOK, JobOK
<1>4. ASSUME NEW t \in Tabs
      PROVE  /\ TabOK(tab[t], seen, Reviewed) /\ IsTab(tab[t])
             /\ tab[t].view = stored /\ tab[t].queue = <<>>
  BY <1>1, <1>3, FreshOK DEF TabOK
<1>5. content \in [Keys -> Texts]
  BY <1>1, TabsAssumption
<1>6. call \in [Calls -> Requests]
  BY <1>1, NoCallOK
<1>7. TypeOK
  BY <1>1, <1>3, <1>4, <1>5, <1>6 DEF TypeOK
<1>8. \A c \in Calls : RequestOK(call[c], tab, seen, Reviewed) /\ call[c].owner = None
  BY <1>1, NoCallOK
<1>9. \A t \in Tabs : OneTabOK(tab[t], stored, Reviewed)
  BY <1>4 DEF OneTabOK
<1>10. RevisionIdentifiesJob
  <2>1. Scanned.rev = 0
    BY DEF Scanned
  <2> QED BY <1>1, <1>4, <2>1 DEF RevisionIdentifiesJob
<1> QED BY <1>1, <1>3, <1>4, <1>7, <1>8, <1>9, <1>10 DEF Inv

(* Every step keeps the invariant. *)
LEMMA NextInv ==
    ASSUME Inv, [Next]_vars
    PROVE  Inv'
<1>1. ASSUME NEW t \in Tabs, TabStep(t) PROVE Inv'
  <2>1. CASE NothingToSave(t)
    BY <2>1, NothingToSaveInv
  <2>2. CASE MutationSaved(t)
    BY <2>2, MutationSavedInv
  <2>3. CASE JobLoaded(t)
    BY <2>3, JobLoadedInv
  <2>4. CASE Admit(t)
    BY <2>4, AdmitInv
  <2>5. CASE Load(t)
    BY <2>5, LoadInv
  <2>6. CASE NextItem(t)
    BY <2>6, NextItemInv
  <2>7. CASE DeadlinePassed(t)
    BY <2>7, DeadlinePassedInv
  <2>8. CASE LoopSaved(t)
    BY <2>8, LoopSavedInv
  <2>9. ASSUME NEW c \in Calls, Reply(t, c) PROVE Inv'
    BY <2>9, ReplyInv
  <2> QED BY <1>1, <2>1, <2>2, <2>3, <2>4, <2>5, <2>6, <2>7, <2>8, <2>9 DEF TabStep
<1>2. ASSUME NEW t \in Tabs, UserStep(t) PROVE Inv'
  <2>1. CASE Pause(t)
    BY <2>1, PauseInv
  <2>2. CASE DeleteJob(t)
    BY <2>2, DeleteJobInv
  <2>3. CASE Reload(t)
    BY <2>3, ReloadInv
  <2>4. CASE NetworkFails(t)
    BY <2>4, NetworkFailsInv
  <2>5. ASSUME NEW control \in Controls, Mutate(t, control) PROVE Inv'
    BY <2>5, MutateInv
  <2>6. ASSUME NEW control \in Controls, Run(t, control) PROVE Inv'
    BY <2>6, RunInv
  <2> QED BY <1>2, <2>1, <2>2, <2>3, <2>4, <2>5, <2>6 DEF UserStep
<1>3. ASSUME NEW c \in Calls, ServerStep(c) PROVE Inv'
  BY <1>3, ReadInv, WriteInv, VerifyInv DEF ServerStep
<1>4. ASSUME NEW c \in Calls, CallFailed(c) PROVE Inv'
  BY <1>4, CallFailedInv
<1>5. ASSUME NEW k \in Keys, Edit(k) PROVE Inv'
  BY <1>5, EditInv
<1>6. CASE UNCHANGED vars
  BY <1>6 DEF vars, Inv, TypeOK, RevisionIdentifiesJob, Reviewed
<1> QED BY <1>1, <1>2, <1>3, <1>4, <1>5, <1>6 DEF Next

(* The invariant holds in every state, with any number of tabs that open,
   crash and reload, and whatever fails. *)
LEMMA Invariance == Spec => []Inv
<1>1. Init => Inv
  BY InitInv
<1>2. Inv /\ [Next]_vars => Inv'
  BY NextInv
<1> QED BY <1>1, <1>2, PTL DEF Spec

-----------------------------------------------------------------------------
(* The theorems *)

(* Each variable keeps its type: above all, whatever the reducer makes of a
   job is a job, and at most one pause waits behind a mutation. *)
THEOREM ReplacementTypes == Spec => []TypeOK
<1>1. Inv => TypeOK
  BY DEF Inv
<1> QED BY <1>1, Invariance, PTL

(* A tab that shows the revision that is stored shows the job that is stored,
   in any number of tabs: the comparison of revisions in a save stands for the
   comparison of jobs (updateStoredContentReplacementJob). *)
THEOREM RevisionStandsForJob == Spec => []RevisionIdentifiesJob
<1>1. Inv => RevisionIdentifiesJob
  BY DEF Inv
<1> QED BY <1>1, Invariance, PTL

(* An item that counts as applied had the proposed text when the server read
   it (updateApplyItemResult). *)
THEOREM AppliedWasRead == Spec => []AppliedWasSeen
<1>1. Inv => AppliedWasSeen
  BY DEF Inv, MaybeOK, JobOK, ItemOK, AppliedWasSeen
<1> QED BY <1>1, Invariance, PTL

(* A job that is stored and not running has no item under way, whatever has
   stopped its run (pauseActiveWork). *)
THEOREM StoppedJobIsQuiet == Spec => []StoppedJobHasNoWork
<1>1. Inv => StoppedJobHasNoWork
  BY DEF Inv, MaybeOK, JobOK, ItemOK, StoppedJobHasNoWork, HasStatus
<1> QED BY <1>1, Invariance, PTL

(* No save of another tab brings a deleted job back. *)
THEOREM DeletedJobStays == Spec => DeletedStays
<1>1. [Next]_vars => [stored = None => stored' = None]_vars
  <2> SUFFICES ASSUME Next, stored = None PROVE stored' = None
    BY DEF vars
  <2>1. ASSUME NEW t \in Tabs, TabStep(t) PROVE stored' = None
    <3>1. CASE MutationSaved(t)
      BY <3>1 DEF MutationSaved, CanSave, RevisionsMatch
    <3>2. CASE LoopSaved(t)
      BY <3>2 DEF LoopSaved, CanSave, RevisionsMatch
    <3>3. CASE \/ NothingToSave(t) \/ JobLoaded(t) \/ Admit(t) \/ Load(t) \/ NextItem(t)
               \/ DeadlinePassed(t) \/ \E c \in Calls : Reply(t, c)
      BY <3>3 DEF NothingToSave, JobLoaded, Admit, Load, NextItem, DeadlinePassed, Reply
    <3> QED BY <2>1, <3>1, <3>2, <3>3 DEF TabStep
  <2>2. ASSUME NEW t \in Tabs, UserStep(t) PROVE stored' = None
    BY <2>2 DEF UserStep, Pause, DeleteJob, Reload, NetworkFails, Mutate, Run
  <2>3. ASSUME NEW c \in Calls, ServerStep(c) \/ CallFailed(c) PROVE stored' = None
    BY <2>3 DEF ServerStep, Read, Write, Verify, CallFailed
  <2>4. ASSUME NEW k \in Keys, Edit(k) PROVE stored' = None
    BY <2>4 DEF Edit
  <2> QED BY <2>1, <2>2, <2>3, <2>4 DEF Next
<1> QED BY <1>1, PTL DEF Spec, DeletedStays

-----------------------------------------------------------------------------
(* The refinement, for one tab *)

(* What a write makes of an item is what was confirmed. *)
LEMMA WriteRefines ==
    ASSUME Inv, \E t \in Tabs : Tabs = {t}, NEW c \in Calls, Write(c)
    PROVE  Review!Next
<1> DEFINE q == call[c]
<1>1. /\ q.phase = "write" /\ content' = [content EXCEPT ![q.key] = q.update]
      /\ UNCHANGED <<edits, confirmed>>
  BY DEF Write
<1>2. /\ RequestOK(q, tab, seen, Reviewed) /\ q.key \in Keys /\ q.text \in Texts
  BY <1>1, RequestFacts
<1>3. Reviewed = confirmed
  BY DEF Reviewed
<1> HIDE DEF q
<1>4. CASE q.kind = "apply" /\ q.update = Rewrite[q.text]
  <2>1. Review!Replace(q.key, q.text)
    BY <1>1, <1>2, <1>3, <1>4 DEF RequestOK, Review!Replace
  <2> QED BY <1>2, <2>1 DEF Review!Next
<1>5. CASE q.kind = "recover" /\ q.update = q.text
  <2>1. Review!Restore(q.key, q.text)
    BY <1>1, <1>2, <1>3, <1>5 DEF RequestOK, Review!Restore
  <2> QED BY <1>2, <2>1 DEF Review!Next
<1> QED BY <1>1, <1>2, <1>4, <1>5 DEF RequestOK

(* Every step of one tab, of the server and of others is a step of the review,
   or nothing that it speaks of. *)
LEMMA StepRefines ==
    ASSUME Inv, \E t \in Tabs : Tabs = {t}, Next
    PROVE  Review!Next \/ UNCHANGED <<content, confirmed, edits>>
<1>1. ASSUME NEW t \in Tabs, TabStep(t)
      PROVE  UNCHANGED <<content, confirmed, edits>>
  BY <1>1 DEF TabStep, NothingToSave, MutationSaved, JobLoaded, Admit, Load, NextItem,
              DeadlinePassed, LoopSaved, Reply, history
<1>2. ASSUME NEW t \in Tabs, UserStep(t)
      PROVE  Review!Next \/ UNCHANGED <<content, confirmed, edits>>
  <2>1. CASE Pause(t) \/ DeleteJob(t) \/ Reload(t) \/ NetworkFails(t)
    BY <2>1 DEF Pause, DeleteJob, Reload, NetworkFails, history
  <2>2. ASSUME NEW control \in Controls, Mutate(t, control)
        PROVE  Review!Next
    <3> DEFINE job == tab[t].view
               pairs == {<<k, job.items[k].before>> : k \in Selection(job)}
    <3>1. /\ confirmed' = confirmed \/ confirmed' = confirmed \cup pairs
          /\ UNCHANGED <<content, edits>>
      BY <2>2 DEF Mutate
    <3>2. confirmed' \subseteq Keys \X Texts
      BY <2>2, MutateInv DEF Inv, TypeOK
    <3>3. confirmed' = confirmed \cup confirmed'
      BY <3>1
    <3>4. Review!Confirm
      BY <3>1, <3>2, <3>3 DEF Review!Confirm
    <3> QED BY <3>4 DEF Review!Next
  <2>3. ASSUME NEW control \in Controls, Run(t, control)
        PROVE  UNCHANGED <<content, confirmed, edits>>
    BY <2>3 DEF Run, history
  <2> QED BY <1>2, <2>1, <2>2, <2>3 DEF UserStep
<1>3. ASSUME NEW c \in Calls, Read(c) \/ Verify(c) \/ CallFailed(c)
      PROVE  UNCHANGED <<content, confirmed, edits>>
  BY <1>3 DEF Read, Verify, CallFailed, history
<1>4. ASSUME NEW c \in Calls, Write(c)
      PROVE  Review!Next
  BY <1>4, WriteRefines
<1>5. ASSUME NEW k \in Keys, Edit(k)
      PROVE  Review!Next
  <2>1. PICK text \in Texts : content' = [content EXCEPT ![k] = text]
    BY <1>5 DEF Edit
  <2>2. Review!Edit(k)
    BY <1>5, <2>1 DEF Edit, Review!Edit
  <2> QED BY <2>2 DEF Review!Next
<1> QED BY <1>1, <1>2, <1>3, <1>4, <1>5 DEF Next, ServerStep

(* In one tab the tool changes an item only to the rewrite of a text that was
   confirmed for it, or back to such a text: whatever fails, is paused, is
   reloaded or is edited by others.  With two tabs it does not hold. *)
THEOREM OneTabImplementsReview ==
    ASSUME \E t \in Tabs : Tabs = {t}
    PROVE  Spec => ImplementsReview
<1>1. Init => Review!Init
  BY DEF Init, Review!Init
<1>2. Inv /\ [Next]_vars => [Review!Next]_<<content, confirmed, edits>>
  <2>1. CASE UNCHANGED vars
    BY <2>1 DEF vars
  <2> QED BY <2>1, StepRefines
<1> QED BY <1>1, <1>2, Invariance, PTL DEF Spec, ImplementsReview, Review!Spec
=============================================================================
