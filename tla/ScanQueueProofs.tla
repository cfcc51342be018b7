-------------------------- MODULE ScanQueueProofs --------------------------
(***************************************************************************)
(* Theorems about the scan of a content replacement job, for any lists,    *)
(* searches, page and batch sizes, limits and faults.                      *)
(***************************************************************************)
EXTENDS ScanQueue, PlacesLemmas, TLAPS

-----------------------------------------------------------------------------
(* The inductive invariant.  Its parts take the lists of the instance and  *)
(* those that shrank as parameters, here and cut.                          *)

\* A reference stands on a part of a list that a queued cursor still reaches.
Ahead(job, here, list, ref) ==
    \E c \in ToSet(job.cursors), k \in 1..Len(here[list]) :
       c.list = list /\ (c.page - 1) * PageSize < k /\ here[list][k] = ref

\* A list that did not shrink loses nothing: its matches are known or are
\* still to be read.
ListCovered(job, here, cut, list) ==
    list \notin cut =>
        \A ref \in ToSet(FirstSite[list]) \cap Matches :
           ref \in Known(job) \/ Ahead(job, here, list, ref)

Covering(job, here, cut) ==
    /\ ToSet(job.start.targets) \cap Matches \subseteq Known(job)
    /\ \A l \in ToSet(job.start.lists) : ListCovered(job, here, cut, l)
    /\ \A l \in ToSet(job.start.lists) \ (Searches \cup cut) :
          \A q \in ToSet(FirstSite[l]) \cap DOMAIN AnswerList :
             Ahead(job, here, l, q) \/ ListCovered(job, here, cut, AnswerList[q])

Emptied(job) == job.stage = "review" => job.cursors = <<>> /\ job.details = <<>>

\* What holds of every job: of the stored one, of the one that is shown and of
\* the one that a loop is about to save.
Fit(job, here, cut) ==
    job \in Jobs /\ IsSound(job) /\ Emptied(job) /\ Covering(job, here, cut)

\* A step of a job opens no list again once the inventory is done, and takes
\* nothing off the details before.
Follows(job, next) ==
    /\ next.cursors # <<>> =>
          job.cursors # <<>> /\ ToSet(job.details) \subseteq ToSet(next.details)
    /\ job.cursors = <<>> => ToSet(next.details) \subseteq ToSet(job.details)

GoodView(view, job, here, cut) ==
    /\ Fit(view, here, cut)
    /\ view.rev <= job.rev /\ (view.rev = job.rev => view = job)

GoodLoop(loop, view, here, cut) ==
    /\ IsBounded(loop.call)
    /\ loop.next # None => Fit(loop.next, here, cut)
    /\ loop.at = "save" => loop.next # None /\ Follows(view, loop.next)
    /\ view = None => loop.at = "idle"

GoodQueue(queue, view) ==
    /\ Len(queue) <= 2
    /\ view = None => \A i \in 1..Len(queue) : queue[i].kind = "interrupt"

GoodTab(r, job, here, cut) ==
    /\ r \in Tabs
    /\ r.view # None => GoodView(r.view, job, here, cut)
    /\ GoodLoop(r.loop, r.view, here, cut)
    /\ GoodQueue(r.queue, r.view)

GoodSite(here, cut) ==
    /\ here \in [Lists -> Seq(Refs)] /\ cut \subseteq Lists
    /\ \A l \in Lists \ cut : ToSet(FirstSite[l]) \subseteq ToSet(here[l])

GoodHistory(job, seen) ==
    /\ seen \subseteq Refs
    /\ seen # {} => job.cursors = <<>>
    /\ ToSet(job.details) \cap seen = {}

Inv ==
    /\ Fit(stored, site, shrunk) /\ GoodHistory(stored, inspected)
    /\ GoodTab(tab, stored, site, shrunk)
    /\ GoodSite(site, shrunk)
    /\ edits \in Nat /\ faults \in Nat /\ refusals \in Nat

-----------------------------------------------------------------------------
(* The steps of a job that leave its queues alone *)

\* A job with the same queues, which may have entered the review if these are
\* empty.
Quiet(job, next) ==
    /\ next \in Jobs
    /\ next.start = job.start /\ next.cursors = job.cursors
    /\ next.details = job.details /\ next.proposals = job.proposals
    /\ next.stage = job.stage \/ (job.cursors = <<>> /\ job.details = <<>>)

(* A job is quiet about its revision, and does nothing if it stays. *)
LEMMA BumpIsQuiet ==
    ASSUME NEW job \in Jobs
    PROVE  /\ Quiet(job, job)
           /\ \A next : Quiet(job, next) => Quiet(job, [next EXCEPT !.rev = job.rev + 1])
<1>1. Quiet(job, job)
  BY DEF Quiet
<1>2. ASSUME NEW next, Quiet(job, next)
      PROVE  Quiet(job, [next EXCEPT !.rev = job.rev + 1])
  <2>1. job.rev + 1 \in Nat /\ next \in Jobs
    BY <1>2 DEF Quiet, Jobs
  <2>2. [next EXCEPT !.rev = job.rev + 1] \in Jobs
    BY <2>1 DEF Jobs
  <2> QED BY <1>2, <2>1, <2>2 DEF Quiet, Jobs
<1> QED BY <1>1, <1>2

(* A resumption leaves the queues alone. *)
LEMMA ResumedIsQuiet == \A job \in Jobs : Quiet(job, Resumed(job))
<1> SUFFICES ASSUME NEW job \in Jobs PROVE Quiet(job, Resumed(job))
  OBVIOUS
<1>1. Quiet(job, [job EXCEPT !.status = "running", !.failure = "none"])
  BY DEF Quiet, Jobs
<1> QED BY <1>1, BumpIsQuiet, Zenon DEF Resumed, Reduced

(* A pause leaves the queues alone. *)
LEMMA PausedIsQuiet == \A job \in Jobs : Quiet(job, Paused(job))
<1> SUFFICES ASSUME NEW job \in Jobs PROVE Quiet(job, Paused(job))
  OBVIOUS
<1>1. Quiet(job, [job EXCEPT !.status = "paused"])
  BY DEF Quiet, Jobs
<1> QED BY <1>1, BumpIsQuiet, Zenon DEF Paused, Reduced

(* So does a pause for want of credentials. *)
LEMMA CredentialInterruptedIsQuiet == \A job \in Jobs : Quiet(job, CredentialInterrupted(job))
<1> SUFFICES ASSUME NEW job \in Jobs PROVE Quiet(job, CredentialInterrupted(job))
  OBVIOUS
<1>1. Quiet(job, [job EXCEPT !.status = "paused", !.failure = "none"])
  BY DEF Quiet, Jobs
<1> QED BY <1>1, BumpIsQuiet, Zenon DEF CredentialInterrupted, Reduced

(* So does a cancellation. *)
LEMMA CancelledIsQuiet == \A job \in Jobs : Quiet(job, Cancelled(job))
<1> SUFFICES ASSUME NEW job \in Jobs PROVE Quiet(job, Cancelled(job))
  OBVIOUS
<1>1. Quiet(job, [job EXCEPT !.status = "cancelled", !.retryAt = FALSE])
  BY DEF Quiet, Jobs
<1> QED BY <1>1, BumpIsQuiet, Zenon DEF Cancelled, Reduced

(* So does a deadline that is set. *)
LEMMA RetryAtSetIsQuiet == \A job \in Jobs : Quiet(job, RetryAtSet(job))
<1> SUFFICES ASSUME NEW job \in Jobs PROVE Quiet(job, RetryAtSet(job))
  OBVIOUS
<1>1. Quiet(job, [job EXCEPT !.retryAt = TRUE])
  BY DEF Quiet, Jobs
<1> QED BY <1>1, BumpIsQuiet, Zenon DEF RetryAtSet, Reduced

(* So does a deadline that has passed. *)
LEMMA RetryAtClearedIsQuiet == \A job \in Jobs : Quiet(job, RetryAtCleared(job))
<1> SUFFICES ASSUME NEW job \in Jobs PROVE Quiet(job, RetryAtCleared(job))
  OBVIOUS
<1>1. Quiet(job, [job EXCEPT !.retryAt = FALSE])
  BY DEF Quiet, Jobs
<1> QED BY <1>1, BumpIsQuiet, Zenon DEF RetryAtCleared, Reduced

(* So does a failure. *)
LEMMA FailedIsQuiet ==
    \A job \in Jobs, failure \in {"retryable", "final"} : Quiet(job, Failed(job, failure))
<1> SUFFICES ASSUME NEW job \in Jobs, NEW failure \in {"retryable", "final"}
             PROVE  Quiet(job, Failed(job, failure))
  OBVIOUS
<1>1. Quiet(job, [job EXCEPT !.status = "failed", !.retryAt = FALSE, !.failure = failure])
  BY DEF Quiet, Jobs
<1> QED BY <1>1, BumpIsQuiet, Zenon DEF Failed, Reduced

(* So does the end of the scan. *)
LEMMA DrainedIsQuiet == \A job \in Jobs : Quiet(job, QueuesDrained(job))
<1> SUFFICES ASSUME NEW job \in Jobs PROVE Quiet(job, QueuesDrained(job))
  OBVIOUS
<1>1. Quiet(job, Failed(job, "final"))
  BY FailedIsQuiet
<1> DEFINE done == [job EXCEPT !.stage = "review", !.status = "completed", !.retryAt = FALSE]
<1>2. CanEnterReview(job) => Quiet(job, done)
  BY DEF Quiet, Jobs, CanEnterReview
<1> HIDE DEF done
<1>3. Quiet(job, Reduced(job, CanEnterReview(job), done))
  BY <1>2, BumpIsQuiet, Zenon DEF Reduced
<1> QED BY <1>1, <1>3, Zenon DEF QueuesDrained, done

(* A job with the same queues is as good, and follows the same jobs. *)
LEMMA QuietKeeps ==
    ASSUME NEW here, NEW cut, NEW job, Fit(job, here, cut), NEW next, Quiet(job, next)
    PROVE  /\ Fit(next, here, cut)
           /\ Follows(job, next)
           /\ \A old : Follows(old, job) => Follows(old, next)
<1>1. /\ next \in Jobs
      /\ next.start = job.start /\ next.cursors = job.cursors
      /\ next.details = job.details /\ next.proposals = job.proposals
      /\ next.stage = job.stage \/ (job.cursors = <<>> /\ job.details = <<>>)
  BY DEF Quiet
<1>2. IsSound(next)
  BY <1>1 DEF IsSound, Fit
<1>3. Emptied(next)
  BY <1>1 DEF Emptied, Fit
<1>4. Known(next) = Known(job)
  BY <1>1 DEF Known
<1>5. \A l, ref : Ahead(next, here, l, ref) <=> Ahead(job, here, l, ref)
  BY <1>1 DEF Ahead
<1>6. \A l : ListCovered(next, here, cut, l) <=> ListCovered(job, here, cut, l)
  BY <1>4, <1>5 DEF ListCovered
<1>7. Covering(next, here, cut)
  BY <1>1, <1>4, <1>5, <1>6, Zenon DEF Covering, Fit
<1>8. Follows(job, next) /\ \A old : Follows(old, job) => Follows(old, next)
  BY <1>1 DEF Follows
<1> QED BY <1>1, <1>2, <1>3, <1>7, <1>8 DEF Fit

-----------------------------------------------------------------------------
(* The steps that read a slice *)

(* What follows a job that is good has all that the job knew of the matches
   and reaches all that it reached. *)
LEMMA CoveringKept ==
    ASSUME NEW here, NEW cut, NEW job \in Jobs, NEW next \in Jobs,
           Covering(job, here, cut), next.start = job.start,
           Known(job) \cap Matches \subseteq Known(next),
           ToSet(job.cursors) \subseteq ToSet(next.cursors)
    PROVE  Covering(next, here, cut)
<1>1. \A l, ref : Ahead(job, here, l, ref) => Ahead(next, here, l, ref)
  BY DEF Ahead
<1>2. \A l : ListCovered(job, here, cut, l) => ListCovered(next, here, cut, l)
  BY <1>1 DEF ListCovered
<1>3. ToSet(next.start.targets) \cap Matches \subseteq Known(next)
  BY DEF Covering
<1> QED BY <1>1, <1>2, <1>3, Zenon DEF Covering

(* At most the details that are left are asked for, from the first one on. *)
LEMMA NextBatchIs ==
    ASSUME NEW job \in Jobs, IsSound(job), job.stage = "scan"
    PROVE  \E n \in 0..Len(job.details) : NextBatch(job) = SubSeq(job.details, 1, n)
<1> DEFINE taken == Cardinality(job.proposals)
           room == {BatchSize, Capacity - taken, Len(job.details)}
           n == CHOOSE n \in room : \A m \in room : n <= m
<1>1. taken \in Nat
  <2>1. job.proposals \in SUBSET Matches
    BY DEF Jobs
  <2> QED BY <2>1, ScanAssumption, FS_Subset, FS_CardinalityType
<1>2. taken <= Capacity
  BY DEF IsSound
<1>3. Len(job.details) \in Nat
  <2>1. job.details \in Seq(Refs)
    BY DEF Jobs
  <2> QED BY <2>1, LenProperties
<1>4. BatchSize \in Nat /\ Capacity \in Nat
  BY ScanAssumption
<1> HIDE DEF taken
<1>5. \A m \in room : m \in Nat
  BY <1>1, <1>2, <1>3, <1>4
<1>6. \E k \in room : \A m \in room : k <= m
  <2> HIDE DEF room
  <2>1. room \subseteq Nat /\ room # {}
    BY <1>5 DEF room
  <2> QED BY <2>1, Least
<1>7. n \in room /\ \A m \in room : n <= m
  <2> HIDE DEF room
  <2> QED BY <1>6
<1>8. NextBatch(job) = SubSeq(job.details, 1, n)
  BY DEF NextBatch, taken
<1>9. Len(job.details) \in room
  OBVIOUS
<1> HIDE DEF n, room
<1>10. n \in 0..Len(job.details)
  BY <1>3, <1>5, <1>7, <1>9
<1> QED BY <1>8, <1>10

(* Details that were inspected leave the queue, and their matches are among
   the proposals. *)
LEMMA DetailsReadKeeps ==
    ASSUME NEW here, NEW cut, NEW job, Fit(job, here, cut), job.cursors = <<>>
    PROVE  LET next == DetailsRead(job, NextBatch(job), ToSet(NextBatch(job)) \cap Matches)
           IN Fit(next, here, cut) /\ Follows(job, next)
<1> DEFINE refs == NextBatch(job)
           found == ToSet(refs) \cap Matches
           read == [job EXCEPT !.details = SubSeq(@, Len(refs) + 1, Len(@)),
                               !.proposals = @ \cup found,
                               !.retryAt = FALSE]
           applies == /\ job.stage = "scan" /\ refs # <<>> /\ IsPrefix(refs, job.details)
                      /\ Cardinality(job.proposals \cup found) <= Capacity
           next == DetailsRead(job, refs, found)
<1> SUFFICES Fit(next, here, cut) /\ Follows(job, next)
  BY Zenon
<1>1. job \in Jobs /\ IsSound(job) /\ Emptied(job) /\ Covering(job, here, cut)
  BY DEF Fit
<1>2. next = job \/ (applies /\ next = [read EXCEPT !.rev = job.rev + 1])
  BY Zenon DEF DetailsRead, Reduced
<1>3. CASE next = job
  BY <1>3 DEF Follows
<1>4. CASE applies /\ next = [read EXCEPT !.rev = job.rev + 1]
  <2> HIDE DEF next
  <2>1. PICK n \in 0..Len(job.details) : refs = SubSeq(job.details, 1, n)
    BY <1>1, <1>4, NextBatchIs
  <2> HIDE DEF refs
  <2>2. job.details \in Seq(Refs) /\ IsInjective(job.details)
    BY <1>1 DEF Jobs, IsSound
  <2>3. Len(job.details) \in Nat /\ \A i \in 1..Len(job.details) : job.details[i] \in Refs
    BY <2>2, LenProperties
  <2>4. /\ refs \in Seq(Refs) /\ Len(refs) = n
        /\ \A i \in 1..n : refs[i] = job.details[i]
    <3>1. n \in Nat /\ \A i \in 1..n : job.details[i] \in Refs
      BY <2>1, <2>3
    <3>2. /\ SubSeq(job.details, 1, n) \in Seq(Refs)
          /\ Len(SubSeq(job.details, 1, n)) = IF 1 <= n THEN n - 1 + 1 ELSE 0
          /\ \A i \in 1..(n - 1 + 1) : SubSeq(job.details, 1, n)[i] = job.details[1 + i - 1]
      BY <3>1, SubSeqProperties
    <3> QED BY <3>1, <3>2, <2>1
  <2> DEFINE rest == SubSeq(job.details, n + 1, Len(job.details))
  <2>5. /\ rest \in Seq(Refs) /\ Len(rest) = Len(job.details) - n
        /\ \A i \in 1..Len(rest) : rest[i] = job.details[n + i]
    <3>1. n + 1 \in Int /\ Len(job.details) \in Int
          /\ \A i \in (n + 1)..Len(job.details) : job.details[i] \in Refs
      BY <2>1, <2>3
    <3>2. /\ rest \in Seq(Refs)
          /\ Len(rest) = IF n + 1 <= Len(job.details)
                         THEN Len(job.details) - (n + 1) + 1 ELSE 0
          /\ \A i \in 1..(Len(job.details) - (n + 1) + 1) : rest[i] = job.details[(n + 1) + i - 1]
      BY <3>1, SubSeqProperties
    <3> QED BY <3>2, <2>1, <2>3
  <2> HIDE DEF rest
  <2>6. /\ next.details = rest /\ next.proposals = job.proposals \cup found
        /\ next.start = job.start /\ next.stage = job.stage /\ next.cursors = job.cursors
        /\ next \in Jobs
    <3>1. found \subseteq Matches
      OBVIOUS
    <3> HIDE DEF found
    <3>2. read = [job EXCEPT !.details = rest, !.proposals = job.proposals \cup found,
                             !.retryAt = FALSE]
      BY <2>4 DEF rest
    <3> HIDE DEF read
    <3>3. /\ read \in Jobs /\ read.details = rest /\ read.proposals = job.proposals \cup found
          /\ read.start = job.start /\ read.stage = job.stage /\ read.cursors = job.cursors
      BY <1>1, <2>5, <3>1, <3>2 DEF Jobs
    <3>4. job.rev + 1 \in Nat
      BY <1>1 DEF Jobs
    <3> QED BY <1>4, <3>3, <3>4 DEF Jobs
  <2>7. ToSet(rest) \subseteq ToSet(job.details)
    <3> SUFFICES ASSUME NEW x \in ToSet(rest) PROVE x \in ToSet(job.details)
      OBVIOUS
    <3>1. PICK i \in 1..Len(rest) : rest[i] = x
      BY <2>5, ToSetProperties
    <3>2. n + i \in 1..Len(job.details) /\ job.details[n + i] = x
      BY <2>1, <2>3, <2>5, <3>1
    <3> QED BY <2>2, <3>2, ToSetProperties
  <2>8. ToSet(job.details) \subseteq ToSet(rest) \cup ToSet(refs)
    <3> SUFFICES ASSUME NEW x \in ToSet(job.details) PROVE x \in ToSet(rest) \cup ToSet(refs)
      OBVIOUS
    <3>1. PICK i \in 1..Len(job.details) : job.details[i] = x
      BY <2>2, ToSetProperties
    <3>2. CASE i <= n
      <4>1. i \in 1..Len(refs) /\ refs[i] = x
        BY <2>1, <2>3, <2>4, <3>1, <3>2
      <4> QED BY <2>4, <4>1, ToSetProperties
    <3>3. CASE i > n
      <4>1. i - n \in 1..Len(rest) /\ n + (i - n) = i
        BY <2>1, <2>3, <2>5, <3>1, <3>3
      <4>2. rest[i - n] = x
        BY <2>5, <3>1, <4>1
      <4> QED BY <2>5, <4>1, <4>2, ToSetProperties
    <3> QED BY <2>1, <2>3, <3>2, <3>3
  <2>9. IsSound(next)
    <3>1. IsInjective(rest)
      <4>1. SUFFICES ASSUME NEW a \in 1..Len(rest), NEW b \in 1..Len(rest), rest[a] = rest[b]
                     PROVE  a = b
        BY <2>5, LenProperties DEF IsInjective
      <4>2. n + a \in 1..Len(job.details) /\ n + b \in 1..Len(job.details)
        BY <2>1, <2>3, <2>5
      <4>3. job.details[n + a] = job.details[n + b]
        BY <2>5, <4>1
      <4>4. DOMAIN job.details = 1..Len(job.details)
        BY <2>2, LenProperties
      <4>5. n + a = n + b
        BY <2>2, <4>2, <4>3, <4>4 DEF IsInjective
      <4> QED BY <2>1, <2>3, <2>5, <4>5
    <3> QED BY <1>1, <1>4, <2>6, <3>1 DEF IsSound
  <2>10. Emptied(next)
    BY <1>4, <2>6 DEF Emptied
  <2>11. Covering(next, here, cut)
    <3>1. Known(job) \cap Matches \subseteq Known(next)
      BY <2>6, <2>8 DEF Known
    <3> QED BY <1>1, <2>6, <3>1, CoveringKept
  <2>12. Follows(job, next)
    BY <2>6, <2>7 DEF Follows
  <2> QED BY <2>6, <2>9, <2>10, <2>11, <2>12 DEF Fit
<1> QED BY <1>2, <1>3, <1>4, Zenon

(* The positions of a page. *)
Page(cursor) ==
    {i \in DOMAIN site[cursor.list] :
        (cursor.page - 1) * PageSize < i /\ i <= cursor.page * PageSize}

(* A page gives its matches and the lists of answers of its questions, and
   the cursor that follows leads on to the rest of the list. *)
LEMMA SliceIs ==
    ASSUME GoodSite(site, shrunk), NEW cursor \in Cursors
    PROVE  LET slice == Slice(cursor)
               list == site[cursor.list]
           IN /\ slice.refs \in Seq(Refs)
              /\ slice.answers \in Seq(Cursors) /\ slice.more \in Seq(Cursors)
              /\ \A i \in Page(cursor) :
                    /\ list[i] \in Matches => list[i] \in ToSet(slice.refs)
                    /\ cursor.list \notin Searches /\ list[i] \in DOMAIN AnswerList
                          => Cursor(AnswerList[list[i]], 1) \in ToSet(slice.answers)
              /\ \A i \in 1..Len(list) : cursor.page * PageSize < i
                    => Cursor(cursor.list, cursor.page + 1) \in ToSet(slice.more)
<1> DEFINE slice == Slice(cursor)
           list == site[cursor.list]
           chosen == {i \in Page(cursor) : cursor.list \in Searches \/ list[i] \in Candidates}
           asking == {i \in Page(cursor) : list[i] \in DOMAIN AnswerList}
           asked == AtPlaces(list, asking)
           answers == [i \in DOMAIN asked |-> Cursor(AnswerList[asked[i]], 1)]
           more == IF cursor.page * PageSize < Len(list)
                   THEN <<Cursor(cursor.list, cursor.page + 1)>> ELSE <<>>
           n == Len(list)
<1>1. slice = [refs |-> AtPlaces(list, chosen),
               answers |-> IF cursor.list \in Searches THEN <<>> ELSE answers,
               more |-> more]
  BY Zenon DEF Slice, Page
<1>2. /\ slice.refs = AtPlaces(list, chosen) /\ slice.more = more
      /\ cursor.list \in Searches => slice.answers = <<>>
      /\ cursor.list \notin Searches => slice.answers = answers
  <2> HIDE DEF slice, chosen, answers, more
  <2> QED BY <1>1
<1>3. list \in Seq(Refs) /\ cursor.list \in Lists /\ cursor.page \in Nat \ {0}
  BY DEF GoodSite, Cursors
<1> HIDE DEF slice, list
<1>4. n \in Nat /\ DOMAIN list = 1..n /\ list \in [1..n -> Refs]
  BY <1>3, LenProperties
<1> HIDE DEF n
<1>5. Page(cursor) \in SUBSET (1..n)
  BY <1>4 DEF Page, list
<1>6. chosen \in SUBSET (1..n) /\ asking \in SUBSET (1..n)
  BY <1>5
<1>7. (\A i \in chosen : list[i] \in Refs) /\ (\A i \in asking : list[i] \in DOMAIN AnswerList)
  BY <1>4, <1>6
<1>8. \A i \in Page(cursor) : /\ list[i] \in Matches => i \in chosen
                              /\ list[i] \in DOMAIN AnswerList => i \in asking
  BY ScanAssumption
<1> HIDE DEF chosen, asking
<1>9. AtPlaces(list, chosen) \in Seq(Refs) /\ asked \in Seq(DOMAIN AnswerList)
  BY <1>4, <1>6, <1>7, AtPlacesType
<1>10. /\ ToSet(AtPlaces(list, chosen)) = {list[i] : i \in chosen}
       /\ ToSet(asked) = {list[i] : i \in asking}
  BY <1>4, <1>6, AtPlacesRange
<1> HIDE DEF asked
<1>11. Len(asked) \in Nat /\ DOMAIN asked = 1..Len(asked)
  BY <1>9, LenProperties
<1>12. \A i \in 1..Len(asked) : Cursor(AnswerList[asked[i]], 1) \in Cursors
  <2> TAKE i \in 1..Len(asked)
  <2>1. asked[i] \in DOMAIN AnswerList
    BY <1>9, ElementOfSeq
  <2>2. AnswerList[asked[i]] \in Lists
    BY <2>1, ScanAssumption
  <2> QED BY <2>2 DEF Cursor, Cursors
<1>13. answers \in [1..Len(asked) -> Cursors]
  BY <1>11, <1>12
<1>14. answers \in Seq(Cursors)
  BY <1>11, <1>13, SeqDef
<1>15. more \in Seq(Cursors)
  <2>1. Cursor(cursor.list, cursor.page + 1) \in Cursors
    BY <1>3 DEF Cursor, Cursors
  <2> QED BY <2>1
<1>16. slice.refs \in Seq(Refs) /\ slice.answers \in Seq(Cursors) /\ slice.more \in Seq(Cursors)
  <2>1. <<>> \in Seq(Cursors)
    OBVIOUS
  <2> HIDE DEF answers, more
  <2> QED BY <1>2, <1>9, <1>14, <1>15, <2>1
<1>17. ASSUME NEW i \in Page(cursor)
       PROVE  /\ list[i] \in Matches => list[i] \in ToSet(slice.refs)
              /\ cursor.list \notin Searches /\ list[i] \in DOMAIN AnswerList
                    => Cursor(AnswerList[list[i]], 1) \in ToSet(slice.answers)
  <2>1. list[i] \in Matches => list[i] \in ToSet(slice.refs)
    BY <1>2, <1>8, <1>10
  <2>2. ASSUME cursor.list \notin Searches, list[i] \in DOMAIN AnswerList
        PROVE  Cursor(AnswerList[list[i]], 1) \in ToSet(slice.answers)
    <3>1. list[i] \in ToSet(asked)
      BY <1>8, <1>10, <2>2
    <3>2. PICK k \in 1..Len(asked) : asked[k] = list[i]
      BY <3>1, <1>9, ToSetProperties
    <3>3. answers[k] = Cursor(AnswerList[list[i]], 1) /\ k \in DOMAIN answers
      BY <1>11, <3>2
    <3>4. slice.answers = answers
      BY <1>2, <2>2
    <3> HIDE DEF answers
    <3> QED BY <3>3, <3>4 DEF ToSet
  <2> QED BY <2>1, <2>2
<1>18. ASSUME NEW i \in 1..n, cursor.page * PageSize < i
       PROVE  Cursor(cursor.list, cursor.page + 1) \in ToSet(slice.more)
  <2>1. cursor.page * PageSize \in Int
    BY <1>3, ScanAssumption
  <2>2. cursor.page * PageSize < Len(list)
    BY <1>4, <1>18, <2>1 DEF n
  <2>3. slice.more = <<Cursor(cursor.list, cursor.page + 1)>>
    BY <1>2, <2>2
  <2> QED BY <2>3 DEF ToSet
<1> QED BY <1>16, <1>17, <1>18 DEF slice, list, n

(* What follows a page has its references and reaches its questions' answers:
   nothing that was reached before is lost. *)
LEMMA InventoryReadKeeps ==
    ASSUME GoodSite(site, shrunk), NEW job, Fit(job, site, shrunk), NextCursor(job) # None
    PROVE  LET next == InventoryRead(job, NextCursor(job), Slice(NextCursor(job)))
           IN Fit(next, site, shrunk) /\ Follows(job, next)
<1> DEFINE cursor == NextCursor(job)
           slice == Slice(cursor)
           rest == Tail(job.cursors)
           queue == IF cursor.list \in Searches THEN slice.more \o rest
                    ELSE rest \o slice.more \o slice.answers
           new == Deduped(slice.refs, Refs \ Known(job))
           read == [job EXCEPT !.cursors = CursorsAfter(job, cursor, slice),
                               !.details = @ \o new,
                               !.retryAt = FALSE]
           next == InventoryRead(job, cursor, slice)
<1> SUFFICES Fit(next, site, shrunk) /\ Follows(job, next)
  BY Zenon
<1>1. job \in Jobs /\ IsSound(job) /\ Emptied(job) /\ Covering(job, site, shrunk)
  BY DEF Fit
<1>2. /\ job.cursors \in Seq(Cursors) /\ job.details \in Seq(Refs)
      /\ IsInjective(job.details)
  BY <1>1 DEF Jobs, IsSound
<1>3. job.stage = "scan" /\ job.cursors # <<>> /\ cursor = Head(job.cursors)
  BY DEF NextCursor
<1>4. next = [read EXCEPT !.rev = job.rev + 1]
  BY Zenon DEF InventoryRead, Reduced
<1> HIDE DEF cursor, next
<1>5. cursor \in Cursors /\ rest \in Seq(Cursors)
  BY <1>2, <1>3, HeadTailProperties
<1>6. ToSet(job.cursors) \subseteq {cursor} \cup ToSet(rest)
  <2>1. /\ Len(rest) = Len(job.cursors) - 1 /\ Len(job.cursors) \in Nat
        /\ \A i \in 1..Len(rest) : rest[i] = job.cursors[i + 1]
    BY <1>2, <1>3, HeadTailProperties, LenProperties
  <2>2. ASSUME NEW x \in ToSet(job.cursors) PROVE x \in {cursor} \cup ToSet(rest)
    <3>1. PICK i \in 1..Len(job.cursors) : job.cursors[i] = x
      BY <1>2, ToSetProperties
    <3>2. CASE i = 1
      <4>1. cursor = job.cursors[1]
        BY <1>2, <1>3
      <4> QED BY <3>1, <3>2, <4>1
    <3>3. CASE i # 1
      <4>1. i - 1 \in 1..Len(rest) /\ (i - 1) + 1 = i
        BY <2>1, <3>3
      <4>2. rest[i - 1] = x
        BY <2>1, <3>1, <4>1
      <4>3. DOMAIN rest = 1..Len(rest)
        BY <1>5, LenProperties
      <4>4. x \in ToSet(rest)
        BY <4>1, <4>2, <4>3 DEF ToSet
      <4> QED BY <4>4
    <3> QED BY <3>1, <3>2, <3>3
  <2> QED BY <2>2
<1>7. /\ slice.refs \in Seq(Refs)
      /\ slice.answers \in Seq(Cursors) /\ slice.more \in Seq(Cursors)
      /\ \A i \in Page(cursor) :
            /\ site[cursor.list][i] \in Matches => site[cursor.list][i] \in ToSet(slice.refs)
            /\ cursor.list \notin Searches /\ site[cursor.list][i] \in DOMAIN AnswerList
                  => Cursor(AnswerList[site[cursor.list][i]], 1) \in ToSet(slice.answers)
      /\ \A i \in 1..Len(site[cursor.list]) : cursor.page * PageSize < i
            => Cursor(cursor.list, cursor.page + 1) \in ToSet(slice.more)
  BY <1>5, SliceIs, Zenon
<1> HIDE DEF slice, rest
<1>8. /\ queue \in Seq(Cursors)
      /\ ToSet(rest) \subseteq ToSet(queue) /\ ToSet(slice.more) \subseteq ToSet(queue)
      /\ cursor.list \notin Searches => ToSet(slice.answers) \subseteq ToSet(queue)
  <2>1. CASE cursor.list \in Searches
    <3>1. ToSet(slice.more \o rest) = ToSet(slice.more) \cup ToSet(rest)
      BY <1>5, <1>7, ToSetConcat
    <3>2. slice.more \o rest \in Seq(Cursors)
      BY <1>5, <1>7, ConcatProperties
    <3> QED BY <2>1, <3>1, <3>2
  <2>2. CASE cursor.list \notin Searches
    <3>1. ToSet(rest \o slice.more) = ToSet(rest) \cup ToSet(slice.more)
      BY <1>5, <1>7, ToSetConcat
    <3>2. rest \o slice.more \in Seq(Cursors)
      BY <1>5, <1>7, ConcatProperties
    <3> DEFINE front == rest \o slice.more
    <3>3. front \in Seq(Cursors)
      BY <3>2
    <3> HIDE DEF front
    <3>4. ToSet(front \o slice.answers) = ToSet(front) \cup ToSet(slice.answers)
      BY <3>3, <1>7, ToSetConcat
    <3>5. front \o slice.answers \in Seq(Cursors)
      BY <3>3, <1>7, ConcatProperties
    <3>6. queue = front \o slice.answers
      BY <2>2 DEF front
    <3>7. ToSet(front) = ToSet(rest) \cup ToSet(slice.more)
      BY <3>1 DEF front
    <3> HIDE DEF queue
    <3> QED BY <3>4, <3>5, <3>6, <3>7
  <2> QED BY <2>1, <2>2
<1>9. CursorsAfter(job, cursor, slice) = Deduped(queue, Cursors)
  BY Zenon DEF CursorsAfter, rest
<1> HIDE DEF queue
<1> DEFINE cursors == Deduped(queue, Cursors)
<1>10. /\ cursors \in Seq(Cursors) /\ IsInjective(cursors)
       /\ ToSet(cursors) = ToSet(queue)
  <2>1. /\ cursors \in Seq(Cursors \cap Cursors) /\ IsInjective(cursors)
        /\ ToSet(cursors) = ToSet(queue) \cap Cursors
    BY <1>8, DedupedProperties
  <2>2. Cursors \cap Cursors = Cursors
    OBVIOUS
  <2>3. ToSet(queue) \subseteq Cursors
    BY <1>8, ToSetProperties
  <2> QED BY <2>1, <2>2, <2>3
<1>11. /\ new \in Seq(Refs) /\ IsInjective(new)
       /\ ToSet(new) = ToSet(slice.refs) \ Known(job)
  <2>1. /\ new \in Seq(Refs \cap (Refs \ Known(job))) /\ IsInjective(new)
        /\ ToSet(new) = ToSet(slice.refs) \cap (Refs \ Known(job))
    <3> DEFINE refs == slice.refs
               set == Refs \ Known(job)
    <3>1. refs \in Seq(Refs) /\ new = Deduped(refs, set)
      BY <1>7
    <3> HIDE DEF refs, set, new
    <3>2. /\ new \in Seq(Refs \cap set) /\ IsInjective(new)
          /\ ToSet(new) = ToSet(refs) \cap set
      BY <3>1, DedupedProperties
    <3> QED BY <3>2 DEF refs, set
  <2>2. new \in Seq(Refs)
    <3>1. Refs \cap (Refs \ Known(job)) \subseteq Refs
      OBVIOUS
    <3> QED BY <2>1, <3>1, SeqMonotonic
  <2>3. ToSet(slice.refs) \subseteq Refs
    BY <1>7, ToSetProperties
  <2> QED BY <2>1, <2>2, <2>3
<1> HIDE DEF cursors, new
<1> DEFINE details == job.details \o new
<1>12. /\ details \in Seq(Refs) /\ IsInjective(details)
       /\ ToSet(details) = ToSet(job.details) \cup ToSet(new)
  <2>1. ToSet(job.details) \cap ToSet(new) = {}
    BY <1>11 DEF Known
  <2> QED BY <1>2, <1>11, <2>1, ConcatProperties, ToSetConcat, ConcatInjective
<1>13. /\ next \in Jobs /\ next.start = job.start /\ next.stage = job.stage
       /\ next.cursors = cursors /\ next.details = details /\ next.proposals = job.proposals
  <2>1. read = [job EXCEPT !.cursors = cursors, !.details = details, !.retryAt = FALSE]
    BY <1>9 DEF cursors
  <2> HIDE DEF read, details
  <2>2. /\ read \in Jobs /\ read.start = job.start /\ read.stage = job.stage
        /\ read.cursors = cursors /\ read.details = details /\ read.proposals = job.proposals
    BY <1>1, <1>10, <1>12, <2>1 DEF Jobs
  <2>3. job.rev + 1 \in Nat
    BY <1>1 DEF Jobs
  <2> QED BY <1>4, <2>2, <2>3 DEF Jobs
<1> HIDE DEF read, details
<1>14. IsSound(next)
  BY <1>1, <1>10, <1>12, <1>13 DEF IsSound
<1>15. Emptied(next)
  BY <1>3, <1>13 DEF Emptied
<1>16. Known(job) \subseteq Known(next) /\ ToSet(slice.refs) \subseteq Known(next)
  BY <1>11, <1>12, <1>13 DEF Known
<1>17. ToSet(rest) \cup ToSet(slice.more) \subseteq ToSet(next.cursors)
  BY <1>8, <1>10, <1>13
<1>18. ASSUME NEW l, NEW ref, Ahead(job, site, l, ref)
       PROVE  \/ Ahead(next, site, l, ref)
              \/ l = cursor.list /\ \E i \in Page(cursor) : site[l][i] = ref
  <2>1. PICK c \in ToSet(job.cursors), k \in 1..Len(site[l]) :
            c.list = l /\ (c.page - 1) * PageSize < k /\ site[l][k] = ref
    BY <1>18 DEF Ahead
  <2>2. CASE c \in ToSet(rest)
    BY <1>17, <2>1, <2>2 DEF Ahead
  <2>3. CASE c = cursor
    <3>1. cursor.page \in Nat \ {0} /\ cursor.list \in Lists
      BY <1>5 DEF Cursors
    <3>2. site[cursor.list] \in Seq(Refs)
      BY <3>1 DEF GoodSite
    <3>3. k \in DOMAIN site[cursor.list]
      BY <2>1, <2>3, <3>2, LenProperties
    <3>4. cursor.page * PageSize \in Int /\ k \in Int
      BY <3>1, ScanAssumption
    <3>5. CASE k <= cursor.page * PageSize
      <4>1. k \in Page(cursor)
        BY <2>1, <2>3, <3>3, <3>5 DEF Page
      <4> QED BY <2>1, <2>3, <4>1
    <3>6. CASE cursor.page * PageSize < k
      <4> DEFINE more == Cursor(cursor.list, cursor.page + 1)
      <4>1. more \in ToSet(next.cursors)
        BY <1>7, <1>17, <2>1, <2>3, <3>6
      <4>2. more.list = l /\ more.page = cursor.page + 1
        BY <2>1, <2>3 DEF Cursor
      <4>3. more.page - 1 = cursor.page
        BY <3>1, <4>2
      <4>4. (more.page - 1) * PageSize < k
        BY <3>6, <4>3
      <4> HIDE DEF more
      <4> QED BY <2>1, <4>1, <4>2, <4>4 DEF Ahead
    <3> QED BY <3>4, <3>5, <3>6
  <2> QED BY <1>6, <2>1, <2>2, <2>3
<1>19. ASSUME NEW l, ListCovered(job, site, shrunk, l)
       PROVE  ListCovered(next, site, shrunk, l)
  <2>1. SUFFICES ASSUME l \notin shrunk, NEW ref \in ToSet(FirstSite[l]) \cap Matches
                 PROVE  ref \in Known(next) \/ Ahead(next, site, l, ref)
    BY DEF ListCovered
  <2>2. ref \in Known(job) \/ Ahead(job, site, l, ref)
    BY <1>19, <2>1 DEF ListCovered
  <2>3. CASE ref \in Known(job)
    BY <1>16, <2>3
  <2>4. CASE Ahead(job, site, l, ref)
    <3>1. ASSUME l = cursor.list, NEW i \in Page(cursor), site[l][i] = ref
          PROVE  ref \in Known(next)
      BY <1>7, <1>16, <3>1
    <3> QED BY <1>18, <2>4, <3>1
  <2> QED BY <2>2, <2>3, <2>4
<1>20. ASSUME NEW l \in Lists \ Searches, NEW q \in DOMAIN AnswerList,
              Ahead(job, site, l, q), ~Ahead(next, site, l, q)
       PROVE  ListCovered(next, site, shrunk, AnswerList[q])
  <2> DEFINE a == AnswerList[q]
             opened == Cursor(a, 1)
  <2>1. PICK i \in Page(cursor) : site[cursor.list][i] = q /\ l = cursor.list
    BY <1>18, <1>20
  <2>2. opened \in ToSet(next.cursors)
    BY <1>7, <1>8, <1>10, <1>13, <2>1
  <2>3. opened.list = a /\ (opened.page - 1) * PageSize = 0
    <3>1. opened.page - 1 = 0 /\ opened.list = a
      BY DEF Cursor
    <3> HIDE DEF opened
    <3> QED BY <3>1, ScanAssumption
  <2>4. a \in Lists
    BY ScanAssumption
  <2> HIDE DEF opened, a
  <2>5. ASSUME a \notin shrunk, NEW ref \in ToSet(FirstSite[a])
        PROVE  Ahead(next, site, a, ref)
    <3>1. ref \in ToSet(site[a]) /\ site[a] \in Seq(Refs)
      BY <2>4, <2>5 DEF GoodSite
    <3>2. PICK k \in 1..Len(site[a]) : site[a][k] = ref
      BY <3>1, ToSetProperties
    <3>3. (opened.page - 1) * PageSize < k
      BY <2>3
    <3> QED BY <2>2, <2>3, <3>2, <3>3 DEF Ahead
  <2> QED BY <2>5 DEF ListCovered, a
<1>21. Covering(next, site, shrunk)
  <2>1. ToSet(next.start.targets) \cap Matches \subseteq Known(next)
    BY <1>1, <1>13, <1>16 DEF Covering
  <2>2. \A l \in ToSet(next.start.lists) : ListCovered(next, site, shrunk, l)
    BY <1>1, <1>13, <1>19 DEF Covering
  <2>3. ASSUME NEW l \in ToSet(next.start.lists) \ (Searches \cup shrunk),
               NEW q \in ToSet(FirstSite[l]) \cap DOMAIN AnswerList
        PROVE  Ahead(next, site, l, q) \/ ListCovered(next, site, shrunk, AnswerList[q])
    <3>1. Ahead(job, site, l, q) \/ ListCovered(job, site, shrunk, AnswerList[q])
      BY <1>1, <1>13 DEF Covering
    <3>2. l \in Lists
      <4>1. job.start.lists \in Seq(Lists)
        BY <1>1, ScanAssumption DEF Jobs
      <4> QED BY <1>13, <4>1, ToSetProperties
    <3> QED BY <1>19, <1>20, <3>1, <3>2
  <2> QED BY <2>1, <2>2, <2>3 DEF Covering
<1>22. Follows(job, next)
  BY <1>3, <1>12, <1>13 DEF Follows
<1> QED BY <1>13, <1>14, <1>15, <1>21, <1>22 DEF Fit

-----------------------------------------------------------------------------
(* The parts of a tab *)

(* A tab without a loop holds no job and has asked for nothing. *)
LEMMA NoLoopIsGood ==
    /\ NoLoop \in Loops /\ NoLoop.at = "idle"
    /\ \A view, here, cut : GoodLoop(NoLoop, view, here, cut)
<1>1. NewCall \in Calls /\ IsBounded(NewCall)
  BY BudgetAssumption DEF NewCall, Calls, IsBounded
<1> QED BY <1>1 DEF NoLoop, Loops, GoodLoop

(* A loop may save what follows the job that is shown. *)
LEMMA SavingIsGood ==
    ASSUME NEW here, NEW cut, NEW view, view # None, NEW next, Fit(next, here, cut),
           Follows(view, next), NEW then \in {"idle", "next", "wait"}
    PROVE  /\ Saving(next, then) \in Loops
           /\ GoodLoop(Saving(next, then), view, here, cut)
<1>1. next \in Jobs /\ next # None
  BY NoneAssumption DEF Fit
<1>2. NewCall \in Calls /\ IsBounded(NewCall)
  BY BudgetAssumption DEF NewCall, Calls, IsBounded
<1>3. NoLoop \in Loops /\ NoLoop.call = NewCall
  BY NoLoopIsGood DEF NoLoop
<1>4. /\ Saving(next, then) \in Loops
      /\ Saving(next, then).next = next /\ Saving(next, then).call = NewCall
  BY <1>1, <1>3 DEF Saving, Loops
<1> QED BY <1>1, <1>2, <1>4 DEF GoodLoop

(* A loop moves on between its saves. *)
LEMMA MovedIsGood ==
    ASSUME NEW here, NEW cut, NEW view, view # None, NEW loop \in Loops,
           GoodLoop(loop, view, here, cut),
           NEW at \in {"admission", "next", "wait", "request"}
    PROVE  /\ [loop EXCEPT !.at = at] \in Loops
           /\ GoodLoop([loop EXCEPT !.at = at], view, here, cut)
           /\ [loop EXCEPT !.at = at, !.live = TRUE] \in Loops
           /\ GoodLoop([loop EXCEPT !.at = at, !.live = TRUE], view, here, cut)
BY DEF Loops, GoodLoop

(* Another loop in a tab. *)
LEMMA LoopSet ==
    ASSUME NEW job, NEW here, NEW cut, NEW r, GoodTab(r, job, here, cut),
           NEW loop \in Loops, GoodLoop(loop, r.view, here, cut)
    PROVE  GoodTab([r EXCEPT !.loop = loop], job, here, cut)
BY DEF GoodTab, Tabs

(* A tab that shows another job, while it saves nothing. *)
LEMMA ViewSet ==
    ASSUME NEW job, NEW here, NEW cut, NEW r, GoodTab(r, job, here, cut),
           r.loop.at # "save", NEW view \in Jobs, GoodView(view, job, here, cut)
    PROVE  GoodTab([r EXCEPT !.view = view], job, here, cut)
<1>1. view # None
  BY NoneAssumption
<1>2. [r EXCEPT !.view = view] \in Tabs
  BY DEF GoodTab, Tabs
<1>3. GoodLoop(r.loop, view, here, cut)
  BY <1>1 DEF GoodTab, GoodLoop
<1>4. GoodQueue(r.queue, view)
  BY <1>1 DEF GoodTab, GoodQueue
<1> QED BY <1>2, <1>3, <1>4 DEF GoodTab, Tabs

(* A tab that shows an error or none. *)
LEMMA ErrorSet ==
    ASSUME NEW job, NEW here, NEW cut, NEW r, GoodTab(r, job, here, cut)
    PROVE  /\ GoodTab([r EXCEPT !.error = TRUE], job, here, cut)
           /\ GoodTab([r EXCEPT !.error = FALSE], job, here, cut)
BY DEF GoodTab, Tabs

(* A tab that shows the job that it saved. *)
LEMMA ShownIsGood ==
    ASSUME NEW job, NEW here, NEW cut, NEW r, GoodTab(r, job, here, cut),
           r.loop.at # "save", NEW view \in Jobs, GoodView(view, job, here, cut)
    PROVE  GoodTab(Shown(r, view), job, here, cut)
<1> DEFINE t == [r EXCEPT !.view = view]
<1>1. GoodTab(t, job, here, cut)
  BY ViewSet
<1>2. r \in Tabs
  BY DEF GoodTab
<1>3. Shown(r, view) = [t EXCEPT !.error = FALSE]
  BY <1>2 DEF Shown, Tabs
<1> HIDE DEF t
<1>4. GoodTab([t EXCEPT !.error = FALSE], job, here, cut)
  BY <1>1, ErrorSet
<1> QED BY <1>3, <1>4

(* The stored job may move on when a tab shows an older one. *)
LEMMA StoredMovesOn ==
    ASSUME NEW job \in Jobs, NEW next \in Jobs, NEW here, NEW cut, NEW r,
           GoodTab(r, job, here, cut), job.rev < next.rev
    PROVE  GoodTab(r, next, here, cut)
<1>1. ASSUME r.view # None PROVE GoodView(r.view, next, here, cut)
  <2>1. GoodView(r.view, job, here, cut)
    BY <1>1 DEF GoodTab
  <2>2. r.view.rev \in Nat /\ job.rev \in Nat /\ next.rev \in Nat
    BY <2>1 DEF GoodView, Fit, Jobs
  <2> QED BY <2>1, <2>2 DEF GoodView
<1> QED BY <1>1 DEF GoodTab

(* The controls that wait are those that waited, current or not. *)
LEMMA QueueStopped ==
    ASSUME NEW queue \in Seq(Controls)
    PROVE  LET stopped == [i \in DOMAIN queue |-> [queue[i] EXCEPT !.current = FALSE]]
           IN /\ stopped \in Seq(Controls) /\ Len(stopped) = Len(queue)
              /\ \A i \in 1..Len(queue) : stopped[i].kind = queue[i].kind
<1> DEFINE stopped == [i \in DOMAIN queue |-> [queue[i] EXCEPT !.current = FALSE]]
<1>1. Len(queue) \in Nat /\ DOMAIN queue = 1..Len(queue)
      /\ \A i \in 1..Len(queue) : queue[i] \in Controls
  BY LenProperties
<1>2. \A i \in 1..Len(queue) : /\ stopped[i] \in Controls
                               /\ stopped[i].kind = queue[i].kind
  BY <1>1 DEF Controls
<1>3. stopped \in [1..Len(queue) -> Controls]
  BY <1>1, <1>2
<1> HIDE DEF stopped
<1>4. stopped \in Seq(Controls)
  BY <1>1, <1>3, SeqDef
<1>5. Len(stopped) = Len(queue)
  BY <1>1, <1>3, <1>4, LenProperties
<1> QED BY <1>2, <1>4, <1>5 DEF stopped

(* A tab whose work is stopped keeps its save and its controls. *)
LEMMA StoppedIsGood ==
    ASSUME NEW job, NEW here, NEW cut, NEW r, GoodTab(r, job, here, cut)
    PROVE  /\ GoodTab(Stopped(r), job, here, cut)
           /\ Stopped(r).view = r.view /\ Len(Stopped(r).queue) = Len(r.queue)
           /\ r.loop.at # "save" => Stopped(r).loop = NoLoop
<1> DEFINE loop == IF r.loop.at = "save" THEN [r.loop EXCEPT !.live = FALSE] ELSE NoLoop
           queue == [i \in DOMAIN r.queue |-> [r.queue[i] EXCEPT !.current = FALSE]]
<1>1. r \in Tabs /\ GoodLoop(r.loop, r.view, here, cut) /\ GoodQueue(r.queue, r.view)
  BY DEF GoodTab
<1>2. r.loop \in Loops /\ r.queue \in Seq(Controls)
  BY <1>1 DEF Tabs
<1>3. Stopped(r) = [r EXCEPT !.loop = loop, !.queue = queue]
  BY DEF Stopped
<1>4. loop \in Loops /\ GoodLoop(loop, r.view, here, cut)
  <2>1. CASE r.loop.at = "save"
    BY <1>1, <1>2, <2>1 DEF Loops, GoodLoop
  <2>2. CASE r.loop.at # "save"
    BY <2>2, NoLoopIsGood
  <2> QED BY <2>1, <2>2
<1>5. r.loop.at # "save" => loop = NoLoop
  OBVIOUS
<1>6. /\ queue \in Seq(Controls) /\ Len(queue) = Len(r.queue)
      /\ \A i \in 1..Len(r.queue) : queue[i].kind = r.queue[i].kind
  BY <1>2, QueueStopped
<1> HIDE DEF loop, queue
<1>7. GoodQueue(queue, r.view)
  BY <1>1, <1>6 DEF GoodQueue
<1>8. [r EXCEPT !.loop = loop, !.queue = queue] \in Tabs
  BY <1>1, <1>4, <1>6 DEF Tabs
<1> QED BY <1>1, <1>3, <1>4, <1>5, <1>6, <1>7, <1>8 DEF GoodTab, Tabs

(* The controls of a tab whose work is stopped stay the same controls. *)
LEMMA StoppedKinds ==
    ASSUME NEW r \in Tabs, NEW i \in 1..Len(r.queue)
    PROVE  Stopped(r).queue[i].kind = r.queue[i].kind
<1>1. r.queue \in Seq(Controls)
  BY DEF Tabs
<1>2. DOMAIN r.queue = 1..Len(r.queue) /\ r.queue[i] \in Controls
  BY <1>1, LenProperties
<1>3. Stopped(r).queue = [j \in DOMAIN r.queue |-> [r.queue[j] EXCEPT !.current = FALSE]]
  BY DEF Stopped, Tabs
<1>4. Stopped(r).queue[i] = [r.queue[i] EXCEPT !.current = FALSE]
  BY <1>2, <1>3
<1> QED BY <1>2, <1>4 DEF Controls

(* So do those of a tab whose storage failed. *)
LEMMA StorageFailedKinds ==
    ASSUME NEW r \in Tabs, NEW i \in 1..Len(r.queue)
    PROVE  StorageFailed(r).queue[i].kind = r.queue[i].kind
<1> DEFINE t == [r EXCEPT !.error = TRUE]
<1>1. t \in Tabs /\ t.queue = r.queue
  BY DEF Tabs
<1>2. StorageFailed(r) = Stopped(t)
  BY DEF StorageFailed
<1> HIDE DEF t
<1> QED BY <1>1, <1>2, StoppedKinds

(* A tab whose storage failed keeps its save and its controls. *)
LEMMA StorageFailedIsGood ==
    ASSUME NEW job, NEW here, NEW cut, NEW r, GoodTab(r, job, here, cut)
    PROVE  /\ GoodTab(StorageFailed(r), job, here, cut)
           /\ StorageFailed(r).view = r.view /\ Len(StorageFailed(r).queue) = Len(r.queue)
           /\ r.loop.at # "save" => StorageFailed(r).loop = NoLoop
<1> DEFINE t == [r EXCEPT !.error = TRUE]
<1>1. GoodTab(t, job, here, cut)
  BY ErrorSet
<1>2. t.view = r.view /\ t.queue = r.queue /\ t.loop = r.loop
  BY DEF GoodTab, Tabs
<1>3. StorageFailed(r) = Stopped(t)
  BY DEF StorageFailed
<1> HIDE DEF t
<1> QED BY <1>1, <1>2, <1>3, StoppedIsGood

(* So does a tab that found another job stored than its own, and shows it. *)
LEMMA ConflictedIsGood ==
    ASSUME Inv, NEW r, GoodTab(r, stored, site, shrunk), r.loop.at # "save"
    PROVE  /\ GoodTab(Conflicted(r), stored, site, shrunk)
           /\ Len(Conflicted(r).queue) = Len(r.queue)
<1> DEFINE t == [r EXCEPT !.view = stored]
<1>1. stored \in Jobs /\ GoodView(stored, stored, site, shrunk)
  BY DEF Inv, Fit, GoodView, Jobs
<1>2. GoodTab(t, stored, site, shrunk)
  BY <1>1, ViewSet
<1>3. t.queue = r.queue
  BY DEF GoodTab, Tabs
<1>4. Conflicted(r) = StorageFailed(t)
  BY DEF Conflicted
<1> HIDE DEF t
<1>5. GoodTab(StorageFailed(t), stored, site, shrunk) /\ Len(StorageFailed(t).queue) = Len(t.queue)
  BY <1>2, StorageFailedIsGood
<1> QED BY <1>3, <1>4, <1>5

(* A control that was handled leaves the queue. *)
LEMMA DequeuedIsGood ==
    ASSUME NEW job, NEW here, NEW cut, NEW r, GoodTab(r, job, here, cut),
           Len(r.queue) # 0, NEW ok \in BOOLEAN
    PROVE  GoodTab(Dequeued(r, ok), job, here, cut)
<1>1. r \in Tabs /\ GoodQueue(r.queue, r.view)
  BY DEF GoodTab
<1>2. r.queue \in Seq(Controls) /\ r.queue # <<>> /\ r.barrier \in BOOLEAN
  <2>1. r.queue \in Seq(Controls) /\ r.barrier \in BOOLEAN
    BY <1>1 DEF Tabs
  <2> QED BY <2>1
<1>3. /\ Tail(r.queue) \in Seq(Controls) /\ Len(Tail(r.queue)) = Len(r.queue) - 1
      /\ \A i \in 1..Len(Tail(r.queue)) : Tail(r.queue)[i] = r.queue[i + 1]
      /\ Len(r.queue) \in Nat
  BY <1>2, HeadTailProperties, LenProperties
<1>4. GoodQueue(Tail(r.queue), r.view)
  <2>1. \A i \in 1..Len(Tail(r.queue)) : i + 1 \in 1..Len(r.queue)
    BY <1>3
  <2> QED BY <1>1, <1>3, <2>1 DEF GoodQueue
<1> DEFINE barrier == IF Head(tab.queue).kind = "pause" THEN ok ELSE r.barrier
<1>5. barrier \in BOOLEAN
  BY <1>2
<1>6. Dequeued(r, ok) = [r EXCEPT !.queue = Tail(r.queue), !.barrier = barrier]
  BY DEF Dequeued
<1> HIDE DEF barrier
<1>7. [r EXCEPT !.queue = Tail(r.queue), !.barrier = barrier] \in Tabs
  BY <1>1, <1>3, <1>5 DEF Tabs
<1> QED BY <1>4, <1>6, <1>7 DEF GoodTab, Tabs

(* A control may be added to a queue that has room for it. *)
LEMMA EnqueuedIsGood ==
    ASSUME NEW job, NEW here, NEW cut, NEW r, GoodTab(r, job, here, cut),
           Len(r.queue) < 2, r.view # None, NEW kind \in {"pause", "cancel", "interrupt"}
    PROVE  /\ GoodTab(Enqueued(r, kind), job, here, cut)
           /\ Enqueued(r, kind).view = r.view
           /\ Len(Enqueued(r, kind).queue) = Len(r.queue) + 1
<1>1. r \in Tabs /\ r.queue \in Seq(Controls)
  BY DEF GoodTab, Tabs
<1> DEFINE queue == Append(r.queue, [kind |-> kind, current |-> TRUE])
<1>2. queue \in Seq(Controls) /\ Len(queue) = Len(r.queue) + 1 /\ Len(r.queue) \in Nat
  <2>1. [kind |-> kind, current |-> TRUE] \in Controls
    BY DEF Controls
  <2> QED BY <1>1, <2>1, AppendProperties, LenProperties
<1>3. Enqueued(r, kind) = [r EXCEPT !.queue = queue]
  BY DEF Enqueued
<1> HIDE DEF queue
<1>4. GoodQueue(queue, r.view)
  BY <1>2 DEF GoodQueue
<1>5. [r EXCEPT !.queue = queue] \in Tabs
  BY <1>1, <1>2 DEF Tabs
<1> QED BY <1>1, <1>2, <1>3, <1>4, <1>5 DEF GoodTab, Tabs

-----------------------------------------------------------------------------
(* The steps *)

(* A step that changes the loop of the tab and nothing that the invariant
   relates it to. *)
LEMMA LoopStep ==
    ASSUME Inv, NEW loop, loop \in Loops, GoodLoop(loop, tab.view, site, shrunk),
           tab' = [tab EXCEPT !.loop = loop],
           UNCHANGED <<stored, site, edits, inspected, shrunk>>,
           faults' \in Nat, refusals' \in Nat
    PROVE  Inv'
<1>1. GoodTab([tab EXCEPT !.loop = loop], stored, site, shrunk)
  BY LoopSet DEF Inv
<1>2. GoodTab(tab, stored, site, shrunk)'
  BY <1>1
<1> QED BY <1>2 DEF Inv

(* The job that a busy tab shows is good. *)
LEMMA ShownJob ==
    ASSUME Inv, tab.view # None
    PROVE  /\ tab \in Tabs /\ tab.view \in Jobs /\ tab.loop \in Loops
           /\ Fit(tab.view, site, shrunk) /\ GoodLoop(tab.loop, tab.view, site, shrunk)
           /\ tab.view.rev <= stored.rev /\ (tab.view.rev = stored.rev => tab.view = stored)
BY DEF Inv, GoodTab, GoodView, Fit, Tabs

(* A loop that is not idle belongs to a job that is shown. *)
LEMMA BusyShows ==
    ASSUME Inv, tab.loop.at # "idle"
    PROVE  tab.view # None
BY DEF Inv, GoodTab, GoodLoop

(* What is quiet may be saved by the loop. *)
LEMMA QuietSave ==
    ASSUME Inv, tab.view # None, NEW next, Quiet(tab.view, next),
           NEW then \in {"idle", "next", "wait"}
    PROVE  /\ Saving(next, then) \in Loops
           /\ GoodLoop(Saving(next, then), tab.view, site, shrunk)
BY ShownJob, QuietKeeps, SavingIsGood

(* The initial state. *)
LEMMA InitInv == Init => Inv
<1> SUFFICES ASSUME Init PROVE Inv
  OBVIOUS
<1>1. PICK start \in Starts : stored = Created(start)
  BY DEF Init
<1>2. /\ start.lists \in Seq(Lists) /\ IsInjective(start.lists)
      /\ start.targets \in Seq(Refs) /\ IsInjective(start.targets)
  BY ScanAssumption
<1> DEFINE cursors == [i \in DOMAIN start.lists |-> Cursor(start.lists[i], 1)]
<1>3. Len(start.lists) \in Nat /\ DOMAIN start.lists = 1..Len(start.lists)
      /\ \A i \in 1..Len(start.lists) : start.lists[i] \in Lists
  BY <1>2, LenProperties
<1>4. cursors \in [1..Len(start.lists) -> Cursors]
  BY <1>3 DEF Cursor, Cursors
<1>5. cursors \in Seq(Cursors) /\ DOMAIN cursors = 1..Len(start.lists)
  BY <1>3, <1>4, SeqDef
<1>6. \A i \in DOMAIN cursors : cursors[i].list = start.lists[i] /\ cursors[i].page = 1
  BY <1>3 DEF Cursor
<1>7. /\ stored.rev = 0 /\ stored.stage = "scan" /\ stored.status = "paused"
      /\ stored.start = start /\ stored.cursors = cursors
      /\ stored.details = start.targets /\ stored.proposals = {}
      /\ stored.retryAt = FALSE /\ stored.failure = "none"
      /\ stored \in Jobs
  <2> HIDE DEF cursors
  <2>1. stored = [rev |-> 0, stage |-> "scan", status |-> "paused", start |-> start,
                  cursors |-> cursors, details |-> start.targets, proposals |-> {},
                  retryAt |-> FALSE, failure |-> "none"]
    BY <1>1 DEF Created, cursors
  <2> QED BY <1>2, <1>5, <2>1 DEF Jobs
<1> HIDE DEF cursors
<1>8. IsSound(stored)
  <2>1. IsInjective(cursors)
    <3>1. SUFFICES ASSUME NEW a \in DOMAIN cursors, NEW b \in DOMAIN cursors,
                          cursors[a] = cursors[b]
                   PROVE  a = b
      BY DEF IsInjective
    <3>2. start.lists[a] = start.lists[b]
      BY <1>6, <3>1
    <3> QED BY <1>2, <1>3, <1>5, <3>2 DEF IsInjective
  <2>2. Cardinality({}) = 0
    BY FS_EmptySet
  <2> QED BY <1>2, <1>7, <2>1, <2>2, ScanAssumption DEF IsSound
<1>9. GoodSite(site, shrunk)
  BY ScanAssumption DEF Init, GoodSite
<1>10. ASSUME NEW l \in ToSet(start.lists), NEW ref \in ToSet(FirstSite[l])
       PROVE  Ahead(stored, site, l, ref)
  <2>1. PICK i \in 1..Len(start.lists) : start.lists[i] = l
    BY <1>2, ToSetProperties
  <2>2. cursors[i] \in ToSet(stored.cursors) /\ cursors[i].list = l /\ cursors[i].page = 1
    BY <1>5, <1>6, <1>7, <2>1 DEF ToSet
  <2>3. l \in Lists /\ site[l] = FirstSite[l] /\ site[l] \in Seq(Refs)
    BY <1>3, <2>1, ScanAssumption DEF Init
  <2>4. PICK k \in 1..Len(site[l]) : site[l][k] = ref
    BY <2>3, ToSetProperties
  <2>5. cursors[i].page - 1 = 0
    BY <2>2
  <2>6. (cursors[i].page - 1) * PageSize < k
    BY <2>5, ScanAssumption
  <2> QED BY <2>2, <2>4, <2>6 DEF Ahead
<1>11. Covering(stored, site, shrunk)
  <2>1. ToSet(stored.start.targets) \cap Matches \subseteq Known(stored)
    BY <1>7 DEF Known
  <2>2. \A l \in ToSet(stored.start.lists) : ListCovered(stored, site, shrunk, l)
    BY <1>7, <1>10 DEF ListCovered
  <2>3. \A l \in ToSet(stored.start.lists) \ (Searches \cup shrunk) :
           \A q \in ToSet(FirstSite[l]) \cap DOMAIN AnswerList :
              \/ Ahead(stored, site, l, q)
              \/ ListCovered(stored, site, shrunk, AnswerList[q])
    BY <1>7, <1>10
  <2> QED BY <2>1, <2>2, <2>3 DEF Covering
<1>12. Fit(stored, site, shrunk)
  BY <1>7, <1>8, <1>11 DEF Fit, Emptied
<1>13. GoodTab(tab, stored, site, shrunk)
  <2>1. tab = Fresh(stored)
    BY DEF Init
  <2>2. tab \in Tabs /\ tab.view = stored /\ tab.loop = NoLoop /\ tab.queue = <<>>
    BY <1>7, <2>1, NoLoopIsGood DEF Fresh, Tabs
  <2>3. GoodView(stored, stored, site, shrunk)
    BY <1>7, <1>12 DEF GoodView
  <2>4. GoodQueue(<<>>, stored)
    BY DEF GoodQueue
  <2> QED BY <2>2, <2>3, <2>4, NoLoopIsGood DEF GoodTab
<1> QED BY <1>9, <1>12, <1>13 DEF Inv, Init, GoodHistory

(* A loop is admitted. *)
LEMMA AdmitInv == Inv /\ Admit => Inv'
<1> SUFFICES ASSUME Inv, Admit PROVE Inv'
  OBVIOUS
<1> DEFINE next == Resumed(tab.view)
<1>1. tab.view # None
  BY BusyShows DEF Admit
<1>2. /\ tab \in Tabs /\ tab.view \in Jobs /\ tab.loop \in Loops
      /\ GoodLoop(tab.loop, tab.view, site, shrunk)
  BY <1>1, ShownJob
<1>3. Saving(next, "next") \in Loops /\ GoodLoop(Saving(next, "next"), tab.view, site, shrunk)
  BY <1>1, <1>2, ResumedIsQuiet, QuietSave
<1>4. /\ [tab.loop EXCEPT !.at = "next", !.live = TRUE] \in Loops
      /\ GoodLoop([tab.loop EXCEPT !.at = "next", !.live = TRUE], tab.view, site, shrunk)
  BY <1>1, <1>2, MovedIsGood
<1>5. \E loop \in {NoLoop, Saving(next, "next"),
                   [tab.loop EXCEPT !.at = "next", !.live = TRUE]} :
         tab' = [tab EXCEPT !.loop = loop]
  BY Zenon DEF Admit
<1> HIDE DEF next
<1>6. faults' \in Nat /\ refusals' \in Nat /\ UNCHANGED <<stored, site, edits, inspected, shrunk>>
  BY DEF Inv, Admit
<1> QED BY <1>3, <1>4, <1>5, <1>6, NoLoopIsGood, LoopStep

(* A turn of the loop waits, ends or asks. *)
LEMMA NextSliceInv == Inv /\ NextSlice => Inv'
<1> SUFFICES ASSUME Inv, NextSlice PROVE Inv'
  OBVIOUS
<1> DEFINE drained == QueuesDrained(tab.view)
           interrupted == CredentialInterrupted(tab.view)
<1>1. tab.view # None
  BY BusyShows DEF NextSlice
<1>2. /\ tab \in Tabs /\ tab.view \in Jobs /\ tab.loop \in Loops
      /\ GoodLoop(tab.loop, tab.view, site, shrunk)
  BY <1>1, ShownJob
<1>3. Saving(drained, "idle") \in Loops /\ GoodLoop(Saving(drained, "idle"), tab.view, site, shrunk)
  BY <1>1, <1>2, DrainedIsQuiet, QuietSave
<1>4. /\ Saving(interrupted, "idle") \in Loops
      /\ GoodLoop(Saving(interrupted, "idle"), tab.view, site, shrunk)
  BY <1>1, <1>2, CredentialInterruptedIsQuiet, QuietSave
<1>5. ASSUME NEW at \in {"wait", "request"}
      PROVE  /\ [tab.loop EXCEPT !.at = at] \in Loops
             /\ GoodLoop([tab.loop EXCEPT !.at = at], tab.view, site, shrunk)
  BY <1>1, <1>2, MovedIsGood
<1>6. \/ \E loop \in {NoLoop, Saving(drained, "idle"), Saving(interrupted, "idle")} :
            tab' = [tab EXCEPT !.loop = loop]
      \/ \E at \in {"wait", "request"} : tab' = [tab EXCEPT !.loop = [tab.loop EXCEPT !.at = at]]
  BY <1>2 DEF NextSlice, Tabs
<1> HIDE DEF drained, interrupted
<1>7. faults' \in Nat /\ refusals' \in Nat /\ UNCHANGED <<stored, site, edits, inspected, shrunk>>
  BY DEF Inv, NextSlice, Fault
<1>8. CASE \E loop \in {NoLoop, Saving(drained, "idle"), Saving(interrupted, "idle")} :
              tab' = [tab EXCEPT !.loop = loop]
  BY <1>3, <1>4, <1>7, <1>8, NoLoopIsGood, LoopStep
<1>9. CASE \E at \in {"wait", "request"} :
              tab' = [tab EXCEPT !.loop = [tab.loop EXCEPT !.at = at]]
  <2>1. PICK at \in {"wait", "request"} : tab' = [tab EXCEPT !.loop = [tab.loop EXCEPT !.at = at]]
    BY <1>9
  <2> DEFINE loop == [tab.loop EXCEPT !.at = at]
  <2>2. loop \in Loops /\ GoodLoop(loop, tab.view, site, shrunk)
    BY <1>5
  <2>3. tab' = [tab EXCEPT !.loop = loop]
    BY <2>1
  <2> HIDE DEF loop
  <2> QED BY <1>7, <2>2, <2>3, LoopStep
<1> QED BY <1>6, <1>8, <1>9

(* A deadline that passed is cleared. *)
LEMMA DeadlinePassedInv == Inv /\ DeadlinePassed => Inv'
<1> SUFFICES ASSUME Inv, DeadlinePassed PROVE Inv'
  OBVIOUS
<1> DEFINE next == RetryAtCleared(tab.view)
<1>1. tab.view # None
  BY BusyShows DEF DeadlinePassed
<1>2. tab.view \in Jobs
  BY <1>1, ShownJob
<1>3. Saving(next, "next") \in Loops /\ GoodLoop(Saving(next, "next"), tab.view, site, shrunk)
  BY <1>1, <1>2, RetryAtClearedIsQuiet, QuietSave
<1>4. tab' = [tab EXCEPT !.loop = Saving(next, "next")]
  BY DEF DeadlinePassed
<1>5. faults' \in Nat /\ refusals' \in Nat /\ UNCHANGED <<stored, site, edits, inspected, shrunk>>
  BY DEF Inv, DeadlinePassed
<1> HIDE DEF next
<1> QED BY <1>3, <1>4, <1>5, LoopStep

(* What a slice makes of the job that is shown. *)
LEMMA AfterSliceKeeps ==
    ASSUME Inv, tab.view # None, NEW slice \in Slices(tab.view)
    PROVE  /\ Fit(AfterSlice(tab.view, slice), site, shrunk)
           /\ Follows(tab.view, AfterSlice(tab.view, slice))
<1> DEFINE job == tab.view
<1>1. job \in Jobs /\ Fit(job, site, shrunk)
  BY ShownJob
<1>2. GoodSite(site, shrunk)
  BY DEF Inv
<1>3. CASE NextCursor(job) # None
  <2>1. slice = Slice(NextCursor(job))
    BY <1>3 DEF Slices
  <2>2. AfterSlice(job, slice) = InventoryRead(job, NextCursor(job), Slice(NextCursor(job)))
    BY <1>3, <2>1 DEF AfterSlice
  <2>3. LET next == InventoryRead(job, NextCursor(job), Slice(NextCursor(job)))
        IN Fit(next, site, shrunk) /\ Follows(job, next)
    BY <1>1, <1>2, <1>3, InventoryReadKeeps, Zenon
  <2> QED BY <2>2, <2>3, Zenon
<1>4. CASE NextCursor(job) = None
  <2>1. AfterSlice(job, slice)
           = DetailsRead(job, NextBatch(job), ToSet(NextBatch(job)) \cap Matches)
    BY <1>4 DEF AfterSlice
  <2>2. CASE job.cursors = <<>>
    <3>1. LET next == DetailsRead(job, NextBatch(job), ToSet(NextBatch(job)) \cap Matches)
          IN Fit(next, site, shrunk) /\ Follows(job, next)
      BY <1>1, <2>2, DetailsReadKeeps, Zenon
    <3> QED BY <2>1, <3>1, Zenon
  <2>3. CASE job.cursors # <<>>
    <3>1. job.stage # "scan"
      <4>1. job.cursors \in Seq(Cursors)
        BY <1>1 DEF Jobs
      <4>2. Head(job.cursors) \in Cursors
        BY <2>3, <4>1, HeadTailProperties
      <4> QED BY <1>4, <2>3, <4>2, NoneAssumption DEF NextCursor
    <3>2. job.stage = "review"
      BY <1>1, <3>1 DEF Jobs
    <3> QED BY <1>1, <2>3, <3>2 DEF Fit, Emptied
  <2> QED BY <2>2, <2>3
<1> QED BY <1>3, <1>4

(* The reply to a slice is handled. *)
LEMMA SliceReadInv == Inv /\ SliceRead => Inv'
<1> SUFFICES ASSUME Inv, SliceRead PROVE Inv'
  OBVIOUS
<1>1. tab.view # None
  BY BusyShows DEF SliceRead
<1>2. tab.view \in Jobs
  BY <1>1, ShownJob
<1>3. PICK slice \in Slices(tab.view) :
         \E loop \in {Saving(Failed(tab.view, "final"), "idle"),
                      Saving(RetryAtSet(AfterSlice(tab.view, slice)), "wait"),
                      Saving(AfterSlice(tab.view, slice), "next")} :
            tab' = [tab EXCEPT !.loop = loop]
  BY Zenon DEF SliceRead
<1>4. PICK after : after = AfterSlice(tab.view, slice)
  OBVIOUS
<1>5. Fit(after, site, shrunk) /\ Follows(tab.view, after)
  BY <1>1, <1>4, AfterSliceKeeps
<1>6. Fit(RetryAtSet(after), site, shrunk) /\ Follows(tab.view, RetryAtSet(after))
  <2>1. after \in Jobs
    BY <1>5 DEF Fit
  <2>2. Quiet(after, RetryAtSet(after))
    BY <2>1, RetryAtSetIsQuiet
  <2> QED BY <1>5, <2>2, QuietKeeps
<1>7. /\ Saving(after, "next") \in Loops
      /\ GoodLoop(Saving(after, "next"), tab.view, site, shrunk)
  BY <1>1, <1>5, SavingIsGood
<1>8. /\ Saving(RetryAtSet(after), "wait") \in Loops
      /\ GoodLoop(Saving(RetryAtSet(after), "wait"), tab.view, site, shrunk)
  BY <1>1, <1>6, SavingIsGood
<1>9. /\ Saving(Failed(tab.view, "final"), "idle") \in Loops
      /\ GoodLoop(Saving(Failed(tab.view, "final"), "idle"), tab.view, site, shrunk)
  BY <1>1, <1>2, FailedIsQuiet, QuietSave
<1>10. faults' \in Nat /\ refusals' \in Nat /\ UNCHANGED <<stored, site, edits, inspected, shrunk>>
  BY DEF Inv, SliceRead
<1> QED BY <1>3, <1>4, <1>7, <1>8, <1>9, <1>10, LoopStep

(* A refusal is repeated, within the bounds of a call, or ends the request. *)
LEMMA RefusedInv == \A refusal \in Refusals : Inv /\ Refused(refusal) => Inv'
<1> SUFFICES ASSUME NEW refusal \in Refusals, Inv, Refused(refusal) PROVE Inv'
  OBVIOUS
<1>1. tab.view # None
  BY BusyShows DEF Refused
<1>2. /\ tab \in Tabs /\ tab.view \in Jobs /\ tab.loop \in Loops
      /\ GoodLoop(tab.loop, tab.view, site, shrunk)
  BY <1>1, ShownJob
<1>3. /\ Saving(RetryAtSet(tab.view), "next") \in Loops
      /\ GoodLoop(Saving(RetryAtSet(tab.view), "next"), tab.view, site, shrunk)
  BY <1>1, <1>2, RetryAtSetIsQuiet, QuietSave
<1>4. /\ Saving(Failed(tab.view, "retryable"), "idle") \in Loops
      /\ GoodLoop(Saving(Failed(tab.view, "retryable"), "idle"), tab.view, site, shrunk)
  BY <1>1, <1>2, FailedIsQuiet, QuietSave
<1>5. faults' \in Nat /\ refusals' \in Nat /\ UNCHANGED <<stored, site, edits, inspected, shrunk>>
  BY DEF Inv, Refused
<1>6. CASE MayRetry(tab.loop.call, refusal)
  <2> DEFINE call == Retried(tab.loop.call, refusal)
             loop == [tab.loop EXCEPT !.call = call]
  <2>1. tab.loop.call \in Calls
    BY <1>2 DEF Loops
  <2>2. refusal.delay \in Nat
    BY BudgetAssumption DEF Refusals
  <2>3. call \in Calls /\ IsBounded(call)
    <3> DEFINE noticed == tab.loop.call.noticed \/ (refusal.kind = "429" /\ refusal.delay > 0)
    <3>1. noticed \in BOOLEAN
      BY Zenon
    <3>2. /\ tab.loop.call.retries + 1 \in Nat /\ tab.loop.call.waited + refusal.delay \in Nat
          /\ tab.loop.call.retries + 1 <= MaxRetries
          /\ tab.loop.call.waited + refusal.delay <= MaxCumulativeRetryWait
      BY <1>6, <2>1, <2>2, BudgetAssumption DEF Calls, MayRetry, CanWait
    <3>3. call = [retries |-> tab.loop.call.retries + 1,
                  waited |-> tab.loop.call.waited + refusal.delay, noticed |-> noticed]
      BY DEF Retried
    <3> HIDE DEF noticed, call
    <3> QED BY <3>1, <3>2, <3>3 DEF Calls, IsBounded
  <2>4. tab' = [tab EXCEPT !.loop = loop]
    BY <1>6, Zenon DEF Refused
  <2> HIDE DEF call
  <2>5. loop \in Loops /\ GoodLoop(loop, tab.view, site, shrunk)
    BY <1>2, <2>3 DEF Loops, GoodLoop
  <2> HIDE DEF loop
  <2> QED BY <1>5, <2>4, <2>5, LoopStep
<1>7. CASE ~MayRetry(tab.loop.call, refusal)
  <2>1. \E loop \in {Saving(RetryAtSet(tab.view), "next"),
                     Saving(Failed(tab.view, "retryable"), "idle")} :
           tab' = [tab EXCEPT !.loop = loop]
    BY <1>7, Zenon DEF Refused
  <2> QED BY <1>3, <1>4, <1>5, <2>1, LoopStep
<1> QED BY <1>6, <1>7

(* A request that fails ends the run. *)
LEMMA RequestFailsInv ==
    \A kind \in {"network", "401", "rejected"} : Inv /\ RequestFails(kind) => Inv'
<1> SUFFICES ASSUME NEW kind \in {"network", "401", "rejected"}, Inv, RequestFails(kind)
             PROVE  Inv'
  OBVIOUS
<1>1. tab.view # None
  BY BusyShows DEF RequestFails
<1>2. tab.view \in Jobs
  BY <1>1, ShownJob
<1>3. \A next \in {Failed(tab.view, "retryable"), CredentialInterrupted(tab.view),
                   Failed(tab.view, "final")} : Quiet(tab.view, next)
  BY <1>2, FailedIsQuiet, CredentialInterruptedIsQuiet
<1>4. \E next \in {Failed(tab.view, "retryable"), CredentialInterrupted(tab.view),
                   Failed(tab.view, "final")} :
         tab' = [tab EXCEPT !.loop = Saving(next, "idle")]
  BY DEF RequestFails
<1>5. faults' \in Nat /\ refusals' \in Nat /\ UNCHANGED <<stored, site, edits, inspected, shrunk>>
  BY DEF Inv, RequestFails, Fault
<1>6. PICK next : Quiet(tab.view, next) /\ tab' = [tab EXCEPT !.loop = Saving(next, "idle")]
  BY <1>3, <1>4
<1>7. Saving(next, "idle") \in Loops /\ GoodLoop(Saving(next, "idle"), tab.view, site, shrunk)
  BY <1>1, <1>6, QuietSave
<1> QED BY <1>5, <1>6, <1>7, LoopStep

(* What a save inspects was not inspected before. *)
LEMMA HistoryKept ==
    ASSUME NEW job \in Jobs, NEW next \in Jobs, Follows(job, next),
           NEW seen, GoodHistory(job, seen)
    PROVE  GoodHistory(next, seen \cup Consumed(job, next))
<1>1. ToSet(job.details) \subseteq Refs
  <2>1. job.details \in Seq(Refs)
    BY DEF Jobs
  <2> QED BY <2>1, ToSetProperties
<1> QED BY <1>1 DEF GoodHistory, Follows, Consumed

(* The loop saves its job, or finds another one, or fails. *)
LEMMA LoopSavedInv == Inv /\ LoopSaved => Inv'
<1> SUFFICES ASSUME Inv, LoopSaved PROVE Inv'
  OBVIOUS
<1> DEFINE next == tab.loop.next
           over == [tab EXCEPT !.loop = NoLoop]
<1>1. tab.view # None
  BY BusyShows DEF LoopSaved
<1>2. /\ tab \in Tabs /\ tab.view \in Jobs /\ tab.loop \in Loops
      /\ GoodLoop(tab.loop, tab.view, site, shrunk)
      /\ tab.view.rev <= stored.rev /\ (tab.view.rev = stored.rev => tab.view = stored)
  BY <1>1, ShownJob
<1>3. next \in Jobs /\ Fit(next, site, shrunk) /\ Follows(tab.view, next)
  BY <1>2 DEF LoopSaved, GoodLoop, Fit
<1>4. /\ stored \in Jobs /\ Fit(stored, site, shrunk) /\ GoodHistory(stored, inspected)
      /\ GoodTab(tab, stored, site, shrunk)
  BY DEF Inv, Fit
<1>5. /\ GoodTab(over, stored, site, shrunk) /\ over \in Tabs
      /\ over.view = tab.view /\ over.loop = NoLoop /\ over.queue = tab.queue
  <2>1. GoodTab(over, stored, site, shrunk)
    BY <1>4, NoLoopIsGood, LoopSet
  <2> QED BY <1>2, <2>1 DEF Tabs, GoodTab
<1>6. refusals' \in Nat /\ UNCHANGED <<site, edits, shrunk>>
  BY DEF Inv, LoopSaved
<1>7. faults' \in Nat
  BY DEF Inv, LoopSaved, CanFail, Fault
<1>8. CASE tab' = over /\ UNCHANGED <<stored, inspected>>
  <2>1. GoodTab(tab, stored, site, shrunk)'
    BY <1>5, <1>6, <1>8
  <2> QED BY <1>6, <1>7, <1>8, <2>1 DEF Inv
<1>9. CASE /\ CanSave(tab, next)
           /\ stored' = next
           /\ inspected' = inspected \cup Consumed(stored, next)
           /\ tab' = IF ~tab.loop.live THEN over
                     ELSE IF tab.loop.then = "idle" THEN Shown(over, next)
                     ELSE Shown([tab EXCEPT !.loop = [@ EXCEPT !.at = tab.loop.then,
                                                               !.next = None]], next)
  <2>1. tab.view = stored /\ next.rev = stored.rev + 1 /\ stored.rev \in Nat
    BY <1>2, <1>9 DEF CanSave, Jobs
  <2>2. GoodHistory(stored, inspected)'
    BY <1>3, <1>4, <1>9, <2>1, HistoryKept
  <2>3. GoodView(next, next, site, shrunk)
    BY <1>3, <2>1 DEF GoodView
  <2>4. GoodTab(over, next, site, shrunk)
    BY <1>3, <1>4, <1>5, <2>1, StoredMovesOn
  <2>5. GoodTab(Shown(over, next), next, site, shrunk)
    <3> HIDE DEF over
    <3>1. over.loop.at # "save"
      BY <1>5, NoLoopIsGood
    <3> QED BY <1>3, <2>3, <2>4, <3>1, ShownIsGood
  <2>6. ASSUME tab.loop.then # "idle"
        PROVE  GoodTab(Shown([tab EXCEPT !.loop = [@ EXCEPT !.at = tab.loop.then,
                                                            !.next = None]], next),
                       next, site, shrunk)
    <3> DEFINE loop == [tab.loop EXCEPT !.at = tab.loop.then, !.next = None]
               moved == [tab EXCEPT !.loop = loop]
    <3>1. /\ loop \in Loops /\ loop.at # "save"
          /\ GoodLoop(loop, tab.view, site, shrunk)
      BY <1>1, <1>2, <2>6 DEF Loops, GoodLoop
    <3>2. moved = [tab EXCEPT !.loop = [@ EXCEPT !.at = tab.loop.then, !.next = None]]
      BY <1>2 DEF Tabs
    <3> HIDE DEF loop
    <3>3. GoodTab(moved, stored, site, shrunk)
      BY <1>4, <3>1, LoopSet
    <3>4. moved \in Tabs /\ moved.loop = loop
      BY <1>2, <3>1 DEF Tabs
    <3> HIDE DEF moved
    <3>5. GoodTab(moved, next, site, shrunk)
      BY <1>3, <1>4, <2>1, <3>3, StoredMovesOn
    <3>6. GoodTab(Shown(moved, next), next, site, shrunk)
      BY <1>3, <2>3, <3>1, <3>4, <3>5, ShownIsGood
    <3> QED BY <3>2, <3>6
  <2>7. GoodTab(tab', next, site, shrunk)
    BY <1>9, <2>4, <2>5, <2>6, Zenon
  <2>8. GoodTab(tab, stored, site, shrunk)'
    BY <1>6, <1>9, <2>7
  <2>9. Fit(stored, site, shrunk)'
    BY <1>3, <1>6, <1>9
  <2> QED BY <1>6, <1>7, <2>2, <2>8, <2>9 DEF Inv
<1>10. CASE /\ CanConflict(tab, next)
            /\ tab' = [Conflicted(tab) EXCEPT !.loop = NoLoop]
            /\ UNCHANGED <<stored, inspected>>
  <2>1. GoodTab(Conflicted(over), stored, site, shrunk)
    BY <1>5, NoLoopIsGood, ConflictedIsGood
  <2>2. [Conflicted(tab) EXCEPT !.loop = NoLoop] = Conflicted(over)
    BY <1>2, NoLoopIsGood DEF Conflicted, StorageFailed, Stopped, Tabs
  <2>3. GoodTab(tab, stored, site, shrunk)'
    BY <1>6, <1>10, <2>1, <2>2
  <2> QED BY <1>6, <1>7, <1>10, <2>3 DEF Inv
<1>11. CASE /\ CanFail(tab, next)
            /\ tab' = [StorageFailed(tab) EXCEPT !.loop = NoLoop]
            /\ UNCHANGED <<stored, inspected>>
  <2>1. GoodTab(StorageFailed(tab), stored, site, shrunk)
    BY <1>4, StorageFailedIsGood
  <2>2. GoodTab(tab', stored, site, shrunk)
    BY <1>11, <2>1, NoLoopIsGood, LoopSet
  <2>3. GoodTab(tab, stored, site, shrunk)'
    BY <1>6, <1>11, <2>2
  <2> QED BY <1>6, <1>7, <1>11, <2>3 DEF Inv
<1>12. \/ tab' = over /\ UNCHANGED <<stored, inspected>>
       \/ /\ CanSave(tab, next)
          /\ stored' = next
          /\ inspected' = inspected \cup Consumed(stored, next)
          /\ tab' = IF ~tab.loop.live THEN over
                    ELSE IF tab.loop.then = "idle" THEN Shown(over, next)
                    ELSE Shown([tab EXCEPT !.loop = [@ EXCEPT !.at = tab.loop.then,
                                                              !.next = None]], next)
       \/ /\ CanConflict(tab, next)
          /\ tab' = [Conflicted(tab) EXCEPT !.loop = NoLoop]
          /\ UNCHANGED <<stored, inspected>>
       \/ /\ CanFail(tab, next)
          /\ tab' = [StorageFailed(tab) EXCEPT !.loop = NoLoop]
          /\ UNCHANGED <<stored, inspected>>
  BY Zenon DEF LoopSaved
<1> QED BY <1>8, <1>9, <1>10, <1>11, <1>12

(* What a control makes of the job that is shown, or of the stored one, has
   the same queues. *)
LEMMA CandidateIsQuiet ==
    ASSUME Inv, tab.queue # <<>>
    PROVE  LET first == Head(tab.queue)
               base == IF first.kind = "interrupt" THEN [tab EXCEPT !.view = stored] ELSE tab
           IN /\ first.kind \in {"pause", "cancel", "interrupt"}
              /\ base.view # None /\ Quiet(base.view, Candidate(first.kind))
<1> DEFINE first == Head(tab.queue)
<1>1. tab \in Tabs /\ tab.queue \in Seq(Controls) /\ GoodQueue(tab.queue, tab.view)
  BY DEF Inv, GoodTab, Tabs
<1>2. first \in Controls /\ first = tab.queue[1] /\ 1 \in 1..Len(tab.queue)
  BY <1>1, HeadTailProperties, LenProperties
<1>3. first.kind \in {"pause", "cancel", "interrupt"}
  BY <1>2 DEF Controls
<1>4. stored \in Jobs /\ stored # None
  BY NoneAssumption DEF Inv, Fit
<1>5. tab.view = None => first.kind = "interrupt"
  BY <1>1, <1>2 DEF GoodQueue
<1>6. tab.view # None => tab.view \in Jobs
  BY ShownJob
<1> HIDE DEF first
<1>7. CASE first.kind = "interrupt"
  <2>1. [tab EXCEPT !.view = stored].view = stored
    BY <1>1 DEF Tabs
  <2>2. Candidate(first.kind) = Paused(stored)
    BY <1>7 DEF Candidate
  <2>3. Quiet(stored, Candidate(first.kind))
    BY <1>4, <2>2, PausedIsQuiet
  <2> QED BY <1>3, <1>4, <1>7, <2>1, <2>3 DEF first
<1>8. CASE first.kind = "pause"
  <2>1. Quiet(tab.view, Paused(tab.view))
    BY <1>5, <1>6, <1>8, PausedIsQuiet
  <2>2. Candidate(first.kind) = Paused(tab.view)
    BY <1>8 DEF Candidate
  <2> QED BY <1>3, <1>5, <1>8, <2>1, <2>2 DEF first
<1>9. CASE first.kind = "cancel"
  <2>1. Quiet(tab.view, Cancelled(tab.view)) /\ Quiet(tab.view, tab.view)
    BY <1>5, <1>6, <1>9, CancelledIsQuiet, BumpIsQuiet
  <2>2. Candidate(first.kind) = tab.view \/ Candidate(first.kind) = Cancelled(tab.view)
    BY <1>9 DEF Candidate
  <2> QED BY <1>3, <1>5, <1>9, <2>1, <2>2 DEF first
<1> QED BY <1>3, <1>7, <1>8, <1>9

(* A control is saved, or does nothing, or finds another job, or fails. *)
LEMMA ControlSavedInv == Inv /\ ControlSaved => Inv'
<1> SUFFICES ASSUME Inv, ControlSaved PROVE Inv'
  OBVIOUS
<1> DEFINE first == Head(tab.queue)
           next == Candidate(first.kind)
           base == IF first.kind = "interrupt" THEN [tab EXCEPT !.view = stored] ELSE tab
           ready == IF first.kind = "cancel" THEN Stopped(base) ELSE base
<1>1. tab.queue # <<>> /\ tab.loop.at # "save"
  BY DEF ControlSaved
<1>2. first.kind \in {"pause", "cancel", "interrupt"} /\ base.view # None /\ Quiet(base.view, next)
  BY <1>1, CandidateIsQuiet, Zenon
<1>3. /\ stored \in Jobs /\ Fit(stored, site, shrunk) /\ GoodHistory(stored, inspected)
      /\ GoodTab(tab, stored, site, shrunk) /\ tab \in Tabs /\ tab.queue \in Seq(Controls)
      /\ GoodView(stored, stored, site, shrunk)
  <2>1. stored \in Jobs
    BY DEF Inv, Fit
  <2>2. stored.rev <= stored.rev
    BY <2>1 DEF Jobs
  <2>3. tab \in Tabs /\ tab.queue \in Seq(Controls)
    BY DEF Inv, GoodTab, Tabs
  <2> QED BY <2>1, <2>2, <2>3 DEF Inv, GoodView
<1>4. Len(tab.queue) # 0
  BY <1>1, <1>3
<1>5. /\ \/ next = base.view /\ tab' = Dequeued(base, TRUE) /\ UNCHANGED <<stored, faults>>
         \/ tab' = Dequeued(tab, FALSE) /\ UNCHANGED <<stored, faults>>
         \/ /\ CanSave(base, next) /\ stored' = next
            /\ tab' = Dequeued(Shown(ready, next), TRUE) /\ UNCHANGED faults
         \/ tab' = Dequeued(Conflicted(ready), FALSE) /\ UNCHANGED <<stored, faults>>
         \/ /\ CanFail(base, next)
            /\ tab' = Dequeued([StorageFailed(ready) EXCEPT !.view = tab.view], FALSE)
            /\ UNCHANGED stored
      /\ UNCHANGED <<site, edits, refusals, inspected, shrunk>>
  BY Zenon DEF ControlSaved
<1>6. /\ GoodTab(base, stored, site, shrunk) /\ base.loop.at # "save"
      /\ base.queue = tab.queue /\ base.loop = tab.loop /\ base \in Tabs
  <2>1. CASE first.kind = "interrupt"
    <3>1. GoodTab([tab EXCEPT !.view = stored], stored, site, shrunk)
      BY <1>1, <1>3, ViewSet
    <3>2. /\ [tab EXCEPT !.view = stored].loop = tab.loop
          /\ [tab EXCEPT !.view = stored].queue = tab.queue
      BY <1>3 DEF Tabs
    <3>3. base = [tab EXCEPT !.view = stored]
      BY <2>1
    <3> HIDE DEF base
    <3> QED BY <1>1, <3>1, <3>2, <3>3 DEF GoodTab
  <2>2. CASE first.kind # "interrupt"
    BY <1>1, <1>3, <2>2
  <2> QED BY <2>1, <2>2
<1> HIDE DEF first, next, base
<1>7. /\ GoodTab(ready, stored, site, shrunk) /\ ready.loop.at # "save"
      /\ Len(ready.queue) # 0 /\ ready.view = base.view
  <2>1. CASE first.kind = "cancel"
    <3>1. /\ GoodTab(Stopped(base), stored, site, shrunk)
          /\ Stopped(base).view = base.view /\ Len(Stopped(base).queue) = Len(base.queue)
          /\ base.loop.at # "save" => Stopped(base).loop = NoLoop
      BY <1>6, StoppedIsGood
    <3> QED BY <1>4, <1>6, <2>1, <3>1, NoLoopIsGood
  <2>2. CASE first.kind # "cancel"
    BY <1>4, <1>6, <2>2
  <2> QED BY <2>1, <2>2
<1> HIDE DEF ready
<1>8. ASSUME stored' = stored, GoodTab(tab', stored, site, shrunk), faults' \in Nat
      PROVE  Inv'
  <2>1. GoodTab(tab, stored, site, shrunk)'
    BY <1>5, <1>8
  <2> QED BY <1>5, <1>8, <2>1 DEF Inv
<1>9. faults \in Nat
  BY DEF Inv
<1>10. CASE tab' = Dequeued(base, TRUE) /\ UNCHANGED <<stored, faults>>
  <2>1. GoodTab(Dequeued(base, TRUE), stored, site, shrunk)
    BY <1>4, <1>6, DequeuedIsGood
  <2> QED BY <1>8, <1>9, <1>10, <2>1
<1>11. CASE tab' = Dequeued(tab, FALSE) /\ UNCHANGED <<stored, faults>>
  <2>1. GoodTab(Dequeued(tab, FALSE), stored, site, shrunk)
    BY <1>3, <1>4, DequeuedIsGood
  <2> QED BY <1>8, <1>9, <1>11, <2>1
<1>12. CASE /\ CanSave(base, next) /\ stored' = next
            /\ tab' = Dequeued(Shown(ready, next), TRUE) /\ UNCHANGED faults
  <2>1. next.rev = stored.rev + 1 /\ stored.rev \in Nat
    BY <1>3, <1>12 DEF CanSave, Jobs
  <2>2. base.view = stored
    BY <1>2, <1>6, <1>12 DEF GoodTab, GoodView, CanSave
  <2>3. next \in Jobs /\ Fit(next, site, shrunk) /\ Follows(stored, next)
    BY <1>2, <1>3, <2>2, QuietKeeps DEF Fit
  <2>4. GoodHistory(next, inspected)
    BY <1>2, <1>3, <2>2 DEF Quiet, GoodHistory
  <2>5. GoodTab(ready, next, site, shrunk)
    BY <1>3, <1>7, <2>1, <2>3, StoredMovesOn
  <2>6. GoodView(next, next, site, shrunk)
    BY <2>1, <2>3 DEF GoodView
  <2>7. GoodTab(Shown(ready, next), next, site, shrunk)
    BY <1>7, <2>3, <2>5, <2>6, ShownIsGood
  <2>8. Shown(ready, next).queue = ready.queue
    BY <1>7 DEF Shown, GoodTab, Tabs
  <2>9. GoodTab(Dequeued(Shown(ready, next), TRUE), next, site, shrunk)
    BY <1>7, <2>7, <2>8, DequeuedIsGood
  <2>10. GoodTab(tab, stored, site, shrunk)' /\ GoodHistory(stored, inspected)'
    BY <1>5, <1>12, <2>4, <2>9
  <2>11. Fit(stored, site, shrunk)'
    BY <1>5, <1>12, <2>3
  <2> QED BY <1>5, <1>12, <2>10, <2>11 DEF Inv
<1>13. CASE tab' = Dequeued(Conflicted(ready), FALSE) /\ UNCHANGED <<stored, faults>>
  <2>1. GoodTab(Conflicted(ready), stored, site, shrunk) /\ Len(Conflicted(ready).queue) # 0
    BY <1>7, ConflictedIsGood
  <2>2. GoodTab(Dequeued(Conflicted(ready), FALSE), stored, site, shrunk)
    BY <2>1, DequeuedIsGood
  <2> QED BY <1>8, <1>9, <1>13, <2>2
<1>14. CASE /\ CanFail(base, next)
            /\ tab' = Dequeued([StorageFailed(ready) EXCEPT !.view = tab.view], FALSE)
            /\ UNCHANGED stored
  <2>1. faults' \in Nat
    BY <1>9, <1>14 DEF CanFail, Fault
  <2> DEFINE failed == StorageFailed(ready)
             back == [failed EXCEPT !.view = tab.view]
  <2>2. /\ GoodTab(failed, stored, site, shrunk) /\ Len(failed.queue) = Len(ready.queue)
        /\ failed.loop = NoLoop
    BY <1>7, StorageFailedIsGood
  <2> HIDE DEF failed
  <2>3. failed.loop.at # "save" /\ failed \in Tabs
    BY <2>2, NoLoopIsGood DEF GoodTab
  <2>4. GoodTab(back, stored, site, shrunk) /\ back.queue = failed.queue
    <3>1. back.queue = failed.queue
      BY <2>3 DEF Tabs
    <3>2. CASE tab.view # None
      <4>1. tab.view \in Jobs /\ GoodView(tab.view, stored, site, shrunk)
        BY <1>3, <3>2 DEF GoodTab, GoodView, Fit
      <4> QED BY <2>2, <2>3, <3>1, <4>1, ViewSet
    <3>3. CASE tab.view = None
      <4>1. back \in Tabs /\ back.view = None /\ back.loop = NoLoop
        BY <2>2, <2>3, <3>3 DEF Tabs
      <4>2. GoodQueue(tab.queue, None)
        BY <1>3, <3>3 DEF GoodTab
      <4>3. first.kind = "interrupt"
        <5>1. tab.queue[1].kind = "interrupt"
          BY <1>3, <1>4, <4>2, LenProperties DEF GoodQueue
        <5> QED BY <1>1, <1>3, <5>1 DEF first
      <4>4. ready.queue = tab.queue
        BY <1>6, <4>3 DEF ready
      <4>5. /\ Len(failed.queue) = Len(tab.queue)
            /\ \A i \in 1..Len(tab.queue) : failed.queue[i].kind = tab.queue[i].kind
        <5>1. ready \in Tabs /\ Len(failed.queue) = Len(tab.queue)
          BY <1>7, <2>2, <4>4 DEF GoodTab
        <5>2. \A i \in 1..Len(ready.queue) : failed.queue[i].kind = ready.queue[i].kind
          BY <5>1, StorageFailedKinds DEF failed
        <5> QED BY <4>4, <5>1, <5>2
      <4>6. GoodQueue(failed.queue, None)
        BY <4>2, <4>5 DEF GoodQueue
      <4> QED BY <3>1, <4>1, <4>6, NoLoopIsGood DEF GoodTab
    <3> QED BY <3>2, <3>3
  <2> HIDE DEF back
  <2>5. GoodTab(Dequeued(back, FALSE), stored, site, shrunk)
    BY <1>7, <2>2, <2>4, DequeuedIsGood
  <2>6. tab' = Dequeued(back, FALSE)
    BY <1>14 DEF back, failed
  <2> QED BY <1>8, <1>14, <2>1, <2>5, <2>6
<1> QED BY <1>5, <1>10, <1>11, <1>12, <1>13, <1>14

(* A user resumes the scan. *)
LEMMA ResumeInv == Inv /\ Resume => Inv'
<1> SUFFICES ASSUME Inv, Resume PROVE Inv'
  OBVIOUS
<1> DEFINE loop == [NoLoop EXCEPT !.at = "admission"]
<1>1. tab.view # None
  BY DEF Resume, Usable
<1>2. loop \in Loops /\ GoodLoop(loop, tab.view, site, shrunk)
  <2>1. NoLoop \in Loops /\ GoodLoop(NoLoop, tab.view, site, shrunk) /\ NoLoop.at # "save"
    BY NoLoopIsGood
  <2> QED BY <1>1, <2>1, MovedIsGood
<1>3. tab' = [tab EXCEPT !.loop = loop]
  BY DEF Resume
<1>4. faults' \in Nat /\ refusals' \in Nat /\ UNCHANGED <<stored, site, edits, inspected, shrunk>>
  BY DEF Inv, Resume
<1> HIDE DEF loop
<1> QED BY <1>2, <1>3, <1>4, LoopStep

(* A user pauses the scan. *)
LEMMA PauseInv == Inv /\ Pause => Inv'
<1> SUFFICES ASSUME Inv, Pause PROVE Inv'
  OBVIOUS
<1>1. tab.view # None /\ Len(tab.queue) < 2
  BY DEF Pause, Usable
<1>2. /\ GoodTab(Stopped(tab), stored, site, shrunk)
      /\ Stopped(tab).view = tab.view /\ Len(Stopped(tab).queue) = Len(tab.queue)
  <2>1. GoodTab(tab, stored, site, shrunk)
    BY DEF Inv
  <2> QED BY <2>1, StoppedIsGood
<1>3. GoodTab(Enqueued(Stopped(tab), "pause"), stored, site, shrunk)
  BY <1>1, <1>2, EnqueuedIsGood
<1>4. GoodTab(tab, stored, site, shrunk)'
  BY <1>3 DEF Pause
<1> QED BY <1>4 DEF Inv, Pause

(* A user cancels the job. *)
LEMMA CancelInv == Inv /\ Cancel => Inv'
<1> SUFFICES ASSUME Inv, Cancel PROVE Inv'
  OBVIOUS
<1>1. tab.view # None /\ Len(tab.queue) = 0
  BY DEF Cancel, Usable
<1>2. /\ GoodTab(Stopped(tab), stored, site, shrunk)
      /\ Stopped(tab).view = tab.view /\ Len(Stopped(tab).queue) = 0
  <2>1. GoodTab(tab, stored, site, shrunk)
    BY DEF Inv
  <2>2. /\ GoodTab(Stopped(tab), stored, site, shrunk)
        /\ Stopped(tab).view = tab.view /\ Len(Stopped(tab).queue) = Len(tab.queue)
    BY <2>1, StoppedIsGood
  <2> QED BY <1>1, <2>2
<1> DEFINE stopped == Stopped(tab)
           paused == Enqueued(stopped, "pause")
<1>3. /\ GoodTab(stopped, stored, site, shrunk) /\ stopped.view # None
      /\ Len(stopped.queue) < 2
  BY <1>1, <1>2
<1> HIDE DEF stopped
<1>4. /\ GoodTab(paused, stored, site, shrunk)
      /\ paused.view # None /\ Len(paused.queue) < 2
  <2>1. GoodTab(paused, stored, site, shrunk)
    BY <1>3, EnqueuedIsGood
  <2>2. paused.view = stopped.view
    BY <1>3, EnqueuedIsGood
  <2>3. Len(paused.queue) = Len(stopped.queue) + 1
    BY <1>3, EnqueuedIsGood
  <2>4. Len(stopped.queue) = 0
    BY <1>2 DEF stopped
  <2> HIDE DEF paused
  <2>5. paused.view # None
    BY <1>3, <2>2
  <2>6. Len(paused.queue) < 2
    BY <2>3, <2>4
  <2> QED BY <2>1, <2>5, <2>6
<1> HIDE DEF paused
<1>5. GoodTab(Enqueued(paused, "cancel"), stored, site, shrunk)
  BY <1>4, EnqueuedIsGood
<1>6. GoodTab(Enqueued(tab, "cancel"), stored, site, shrunk)
  BY <1>1, EnqueuedIsGood DEF Inv
<1>7. tab' = Enqueued(paused, "cancel") \/ tab' = Enqueued(tab, "cancel")
  BY DEF Cancel, paused, stopped
<1>8. UNCHANGED <<stored, site, edits, faults, refusals, inspected, shrunk>>
  BY DEF Cancel
<1>9. GoodTab(tab, stored, site, shrunk)'
  BY <1>5, <1>6, <1>7, <1>8
<1> QED BY <1>8, <1>9 DEF Inv

(* A page that is loaded shows the stored job, or waits to interrupt it. *)
LEMMA ReloadInv == Inv /\ Reload => Inv'
<1> SUFFICES ASSUME Inv, Reload PROVE Inv'
  OBVIOUS
<1>1. stored \in Jobs /\ Fit(stored, site, shrunk) /\ GoodHistory(stored, inspected)
  BY DEF Inv, Fit
<1>2. Fit(stored', site, shrunk) /\ GoodHistory(stored', inspected')
  <2>1. CASE UNCHANGED <<stored, inspected>>
    BY <1>1, <2>1
  <2>2. CASE /\ tab.loop.at = "save" /\ CanSave(tab, tab.loop.next)
             /\ stored' = tab.loop.next
             /\ inspected' = inspected \cup Consumed(stored, tab.loop.next)
    <3>1. tab.view # None
      BY <2>2, BusyShows
    <3>2. /\ GoodLoop(tab.loop, tab.view, site, shrunk)
          /\ tab.view.rev = stored.rev => tab.view = stored
      BY <3>1, ShownJob
    <3>3. tab.view = stored
      BY <2>2, <3>2 DEF CanSave
    <3>4. Fit(tab.loop.next, site, shrunk) /\ Follows(stored, tab.loop.next)
      BY <2>2, <3>2, <3>3 DEF GoodLoop
    <3> QED BY <1>1, <2>2, <3>4, HistoryKept DEF Fit
  <2> QED BY <2>1, <2>2 DEF Reload
<1>3. UNCHANGED <<site, edits, faults, refusals, shrunk>>
  BY DEF Reload
<1>4. stored' \in Jobs /\ stored' # None /\ GoodView(stored', stored', site, shrunk)
  <2>1. stored' \in Jobs
    BY <1>2 DEF Fit
  <2>2. stored'.rev <= stored'.rev
    BY <2>1 DEF Jobs
  <2> QED BY <1>2, <2>1, <2>2, NoneAssumption DEF GoodView
<1>5. ASSUME NEW view, view = None \/ view = stored'
      PROVE  /\ Fresh(view) \in Tabs /\ Fresh(view).view = view
             /\ Fresh(view).loop = NoLoop /\ Fresh(view).queue = <<>>
  BY <1>4, <1>5, NoLoopIsGood DEF Fresh, Tabs
<1>6. GoodTab(Fresh(stored'), stored', site, shrunk)
  BY <1>4, <1>5, NoLoopIsGood DEF GoodTab, GoodQueue
<1>7. GoodTab(Enqueued(Fresh(None), "interrupt"), stored', site, shrunk)
  <2> DEFINE control == [kind |-> "interrupt", current |-> TRUE]
             r == Fresh(None)
             queue == Append(<<>>, control)
  <2>1. r \in Tabs /\ r.view = None /\ r.loop = NoLoop /\ r.queue = <<>>
    BY <1>5
  <2>2. control \in Controls /\ control.kind = "interrupt"
    BY DEF Controls
  <2>3. queue = <<control>> /\ queue \in Seq(Controls) /\ Len(queue) = 1 /\ queue[1] = control
    <3> HIDE DEF control
    <3> QED BY <2>2
  <2>4. Enqueued(r, "interrupt") = [r EXCEPT !.queue = queue]
    BY <2>1 DEF Enqueued
  <2> HIDE DEF r, queue, control
  <2>5. GoodQueue(queue, None)
    BY <2>2, <2>3 DEF GoodQueue
  <2>6. /\ [r EXCEPT !.queue = queue] \in Tabs /\ [r EXCEPT !.queue = queue].view = None
        /\ [r EXCEPT !.queue = queue].loop = NoLoop /\ [r EXCEPT !.queue = queue].queue = queue
    BY <2>1, <2>3 DEF Tabs
  <2>7. GoodTab([r EXCEPT !.queue = queue], stored', site, shrunk)
    BY <2>5, <2>6, NoLoopIsGood DEF GoodTab
  <2> QED BY <2>4, <2>7 DEF r
<1>8. GoodTab(tab, stored, site, shrunk)'
  BY <1>3, <1>6, <1>7 DEF Reload
<1>9. Fit(stored, site, shrunk)' /\ GoodHistory(stored, inspected)'
  BY <1>2, <1>3
<1> QED BY <1>3, <1>8, <1>9 DEF Inv

-----------------------------------------------------------------------------
(* What others write *)

(* A job stays good when the lists that did not shrink are still reached. *)
LEMMA FitMoved ==
    ASSUME NEW here, NEW there, NEW cut, NEW more, cut \subseteq more,
           NEW job, Fit(job, here, cut),
           \A l \in Lists \ more : \A ref :
              Ahead(job, here, l, ref) => Ahead(job, there, l, ref)
    PROVE  Fit(job, there, more)
<1>1. job \in Jobs /\ Covering(job, here, cut)
  BY DEF Fit
<1>2. job.start.lists \in Seq(Lists)
  BY <1>1, ScanAssumption DEF Jobs
<1>3. ToSet(job.start.lists) \subseteq Lists
  BY <1>2, ToSetProperties
<1>4. ASSUME NEW l \in Lists, ListCovered(job, here, cut, l)
      PROVE  ListCovered(job, there, more, l)
  BY <1>4 DEF ListCovered
<1>5. \A q \in DOMAIN AnswerList : AnswerList[q] \in Lists
  BY ScanAssumption
<1>6. \A l \in ToSet(job.start.lists) : ListCovered(job, there, more, l)
  BY <1>1, <1>3, <1>4 DEF Covering
<1>7. ASSUME NEW l \in ToSet(job.start.lists) \ (Searches \cup more),
             NEW q \in ToSet(FirstSite[l]) \cap DOMAIN AnswerList
      PROVE  Ahead(job, there, l, q) \/ ListCovered(job, there, more, AnswerList[q])
  <2>1. Ahead(job, here, l, q) \/ ListCovered(job, here, cut, AnswerList[q])
    BY <1>1 DEF Covering
  <2> QED BY <1>3, <1>4, <1>5, <2>1
<1>8. ToSet(job.start.targets) \cap Matches \subseteq Known(job)
  BY <1>1 DEF Covering
<1>9. Covering(job, there, more)
  BY <1>6, <1>7, <1>8 DEF Covering
<1> QED BY <1>9 DEF Fit

(* A tab stays good when its jobs do. *)
LEMMA TabMoved ==
    ASSUME NEW here, NEW there, NEW cut, NEW more, NEW stock, NEW r,
           GoodTab(r, stock, here, cut),
           \A job : Fit(job, here, cut) => Fit(job, there, more)
    PROVE  GoodTab(r, stock, there, more)
BY DEF GoodTab, GoodView, GoodLoop

(* The invariant holds when the lists change and the jobs stay good. *)
LEMMA SiteStep ==
    ASSUME Inv, \A job : Fit(job, site, shrunk) => Fit(job, site', shrunk'),
           GoodSite(site', shrunk'), edits' \in Nat,
           UNCHANGED <<stored, tab, faults, refusals, inspected>>
    PROVE  Inv'
<1>1. Fit(stored, site', shrunk')
  BY DEF Inv
<1>2. GoodTab(tab, stored, site', shrunk')
  BY TabMoved DEF Inv
<1>3. Fit(stored, site, shrunk)' /\ GoodTab(tab, stored, site, shrunk)' /\ GoodSite(site, shrunk)'
  BY <1>1, <1>2
<1> QED BY <1>3 DEF Inv

(* What is added to a list moves the rest of the list on. *)
LEMMA AddContentInv == \A a \in Added : Inv /\ AddContent(a[1], a[2]) => Inv'
<1> SUFFICES ASSUME NEW a \in Added, Inv, AddContent(a[1], a[2]) PROVE Inv'
  OBVIOUS
<1>1. a[1] \in Lists /\ a[2] \in Refs
  BY ScanAssumption
<1>2. PICK list \in Lists, ref \in Refs : list = a[1] /\ ref = a[2]
  BY <1>1
<1>3. GoodSite(site, shrunk)
  BY DEF Inv
<1>4. site \in [Lists -> Seq(Refs)] /\ shrunk \subseteq Lists
  BY <1>3 DEF GoodSite
<1>5. site' = [site EXCEPT ![list] = <<ref>> \o site[list]] /\ shrunk' = shrunk
  BY <1>2 DEF AddContent
<1>6. /\ site' \in [Lists -> Seq(Refs)]
      /\ site'[list] = <<ref>> \o site[list]
      /\ \A l \in Lists : l # list => site'[l] = site[l]
  <2>1. <<ref>> \in Seq(Refs) /\ site[list] \in Seq(Refs)
    BY <1>4
  <2>2. <<ref>> \o site[list] \in Seq(Refs)
    BY <2>1, ConcatProperties
  <2> QED BY <1>4, <1>5, <2>2
<1>7. /\ Len(site'[list]) = Len(site[list]) + 1 /\ Len(site[list]) \in Nat
      /\ \A k \in 1..Len(site[list]) : site'[list][k + 1] = site[list][k]
  <2>1. <<ref>> \in Seq(Refs) /\ site[list] \in Seq(Refs) /\ Len(<<ref>>) = 1
    BY <1>4
  <2>2. /\ Len(<<ref>> \o site[list]) = Len(<<ref>>) + Len(site[list])
        /\ \A i \in 1..(Len(<<ref>>) + Len(site[list])) :
              (<<ref>> \o site[list])[i] = IF i <= Len(<<ref>>) THEN <<ref>>[i]
                                           ELSE site[list][i - Len(<<ref>>)]
    BY <2>1, ConcatProperties
  <2>3. Len(site[list]) \in Nat
    BY <2>1, LenProperties
  <2>4. ASSUME NEW k \in 1..Len(site[list])
        PROVE  (<<ref>> \o site[list])[k + 1] = site[list][k]
    <3>1. k + 1 \in 1..(1 + Len(site[list])) /\ ~(k + 1 <= 1) /\ (k + 1) - 1 = k
      BY <2>3
    <3> QED BY <2>1, <2>2, <3>1
  <2> QED BY <1>6, <2>1, <2>2, <2>3, <2>4
<1>8. ASSUME NEW job, Fit(job, site, shrunk) PROVE Fit(job, site', shrunk')
  <2>1. ASSUME NEW l \in Lists, NEW x, Ahead(job, site, l, x) PROVE Ahead(job, site', l, x)
    <3>1. PICK c \in ToSet(job.cursors), k \in 1..Len(site[l]) :
              c.list = l /\ (c.page - 1) * PageSize < k /\ site[l][k] = x
      BY <2>1 DEF Ahead
    <3>2. CASE l = list
      <4>1. c \in Cursors
        <5>1. job.cursors \in Seq(Cursors)
          BY <1>8 DEF Fit, Jobs
        <5> QED BY <5>1, ToSetProperties
      <4>2. c.page - 1 \in Int
        BY <4>1 DEF Cursors
      <4>3. (c.page - 1) * PageSize \in Int
        BY <4>2, ScanAssumption
      <4>4. k + 1 \in 1..Len(site'[l]) /\ (c.page - 1) * PageSize < k + 1 /\ site'[l][k + 1] = x
        BY <1>7, <3>1, <3>2, <4>3
      <4> QED BY <3>1, <4>4 DEF Ahead
    <3>3. CASE l # list
      BY <1>6, <3>1, <3>3 DEF Ahead
    <3> QED BY <3>2, <3>3
  <2> QED BY <1>5, <1>8, <2>1, FitMoved
<1>9. GoodSite(site', shrunk')
  <2>1. ASSUME NEW l \in Lists \ shrunk PROVE ToSet(FirstSite[l]) \subseteq ToSet(site'[l])
    <3>1. ToSet(FirstSite[l]) \subseteq ToSet(site[l])
      BY <1>3 DEF GoodSite
    <3>2. CASE l = list
      <4>1. <<ref>> \in Seq(Refs) /\ site[list] \in Seq(Refs)
        BY <1>4
      <4>2. ToSet(<<ref>> \o site[list]) = ToSet(<<ref>>) \cup ToSet(site[list])
        <5> DEFINE first == <<ref>>
                   old == site[list]
        <5>1. first \in Seq(Refs) /\ old \in Seq(Refs)
          BY <4>1
        <5> HIDE DEF first, old
        <5>2. ToSet(first \o old) = ToSet(first) \cup ToSet(old)
          BY <5>1, ToSetConcat
        <5> QED BY <5>2 DEF first, old
      <4> QED BY <1>6, <3>1, <3>2, <4>2
    <3>3. CASE l # list
      BY <1>6, <3>1, <3>3
    <3> QED BY <3>2, <3>3
  <2> QED BY <1>4, <1>5, <1>6, <2>1 DEF GoodSite
<1>10. edits' \in Nat /\ UNCHANGED <<stored, tab, faults, refusals, inspected>>
  BY DEF Inv, AddContent
<1> QED BY <1>8, <1>9, <1>10, SiteStep

(* What is removed leaves the lists alone that did not have it. *)
LEMMA RemoveContentInv == \A ref \in Removed : Inv /\ RemoveContent(ref) => Inv'
<1> SUFFICES ASSUME NEW ref \in Removed, Inv, RemoveContent(ref) PROVE Inv'
  OBVIOUS
<1> DEFINE left(l) == {i \in DOMAIN site[l] : site[l][i] # ref}
<1>1. GoodSite(site, shrunk)
  BY DEF Inv
<1>2. site \in [Lists -> Seq(Refs)] /\ shrunk \subseteq Lists
  BY <1>1 DEF GoodSite
<1>3. /\ site' = [l \in Lists |-> AtPlaces(site[l], left(l))]
      /\ shrunk' = shrunk \cup {l \in Lists : ref \in ToSet(site[l])}
  BY DEF RemoveContent
<1>4. ASSUME NEW l \in Lists PROVE AtPlaces(site[l], left(l)) \in Seq(Refs)
  <2>1. site[l] \in Seq(Refs)
    BY <1>2
  <2>2. Len(site[l]) \in Nat /\ DOMAIN site[l] = 1..Len(site[l])
    BY <2>1, LenProperties
  <2>3. left(l) \in SUBSET (1..Len(site[l])) /\ \A i \in left(l) : site[l][i] \in Refs
    BY <2>1, <2>2, ElementOfSeq
  <2> HIDE DEF left
  <2> QED BY <2>2, <2>3, AtPlacesType
<1>5. ASSUME NEW l \in Lists \ shrunk' PROVE site'[l] = site[l]
  <2>1. ref \notin ToSet(site[l])
    BY <1>3
  <2>2. left(l) = DOMAIN site[l]
    BY <2>1 DEF ToSet
  <2>3. site[l] \in Seq(Refs)
    BY <1>2
  <2>4. AtPlaces(site[l], DOMAIN site[l]) = site[l]
    BY <2>3, AtAllPlaces
  <2>5. site'[l] = AtPlaces(site[l], left(l))
    BY <1>3
  <2> HIDE DEF left
  <2> QED BY <2>2, <2>4, <2>5
<1> HIDE DEF left
<1>6. ASSUME NEW job, Fit(job, site, shrunk) PROVE Fit(job, site', shrunk')
  <2>1. ASSUME NEW l \in Lists \ shrunk', NEW x, Ahead(job, site, l, x)
        PROVE  Ahead(job, site', l, x)
    BY <1>5, <2>1 DEF Ahead
  <2>2. shrunk \subseteq shrunk'
    BY <1>3
  <2> QED BY <1>6, <2>1, <2>2, FitMoved
<1>7. GoodSite(site', shrunk')
  BY <1>1, <1>2, <1>3, <1>4, <1>5 DEF GoodSite
<1>8. edits' \in Nat /\ UNCHANGED <<stored, tab, faults, refusals, inspected>>
  BY DEF Inv, RemoveContent
<1> QED BY <1>6, <1>7, <1>8, SiteStep

-----------------------------------------------------------------------------
(* The theorems *)

(* Every step keeps the invariant. *)
LEMMA NextInv == Inv /\ [Next]_vars => Inv'
<1> SUFFICES ASSUME Inv, [Next]_vars PROVE Inv'
  OBVIOUS
<1>1. CASE TabStep
  BY <1>1, AdmitInv, NextSliceInv, DeadlinePassedInv, SliceReadInv, LoopSavedInv,
     ControlSavedInv DEF TabStep
<1>2. CASE UserStep
  BY <1>2, ResumeInv, PauseInv, CancelInv, ReloadInv DEF UserStep
<1>3. CASE \E refusal \in Refusals : Refused(refusal)
  BY <1>3, RefusedInv
<1>4. CASE \E kind \in {"network", "401", "rejected"} : RequestFails(kind)
  BY <1>4, RequestFailsInv
<1>5. CASE \E a \in Added : AddContent(a[1], a[2])
  BY <1>5, AddContentInv
<1>6. CASE \E ref \in Removed : RemoveContent(ref)
  BY <1>6, RemoveContentInv
<1>7. CASE UNCHANGED vars
  BY <1>7 DEF vars, Inv
<1> QED BY <1>1, <1>2, <1>3, <1>4, <1>5, <1>6, <1>7 DEF Next

(* The invariant holds of every behaviour. *)
LEMMA Invariant == Spec => []Inv
BY InitInv, NextInv, PTL DEF Spec

(* The variables keep their types, a queue of the job holds nothing twice and
   its proposals keep to their limit (jobState.ts, the queues and
   MAX_PROPOSALS). *)
THEOREM ScanTypes == Spec => []TypeOK
<1>1. Inv => TypeOK
  BY DEF Inv, TypeOK, Fit, GoodTab, GoodView, GoodLoop, GoodQueue, GoodSite, GoodHistory
<1> QED BY <1>1, Invariant, PTL

(* No reference is inspected twice (jobState.ts, the queue of details and its
   reducers). *)
THEOREM NothingInspectedTwice == Spec => []InspectedOnce
<1>1. Inv => InspectedOnce
  BY DEF Inv, GoodHistory, InspectedOnce
<1> QED BY <1>1, Invariant, PTL

(* A read is repeated within the bounds of the client (stackApiV3.ts). *)
THEOREM ReadsAreBounded == Spec => []ReadIsBounded
<1>1. Inv => ReadIsBounded
  BY DEF Inv, GoodTab, GoodLoop, ReadIsBounded
<1> QED BY <1>1, Invariant, PTL

(* A scan that enters the review has a proposal for every match on the lists
   that did not shrink, however the pages moved under it (jobState.ts and
   contentReplacementScanApi.ts). *)
THEOREM ScanIsComplete == Spec => []NothingMissed
<1>1. ASSUME Inv PROVE NothingMissed
  <2>1. SUFFICES ASSUME stored.stage = "review"
                 PROVE  /\ ToSet(stored.start.targets) \cap Matches \subseteq stored.proposals
                        /\ \A l \in Covered(stored.start) : Whole(l) =>
                              ToSet(FirstSite[l]) \cap Matches \subseteq stored.proposals
    BY DEF NothingMissed
  <2>2. /\ stored.cursors = <<>> /\ stored.details = <<>>
        /\ Covering(stored, site, shrunk) /\ stored \in Jobs
    BY <1>1, <2>1 DEF Inv, Fit, Emptied
  <2>3. ToSet(<<>>) = {}
    BY DEF ToSet
  <2>4. Known(stored) = stored.proposals /\ \A l, ref : ~Ahead(stored, site, l, ref)
    BY <2>2, <2>3 DEF Known, Ahead
  <2>5. ASSUME NEW l \in Covered(stored.start), Whole(l)
        PROVE  ToSet(FirstSite[l]) \cap Matches \subseteq stored.proposals
    <3>1. ListCovered(stored, site, shrunk, l)
      <4>1. CASE l \in ToSet(stored.start.lists)
        BY <2>2, <4>1 DEF Covering
      <4>2. CASE \E q \in DOMAIN AnswerList :
                    /\ l = AnswerList[q]
                    /\ \E k \in ToSet(stored.start.lists) \ Searches : q \in ToSet(FirstSite[k])
        <5>1. PICK q \in DOMAIN AnswerList, k \in ToSet(stored.start.lists) \ Searches :
                 l = AnswerList[q] /\ q \in ToSet(FirstSite[k])
          BY <4>2
        <5>2. k \in Lists
          <6>1. stored.start.lists \in Seq(Lists)
            BY <2>2, ScanAssumption DEF Jobs
          <6> QED BY <6>1, ToSetProperties
        <5>3. k \notin shrunk
          BY <2>5, <5>1, <5>2 DEF Whole
        <5> QED BY <2>2, <2>4, <5>1, <5>3 DEF Covering
      <4> QED BY <4>1, <4>2 DEF Covered
    <3> QED BY <2>4, <2>5, <3>1 DEF ListCovered, Whole
  <2>6. ToSet(stored.start.targets) \cap Matches \subseteq stored.proposals
    BY <2>2, <2>4 DEF Covering
  <2> QED BY <2>5, <2>6
<1> QED BY <1>1, Invariant, PTL
=============================================================================
