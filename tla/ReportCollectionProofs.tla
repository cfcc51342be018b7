----------------------- MODULE ReportCollectionProofs -----------------------
(***************************************************************************)
(* Theorems about the tabs that collect a report, for every number of      *)
(* tabs, job ids, connections, keys, responses, lanes and retries.         *)
(***************************************************************************)
EXTENDS ReportCollectionHistory, ReportStoreLemmas

-----------------------------------------------------------------------------
(* The inductive invariant: one page *)

(* The phases of a run that has a job, and those that will submit one. *)
WithJob == {"opening", "collecting", "closing", "delivering", "failing", "settling"}
WithArg == {"pausing", "opening", "closing", "failing", "settling"}

(* A set of jobs that a client may turn into one another: it only changes  *)
(* their status and their deadline.                                        *)
Closed(S) ==
    /\ S \subseteq ReportJob
    /\ \A job \in S, status \in Statuses : [job EXCEPT !.status = status] \in S
    /\ \A job \in S, deadline \in Deadlines : [job EXCEPT !.retryAt = deadline] \in S

(* What a page holds in its phase. *)
JobsOK(page, S) ==
    /\ page.phase \in WithJob => page.job \in S
    /\ page.phase \in WithArg => page.arg \in S
    /\ page.phase \in WithArg \ {"closing"} => page.arg.status # "complete"
    /\ page.phase = "opening" => page.arg.status = "running"
    /\ page.phase = "closing" => page.arg.status = "complete"
    /\ page.phase = "creating" =>
           \E id \in JobIds, connection \in Connections :
               page.arg = NewJob(id, connection, NoDeadline)
    /\ page.phase = "collecting" =>
           \/ page.job.status = "running"
           \/ page.stopped /\ page.reader = NoRead /\ page.waiter = NoWait
    /\ page.phase = "settling" => page.job.status # "complete"

(* Requests are made by a run that collects, and by no other. *)
RestOK(page) ==
    /\ page.phase # "collecting" =>
           page.reader = NoRead /\ page.queue = {} /\ page.wanted = {}
    /\ page.phase \notin {"collecting", "settling"} => page.waiter = NoWait
    /\ page.stopped => page.queue = {} /\ page.wanted = {}
    /\ page.phase \notin WithJob \ {"opening"} => page.got = NothingGot
    /\ page.phase \in {"closing", "delivering"} => \A key \in Keys : page.got[key] # None

ReaderOK(reader, S) ==
    /\ reader.step = "none" => reader = NoRead
    /\ reader.step # "none" => reader.key \in Keys
    /\ reader.step \in {"clearing", "saving", "deferring"} =>
           reader.arg \in S /\ reader.arg.status = "running"
    /\ reader.step = "saving" => reader.response \in Responses

WaiterOK(waiter, phase, S) ==
    /\ waiter.step = "none" => waiter = NoWait
    /\ waiter.step \in {"setting", "clearing"} =>
           /\ waiter.arg \in S
           /\ waiter.arg.status # "complete"
           /\ phase = "collecting" => waiter.arg.status = "running"

(* A key is asked for once, and only as long as it is not answered. *)
KeysOK(page) ==
    /\ page.queue \cap page.wanted = {}
    /\ page.reader.key \notin page.queue \cup page.wanted
    /\ \A key \in Outstanding(page) : page.got[key] = None

PageOK(page, S) ==
    /\ page \in PageType
    /\ JobsOK(page, S)
    /\ RestOK(page)
    /\ ReaderOK(page.reader, S)
    /\ WaiterOK(page.waiter, page.phase, S)
    /\ KeysOK(page)

(* A run that goes on: its job is the saved one, as it was saved last. *)
Healthy(page) ==
    \/ page.phase = "collecting" /\ ~page.stopped
    \/ page.phase \in {"closing", "delivering"}

Current(page) ==
    /\ latest # NoJob
    /\ latest.id = page.job.id
    /\ latest.revision = page.job.revision
    /\ latest.timings = page.job.timings
    /\ latest.status = IF page.phase = "delivering" THEN "complete" ELSE "running"

Entry(job, key, response) == [jobId |-> job.id, key |-> key, response |-> response]

(* What is read from the API was looked up, and is not saved. *)
Unsaved(page) ==
    \A response \in Responses : Entry(page.job, page.reader.key, response) \notin journal

GotSaved(page) ==
    /\ \A key \in Keys :
           page.got[key] # None => Entry(page.job, key, page.got[key]) \in journal
    /\ page.reader.step \notin {"none", "lookup"} => Unsaved(page)

-----------------------------------------------------------------------------
(* The inductive invariant: the tabs and the store *)

(* The saved job as a tab may have read it. *)
Known == {job \in ReportJob : /\ latest # NoJob
                              /\ job.id = latest.id
                              /\ job.revision <= latest.revision}

Done == latest # NoJob /\ latest.status = "complete"

(* A job that is left behind will not be saved any more once the saved job *)
(* is complete or a run goes on with it.                                   *)
GhostOK(ghost) ==
    /\ ghost.job.id \in usedIds
    /\ ghost.job.status # "complete"
    /\ latest # NoJob /\ ghost.job.id = latest.id =>
           /\ ghost.job.revision <= latest.revision
           /\ Done \/ (\E t \in Tabs : Healthy(tab[t])) =>
                  ghost.job.revision < latest.revision

TabOK(t) ==
    /\ PageOK(tab[t], Known)
    /\ GotSaved(tab[t])
    /\ Healthy(tab[t]) => Current(tab[t])
    /\ At(t, "creating") => /\ tab[t].arg.id \notin usedIds
                            /\ latest # NoJob => Done
    /\ Done => tab[t].reader = NoRead /\ tab[t].waiter = NoWait

Inv ==
    /\ StoreInv
    /\ TypeOK
    /\ latest # NoJob => latest.id \in usedIds
    /\ \A t \in Tabs : TabOK(t)
    /\ \A ghost \in ghosts : GhostOK(ghost)

-----------------------------------------------------------------------------
(* Lemmas about the pages *)

NoReadType ==
    [step: Reads, key: Keys \cup {None}, arg: JobOrNone,
     response: Responses \cup {None}, owes: BOOLEAN]

WaitType == [step: Waits, arg: JobOrNone]

(* The fields of a page. *)
LEMMA PageFields ==
    ASSUME NEW page \in PageType
    PROVE  /\ page.phase \in Phases /\ page.seen \in JobIds \cup {None}
           /\ page.aborted \in BOOLEAN /\ page.stopped \in BOOLEAN
           /\ page.job \in JobOrNone /\ page.arg \in JobOrNone
           /\ page.got \in [Keys -> Responses \cup {None}]
           /\ page.reader \in NoReadType /\ page.waiter \in WaitType
           /\ page.queue \in SUBSET Keys /\ page.wanted \in SUBSET Keys
           /\ page.pending \in BOOLEAN /\ page.retries \in 0..MaxRetries
BY DEF PageType, NoReadType, WaitType

(* A page that runs nothing asks for nothing. *)
LEMMA NothingOK ==
    /\ NoRead \in NoReadType /\ NoRead.step = "none" /\ NoRead.key = None
    /\ NoWait \in WaitType /\ NoWait.step = "none"
    /\ NothingGot \in [Keys -> Responses \cup {None}]
    /\ \A key \in Keys : NothingGot[key] = None
    /\ None \notin Keys /\ None \notin ReportJob /\ None \notin Responses
    /\ None \notin Tabs /\ None \notin JobIds
BY CollectionConstants, StoreConstants
DEF NoReadType, WaitType, NoRead, NoWait, NothingGot, Reads, Waits, JobOrNone

(* A step of a run that keeps its job, up to the status and the deadline,  *)
(* and what it has collected; a run that has stopped does not go on.       *)
Follows(page, next) ==
    /\ next.phase = page.phase
    /\ next.job.id = page.job.id
    /\ next.job.revision = page.job.revision
    /\ next.job.timings = page.job.timings
    /\ next.got = page.got
    /\ page.stopped => next.stopped
    /\ next.reader.key \in {None, page.reader.key}

(* A step that leaves the read alone, or ends it. *)
SameRead(page, next) == next.reader \in {NoRead, page.reader}

(* A run that stops drops its requests. *)
LEMMA StopOK ==
    ASSUME NEW page, NEW S, PageOK(page, S)
    PROVE  /\ PageOK(Stop(page), S) /\ Follows(page, Stop(page))
           /\ Stop(page).reader = page.reader
<1> DEFINE next == Stop(page)
<1>1. /\ next \in PageType /\ next.stopped = TRUE /\ next.queue = {} /\ next.wanted = {}
      /\ next.phase = page.phase /\ next.job = page.job /\ next.arg = page.arg
      /\ next.got = page.got /\ next.reader = page.reader /\ next.waiter = page.waiter
  BY DEF PageOK, PageType, Stop
<1> HIDE DEF next
<1>2. JobsOK(next, S) /\ RestOK(next)
  BY <1>1 DEF PageOK, JobsOK, RestOK
<1>3. KeysOK(next)
  BY <1>1 DEF PageOK, KeysOK, Outstanding
<1>4. PageOK(next, S) /\ Follows(page, next) /\ next.reader = page.reader
  BY <1>1, <1>2, <1>3 DEF PageOK, Follows
<1> QED BY <1>4 DEF next

(* A run without the read or the wait it had. *)
LEMMA FreeReaderOK ==
    ASSUME NEW page, NEW S, PageOK(page, S)
    PROVE  /\ PageOK([page EXCEPT !.reader = NoRead], S)
           /\ Follows(page, [page EXCEPT !.reader = NoRead])
<1> DEFINE next == [page EXCEPT !.reader = NoRead]
<1>1. page \in PageType
  BY DEF PageOK
<1>2. /\ next \in PageType /\ next.stopped = page.stopped
      /\ next.queue = page.queue /\ next.wanted = page.wanted
      /\ next.phase = page.phase /\ next.job = page.job /\ next.arg = page.arg
      /\ next.got = page.got /\ next.reader = NoRead /\ next.waiter = page.waiter
  BY <1>1, NothingOK DEF PageType, NoReadType
<1> HIDE DEF next
<1>3. JobsOK(next, S) /\ RestOK(next)
  BY <1>2 DEF PageOK, JobsOK, RestOK
<1>4. KeysOK(next)
  BY <1>1, <1>2, NothingOK, PageFields DEF PageOK, KeysOK, Outstanding
<1>5. ReaderOK(next.reader, S) /\ WaiterOK(next.waiter, next.phase, S)
  BY <1>2, NothingOK DEF ReaderOK, PageOK
<1>6. PageOK(next, S) /\ Follows(page, next)
  BY <1>2, <1>3, <1>4, <1>5, NothingOK DEF PageOK, Follows
<1> QED BY <1>6 DEF next

(* A run without its wait.                                                 *)
LEMMA FreeWaiterOK ==
    ASSUME NEW page, NEW S, PageOK(page, S)
    PROVE  /\ PageOK([page EXCEPT !.waiter = NoWait], S)
           /\ Follows(page, [page EXCEPT !.waiter = NoWait])
           /\ [page EXCEPT !.waiter = NoWait].reader = page.reader
<1> DEFINE next == [page EXCEPT !.waiter = NoWait]
<1>1. page \in PageType
  BY DEF PageOK
<1>2. /\ next \in PageType /\ next.stopped = page.stopped
      /\ next.queue = page.queue /\ next.wanted = page.wanted
      /\ next.phase = page.phase /\ next.job = page.job /\ next.arg = page.arg
      /\ next.got = page.got /\ next.reader = page.reader /\ next.waiter = NoWait
  BY <1>1, NothingOK DEF PageType, WaitType
<1> HIDE DEF next
<1>3. JobsOK(next, S) /\ RestOK(next)
  BY <1>2 DEF PageOK, JobsOK, RestOK
<1>4. KeysOK(next)
  BY <1>2 DEF PageOK, KeysOK, Outstanding
<1>5. ReaderOK(next.reader, S) /\ WaiterOK(next.waiter, next.phase, S)
  BY <1>2, NothingOK DEF WaiterOK, PageOK
<1>6. PageOK(next, S) /\ Follows(page, next)
  BY <1>2, <1>3, <1>4, <1>5 DEF PageOK, Follows
<1> QED BY <1>2, <1>6 DEF next

(* A read that fails stops its run.                                        *)
LEMMA StopReadOK ==
    ASSUME NEW page, NEW S, PageOK(page, S)
    PROVE  /\ PageOK(StopRead(page), S) /\ Follows(page, StopRead(page))
           /\ StopRead(page).reader = NoRead
<1> DEFINE free == [page EXCEPT !.reader = NoRead]
<1>1. PageOK(free, S) /\ Follows(page, free) /\ free.reader = NoRead
  BY FreeReaderOK DEF PageOK, PageType
<1>2. StopRead(page) = Stop(free)
  BY DEF StopRead
<1> HIDE DEF free
<1> QED BY <1>1, <1>2, StopOK DEF Follows

(* A wait that fails stops its run.                                        *)
LEMMA StopWaitOK ==
    ASSUME NEW page, NEW S, PageOK(page, S)
    PROVE  /\ PageOK(StopWait(page), S) /\ Follows(page, StopWait(page))
           /\ StopWait(page).reader = page.reader
<1> DEFINE free == [page EXCEPT !.waiter = NoWait]
<1>1. PageOK(free, S) /\ Follows(page, free) /\ free.reader = page.reader
  BY FreeWaiterOK
<1>2. StopWait(page) = Stop(free)
  BY DEF StopWait
<1> HIDE DEF free
<1> QED BY <1>1, <1>2, StopOK DEF Follows

(* A run that collects goes on with another state of its read, of its wait *)
(* or of its job.                                                          *)
Running(page) == page.phase = "collecting" /\ page.job.status = "running"

(* A read moves on to another step, for the same key.                      *)
LEMMA ReaderStepOK ==
    ASSUME NEW page, NEW S, PageOK(page, S), Running(page),
           NEW reader \in NoReadType, ReaderOK(reader, S), reader.key = page.reader.key
    PROVE  /\ PageOK([page EXCEPT !.reader = reader], S)
           /\ Follows(page, [page EXCEPT !.reader = reader])
           /\ Running([page EXCEPT !.reader = reader])
<1> DEFINE next == [page EXCEPT !.reader = reader]
<1>1. page \in PageType
  BY DEF PageOK
<1>2. /\ next \in PageType /\ next.stopped = page.stopped
      /\ next.queue = page.queue /\ next.wanted = page.wanted
      /\ next.phase = page.phase /\ next.job = page.job /\ next.arg = page.arg
      /\ next.got = page.got /\ next.reader = reader /\ next.waiter = page.waiter
  BY <1>1 DEF PageType, NoReadType
<1> HIDE DEF next
<1>3. JobsOK(next, S) /\ RestOK(next)
  BY <1>2 DEF PageOK, JobsOK, RestOK, Running, WithArg
<1>4. KeysOK(next)
  BY <1>2 DEF PageOK, KeysOK, Outstanding
<1>5. PageOK(next, S) /\ Follows(page, next) /\ Running(next)
  BY <1>2, <1>3, <1>4 DEF PageOK, Follows, Running
<1> QED BY <1>5 DEF next

(* A wait moves on to another step.                                        *)
LEMMA WaiterStepOK ==
    ASSUME NEW page, NEW S, PageOK(page, S),
           Running(page) \/ page.phase = "settling",
           NEW waiter \in WaitType, WaiterOK(waiter, page.phase, S)
    PROVE  /\ PageOK([page EXCEPT !.waiter = waiter], S)
           /\ Follows(page, [page EXCEPT !.waiter = waiter])
           /\ [page EXCEPT !.waiter = waiter].reader = page.reader
<1> DEFINE next == [page EXCEPT !.waiter = waiter]
<1>1. page \in PageType
  BY DEF PageOK
<1>2. /\ next \in PageType /\ next.stopped = page.stopped
      /\ next.queue = page.queue /\ next.wanted = page.wanted
      /\ next.phase = page.phase /\ next.job = page.job /\ next.arg = page.arg
      /\ next.got = page.got /\ next.reader = page.reader /\ next.waiter = waiter
  BY <1>1 DEF PageType, WaitType
<1> HIDE DEF next
<1>3. JobsOK(next, S)
  BY <1>2 DEF PageOK, JobsOK, Running
<1>4. RestOK(next)
  BY <1>2 DEF PageOK, RestOK, Running
<1>5. KeysOK(next)
  BY <1>2 DEF PageOK, KeysOK, Outstanding
<1>6. PageOK(next, S) /\ Follows(page, next) /\ next.reader = page.reader
  BY <1>2, <1>3, <1>4, <1>5 DEF PageOK, Follows
<1> QED BY <1>6 DEF next

(* A run gets another job, which it may hold.                              *)
LEMMA JobStepOK ==
    ASSUME NEW page, NEW S, PageOK(page, S), S \subseteq ReportJob, NEW job \in S,
           \/ Running(page) /\ job.status = "running"
           \/ page.phase = "settling" /\ job.status # "complete"
    PROVE  /\ PageOK([page EXCEPT !.job = job], S)
           /\ Running(page) => Running([page EXCEPT !.job = job])
           /\ [page EXCEPT !.job = job].job = job
           /\ [page EXCEPT !.job = job].phase = page.phase
           /\ [page EXCEPT !.job = job].got = page.got
           /\ [page EXCEPT !.job = job].stopped = page.stopped
           /\ [page EXCEPT !.job = job].reader = page.reader
           /\ [page EXCEPT !.job = job].waiter = page.waiter
<1> DEFINE next == [page EXCEPT !.job = job]
<1>1. page \in PageType /\ job \in JobOrNone
  BY DEF PageOK, JobOrNone
<1>2. /\ next \in PageType /\ next.stopped = page.stopped
      /\ next.queue = page.queue /\ next.wanted = page.wanted
      /\ next.phase = page.phase /\ next.job = job /\ next.arg = page.arg
      /\ next.got = page.got /\ next.reader = page.reader /\ next.waiter = page.waiter
  BY <1>1 DEF PageType
<1> HIDE DEF next
<1>3. JobsOK(next, S)
  BY <1>2 DEF PageOK, JobsOK, Running, WithArg
<1>4. RestOK(next) /\ KeysOK(next)
  BY <1>2 DEF PageOK, RestOK, KeysOK, Outstanding
<1>5. PageOK(next, S)
  BY <1>2, <1>3, <1>4 DEF PageOK
<1>6. Running(page) => Running(next)
  BY <1>2 DEF Running
<1> QED BY <1>2, <1>5, <1>6 DEF next

(* The read goes on to the request. *)
LEMMA FetchOK ==
    ASSUME NEW page, NEW S, PageOK(page, S), Running(page), page.reader.step # "none"
    PROVE  PageOK(Fetch(page), S) /\ Follows(page, Fetch(page))
<1> DEFINE reader == [page.reader EXCEPT !.step = "fetching"]
<1>1. page.reader \in NoReadType /\ page.reader.key \in Keys
  BY PageFields DEF PageOK, ReaderOK
<1>2. reader \in NoReadType /\ reader.step = "fetching" /\ reader.key = page.reader.key
  BY <1>1 DEF NoReadType, Reads
<1>3. [page EXCEPT !.reader.step = "fetching"] = [page EXCEPT !.reader = reader]
  OBVIOUS
<1> HIDE DEF reader
<1>4. ReaderOK(reader, S)
  BY <1>1, <1>2 DEF ReaderOK
<1>5. CASE Inactive(page)
  BY <1>5, StopReadOK DEF Fetch
<1>6. CASE ~Inactive(page)
  BY <1>2, <1>3, <1>4, <1>6, ReaderStepOK DEF Fetch
<1> QED BY <1>5, <1>6

(* The job of a run without its deadline. *)
LEMMA ClearedOK ==
    ASSUME NEW page, NEW S, Closed(S), PageOK(page, S),
           Running(page) \/ page.phase = "settling"
    PROVE  /\ PageOK(Cleared(page), S) /\ Follows(page, Cleared(page))
           /\ Running(page) => Running(Cleared(page))
           /\ Cleared(page).reader = page.reader /\ Cleared(page).waiter = page.waiter
           /\ Cleared(page).job \in S /\ Cleared(page).job.status = page.job.status
<1> DEFINE job == [page.job EXCEPT !.retryAt = NoDeadline]
<1>1. page.job \in S /\ page.job \in ReportJob
  BY DEF PageOK, JobsOK, Running, WithJob, Closed
<1>2. NoDeadline \in Deadlines
  BY StoreConstants DEF NoDeadline, Deadlines
<1>3. /\ job \in S /\ job.status = page.job.status /\ job.id = page.job.id
      /\ job.revision = page.job.revision /\ job.timings = page.job.timings
  BY <1>1, <1>2 DEF Closed, ReportJob
<1>4. Cleared(page) = [page EXCEPT !.job = job]
  BY DEF Cleared
<1>5. \/ Running(page) /\ job.status = "running"
      \/ page.phase = "settling" /\ job.status # "complete"
  BY <1>3 DEF Running, PageOK, JobsOK
<1> HIDE DEF job
<1> QED BY <1>3, <1>4, <1>5, JobStepOK DEF Closed, Follows

(* Deadlines are compared with the clock. *)
LEMMA DateType ==
    ASSUME NEW page, NEW S, Closed(S), PageOK(page, S), now \in 0..MaxTime,
           Running(page) \/ page.phase = "settling"
    PROVE  page.job.retryAt \in Nat /\ now \in Nat
BY StoreConstants DEF PageOK, JobsOK, Running, WithJob, Closed, ReportJob, Deadlines

(* waitForDeadline, then the request. *)
LEMMA ReadWhenDueOK ==
    ASSUME NEW page, NEW S, Closed(S), PageOK(page, S), Running(page),
           page.reader.step # "none", now \in 0..MaxTime
    PROVE  PageOK(ReadWhenDue(page), S) /\ Follows(page, ReadWhenDue(page))
<1>1. page.reader \in NoReadType /\ page.reader.key \in Keys
  BY PageFields DEF PageOK, ReaderOK
<1>2. CASE page.job.retryAt > now
  <2> DEFINE reader == [page.reader EXCEPT !.step = "sleeping"]
  <2>1. reader \in NoReadType /\ reader.step = "sleeping" /\ reader.key = page.reader.key
    BY <1>1 DEF NoReadType, Reads
  <2>2. [page EXCEPT !.reader.step = "sleeping"] = [page EXCEPT !.reader = reader]
    OBVIOUS
  <2>3. ~(page.job.retryAt \in 1..now)
    <3>1. page.job.retryAt \in Nat /\ now \in Nat
      BY DateType
    <3> QED BY <1>2, <3>1
  <2>4. ReadWhenDue(page) = IF Inactive(page) THEN StopRead(page)
                            ELSE [page EXCEPT !.reader.step = "sleeping"]
    BY <1>2, <2>3 DEF ReadWhenDue
  <2> HIDE DEF reader
  <2>5. ReaderOK(reader, S)
    BY <1>1, <2>1 DEF ReaderOK
  <2>6. CASE Inactive(page)
    BY <2>4, <2>6, StopReadOK
  <2>7. CASE ~Inactive(page)
    BY <2>1, <2>2, <2>4, <2>5, <2>7, ReaderStepOK
  <2> QED BY <2>6, <2>7
<1>3. CASE ~(page.job.retryAt > now) /\ page.job.retryAt \in 1..now
  <2> DEFINE cleared == Cleared(page)
             reader == [cleared.reader EXCEPT !.step = "clearing", !.arg = cleared.job]
  <2>1. /\ PageOK(cleared, S) /\ Follows(page, cleared) /\ Running(cleared)
        /\ cleared.reader = page.reader /\ cleared.job \in S
        /\ cleared.job.status = "running" /\ cleared.job \in JobOrNone
    BY ClearedOK DEF Running, Closed, JobOrNone
  <2>2. ReadWhenDue(page) = [cleared EXCEPT !.reader.step = "clearing", !.reader.arg = cleared.job]
    BY <1>3 DEF ReadWhenDue
  <2> HIDE DEF cleared
  <2>3. /\ reader \in NoReadType /\ reader.step = "clearing" /\ reader.key = page.reader.key
        /\ reader.arg = cleared.job
    BY <1>1, <2>1 DEF NoReadType, Reads
  <2>4. [cleared EXCEPT !.reader.step = "clearing", !.reader.arg = cleared.job]
           = [cleared EXCEPT !.reader = reader]
    OBVIOUS
  <2> HIDE DEF reader
  <2>5. ReaderOK(reader, S)
    BY <1>1, <2>1, <2>3 DEF ReaderOK
  <2>6. PageOK([cleared EXCEPT !.reader = reader], S)
        /\ Follows(cleared, [cleared EXCEPT !.reader = reader])
    BY <2>1, <2>3, <2>5, ReaderStepOK
  <2> QED BY <2>1, <2>2, <2>4, <2>6 DEF Follows
<1>4. CASE ~(page.job.retryAt > now) /\ ~(page.job.retryAt \in 1..now)
  <2>1. ReadWhenDue(page) = Fetch(page)
    BY <1>4 DEF ReadWhenDue
  <2> QED BY <2>1, FetchOK
<1> QED BY <1>2, <1>3, <1>4

(* The requests that a wait held back go to the transport. *)
LEMMA EndWaitOK ==
    ASSUME NEW page, NEW S, PageOK(page, S)
    PROVE  /\ PageOK(EndWait(page), S) /\ Follows(page, EndWait(page))
           /\ EndWait(page).reader = page.reader
<1> DEFINE free == [page EXCEPT !.waiter = NoWait]
           next == EndWait(page)
<1>1. PageOK(free, S) /\ Follows(page, free) /\ free.reader = page.reader
  BY FreeWaiterOK
<1>2. next = [free EXCEPT !.queue = free.queue \cup free.wanted, !.wanted = {}]
  BY DEF EndWait
<1> HIDE DEF free, next
<1>3. free \in PageType /\ free.queue \in SUBSET Keys /\ free.wanted \in SUBSET Keys
  BY <1>1, PageFields DEF PageOK
<1>4. /\ next \in PageType /\ next.stopped = free.stopped
      /\ next.queue = free.queue \cup free.wanted /\ next.wanted = {}
      /\ next.phase = free.phase /\ next.job = free.job /\ next.arg = free.arg
      /\ next.got = free.got /\ next.reader = free.reader /\ next.waiter = free.waiter
  BY <1>2, <1>3 DEF PageType
<1>5. JobsOK(next, S) /\ RestOK(next)
  BY <1>1, <1>4 DEF PageOK, JobsOK, RestOK
<1>6. KeysOK(next)
  BY <1>1, <1>4 DEF PageOK, KeysOK, Outstanding
<1>7. PageOK(next, S) /\ Follows(free, next) /\ next.reader = free.reader
  BY <1>1, <1>4, <1>5, <1>6 DEF PageOK, Follows
<1> QED BY <1>1, <1>7 DEF Follows, next

(* waitForDeadline in a wait. *)
LEMMA WaitUntilDueOK ==
    ASSUME NEW page, NEW S, Closed(S), PageOK(page, S),
           Running(page) \/ page.phase = "settling", now \in 0..MaxTime
    PROVE  /\ PageOK(WaitUntilDue(page), S) /\ Follows(page, WaitUntilDue(page))
           /\ WaitUntilDue(page).reader = page.reader
<1>1. page.waiter \in WaitType
  BY PageFields DEF PageOK
<1>2. CASE page.job.retryAt > now
  <2> DEFINE waiter == [page.waiter EXCEPT !.step = "sleeping"]
  <2>1. waiter \in WaitType /\ waiter.step = "sleeping"
    BY <1>1 DEF WaitType, Waits
  <2>2. [page EXCEPT !.waiter.step = "sleeping"] = [page EXCEPT !.waiter = waiter]
    OBVIOUS
  <2>3. ~(page.job.retryAt \in 1..now)
    <3>1. page.job.retryAt \in Nat /\ now \in Nat
      BY DateType
    <3> QED BY <1>2, <3>1
  <2>4. WaitUntilDue(page) = IF Inactive(page) THEN StopWait(page)
                             ELSE [page EXCEPT !.waiter.step = "sleeping"]
    BY <1>2, <2>3 DEF WaitUntilDue
  <2> HIDE DEF waiter
  <2>5. WaiterOK(waiter, page.phase, S)
    BY <2>1 DEF WaiterOK
  <2>6. CASE Inactive(page)
    BY <2>4, <2>6, StopWaitOK
  <2>7. CASE ~Inactive(page)
    BY <2>1, <2>2, <2>4, <2>5, <2>7, WaiterStepOK
  <2> QED BY <2>6, <2>7
<1>3. CASE ~(page.job.retryAt > now) /\ page.job.retryAt \in 1..now
  <2> DEFINE cleared == Cleared(page)
             waiter == [step |-> "clearing", arg |-> cleared.job]
  <2>1. /\ PageOK(cleared, S) /\ Follows(page, cleared) /\ cleared.reader = page.reader
        /\ Running(cleared) \/ cleared.phase = "settling"
        /\ cleared.job \in S /\ cleared.job \in JobOrNone
        /\ cleared.phase = page.phase
        /\ cleared.job.status # "complete"
        /\ cleared.phase = "collecting" => cleared.job.status = "running"
    BY ClearedOK DEF Running, Closed, JobOrNone, Follows, PageOK, JobsOK
  <2>2. WaitUntilDue(page) = [cleared EXCEPT !.waiter = waiter]
    BY <1>3 DEF WaitUntilDue
  <2>3. waiter \in WaitType /\ waiter.step = "clearing" /\ waiter.arg = cleared.job
    BY <2>1 DEF WaitType, Waits
  <2> HIDE DEF cleared, waiter
  <2>4. WaiterOK(waiter, cleared.phase, S)
    BY <2>1, <2>3 DEF WaiterOK
  <2>5. PageOK([cleared EXCEPT !.waiter = waiter], S)
        /\ Follows(cleared, [cleared EXCEPT !.waiter = waiter])
        /\ [cleared EXCEPT !.waiter = waiter].reader = cleared.reader
    BY <2>1, <2>3, <2>4, WaiterStepOK
  <2> QED BY <2>1, <2>2, <2>5 DEF Follows
<1>4. CASE ~(page.job.retryAt > now) /\ ~(page.job.retryAt \in 1..now)
  <2>1. WaitUntilDue(page) = EndWait(page)
    BY <1>4 DEF WaitUntilDue
  <2> QED BY <2>1, EndWaitOK
<1> QED BY <1>2, <1>3, <1>4

(* A delay moves the deadline of a job forward. *)
LEMMA RaiseOK ==
    ASSUME NEW S, Closed(S), NEW job \in S, NEW delay \in Delays, now \in 0..MaxTime
    PROVE  /\ Raise(job, delay) \in S /\ Raise(job, delay).status = job.status
           /\ Raise(job, delay).id = job.id /\ Raise(job, delay).revision = job.revision
           /\ Raise(job, delay).timings = job.timings
<1> DEFINE due == IF delay = 0 THEN job.retryAt ELSE Later(job.retryAt, now + delay)
<1>1. job \in ReportJob /\ job.retryAt \in Deadlines
  BY DEF Closed, ReportJob
<1>2. now + delay \in Deadlines
  BY StoreConstants DEF Delays, Deadlines
<1>3. due \in Deadlines
  BY <1>1, <1>2, LaterType
<1>4. Raise(job, delay) = [job EXCEPT !.retryAt = due]
  BY DEF Raise
<1> HIDE DEF due
<1> QED BY <1>1, <1>3, <1>4 DEF Closed, ReportJob

(* waitFn: the deadline is saved before the wait, unless there is one. *)
LEMMA StartWaitOK ==
    ASSUME NEW page, NEW S, Closed(S), PageOK(page, S), Running(page),
           NEW delay \in Delays, now \in 0..MaxTime
    PROVE  /\ PageOK(StartWait(page, delay), S) /\ Follows(page, StartWait(page, delay))
           /\ StartWait(page, delay).reader = page.reader
<1> DEFINE due == Raise(page.job, delay)
           waiter == [step |-> "setting", arg |-> due]
           raised == [page EXCEPT !.job = due]
<1>1. page.job \in S
  BY DEF PageOK, JobsOK, Running, WithJob
<1>2. /\ due \in S /\ due.status = "running" /\ due \in JobOrNone
      /\ due.id = page.job.id /\ due.revision = page.job.revision
      /\ due.timings = page.job.timings
  BY <1>1, RaiseOK DEF Running, Closed, JobOrNone
<1>3. CASE Inactive(page)
  <2>1. StartWait(page, delay) = StopWait(page)
    BY <1>3 DEF StartWait
  <2> QED BY <2>1, StopWaitOK
<1>4. CASE ~Inactive(page) /\ page.job.retryAt = NoDeadline
  <2>1. StartWait(page, delay) = [raised EXCEPT !.waiter = waiter]
    BY <1>4 DEF StartWait
  <2>2. waiter \in WaitType /\ waiter.step = "setting" /\ waiter.arg = due
    BY <1>2 DEF WaitType, Waits
  <2> HIDE DEF due
  <2>3. /\ PageOK(raised, S) /\ Running(raised) /\ Follows(page, raised)
        /\ raised.reader = page.reader
    BY <1>2, JobStepOK DEF Closed, Follows
  <2> HIDE DEF raised, waiter
  <2>4. WaiterOK(waiter, raised.phase, S)
    BY <1>2, <2>2 DEF WaiterOK
  <2>5. PageOK([raised EXCEPT !.waiter = waiter], S)
        /\ Follows(raised, [raised EXCEPT !.waiter = waiter])
        /\ [raised EXCEPT !.waiter = waiter].reader = raised.reader
    BY <2>2, <2>3, <2>4, WaiterStepOK
  <2> QED BY <2>1, <2>3, <2>5 DEF Follows
<1>5. CASE ~Inactive(page) /\ page.job.retryAt # NoDeadline
  <2>1. StartWait(page, delay) = WaitUntilDue(page)
    BY <1>5 DEF StartWait
  <2> QED BY <2>1, WaitUntilDueOK
<1> QED BY <1>3, <1>4, <1>5

(* Only a run that collects reads or waits, or one that settles waits. *)
LEMMA ReadingOK ==
    ASSUME NEW page, NEW S, PageOK(page, S), page.reader.step # "none"
    PROVE  /\ Running(page) /\ page.reader.key \in Keys
           /\ page.reader \in NoReadType /\ page.got[page.reader.key] = None
<1>1. page.phase = "collecting"
  BY NothingOK DEF PageOK, RestOK
<1>2. page.job.status = "running"
  BY <1>1, NothingOK DEF PageOK, JobsOK
<1>3. page.reader.key \in Keys /\ page.reader \in NoReadType
  BY PageFields DEF PageOK, ReaderOK
<1>4. page.reader.key \in Outstanding(page)
  BY <1>3, NothingOK DEF Outstanding
<1> QED BY <1>1, <1>2, <1>3, <1>4 DEF Running, PageOK, KeysOK

(* A wait belongs to a run that collects, or to one that is being settled. *)
LEMMA WaitingOK ==
    ASSUME NEW page, NEW S, PageOK(page, S), page.waiter.step # "none"
    PROVE  /\ Running(page) \/ (page.phase = "settling" /\ page.job.status # "complete")
           /\ page.waiter \in WaitType
<1>1. page.phase \in {"collecting", "settling"}
  BY NothingOK DEF PageOK, RestOK
<1>2. page.phase = "collecting" => page.job.status = "running"
  BY <1>1, NothingOK DEF PageOK, JobsOK
<1> QED BY <1>1, <1>2, PageFields DEF Running, PageOK, JobsOK

(* The response is handed to the collector. *)
LEMMA ReceivedOK ==
    ASSUME NEW page, NEW S, PageOK(page, S), page.reader.step # "none",
           NEW response \in Responses
    PROVE  LET next == Received(page, response) IN
           /\ PageOK(next, S)
           /\ next.phase = page.phase /\ next.job = page.job /\ next.stopped = page.stopped
           /\ next.reader = NoRead
           /\ next.got = [page.got EXCEPT ![page.reader.key] = response]
<1> DEFINE next == Received(page, response)
           got == [page.got EXCEPT ![page.reader.key] = response]
           pending == page.pending \/ page.reader.owes
<1>1. /\ Running(page) /\ page.reader.key \in Keys
      /\ page.got[page.reader.key] = None /\ page \in PageType
  BY ReadingOK DEF PageOK
<1>2. got \in [Keys -> Responses \cup {None}]
      /\ \A key \in Keys : key # page.reader.key => got[key] = page.got[key]
  BY <1>1, PageFields
<1>3. pending \in BOOLEAN
  OBVIOUS
<1>4. next = [page EXCEPT !.reader = NoRead, !.got = got, !.pending = pending]
  BY DEF Received
<1> HIDE DEF got, pending, next
<1>5. /\ next \in PageType /\ next.stopped = page.stopped
      /\ next.queue = page.queue /\ next.wanted = page.wanted
      /\ next.phase = page.phase /\ next.job = page.job /\ next.arg = page.arg
      /\ next.got = got /\ next.reader = NoRead /\ next.waiter = page.waiter
  BY <1>1, <1>2, <1>3, <1>4, NothingOK DEF PageType, NoReadType
<1>6. JobsOK(next, S) /\ RestOK(next)
  BY <1>1, <1>5 DEF PageOK, JobsOK, RestOK, Running, WithJob, WithArg
<1>7. KeysOK(next)
  <2>1. next.queue \in SUBSET Keys /\ next.wanted \in SUBSET Keys
    BY <1>5, PageFields
  <2>2. Outstanding(next) = page.queue \cup page.wanted
    BY <1>5, NothingOK DEF Outstanding
  <2>3. ASSUME NEW key \in page.queue \cup page.wanted PROVE got[key] = None
    BY <1>1, <1>2, <1>5, <2>1 DEF PageOK, KeysOK, Outstanding
  <2> QED BY <1>5, <2>1, <2>2, <2>3, NothingOK DEF PageOK, KeysOK
<1>8. ReaderOK(next.reader, S) /\ WaiterOK(next.waiter, next.phase, S)
  BY <1>5, NothingOK DEF ReaderOK, PageOK
<1>9. PageOK(next, S)
  BY <1>5, <1>6, <1>7, <1>8 DEF PageOK
<1> QED BY <1>5, <1>9 DEF next, got

(* A reply that is no success: the collector stops, or asks again later. *)
LEMMA RejectedOK ==
    ASSUME NEW page, NEW S, Closed(S), PageOK(page, S), page.reader.step # "none",
           ~page.stopped, now \in 0..MaxTime, NEW next \in Rejected(page)
    PROVE  PageOK(next, S) /\ Follows(page, next) /\ next.reader = NoRead
<1> DEFINE free == [page EXCEPT !.reader = NoRead]
           key == page.reader.key
           retries == page.retries + 1
           held == [page EXCEPT !.reader = NoRead, !.retries = retries, !.wanted = {key}]
<1>1. /\ Running(page) /\ key \in Keys /\ page.got[key] = None
      /\ page \in PageType /\ page.retries \in 0..MaxRetries
  BY ReadingOK, PageFields DEF PageOK
<1>2. PageOK(free, S) /\ Follows(page, free) /\ free.reader = NoRead
  BY FreeReaderOK DEF PageOK, PageType
<1>3. CASE next = Stop(free)
  <2> HIDE DEF free
  <2> QED BY <1>2, <1>3, StopOK DEF Follows
<1>4. ASSUME NEW delay \in Delays, page.retries < MaxRetries, next = StartWait(held, delay)
      PROVE  PageOK(next, S) /\ Follows(page, next) /\ next.reader = NoRead
  <2>1. retries \in 0..MaxRetries
    BY <1>1, <1>4, CollectionConstants
  <2> HIDE DEF key, retries
  <2>2. /\ held \in PageType /\ held.stopped = page.stopped
        /\ held.queue = page.queue /\ held.wanted = {key}
        /\ held.phase = page.phase /\ held.job = page.job /\ held.arg = page.arg
        /\ held.got = page.got /\ held.reader = NoRead /\ held.waiter = page.waiter
    BY <1>1, <2>1, NothingOK, ZenonT(30) DEF PageType, NoReadType
  <2> HIDE DEF held
  <2>3. JobsOK(held, S) /\ RestOK(held)
    BY <1>1, <2>2 DEF PageOK, JobsOK, RestOK, Running, WithJob, WithArg
  <2>4. KeysOK(held)
    <3>1. page.queue \in SUBSET Keys
      BY <1>1, PageFields
    <3>2. Outstanding(held) = page.queue \cup {key}
      BY <2>2, NothingOK DEF Outstanding
    <3>3. key \notin page.queue
      BY DEF PageOK, KeysOK, key
    <3> QED BY <1>1, <2>2, <3>1, <3>2, <3>3, NothingOK DEF PageOK, KeysOK, Outstanding
  <2>5. PageOK(held, S) /\ Running(held) /\ Follows(page, held) /\ held.reader = NoRead
    BY <1>1, <2>2, <2>3, <2>4, NothingOK DEF PageOK, ReaderOK, Running, Follows
  <2> QED BY <1>4, <2>5, StartWaitOK DEF Follows
<1>5. \/ next = Stop(free)
      \/ \E delay \in Delays : page.retries < MaxRetries /\ next = StartWait(held, delay)
  <2>1. next \in {Stop(free)} \cup
          IF ApiOf[key] = "v3" /\ page.retries < MaxRetries
          THEN {StartWait([free EXCEPT !.retries = page.retries + 1, !.wanted = {key}], delay) :
                    delay \in Delays}
          ELSE {}
    BY DEF Rejected
  <2>2. [free EXCEPT !.retries = page.retries + 1, !.wanted = {key}] = held
    BY <1>1 DEF PageType
  <2> HIDE DEF free, held, key
  <2> QED BY <2>1, <2>2
<1> QED BY <1>3, <1>4, <1>5

-----------------------------------------------------------------------------
(* Lemmas about the saved job and the pages *)

(* The phases of a page that holds no job of its own. *)
Quiet == Phases \ (WithJob \cup WithArg \cup {"creating"})

Still(page) ==
    /\ page.reader = NoRead /\ page.waiter = NoWait
    /\ page.queue = {} /\ page.wanted = {} /\ page.got = NothingGot

AtRest(page) == page.phase \in Quiet /\ Still(page)

(* A page that has not asked for anything is right if its jobs are.        *)
LEMMA StillOK ==
    ASSUME NEW page \in PageType, NEW S, Still(page), JobsOK(page, S),
           page.phase \notin {"closing", "delivering"}
    PROVE  PageOK(page, S) /\ GotSaved(page) /\ GotSaved(page)'
<1>1. RestOK(page)
  BY DEF RestOK, Still
<1>2. ReaderOK(page.reader, S) /\ WaiterOK(page.waiter, page.phase, S)
  BY NothingOK DEF Still, ReaderOK, WaiterOK
<1>3. KeysOK(page)
  BY NothingOK DEF Still, KeysOK, Outstanding
<1>4. GotSaved(page) /\ GotSaved(page)'
  BY NothingOK DEF Still, GotSaved
<1> QED BY <1>1, <1>2, <1>3, <1>4 DEF PageOK

(* A run that only begins has not asked for anything. *)
LEMMA NotYetOK ==
    ASSUME NEW page, NEW S, PageOK(page, S),
           page.phase \in Quiet \cup {"creating", "pausing", "opening"}
    PROVE  page \in PageType /\ Still(page) /\ (page.phase \in Quiet => AtRest(page))
BY DEF PageOK, RestOK, Still, AtRest, Quiet, WithJob, WithArg

(* A page at rest is right whatever is saved. *)
LEMMA AtRestOK ==
    ASSUME NEW page \in PageType, AtRest(page), NEW S
    PROVE  /\ PageOK(page, S) /\ ~Healthy(page) /\ GotSaved(page) /\ GotSaved(page)'
           /\ page.phase # "creating"
<1>1. page.phase \notin WithJob \cup WithArg \cup {"creating"}
  BY DEF AtRest, Quiet
<1>2. JobsOK(page, S) /\ ~Healthy(page) /\ page.phase # "creating"
  BY <1>1 DEF JobsOK, Healthy, WithJob, WithArg
<1> QED BY <1>1, <1>2, StillOK DEF AtRest, WithJob

(* The page that runExclusive leaves behind is at rest.                    *)
LEMMA PageAtRest ==
    ASSUME NEW phase \in Quiet, NEW seen \in JobIds \cup {None}
    PROVE  /\ Page(phase, seen) \in PageType /\ AtRest(Page(phase, seen))
           /\ Page(phase, seen).phase = phase /\ Page(phase, seen).seen = seen
<1>1. phase \in Phases /\ None \in JobOrNone /\ 0 \in 0..MaxRetries
  BY CollectionConstants DEF Quiet, JobOrNone
<1> QED BY <1>1, NothingOK DEF Page, PageType, AtRest, Still, NoReadType, WaitType

(* A page that does not hold the lock is at rest. *)
LEMMA OutsideOK ==
    ASSUME NEW page, NEW S, PageOK(page, S), page.phase \notin Exclusive
    PROVE  page \in PageType /\ AtRest(page)
<1>1. page.phase \in Quiet 
  BY PageFields DEF PageOK, Exclusive, Quiet, WithJob, WithArg, Phases
<1> QED BY <1>1, NotYetOK

(* Which jobs a page may hold only grows. *)
LEMMA PageMono ==
    ASSUME NEW page, NEW S, NEW T, PageOK(page, S), S \subseteq T
    PROVE  PageOK(page, T)
<1>1. JobsOK(page, T)
  BY DEF PageOK, JobsOK
<1>2. ReaderOK(page.reader, T) /\ WaiterOK(page.waiter, page.phase, T)
  BY DEF PageOK, ReaderOK, WaiterOK
<1> QED BY <1>1, <1>2 DEF PageOK

(* The jobs that may have been read from the saved one. *)
LEMMA KnownOK ==
    ASSUME StoreInv
    PROVE  /\ Closed(Known)
           /\ latest # NoJob => latest \in Known /\ latest \in ReportJob
<1>1. latest # NoJob => latest \in ReportJob
  BY DEF StoreInv, StoreTypeOK
<1>2. ASSUME latest # NoJob PROVE latest \in Known
  BY <1>1, <1>2 DEF Known, ReportJob
<1>3. ASSUME NEW job \in Known, NEW status \in Statuses
      PROVE  [job EXCEPT !.status = status] \in Known
  BY DEF Known, ReportJob
<1>4. ASSUME NEW job \in Known, NEW deadline \in Deadlines
      PROVE  [job EXCEPT !.retryAt = deadline] \in Known
  BY DEF Known, ReportJob
<1> QED BY <1>1, <1>2, <1>3, <1>4 DEF Closed, Known

(* And so it is after a step. *)
LEMMA NextKnownOK ==
    ASSUME StoreInv'
    PROVE  /\ Closed(Known')
           /\ latest' # NoJob => latest' \in Known' /\ latest' \in ReportJob
<1>1. latest' # NoJob => latest' \in ReportJob
  BY DEF StoreInv, StoreTypeOK
<1>2. ASSUME latest' # NoJob PROVE latest' \in Known'
  BY <1>1, <1>2 DEF Known, ReportJob
<1>3. ASSUME NEW job \in Known', NEW status \in Statuses
      PROVE  [job EXCEPT !.status = status] \in Known'
  BY DEF Known, ReportJob
<1>4. ASSUME NEW job \in Known', NEW deadline \in Deadlines
      PROVE  [job EXCEPT !.retryAt = deadline] \in Known'
  BY DEF Known, ReportJob
<1> QED BY <1>1, <1>2, <1>3, <1>4 DEF Closed, Known

(* What load() returns may be held. *)
LEMMA LoadedOK ==
    ASSUME StoreTypeOK, latest # NoJob, NEW S, Closed(S), latest \in S
    PROVE  /\ Loaded \in S /\ Loaded \in ReportJob
           /\ Loaded.id = latest.id /\ Loaded.revision = latest.revision
           /\ Loaded.timings = latest.timings /\ Loaded.status = latest.status
           /\ Loaded.connectionKey = latest.connectionKey
<1> DEFINE due == Live(Later(Later(latest.retryAt, NoDeadline), throttles[latest.connectionKey]))
<1>1. latest \in ReportJob /\ throttles[latest.connectionKey] \in Deadlines
      /\ latest.retryAt \in Deadlines /\ NoDeadline \in Deadlines
  BY StoreConstants DEF StoreTypeOK, ReportJob, NoDeadline, Deadlines
<1>2. due \in Deadlines
  BY <1>1, LaterType, LiveType DEF StoreTypeOK
<1>3. Loaded = [latest EXCEPT !.retryAt = due]
  BY DEF Loaded, WithConnectionThrottle
<1> HIDE DEF due
<1> QED BY <1>1, <1>2, <1>3 DEF Closed, ReportJob

-----------------------------------------------------------------------------
(* Lemmas about the writes of a job that was read *)

(* The saved job is written once more, with what the client changed in it. *)
Written(job) ==
    /\ latest # NoJob /\ latest \in ReportJob
    /\ latest' # NoJob /\ latest' \in ReportJob
    /\ latest.id = job.id /\ latest.revision = job.revision
    /\ latest'.id = latest.id
    /\ \/ latest' = latest
       \/ latest'.revision = latest.revision + 1
    /\ latest'.status \in {latest.status, job.status}
    /\ journal \subseteq journal'

(* A save is a write with a new revision and the status that was           *)
(* submitted.                                                              *)
LEMMA SaveWrites ==
    ASSUME StoreInv, NEW job \in ReportJob, Save(job)
    PROVE  /\ StoreInv' /\ Written(job)
           /\ latest'.revision = latest.revision + 1
           /\ latest'.status = job.status /\ latest'.timings = latest.timings
           /\ journal' = journal
<1>1. /\ StoreTypeOK /\ IsCurrent(job) /\ latest # NoJob /\ latest' = Saved(job)
      /\ journal' = journal
  BY DEF StoreInv, Save, IsCurrent
<1>2. StoreInv'
  BY SaveInv
<1>3. /\ latest \in ReportJob /\ latest' \in ReportJob /\ latest'.id = latest.id
      /\ latest'.revision = latest.revision + 1 /\ latest'.timings = latest.timings
  BY <1>1, SavedType DEF CoversDeadlines, StoreTypeOK
<1>4. latest'.status = job.status
  <2> DEFINE next == NextRevision(job)
  <2>1. next \in ReportJob /\ next.status = job.status
    BY <1>3 DEF NextRevision, ReportJob
  <2>2. latest.retryAt \in Deadlines /\ throttles \in [Connections -> Deadlines]
    BY <1>1, <1>3 DEF ReportJob, StoreTypeOK
  <2>3. latest' = WithConnectionThrottle(next, throttles, latest.retryAt)
    BY <1>1 DEF Saved
  <2> HIDE DEF next
  <2> QED BY <1>1, <2>1, <2>2, <2>3, ThrottledJob
<1>5. latest' # NoJob /\ latest.id = job.id /\ latest.revision = job.revision
  BY <1>1, <1>3, StoreConstants DEF IsCurrent
<1> QED BY <1>1, <1>2, <1>3, <1>4, <1>5 DEF Written

(* A checkpoint is a write that leaves the response in the journal. *)
LEMMA CheckpointWrites ==
    ASSUME StoreInv, NEW job \in ReportJob, NEW key \in Keys, NEW response \in Responses,
           Checkpoint(job, key, response)
    PROVE  /\ StoreInv' /\ Written(job) /\ Entry(job, key, response) \in journal'
           /\ (\A r \in Responses : Entry(job, key, r) \notin journal) =>
                  latest'.revision = latest.revision + 1 /\ latest'.status = job.status
<1>1. /\ StoreTypeOK /\ IsCurrent(job) /\ latest # NoJob /\ latest \in ReportJob
      /\ latest.id = job.id /\ latest.revision = job.revision
      /\ latest.retryAt \in Deadlines /\ throttles \in [Connections -> Deadlines]
  BY DEF StoreInv, Checkpoint, CheckpointNew, CheckpointAgain, IsCurrent, StoreTypeOK, ReportJob
<1>2. CASE CheckpointNew(job, key, response)
  <2>1. /\ latest' = Checkpointed(job, key, response)
        /\ journal' = journal \cup {[jobId |-> job.id, key |-> key, response |-> response]}
    BY <1>2 DEF CheckpointNew
  <2>2. StoreInv'
    BY <1>2, CheckpointNewInv
  <2>3. LET written == Checkpointed(job, key, response) IN
        /\ CoversDeadlines(written)
        /\ written.id = latest.id
        /\ written.revision = latest.revision + 1
        /\ written.timings = [latest.timings EXCEPT ![ApiOf[key]] = @ + 1]
        /\ written.completedRequests = latest.completedRequests + 1
        /\ written.savedBytes = latest.savedBytes + ByteLength[response]
    BY <1>1, CheckpointedType
  <2>4. latest' \in ReportJob /\ latest'.id = latest.id /\ latest'.revision = latest.revision + 1
    BY <2>1, <2>3 DEF CoversDeadlines
  <2>5. latest'.status = job.status
    <3> DEFINE timings == [latest.timings EXCEPT ![ApiOf[key]] = @ + 1]
               requests == latest.completedRequests + 1
               bytes == latest.savedBytes + ByteLength[response]
               due == Live(Later(Later(job.retryAt, latest.retryAt), throttles[job.connectionKey]))
    <3>1. latest' = WithConnectionThrottle([NextRevision(job) EXCEPT
              !.completedRequests = requests, !.savedBytes = bytes, !.timings = timings],
              throttles, latest.retryAt)
      BY <2>1 DEF Checkpointed
    <3> HIDE DEF timings, requests, bytes
    <3> QED BY <3>1 DEF WithConnectionThrottle, NextRevision, ReportJob
  <2> QED BY <1>1, <2>1, <2>2, <2>4, <2>5, StoreConstants DEF Written, Entry
<1>3. CASE CheckpointAgain(job, key, response)
  <2>1. /\ latest' = AfterRecovery(job) /\ journal' = journal
        /\ SavedEntries(job.id, key) # {}
        /\ \A entry \in SavedEntries(job.id, key) : entry.response = response
    BY <1>3 DEF CheckpointAgain
  <2>2. StoreInv'
    BY <1>3, CheckpointAgainInv
  <2>3. /\ AfterRecovery(job) \in ReportJob
        /\ AfterRecovery(job).id = latest.id
        /\ AfterRecovery(job) # latest => AfterRecovery(job).revision = latest.revision + 1
    BY <1>1, RecoveredType
  <2>4. latest'.status = latest.status
    <3>1. Recovered(job).status = latest.status
      BY <1>1 DEF Recovered, WithConnectionThrottle, ReportJob
    <3>2. Recovered(job) = [latest EXCEPT !.retryAt = Recovered(job).retryAt]
      BY <1>1 DEF Recovered, WithConnectionThrottle, ReportJob
    <3> QED BY <1>1, <2>1, <3>1, <3>2 DEF AfterRecovery, NextRevision, ReportJob
  <2>5. Entry(job, key, response) \in journal
    <3>1. PICK entry \in SavedEntries(job.id, key) : entry.response = response
      BY <2>1
    <3>2. entry \in journal /\ entry \in JournalEntry /\ entry.jobId = job.id /\ entry.key = key
      BY <1>1, <3>1 DEF SavedEntries, StoreTypeOK
    <3>3. entry = [jobId |-> job.id, key |-> key, response |-> response]
      BY <3>1, <3>2 DEF JournalEntry
    <3> QED BY <3>2, <3>3 DEF Entry
  <2> QED BY <1>1, <2>1, <2>2, <2>3, <2>4, <2>5, StoreConstants DEF Written
<1> QED BY <1>2, <1>3 DEF Checkpoint

(* What was known of the saved job stays so when it is written once more. *)
LEMMA WrittenKnown ==
    ASSUME StoreInv, StoreInv', NEW job, Written(job)
    PROVE  /\ Known \subseteq Known' /\ latest' \in Known' /\ Closed(Known')
           /\ latest.revision \in Nat /\ latest'.revision \in Nat
           /\ latest.revision <= latest'.revision
<1>1. latest.revision \in Nat /\ latest'.revision \in Nat /\ latest.revision <= latest'.revision
  BY DEF Written, ReportJob
<1>2. ASSUME NEW known \in Known PROVE known \in Known'
  <2>1. known \in ReportJob /\ known.id = latest'.id /\ known.revision <= latest.revision
        /\ known.revision \in Nat
    BY DEF Known, Written, ReportJob
  <2> QED BY <1>1, <2>1 DEF Known, Written
<1> QED BY <1>1, <1>2, NextKnownOK DEF Written

-----------------------------------------------------------------------------
(* The invariant after a step of one tab *)

GhostType == [tab: Tabs, saving: BOOLEAN, aborted: BOOLEAN, job: ReportJob]

(* How a step of tab t moves the lock. *)
LockMoves(t, page) ==
    \/ lock' = lock /\ (page.phase \in Exclusive <=> tab[t].phase \in Exclusive)
    \/ lock = None /\ lock' = t /\ page.phase \in Exclusive
    \/ lock = t /\ lock' = None /\ page.phase \notin Exclusive

(* The lock follows the tab that moves: it is held by the one tab inside   *)
(* of runExclusive.                                                        *)
LEMMA LockStep ==
    ASSUME TypeOK, NEW t \in Tabs, NEW page \in PageType,
           tab' = [tab EXCEPT ![t] = page], LockMoves(t, page)
    PROVE  /\ tab' \in [Tabs -> PageType] /\ lock' \in Tabs \cup {None}
           /\ \A u \in Tabs : (lock' = u) <=> (tab'[u].phase \in Exclusive)
<1>1. tab' \in [Tabs -> PageType] /\ tab'[t] = page
      /\ \A u \in Tabs : u # t => tab'[u] = tab[u]
  BY DEF TypeOK
<1>2. lock \in Tabs \cup {None} /\ \A u \in Tabs : (lock = u) <=> (tab[u].phase \in Exclusive)
  BY DEF TypeOK
<1>3. None \notin Tabs
  BY NothingOK
<1> QED BY <1>1, <1>2, <1>3 DEF LockMoves

(* A tab other than the one that holds the lock is at rest. *)
LEMMA OthersAtRest ==
    ASSUME Inv, NEW t \in Tabs, NEW u \in Tabs, lock = t, u # t
    PROVE  tab[u] \in PageType /\ AtRest(tab[u])
<1>1. tab[u].phase \notin Exclusive /\ PageOK(tab[u], Known)
  BY DEF Inv, TypeOK, TabOK
<1> QED BY <1>1, OutsideOK

(* A page that is right for the saved job. *)
PageStands(page) ==
    /\ PageOK(page, Known)
    /\ GotSaved(page)
    /\ Healthy(page) => Current(page)
    /\ page.phase = "creating" => /\ page.arg.id \notin usedIds
                                  /\ latest # NoJob => Done
    /\ Done => page.reader = NoRead /\ page.waiter = NoWait

(* A step that does not touch the store. *)
LEMMA KeepStep ==
    ASSUME Inv, NEW t \in Tabs, NEW page, tab' = [tab EXCEPT ![t] = page],
           UNCHANGED stored, LockMoves(t, page), PageStands(page),
           Healthy(page) => Healthy(tab[t]),
           \A ghost \in ghosts' : ghost \in ghosts \/ (ghost \in GhostType /\ GhostOK(ghost))
    PROVE  Inv'
<1>1. UNCHANGED storeVars /\ usedIds' = usedIds
      /\ latest' = latest /\ journal' = journal
  BY DEF stored, storeVars
<1>2. StoreInv' /\ StoreTypeOK'
  BY <1>1, IdleInv DEF Inv, StoreInv
<1>3. page \in PageType
  BY DEF PageStands, PageOK
<1>4. /\ tab' \in [Tabs -> PageType] /\ lock' \in Tabs \cup {None}
      /\ \A u \in Tabs : (lock' = u) <=> (tab'[u].phase \in Exclusive)
  BY <1>3, LockStep DEF Inv
<1>5. tab'[t] = page /\ \A u \in Tabs : u # t => tab'[u] = tab[u]
  BY DEF Inv, TypeOK
<1>6. \A ghost \in ghosts' : ghost \in GhostType /\ GhostOK(ghost)
  BY DEF Inv, TypeOK, GhostType
<1>7. TypeOK'
  BY <1>1, <1>2, <1>4, <1>6 DEF Inv, TypeOK, GhostType
<1>8. Known' = Known /\ (Done' <=> Done)
  BY <1>1 DEF Known, Done
<1>9. ASSUME NEW u \in Tabs PROVE TabOK(u)'
  <2>1. CASE u = t
    BY <1>1, <1>5, <1>8, <2>1 DEF PageStands, TabOK, At, GotSaved, Unsaved, Current
  <2>2. CASE u # t
    BY <1>1, <1>5, <1>8, <2>2 DEF Inv, TabOK, At, GotSaved, Unsaved, Current
  <2> QED BY <2>1, <2>2
<1>10. (\E u \in Tabs : Healthy(tab'[u])) => \E u \in Tabs : Healthy(tab[u])
  BY <1>5
<1>11. ASSUME NEW ghost \in ghosts' PROVE GhostOK(ghost)'
  BY <1>1, <1>6, <1>8, <1>10 DEF GhostOK
<1> QED BY <1>1, <1>2, <1>7, <1>9, <1>11 DEF Inv

(* A step of the tab that holds the lock, which writes the job it read. *)
LEMMA WriteStep ==
    ASSUME Inv, NEW t \in Tabs, lock = t, NEW page, tab' = [tab EXCEPT ![t] = page],
           NEW job \in ReportJob, Written(job), StoreInv', UNCHANGED usedIds,
           LockMoves(t, page), PageOK(page, Known'), GotSaved(page)',
           page.phase # "creating", Healthy(page) => Current(page)',
           Healthy(page) => Healthy(tab[t]) \/ latest'.revision = latest.revision + 1,
           Done' => /\ page.reader = NoRead /\ page.waiter = NoWait
                    /\ Done \/ latest'.revision = latest.revision + 1,
           \A ghost \in ghosts' : ghost \in ghosts \/ (ghost \in GhostType /\ GhostOK(ghost)')
    PROVE  Inv'
<1>1. page \in PageType /\ StoreTypeOK'
  BY DEF PageOK, StoreInv
<1>2. /\ tab' \in [Tabs -> PageType] /\ lock' \in Tabs \cup {None}
      /\ \A u \in Tabs : (lock' = u) <=> (tab'[u].phase \in Exclusive)
  BY <1>1, LockStep DEF Inv
<1>3. tab'[t] = page /\ \A u \in Tabs : u # t => tab'[u] = tab[u]
  BY DEF Inv, TypeOK
<1>4. \A ghost \in ghosts' : ghost \in GhostType
  BY DEF Inv, TypeOK, GhostType
<1>5. TypeOK'
  BY <1>1, <1>2, <1>4 DEF Inv, TypeOK, GhostType
<1>6. latest'.id \in usedIds'
  BY DEF Inv, Written
<1>7. ASSUME NEW u \in Tabs, u # t
      PROVE  /\ TabOK(u)' /\ ~Healthy(tab'[u])
  <2>1. tab'[u] = tab[u] /\ tab[u] \in PageType /\ AtRest(tab[u])
    BY <1>3, <1>7, OthersAtRest
  <2>2. /\ PageOK(tab[u], Known') /\ ~Healthy(tab[u]) /\ GotSaved(tab[u])'
        /\ tab[u].phase # "creating"
    BY <2>1, AtRestOK
  <2>3. GotSaved(tab[u])'
    BY <2>1, <2>2 DEF GotSaved
  <2> QED BY <2>1, <2>2, <2>3 DEF TabOK, At, AtRest, Still
<1>8. TabOK(t)'
  <2>1. GotSaved(tab[t])'
    BY <1>3 DEF GotSaved
  <2>2. Healthy(tab'[t]) => Current(tab[t])'
    BY <1>3 DEF Current
  <2> QED BY <1>3, <2>1, <2>2 DEF TabOK, At
<1>9. ASSUME NEW ghost \in ghosts PROVE GhostOK(ghost)'
  <2>1. /\ latest.revision \in Nat /\ latest'.revision \in Nat
        /\ latest.revision <= latest'.revision
    BY WrittenKnown DEF Inv
  <2>2. ghost.job.id \in usedIds' /\ ghost.job.status # "complete"
        /\ ghost.job.revision \in Nat /\ GhostOK(ghost)
    BY DEF Inv, GhostOK, TypeOK, ReportJob
  <2>3. ASSUME latest'.id = ghost.job.id
        PROVE  /\ ghost.job.revision <= latest.revision
               /\ Done \/ (\E u \in Tabs : Healthy(tab[u])) => ghost.job.revision < latest.revision
    BY <2>2, <2>3 DEF GhostOK, Written
  <2>4. ASSUME latest'.id = ghost.job.id, Done' \/ (\E u \in Tabs : Healthy(tab'[u]))
        PROVE  ghost.job.revision < latest'.revision
    <3>1. \/ latest'.revision = latest.revision + 1
          \/ Done \/ Healthy(tab[t])
      BY <1>3, <1>7, <2>4
    <3> QED BY <2>1, <2>2, <2>3, <2>4, <3>1
  <2> QED BY <2>1, <2>2, <2>3, <2>4 DEF GhostOK
<1>10. \A ghost \in ghosts' : GhostOK(ghost)'
  BY <1>9
<1> QED BY <1>5, <1>6, <1>7, <1>8, <1>10 DEF Inv

-----------------------------------------------------------------------------
(* The actions that do not touch the store *)

(* A tab of the invariant, and where it stands. *)
LEMMA TabFacts ==
    ASSUME Inv, NEW t \in Tabs
    PROVE  /\ StoreInv /\ StoreTypeOK /\ Closed(Known) /\ now \in 0..MaxTime
           /\ PageStands(tab[t]) /\ tab[t] \in PageType
           /\ tab[t].seen \in JobIds \cup {None}
           /\ (lock = t) <=> (tab[t].phase \in Exclusive)
           /\ ShownId \in JobIds \cup {None}
<1>1. /\ StoreInv /\ StoreTypeOK /\ now \in 0..MaxTime /\ Closed(Known)
      /\ (lock = t) <=> (tab[t].phase \in Exclusive)
  BY KnownOK DEF Inv, StoreInv, StoreTypeOK, TypeOK
<1>2. PageStands(tab[t])
  BY DEF Inv, TabOK, PageStands, At
<1>3. tab[t] \in PageType /\ tab[t].seen \in JobIds \cup {None}
  BY <1>2, PageFields DEF PageStands, PageOK
<1>4. ShownId \in JobIds \cup {None}
  BY <1>1 DEF ShownId, StoreTypeOK, ReportJob
<1> QED BY <1>1, <1>2, <1>3, <1>4

(* A page that is at rest stands. *)
LEMMA RestStands ==
    ASSUME NEW page \in PageType, AtRest(page)
    PROVE  PageStands(page) /\ ~Healthy(page)
<1>1. PageOK(page, Known) /\ ~Healthy(page) /\ GotSaved(page) /\ page.phase # "creating"
  BY AtRestOK
<1> QED BY <1>1 DEF PageStands, AtRest, Still

(* A tab turns to another page at rest, and the store is left alone. *)
LEMMA RestStep ==
    ASSUME Inv, NEW t \in Tabs, NEW phase \in Quiet, NEW seen \in JobIds \cup {None},
           Become(t, Page(phase, seen)), UNCHANGED stored,
           LockMoves(t, Page(phase, seen)), ghosts' \subseteq ghosts
    PROVE  Inv'
<1> DEFINE page == Page(phase, seen)
<1>1. page \in PageType /\ AtRest(page)
  BY PageAtRest
<1> HIDE DEF page
<1>2. PageStands(page) /\ ~Healthy(page)
  BY <1>1, RestStands
<1>3. tab' = [tab EXCEPT ![t] = page] /\ LockMoves(t, page)
  BY DEF Become, page
<1>4. \A ghost \in ghosts' : ghost \in ghosts \/ (ghost \in GhostType /\ GhostOK(ghost))
  OBVIOUS
<1> QED BY <1>2, <1>3, <1>4, KeepStep

(* The callback of runExclusive is over, and the store is left alone. *)
LEMMA LeaveStep ==
    ASSUME Inv, NEW t \in Tabs, tab[t].phase \in Exclusive, UNCHANGED stored,
           NEW seen \in JobIds \cup {None}, Leave(t, seen)
    PROVE  Inv'
<1>1. "idle" \in Quiet /\ "idle" \notin Exclusive
  BY DEF Quiet, Phases, WithJob, WithArg, Exclusive
<1>2. lock = t
  BY TabFacts
<1>3. LockMoves(t, Page("idle", seen))
  BY <1>1, <1>2, PageAtRest DEF LockMoves, Leave
<1> QED BY <1>1, <1>3, RestStep DEF Leave

(* Where the callback of runExclusive leaves the lock to the tab. *)
LEMMA LeaveLock ==
    ASSUME Inv, NEW t \in Tabs, tab[t].phase \in Exclusive, NEW seen \in JobIds \cup {None},
           Leave(t, seen)
    PROVE  /\ lock = t /\ "idle" \in Quiet
           /\ LockMoves(t, Page("idle", seen))
           /\ tab' = [tab EXCEPT ![t] = Page("idle", seen)]
<1>1. "idle" \in Quiet /\ "idle" \notin Exclusive
  BY DEF Quiet, Phases, WithJob, WithArg, Exclusive
<1> QED BY <1>1, TabFacts, PageAtRest DEF LockMoves, Leave, Become

(* A page opens.                                                           *)
LEMMA OpenInv ==
    ASSUME Inv, NEW t \in Tabs, Open(t)
    PROVE  Inv'
<1>1. /\ "hydrating" \in Quiet /\ "hydrating" \notin Exclusive
      /\ tab[t].phase \notin Exclusive
  BY DEF Quiet, Phases, WithJob, WithArg, Exclusive, Open, At
<1>2. LockMoves(t, Page("hydrating", None))
  BY <1>1, PageAtRest DEF LockMoves, Open
<1> QED BY <1>1, <1>2, RestStep DEF Open

(* A page loads the saved job.                                             *)
LEMMA HydrateInv ==
    ASSUME Inv, NEW t \in Tabs, Hydrate(t)
    PROVE  Inv'
<1>1. /\ {"claiming", "idle"} \subseteq Quiet /\ "claiming" \notin Exclusive
      /\ "idle" \notin Exclusive /\ tab[t].phase \notin Exclusive
  BY DEF Quiet, Phases, WithJob, WithArg, Exclusive, Hydrate, At
<1>2. ShownId \in JobIds \cup {None}
  BY TabFacts
<1>3. PICK phase \in {"claiming", "idle"}, seen \in JobIds \cup {None} :
          Become(t, Page(phase, seen))
  BY <1>2 DEF Hydrate
<1>4. UNCHANGED stored /\ lock' = lock /\ ghosts' = ghosts
  BY DEF Hydrate, Loads, Refused
<1>5. LockMoves(t, Page(phase, seen))
  BY <1>1, <1>4, PageAtRest DEF LockMoves
<1> QED BY <1>1, <1>3, <1>4, <1>5, RestStep

(* A page that shows a running job tries the lock.                         *)
LEMMA ClaimInv ==
    ASSUME Inv, NEW t \in Tabs, Claim(t)
    PROVE  Inv'
<1>1. /\ {"normalizing", "idle"} \subseteq Quiet /\ "normalizing" \in Exclusive
      /\ "idle" \notin Exclusive /\ tab[t].phase \notin Exclusive
  BY DEF Quiet, Phases, WithJob, WithArg, Exclusive, Claim, At
<1>2. tab[t].seen \in JobIds \cup {None}
  BY TabFacts
<1>3. PICK phase \in {"normalizing", "idle"} :
          /\ Become(t, Page(phase, tab[t].seen))
          /\ \/ phase = "normalizing" /\ lock = None /\ lock' = t
             \/ phase = "idle" /\ lock' = lock
  BY DEF Claim, Acquire
<1>4. UNCHANGED stored /\ ghosts' = ghosts
  BY DEF Claim
<1>5. LockMoves(t, Page(phase, tab[t].seen))
  BY <1>1, <1>2, <1>3, PageAtRest DEF LockMoves
<1> QED BY <1>1, <1>2, <1>3, <1>4, <1>5, RestStep

(* A start, a resume or a discard takes the lock.                          *)
LEMMA BeginInv ==
    ASSUME Inv, NEW t \in Tabs, Begin(t) \/ Discard(t)
    PROVE  Inv'
<1>1. /\ {"starting", "resuming", "discarding"} \subseteq Quiet
      /\ {"starting", "resuming", "discarding"} \subseteq Exclusive
  BY DEF Quiet, Phases, WithJob, WithArg, Exclusive
<1>2. tab[t].seen \in JobIds \cup {None}
  BY TabFacts
<1>3. PICK phase \in {"starting", "resuming", "discarding"} :
          Become(t, Page(phase, tab[t].seen))
  BY DEF Begin, Discard
<1>4. UNCHANGED stored /\ ghosts' = ghosts /\ lock = None /\ lock' = t
  BY DEF Begin, Discard, Acquire
<1>5. LockMoves(t, Page(phase, tab[t].seen))
  BY <1>1, <1>2, <1>4, PageAtRest DEF LockMoves
<1> QED BY <1>1, <1>2, <1>3, <1>4, <1>5, RestStep

(* A page is closed: its lock and its waits are gone.                      *)
LEMMA CrashInv ==
    ASSUME Inv, NEW t \in Tabs, Crash(t)
    PROVE  Inv'
<1>1. "closed" \in Quiet /\ "closed" \notin Exclusive
  BY DEF Quiet, Phases, WithJob, WithArg, Exclusive
<1>2. (lock = t) <=> (tab[t].phase \in Exclusive)
  BY TabFacts
<1>3. LockMoves(t, Page("closed", None))
  BY <1>1, <1>2, PageAtRest DEF LockMoves, Crash
<1> QED BY <1>1, <1>3, RestStep DEF Crash

(* A page at rest goes on inside of the lock. *)
LEMMA NormalizeInv ==
    ASSUME Inv, NEW t \in Tabs, Normalize(t)
    PROVE  Inv'
<1>1. tab[t].phase = "normalizing" /\ tab[t].phase \in Exclusive /\ tab[t].phase \in Quiet
  BY DEF Quiet, Phases, WithJob, WithArg, Exclusive, Normalize, At
<1>2. /\ StoreTypeOK /\ Closed(Known) /\ PageStands(tab[t]) /\ tab[t] \in PageType
      /\ tab[t].seen \in JobIds \cup {None} /\ ShownId \in JobIds \cup {None}
  BY TabFacts
<1>3. CASE \E seen \in {ShownId, tab[t].seen} : UNCHANGED stored /\ Leave(t, seen)
  BY <1>1, <1>2, <1>3, LeaveStep
<1>4. CASE /\ UNCHANGED stored /\ latest # NoJob
           /\ Become(t, [tab[t] EXCEPT !.phase = "pausing",
                                       !.arg = [Loaded EXCEPT !.status = "paused"]])
           /\ UNCHANGED <<lock, ghosts>>
  <2> DEFINE arg == [Loaded EXCEPT !.status = "paused"]
             page == [tab[t] EXCEPT !.phase = "pausing", !.arg = arg]
  <2>1. Loaded \in Known /\ Loaded \in ReportJob
    BY <1>2, <1>4, KnownOK, LoadedOK DEF Inv
  <2>2. arg \in Known /\ arg.status = "paused" /\ arg \in JobOrNone
    BY <1>2, <2>1 DEF Closed, Statuses, ReportJob, JobOrNone
  <2> HIDE DEF arg
  <2>3. Still(tab[t])
    BY <1>1, <1>2, NotYetOK DEF PageStands
  <2>4. /\ page \in PageType /\ page.phase = "pausing" /\ page.arg = arg /\ Still(page)
    BY <1>2, <2>2, <2>3 DEF PageType, Phases, Still
  <2> HIDE DEF page
  <2>5. JobsOK(page, Known)
    BY <2>2, <2>4 DEF JobsOK, WithJob, WithArg
  <2>6. PageStands(page) /\ ~Healthy(page)
    BY <2>4, <2>5, StillOK DEF PageStands, Still, Healthy
  <2>7. tab' = [tab EXCEPT ![t] = page] /\ ghosts' = ghosts
    BY <1>4 DEF Become, page, arg
  <2>8. LockMoves(t, page)
    BY <1>1, <1>4, <2>4 DEF LockMoves, Exclusive, Phases
  <2> QED BY <1>4, <2>6, <2>7, <2>8, KeepStep
<1> QED BY <1>3, <1>4 DEF Normalize, Loads, Refused

-----------------------------------------------------------------------------
(* The begin of a run *)

(* A new job is a job.                                                     *)
LEMMA NewJobOK ==
    ASSUME NEW id \in JobIds, NEW connection \in Connections
    PROVE  /\ NewJob(id, connection, NoDeadline) \in ReportJob
           /\ NewJob(id, connection, NoDeadline).id = id
BY StoreConstants DEF NewJob, ReportJob, Statuses, Deadlines, NoDeadline

(* A start looks at the saved job, and prepares a new one with a fresh id. *)
LEMMA StartLoadInv ==
    ASSUME Inv, NEW t \in Tabs, StartLoad(t)
    PROVE  Inv'
<1>1. tab[t].phase = "starting" /\ tab[t].phase \in Exclusive /\ tab[t].phase \in Quiet
  BY DEF Quiet, Phases, WithJob, WithArg, Exclusive, StartLoad, At
<1>2. /\ StoreTypeOK /\ PageStands(tab[t]) /\ tab[t] \in PageType
      /\ tab[t].seen \in JobIds \cup {None}
  BY TabFacts
<1>3. CASE UNCHANGED stored /\ Leave(t, tab[t].seen)
  BY <1>1, <1>2, <1>3, LeaveStep
<1>4. ASSUME NEW id \in JobIds, id \notin usedIds, UNCHANGED stored,
             latest # NoJob => latest.status = "complete",
             Become(t, [tab[t] EXCEPT
                 !.phase = "creating", !.arg = NewJob(id, ConnectionOf[t], NoDeadline)]),
             UNCHANGED <<lock, ghosts>>
      PROVE  Inv'
  <2> DEFINE arg == NewJob(id, ConnectionOf[t], NoDeadline)
             page == [tab[t] EXCEPT !.phase = "creating", !.arg = arg]
  <2>1. arg \in JobOrNone /\ arg.id = id
        /\ \E i \in JobIds, connection \in Connections : arg = NewJob(i, connection, NoDeadline)
    BY CollectionConstants, NewJobOK DEF JobOrNone
  <2> HIDE DEF arg
  <2>2. Still(tab[t])
    BY <1>1, <1>2, NotYetOK DEF PageStands
  <2>3. /\ page \in PageType /\ page.phase = "creating" /\ page.arg = arg /\ Still(page)
    BY <1>2, <2>1, <2>2 DEF PageType, Phases, Still
  <2> HIDE DEF page
  <2>4. JobsOK(page, Known)
    BY <2>1, <2>3 DEF JobsOK, WithJob, WithArg
  <2>5. PageOK(page, Known) /\ GotSaved(page) /\ ~Healthy(page)
    BY <2>3, <2>4, StillOK DEF Healthy
  <2>6. PageStands(page)
    BY <1>4, <2>1, <2>3, <2>5 DEF PageStands, Still, Done
  <2>7. tab' = [tab EXCEPT ![t] = page] /\ ghosts' = ghosts
    BY <1>4 DEF Become, page, arg
  <2>8. LockMoves(t, page)
    BY <1>1, <1>4, <2>3 DEF LockMoves, Exclusive, Phases
  <2> QED BY <1>4, <2>5, <2>6, <2>7, <2>8, KeepStep
<1> QED BY <1>3, <1>4 DEF StartLoad, Loads, Refused

(* The runner has a job and marks it as running. *)
LEMMA OpeningOK ==
    ASSUME NEW page \in PageType, Still(page), NEW S, Closed(S), NEW job \in S
    PROVE  LET next == Opening(page, job) IN
           /\ next \in PageType /\ next.phase = "opening" /\ Still(next)
           /\ PageOK(next, S) /\ ~Healthy(next) /\ GotSaved(next) /\ GotSaved(next)'
<1> DEFINE running == [job EXCEPT !.status = "running"]
           next == Opening(page, job)
<1>1. job \in ReportJob /\ job.id \in JobIds \cup {None}
  BY DEF Closed, ReportJob
<1>2. running \in S /\ running \in JobOrNone /\ running.status = "running"
  BY <1>1 DEF Closed, Statuses, JobOrNone, ReportJob
<1>3. next = [page EXCEPT !.phase = "opening", !.seen = job.id, !.job = running, !.arg = running]
  BY DEF Opening
<1> HIDE DEF next, running
<1>4. /\ next \in PageType /\ next.phase = "opening" /\ Still(next)
      /\ next.job = running /\ next.arg = running
  BY <1>1, <1>2, <1>3 DEF PageType, Phases, Still
<1>5. JobsOK(next, S)
  BY <1>2, <1>4 DEF JobsOK, WithJob, WithArg
<1>6. PageOK(next, S) /\ GotSaved(next) /\ GotSaved(next)' /\ ~Healthy(next)
  BY <1>4, <1>5, StillOK DEF Healthy
<1> QED BY <1>4, <1>6 DEF next

(* A resume takes over the saved job.                                      *)
LEMMA ResumeLoadInv ==
    ASSUME Inv, NEW t \in Tabs, ResumeLoad(t)
    PROVE  Inv'
<1>1. tab[t].phase = "resuming" /\ tab[t].phase \in Exclusive /\ tab[t].phase \in Quiet
  BY DEF Quiet, Phases, WithJob, WithArg, Exclusive, ResumeLoad, At
<1>2. /\ StoreTypeOK /\ Closed(Known) /\ PageStands(tab[t]) /\ tab[t] \in PageType
      /\ tab[t].seen \in JobIds \cup {None} /\ ShownId \in JobIds \cup {None}
  BY TabFacts
<1>3. CASE \E seen \in {ShownId, tab[t].seen} : UNCHANGED stored /\ Leave(t, seen)
  BY <1>1, <1>2, <1>3, LeaveStep
<1>4. CASE /\ UNCHANGED stored /\ latest # NoJob
           /\ Become(t, Opening(tab[t], Loaded)) /\ UNCHANGED <<lock, ghosts>>
  <2> DEFINE page == Opening(tab[t], Loaded)
  <2>1. Loaded \in Known
    BY <1>2, <1>4, KnownOK, LoadedOK DEF Inv
  <2>2. Still(tab[t])
    BY <1>1, <1>2, NotYetOK DEF PageStands
  <2>3. /\ page \in PageType /\ page.phase = "opening" /\ Still(page)
        /\ PageOK(page, Known) /\ ~Healthy(page) /\ GotSaved(page)
    BY <1>2, <2>1, <2>2, OpeningOK
  <2> HIDE DEF page
  <2>4. PageStands(page)
    BY <2>3 DEF PageStands, Still
  <2>5. tab' = [tab EXCEPT ![t] = page] /\ ghosts' = ghosts
    BY <1>4 DEF Become, page
  <2>6. LockMoves(t, page)
    BY <1>1, <1>4, <2>3 DEF LockMoves, Exclusive, Phases
  <2> QED BY <1>4, <2>3, <2>4, <2>5, <2>6, KeepStep
<1>5. latest # NoJob => latest.id = ShownId
  BY DEF ShownId
<1> QED BY <1>3, <1>4, <1>5 DEF ResumeLoad, MayResume, Loads, Refused

(* A step of the tab that holds the lock, which puts a new job into the    *)
(* store or takes the saved one out of it.                                 *)
LEMMA ReplaceStep ==
    ASSUME Inv, NEW t \in Tabs, lock = t, NEW page, tab' = [tab EXCEPT ![t] = page],
           StoreInv', usedIds' \in SUBSET JobIds, usedIds \subseteq usedIds',
           latest' # NoJob => latest'.id \in usedIds' \ usedIds,
           LockMoves(t, page), ghosts' = ghosts, ~Healthy(page), page.phase # "creating",
           PageOK(page, Known'), GotSaved(page)', page.reader = NoRead, page.waiter = NoWait
    PROVE  Inv'
<1>1. page \in PageType /\ StoreTypeOK'
  BY DEF PageOK, StoreInv
<1>2. /\ tab' \in [Tabs -> PageType] /\ lock' \in Tabs \cup {None}
      /\ \A u \in Tabs : (lock' = u) <=> (tab'[u].phase \in Exclusive)
  BY <1>1, LockStep DEF Inv
<1>3. tab'[t] = page /\ \A u \in Tabs : u # t => tab'[u] = tab[u]
  BY DEF Inv, TypeOK
<1>4. TypeOK'
  BY <1>1, <1>2 DEF Inv, TypeOK
<1>5. ASSUME NEW u \in Tabs, u # t PROVE TabOK(u)'
  <2>1. tab'[u] = tab[u] /\ tab[u] \in PageType /\ AtRest(tab[u])
    BY <1>3, <1>5, OthersAtRest
  <2>2. /\ PageOK(tab[u], Known') /\ ~Healthy(tab[u]) /\ GotSaved(tab[u])'
        /\ tab[u].phase # "creating"
    BY <2>1, AtRestOK
  <2>3. GotSaved(tab[u])'
    BY <2>1, <2>2 DEF GotSaved
  <2> QED BY <2>1, <2>2, <2>3 DEF TabOK, At, AtRest, Still
<1>6. TabOK(t)'
  <2>1. GotSaved(tab[t])'
    BY <1>3 DEF GotSaved
  <2> QED BY <1>3, <2>1 DEF TabOK, At
<1>7. ASSUME NEW ghost \in ghosts' PROVE GhostOK(ghost)'
  <2>1. ghost.job.id \in usedIds /\ ghost.job.status # "complete"
    BY DEF Inv, GhostOK
  <2> QED BY <2>1 DEF GhostOK
<1> QED BY <1>4, <1>5, <1>6, <1>7 DEF Inv

(* The rest of a page that leaves with a write. *)
LEMMA LeavePage ==
    ASSUME Inv, NEW t \in Tabs, tab[t].phase \in Exclusive, NEW seen \in JobIds \cup {None},
           Leave(t, seen), NEW S
    PROVE  \E page :
              /\ tab' = [tab EXCEPT ![t] = page] /\ LockMoves(t, page) /\ lock = t
              /\ PageOK(page, S) /\ GotSaved(page)' /\ ~Healthy(page)
              /\ page.phase # "creating" /\ page.reader = NoRead /\ page.waiter = NoWait
<1>1. PICK page : page = Page("idle", seen)
  OBVIOUS
<1>2. /\ lock = t /\ "idle" \in Quiet /\ LockMoves(t, page) /\ tab' = [tab EXCEPT ![t] = page]
  BY <1>1, LeaveLock
<1>3. page \in PageType /\ AtRest(page)
  BY <1>1, <1>2, PageAtRest
<1>4. /\ PageOK(page, S) /\ GotSaved(page)' /\ ~Healthy(page)
      /\ page.phase # "creating" /\ page.reader = NoRead /\ page.waiter = NoWait
  BY <1>3, AtRestOK DEF AtRest, Still
<1> QED BY <1>2, <1>4

(* A new job is stored: no other page holds it yet.                        *)
LEMMA CreateCommitInv ==
    ASSUME Inv, NEW t \in Tabs, CreateCommit(t)
    PROVE  Inv'
<1>1. tab[t].phase = "creating" /\ tab[t].phase \in Exclusive
  BY DEF Phases, Exclusive, CreateCommit, At
<1>2. /\ StoreInv /\ StoreTypeOK /\ PageStands(tab[t]) /\ tab[t] \in PageType /\ lock = t
      /\ tab[t].seen \in JobIds \cup {None}
  BY <1>1, TabFacts
<1>3. CASE UNCHANGED stored /\ Leave(t, tab[t].seen)
  BY <1>1, <1>2, <1>3, LeaveStep
<1>4. CASE /\ Create(tab[t].arg) /\ usedIds' = usedIds \cup {tab[t].arg.id}
           /\ IF tab[t].aborted THEN Leave(t, latest'.id)
              ELSE Become(t, Opening(tab[t], latest')) /\ UNCHANGED <<lock, ghosts>>
  <2>1. PICK job : job = tab[t].arg
    OBVIOUS
  <2>2. job \in ReportJob /\ job.id \in JobIds /\ job.id \notin usedIds
    <3>1. PICK id \in JobIds, connection \in Connections : job = NewJob(id, connection, NoDeadline)
      BY <1>1, <1>2, <2>1 DEF PageStands, PageOK, JobsOK
    <3> QED BY <1>1, <1>2, <2>1, <3>1, NewJobOK DEF PageStands
  <2>3. Create(job)
    BY <1>4, <2>1
  <2>4. StoreInv'
    BY <1>2, <2>2, <2>3, CreateInv
  <2>5. /\ latest' \in ReportJob /\ latest'.id = job.id /\ latest' # NoJob
    <3>1. CarriedThrottles \in [Connections -> Deadlines] /\ NoDeadline \in Deadlines
      BY <1>2, CarriedType, StoreConstants DEF NoDeadline, Deadlines
    <3> QED BY <1>2, <2>2, <2>3, <3>1, ThrottledJob, StoreConstants DEF Create, Created
  <2>6. /\ usedIds' \in SUBSET JobIds /\ usedIds \subseteq usedIds'
        /\ latest'.id \in usedIds' \ usedIds
    BY <1>4, <2>1, <2>2, <2>5 DEF Inv, TypeOK
  <2>7. CASE Leave(t, latest'.id)
    <3>1. latest'.id \in JobIds \cup {None}
      BY <2>2, <2>5
    <3>2. PICK page :
              /\ tab' = [tab EXCEPT ![t] = page] /\ LockMoves(t, page) /\ lock = t
              /\ PageOK(page, Known') /\ GotSaved(page)' /\ ~Healthy(page)
              /\ page.phase # "creating" /\ page.reader = NoRead /\ page.waiter = NoWait
      BY <1>1, <2>7, <3>1, LeavePage
    <3>3. ghosts' = ghosts
      BY <2>7 DEF Leave
    <3> QED BY <2>4, <2>6, <3>2, <3>3, ReplaceStep
  <2>8. CASE Become(t, Opening(tab[t], latest')) /\ UNCHANGED <<lock, ghosts>>
    <3>1. Closed(Known') /\ latest' \in Known'
      BY <2>4, <2>5, NextKnownOK
    <3>2. PICK page : page = Opening(tab[t], latest')
      OBVIOUS
    <3>3. Still(tab[t])
      BY <1>1, <1>2, NotYetOK DEF PageStands
    <3>4. /\ page \in PageType /\ page.phase = "opening" /\ Still(page)
          /\ PageOK(page, Known') /\ ~Healthy(page) /\ GotSaved(page)'
      BY <1>2, <3>1, <3>2, <3>3, OpeningOK
    <3>5. tab' = [tab EXCEPT ![t] = page]
      BY <2>8, <3>2 DEF Become
    <3>6. LockMoves(t, page)
      BY <1>1, <2>8, <3>4 DEF LockMoves, Exclusive, Phases
    <3> QED BY <1>2, <2>4, <2>6, <2>8, <3>4, <3>5, <3>6, ReplaceStep DEF Still
  <2> QED BY <1>4, <2>7, <2>8
<1> QED BY <1>3, <1>4 DEF CreateCommit, Refused

-----------------------------------------------------------------------------
(* The ends of a run and of the other operations *)

(* The job is written, and the page leaves. *)
LEMMA SaveLeave ==
    ASSUME Inv, NEW t \in Tabs, tab[t].phase \in Exclusive, NEW seen \in JobIds \cup {None},
           NEW job \in ReportJob, Saves(job), Leave(t, seen)
    PROVE  Inv'
<1>1. Save(job) /\ usedIds' = usedIds /\ StoreInv /\ ghosts' = ghosts
  BY DEF Saves, Inv, Leave
<1>2. StoreInv' /\ Written(job) /\ latest'.revision = latest.revision + 1
  BY <1>1, SaveWrites
<1>3. PICK page :
          /\ tab' = [tab EXCEPT ![t] = page] /\ LockMoves(t, page) /\ lock = t
          /\ PageOK(page, Known') /\ GotSaved(page)' /\ ~Healthy(page)
          /\ page.phase # "creating" /\ page.reader = NoRead /\ page.waiter = NoWait
  BY LeavePage
<1> QED BY <1>1, <1>2, <1>3, WriteStep

(* A job that was left running is saved as paused, or a failed delivery as *)
(* failed.                                                                 *)
LEMMA NormalizeCommitInv ==
    ASSUME Inv, NEW t \in Tabs, NormalizeCommit(t) \/ DeliveryFailed(t)
    PROVE  Inv'
<1>1. tab[t].phase \in {"pausing", "failing"} /\ tab[t].phase \in Exclusive
  BY DEF Phases, Exclusive, NormalizeCommit, DeliveryFailed, At
<1>2. PageStands(tab[t]) /\ tab[t].seen \in JobIds \cup {None}
  BY TabFacts
<1>3. tab[t].arg \in ReportJob
  BY <1>1, <1>2 DEF PageStands, PageOK, JobsOK, WithArg, Known
<1>4. ASSUME NEW seen \in {tab[t].seen, tab[t].arg.id}, Saves(tab[t].arg), Leave(t, seen)
      PROVE  Inv'
  <2>1. seen \in JobIds \cup {None}
    BY <1>2, <1>3 DEF ReportJob
  <2> QED BY <1>1, <1>2, <1>3, <1>4, <2>1, SaveLeave
<1>5. CASE UNCHANGED stored /\ Leave(t, tab[t].seen)
  BY <1>1, <1>2, <1>5, LeaveStep
<1> QED BY <1>4, <1>5 DEF NormalizeCommit, DeliveryFailed, Refused

(* A discard compares the saved job with the one it shows.                 *)
LEMMA DiscardLoadInv ==
    ASSUME Inv, NEW t \in Tabs, DiscardLoad(t)
    PROVE  Inv'
<1>1. tab[t].phase = "discarding" /\ tab[t].phase \in Exclusive /\ tab[t].phase \in Quiet
  BY DEF Quiet, WithJob, WithArg, Phases, Exclusive, DiscardLoad, At
<1>2. PageStands(tab[t]) /\ tab[t] \in PageType /\ tab[t].seen \in JobIds \cup {None}
  BY TabFacts
<1>3. CASE UNCHANGED stored /\ Leave(t, tab[t].seen)
  BY <1>1, <1>2, <1>3, LeaveStep
<1>4. CASE UNCHANGED stored /\ Become(t, [tab[t] EXCEPT !.phase = "deleting"])
           /\ UNCHANGED <<lock, ghosts>>
  <2> DEFINE page == [tab[t] EXCEPT !.phase = "deleting"]
  <2>1. Still(tab[t])
    BY <1>1, <1>2, NotYetOK DEF PageStands
  <2>2. page \in PageType /\ page.phase = "deleting" /\ AtRest(page)
    BY <1>2, <2>1 DEF PageType, Phases, AtRest, Still, Quiet, WithJob, WithArg
  <2> HIDE DEF page
  <2>3. PageStands(page) /\ ~Healthy(page)
    BY <2>2, RestStands
  <2>4. tab' = [tab EXCEPT ![t] = page] /\ ghosts' = ghosts
    BY <1>4 DEF Become, page
  <2>5. LockMoves(t, page)
    BY <1>1, <1>4, <2>2 DEF LockMoves, Exclusive, Phases
  <2> QED BY <1>4, <2>3, <2>4, <2>5, KeepStep
<1> QED BY <1>3, <1>4 DEF DiscardLoad, Loads, Refused

(* The job is deleted.                                                     *)
LEMMA DiscardCommitInv ==
    ASSUME Inv, NEW t \in Tabs, DiscardCommit(t)
    PROVE  Inv'
<1>1. tab[t].phase = "deleting" /\ tab[t].phase \in Exclusive
  BY DEF Phases, Exclusive, DiscardCommit, At
<1>2. tab[t].seen \in JobIds \cup {None}
  BY TabFacts
<1>3. CASE \E seen \in {None, tab[t].seen} : UNCHANGED stored /\ Leave(t, seen)
  BY <1>1, <1>2, <1>3, LeaveStep
<1>4. CASE Delete(tab[t].seen) /\ usedIds' = usedIds /\ Leave(t, None)
  <2>1. PICK id : id = tab[t].seen
    OBVIOUS
  <2>2. StoreInv' /\ latest' = NoJob
    BY <1>4, <2>1, DeleteInv DEF Inv, Delete
  <2>3. PICK page :
            /\ tab' = [tab EXCEPT ![t] = page] /\ LockMoves(t, page) /\ lock = t
            /\ PageOK(page, Known') /\ GotSaved(page)' /\ ~Healthy(page)
            /\ page.phase # "creating" /\ page.reader = NoRead /\ page.waiter = NoWait
    BY <1>1, <1>4, LeavePage
  <2>4. ghosts' = ghosts /\ usedIds' \in SUBSET JobIds
    BY <1>4 DEF Leave, Inv, TypeOK
  <2> QED BY <1>4, <2>2, <2>3, <2>4, ReplaceStep
<1> QED BY <1>3, <1>4 DEF DiscardCommit, Refused

(* The runner has marked its job as running, or it fails at once. *)
LEMMA OpenCommitInv ==
    ASSUME Inv, NEW t \in Tabs, OpenCommit(t)
    PROVE  Inv'
<1> DEFINE collecting == [tab[t] EXCEPT !.phase = "collecting", !.arg = None]
<1>1. tab[t].phase = "opening" /\ tab[t].phase \in Exclusive
  BY DEF Phases, Exclusive, OpenCommit, At
<1>2. /\ StoreInv /\ PageStands(tab[t]) /\ tab[t] \in PageType /\ lock = t
      /\ Still(tab[t]) /\ Closed(Known)
  BY <1>1, TabFacts, NotYetOK DEF PageStands
<1>3. /\ tab[t].job \in Known /\ tab[t].arg \in Known /\ tab[t].arg.status = "running"
      /\ tab[t].arg \in ReportJob
  BY <1>1, <1>2 DEF PageStands, PageOK, JobsOK, WithJob, WithArg, Closed
<1>4. CASE Saves(tab[t].arg) /\ Become(t, [collecting EXCEPT !.job = latest'])
           /\ UNCHANGED <<lock, ghosts>>
  <2>1. PICK job, page : job = tab[t].arg /\ page = [collecting EXCEPT !.job = latest']
    OBVIOUS
  <2>2. job \in ReportJob /\ Save(job) /\ usedIds' = usedIds /\ tab' = [tab EXCEPT ![t] = page]
    BY <1>3, <1>4, <2>1 DEF Saves, Become
  <2>3. /\ StoreInv' /\ Written(job) /\ latest'.revision = latest.revision + 1
        /\ latest'.status = "running"
    BY <1>2, <1>3, <2>1, <2>2, SaveWrites
  <2>4. latest' \in Known' /\ latest' \in JobOrNone /\ latest' # NoJob
    BY <1>2, <2>3, WrittenKnown DEF Written, JobOrNone
  <2>5. /\ page \in PageType /\ page.phase = "collecting" /\ Still(page) /\ page.job = latest'
    BY <1>2, <2>1, <2>4 DEF PageType, Phases, Still, JobOrNone
  <2>6. JobsOK(page, Known')
    BY <2>3, <2>4, <2>5 DEF JobsOK, WithArg
  <2>7. PageOK(page, Known') /\ GotSaved(page)'
    BY <2>5, <2>6, StillOK
  <2>8. Current(page)'
    BY <2>3, <2>4, <2>5 DEF Current
  <2>9. LockMoves(t, page)
    BY <1>1, <1>4, <2>5 DEF LockMoves, Exclusive, Phases
  <2> QED BY <1>2, <1>4, <2>2, <2>3, <2>5, <2>7, <2>8, <2>9, WriteStep DEF Still
<1>5. CASE UNCHANGED stored /\ Become(t, Stop(collecting)) /\ UNCHANGED <<lock, ghosts>>
  <2> DEFINE page == Stop(collecting)
  <2>1. /\ page \in PageType /\ page.phase = "collecting" /\ Still(page)
        /\ page.job = tab[t].job /\ page.stopped = TRUE
    BY <1>2 DEF PageType, Phases, Still, JobOrNone, Stop
  <2>2. tab' = [tab EXCEPT ![t] = page] /\ ghosts' = ghosts
    BY <1>5 DEF Become
  <2> HIDE DEF page
  <2>3. JobsOK(page, Known)
    BY <1>3, <2>1 DEF JobsOK, WithArg, Still
  <2>4. PageOK(page, Known) /\ GotSaved(page) /\ ~Healthy(page)
    BY <2>1, <2>3, StillOK DEF Healthy
  <2>5. PageStands(page)
    BY <2>1, <2>4 DEF PageStands, Still
  <2>6. LockMoves(t, page)
    BY <1>1, <1>5, <2>1 DEF LockMoves, Exclusive, Phases
  <2> QED BY <1>5, <2>2, <2>4, <2>5, <2>6, KeepStep
<1> QED BY <1>4, <1>5 DEF OpenCommit, Refused

(* What WithStatus changes. *)
LEMMA WithStatusFields ==
    ASSUME NEW page \in PageType, NEW S, Closed(S), page.job \in S,
           NEW phase \in Phases, NEW status \in Statuses
    PROVE  LET next == WithStatus(page, phase, status) IN
           /\ next \in PageType /\ next.phase = phase
           /\ next.job \in S /\ next.job.status = status
           /\ next.job.id = page.job.id /\ next.job.revision = page.job.revision
           /\ next.job.timings = page.job.timings
           /\ next.arg \in S /\ next.arg.status = status
           /\ next.stopped = page.stopped /\ next.queue = page.queue /\ next.wanted = page.wanted
           /\ next.got = page.got /\ next.reader = page.reader /\ next.waiter = page.waiter
<1> DEFINE job == [page.job EXCEPT !.status = status]
           next == WithStatus(page, phase, status)
<1>1. /\ job \in S /\ job \in JobOrNone /\ job.status = status
      /\ job.id = page.job.id /\ job.revision = page.job.revision
      /\ job.timings = page.job.timings
  BY DEF Closed, ReportJob, JobOrNone
<1>2. next = [page EXCEPT !.phase = phase, !.job = job, !.arg = job]
  BY DEF WithStatus
<1> HIDE DEF job, next
<1>3. /\ next \in PageType /\ next.phase = phase /\ next.job = job /\ next.arg = job
      /\ next.stopped = page.stopped /\ next.queue = page.queue /\ next.wanted = page.wanted
      /\ next.got = page.got /\ next.reader = page.reader /\ next.waiter = page.waiter
  BY <1>1, <1>2 DEF PageType
<1> QED BY <1>1, <1>3 DEF next

(* A run with every key collected closes its job.                          *)
LEMMA FinishInv ==
    ASSUME Inv, NEW t \in Tabs, Finish(t)
    PROVE  Inv'
<1> DEFINE page == WithStatus(tab[t], "closing", "complete")
<1>1. /\ tab[t].phase = "collecting" /\ tab[t].phase \in Exclusive /\ Healthy(tab[t])
      /\ \A key \in Keys : tab[t].got[key] # None
      /\ tab[t].waiter = NoWait
      /\ tab' = [tab EXCEPT ![t] = page] /\ UNCHANGED stored
      /\ lock' = lock /\ ghosts' = ghosts
  BY DEF Phases, Exclusive, Finish, At, Healthy, Inactive, Become
<1>2. /\ PageStands(tab[t]) /\ tab[t] \in PageType /\ Closed(Known) /\ Current(tab[t])
      /\ PageOK(tab[t], Known)
  BY <1>1, TabFacts DEF PageStands
<1>3. tab[t].job \in Known
  BY <1>1, <1>2 DEF PageOK, JobsOK, WithJob
<1>4. tab[t].queue = {} /\ tab[t].wanted = {} /\ tab[t].reader = NoRead
  <2>1. tab[t].queue \in SUBSET Keys /\ tab[t].wanted \in SUBSET Keys
    BY <1>2, PageFields
  <2>2. \A key \in tab[t].queue \cup tab[t].wanted : tab[t].got[key] = None
    BY <1>2 DEF PageOK, KeysOK, Outstanding
  <2>3. tab[t].reader.step = "none"
    BY <1>1, <1>2, ReadingOK
  <2>4. tab[t].reader = NoRead
    BY <1>2, <2>3 DEF PageOK, ReaderOK
  <2> QED BY <1>1, <2>1, <2>2, <2>4
<1>5. /\ page \in PageType /\ page.phase = "closing"
      /\ page.job \in Known /\ page.job.id = tab[t].job.id
      /\ page.job.revision = tab[t].job.revision /\ page.job.timings = tab[t].job.timings
      /\ page.arg \in Known /\ page.arg.status = "complete"
      /\ page.stopped = tab[t].stopped /\ page.queue = {} /\ page.wanted = {}
      /\ page.got = tab[t].got /\ page.reader = NoRead /\ page.waiter = NoWait
  <2>1. "closing" \in Phases /\ "complete" \in Statuses
    BY DEF Phases, Statuses
  <2> QED BY <1>1, <1>2, <1>3, <1>4, <2>1, WithStatusFields
<1> HIDE DEF page
<1>6. JobsOK(page, Known) /\ RestOK(page)
  BY <1>1, <1>5 DEF JobsOK, RestOK, WithJob, WithArg
<1>7. KeysOK(page)
  BY <1>5, NothingOK DEF KeysOK, Outstanding
<1>8. ReaderOK(page.reader, Known) /\ WaiterOK(page.waiter, page.phase, Known)
  BY <1>5, NothingOK DEF ReaderOK, WaiterOK
<1>9. PageOK(page, Known)
  BY <1>5, <1>6, <1>7, <1>8 DEF PageOK
<1>10. GotSaved(page)
  BY <1>2, <1>5, NothingOK DEF PageStands, GotSaved, Entry
<1>11. Current(page)
  BY <1>1, <1>2, <1>5 DEF Current
<1>12. PageStands(page)
  BY <1>5, <1>9, <1>10, <1>11 DEF PageStands
<1>13. LockMoves(t, page)
  BY <1>1, <1>5 DEF LockMoves, Exclusive, Phases
<1> QED BY <1>1, <1>12, <1>13, KeepStep

(* A run without a job to save goes back to stopping. *)
LEMMA StopAgainOK ==
    ASSUME NEW page \in PageType, NEW S, page.job \in S, Closed(S),
           page.reader = NoRead, page.waiter = NoWait
    PROVE  LET next == Stop([page EXCEPT !.phase = "collecting"]) IN
           /\ next.phase = "collecting" /\ next.job = page.job /\ next.got = page.got
           /\ next.reader = NoRead /\ next.waiter = NoWait
           /\ PageOK(next, S) /\ ~Healthy(next)
<1> DEFINE next == Stop([page EXCEPT !.phase = "collecting"])
<1>1. /\ next \in PageType /\ next.phase = "collecting" /\ next.job = page.job
      /\ next.stopped = TRUE /\ next.queue = {} /\ next.wanted = {}
      /\ next.got = page.got /\ next.reader = NoRead /\ next.waiter = NoWait
  BY DEF PageType, Phases, Stop
<1> HIDE DEF next
<1>2. JobsOK(next, S) /\ RestOK(next)
  BY <1>1 DEF JobsOK, RestOK, WithJob, WithArg
<1>3. KeysOK(next)
  BY <1>1, NothingOK DEF KeysOK, Outstanding
<1>4. ReaderOK(next.reader, S) /\ WaiterOK(next.waiter, next.phase, S)
  BY <1>1, NothingOK DEF ReaderOK, WaiterOK
<1>5. PageOK(next, S) /\ ~Healthy(next)
  BY <1>1, <1>2, <1>3, <1>4 DEF PageOK, Healthy
<1> QED BY <1>1, <1>5 DEF next

(* The completed job is saved: from now on no wait may save the job again. *)
LEMMA FinishCommitInv ==
    ASSUME Inv, NEW t \in Tabs, FinishCommit(t)
    PROVE  Inv'
<1>1. tab[t].phase = "closing" /\ tab[t].phase \in Exclusive /\ Healthy(tab[t])
  BY DEF Phases, Exclusive, FinishCommit, At, Healthy
<1>2. /\ StoreInv /\ PageStands(tab[t]) /\ tab[t] \in PageType /\ lock = t
      /\ Closed(Known) /\ PageOK(tab[t], Known)
  BY <1>1, TabFacts DEF PageStands
<1>3. /\ tab[t].job \in Known /\ tab[t].arg \in Known /\ tab[t].arg.status = "complete"
      /\ tab[t].arg \in ReportJob /\ tab[t].reader = NoRead /\ tab[t].waiter = NoWait
      /\ tab[t].queue = {} /\ tab[t].wanted = {}
      /\ \A key \in Keys : tab[t].got[key] # None
  BY <1>1, <1>2 DEF PageOK, JobsOK, RestOK, WithJob, WithArg, Closed
<1>4. tab[t].job.id = latest.id
  BY <1>3 DEF Known
<1>5. CASE /\ Saves(tab[t].arg)
           /\ Become(t, IF Inactive([tab[t] EXCEPT !.job = latest'])
                        THEN Stop([[tab[t] EXCEPT !.job = latest'] EXCEPT !.phase = "collecting"])
                        ELSE [[tab[t] EXCEPT !.job = latest'] EXCEPT !.phase = "delivering", !.arg = None])
           /\ UNCHANGED <<lock, ghosts>>
  <2>1. PICK job, written, page :
            /\ job = tab[t].arg
            /\ written = [tab[t] EXCEPT !.job = latest']
            /\ page = IF Inactive(written) THEN Stop([written EXCEPT !.phase = "collecting"])
                      ELSE [written EXCEPT !.phase = "delivering", !.arg = None]
    OBVIOUS
  <2>2. /\ job \in ReportJob /\ Save(job) /\ usedIds' = usedIds
        /\ tab' = [tab EXCEPT ![t] = page] /\ ghosts' = ghosts
    BY <1>3, <1>5, <2>1 DEF Saves, Become
  <2>3. /\ StoreInv' /\ Written(job) /\ latest'.revision = latest.revision + 1
        /\ latest'.status = "complete" /\ journal' = journal
    BY <1>2, <1>3, <2>1, <2>2, SaveWrites
  <2>4. /\ latest' \in Known' /\ latest' \in JobOrNone /\ latest' # NoJob /\ Closed(Known')
        /\ latest'.id = latest.id
    BY <1>2, <2>3, WrittenKnown DEF Written, JobOrNone
  <2>5. /\ written \in PageType /\ written.job = latest' /\ written.phase = "closing"
        /\ written.reader = NoRead /\ written.waiter = NoWait /\ written.got = tab[t].got
        /\ written.queue = {} /\ written.wanted = {}
    BY <1>1, <1>2, <1>3, <2>1, <2>4 DEF PageType
  <2>6. CASE Inactive(written)
    <3>1. /\ page.phase = "collecting" /\ page.job = latest' /\ page.got = tab[t].got
          /\ page.reader = NoRead /\ page.waiter = NoWait
          /\ PageOK(page, Known') /\ ~Healthy(page)
      BY <2>1, <2>4, <2>5, <2>6, StopAgainOK
    <3>2. GotSaved(page)'
      BY <1>2, <1>4, <2>3, <2>4, <3>1, NothingOK DEF PageStands, GotSaved, Entry
    <3>3. LockMoves(t, page)
      BY <1>1, <1>5, <3>1 DEF LockMoves, Exclusive, Phases
    <3> QED BY <1>2, <2>2, <2>3, <3>1, <3>2, <3>3, WriteStep
  <2>7. CASE ~Inactive(written)
    <3>1. /\ page \in PageType /\ page.phase = "delivering" /\ page.job = latest'
          /\ page.got = tab[t].got /\ page.reader = NoRead /\ page.waiter = NoWait
          /\ page.queue = {} /\ page.wanted = {}
      BY <2>1, <2>5, <2>7, ZenonT(30) DEF PageType, Phases, JobOrNone
    <3>2. JobsOK(page, Known') /\ RestOK(page)
      BY <1>3, <2>4, <3>1 DEF JobsOK, RestOK, WithJob, WithArg
    <3>3. KeysOK(page)
      BY <3>1, NothingOK DEF KeysOK, Outstanding
    <3>4. ReaderOK(page.reader, Known') /\ WaiterOK(page.waiter, page.phase, Known')
      BY <3>1, NothingOK DEF ReaderOK, WaiterOK
    <3>5. PageOK(page, Known')
      BY <3>1, <3>2, <3>3, <3>4 DEF PageOK
    <3>6. GotSaved(page)'
      BY <1>2, <1>4, <2>3, <2>4, <3>1, NothingOK DEF PageStands, GotSaved, Entry
    <3>7. Current(page)'
      BY <2>3, <2>4, <3>1 DEF Current
    <3>8. LockMoves(t, page)
      BY <1>1, <1>5, <3>1 DEF LockMoves, Exclusive, Phases
    <3> QED BY <1>2, <2>2, <2>3, <3>1, <3>5, <3>6, <3>7, <3>8, WriteStep
  <2> QED BY <2>6, <2>7
<1>6. CASE /\ UNCHANGED stored /\ Become(t, Stop([tab[t] EXCEPT !.phase = "collecting"]))
           /\ UNCHANGED <<lock, ghosts>>
  <2> DEFINE page == Stop([tab[t] EXCEPT !.phase = "collecting"])
  <2>1. /\ page.phase = "collecting" /\ page.job = tab[t].job /\ page.got = tab[t].got
        /\ page.reader = NoRead /\ page.waiter = NoWait
        /\ PageOK(page, Known) /\ ~Healthy(page)
    BY <1>2, <1>3, StopAgainOK
  <2>2. tab' = [tab EXCEPT ![t] = page] /\ ghosts' = ghosts
    BY <1>6 DEF Become
  <2> HIDE DEF page
  <2>3. GotSaved(page)
    BY <1>2, <2>1, NothingOK DEF PageStands, GotSaved, Entry
  <2>4. PageStands(page)
    BY <2>1, <2>3 DEF PageStands
  <2>5. LockMoves(t, page)
    BY <1>1, <1>6, <2>1 DEF LockMoves, Exclusive, Phases
  <2> QED BY <1>6, <2>1, <2>2, <2>4, <2>5, KeepStep
<1> QED BY <1>5, <1>6 DEF FinishCommit, Refused

(* A run goes on without the store. *)
LEMMA FollowStep ==
    ASSUME Inv, NEW t \in Tabs, tab[t].phase \in WithJob, NEW page,
           PageOK(page, Known), Follows(tab[t], page), Become(t, page),
           UNCHANGED <<stored, lock, ghosts>>,
           page.reader = tab[t].reader \/ Unsaved(tab[t]) \/ page.reader.step \in {"none", "lookup"},
           Done => page.reader = NoRead /\ page.waiter = NoWait
    PROVE  Inv'
<1>1. /\ PageStands(tab[t]) /\ page.phase = tab[t].phase /\ page.got = tab[t].got
      /\ page.job.id = tab[t].job.id /\ page.job.revision = tab[t].job.revision
      /\ page.job.timings = tab[t].job.timings
      /\ tab[t].stopped => page.stopped
      /\ page.reader.key \in {None, tab[t].reader.key}
  BY TabFacts DEF Follows
<1>2. Healthy(page) => Healthy(tab[t])
  BY <1>1 DEF Healthy
<1>3. Healthy(page) => Current(page)
  BY <1>1, <1>2 DEF PageStands, Current
<1>4. GotSaved(page)
  <2>1. ASSUME page.reader.step \notin {"none", "lookup"} PROVE Unsaved(page)
    <3>1. page.reader.key = tab[t].reader.key
      BY <1>1, <2>1, NothingOK DEF PageOK, ReaderOK
    <3>2. Unsaved(tab[t])
      BY <1>1, <2>1 DEF PageStands, GotSaved
    <3> QED BY <1>1, <3>1, <3>2 DEF Unsaved, Entry
  <2> QED BY <1>1, <2>1 DEF PageStands, GotSaved, Entry
<1>5. page.phase # "creating"
  BY <1>1 DEF WithJob
<1>6. PageStands(page)
  BY <1>3, <1>4, <1>5 DEF PageStands
<1>7. LockMoves(t, page)
  BY <1>1 DEF LockMoves
<1> QED BY <1>2, <1>6, <1>7, KeepStep DEF Become

(* A collector fails.                                                      *)
LEMMA CollectorFailsInv ==
    ASSUME Inv, NEW t \in Tabs, CollectorFails(t)
    PROVE  Inv'
<1> DEFINE page == Stop(tab[t])
<1>1. /\ tab[t].phase \in WithJob /\ Become(t, page) /\ UNCHANGED <<stored, lock, ghosts>>
      /\ page.reader = tab[t].reader /\ page.waiter = tab[t].waiter
  <2>1. tab[t] \in PageType
    BY TabFacts
  <2> QED BY <2>1 DEF CollectorFails, At, WithJob, PageType, Stop
<1>2. PageStands(tab[t])
  BY TabFacts
<1>3. PageOK(page, Known) /\ Follows(tab[t], page)
  BY <1>2, StopOK DEF PageStands
<1> HIDE DEF page
<1> QED BY <1>1, <1>2, <1>3, FollowStep DEF PageStands

(* pause() only leaves a mark on the page. *)
LEMMA AbortInv ==
    ASSUME Inv, NEW t \in Tabs, Abort(t)
    PROVE  Inv'
<1> DEFINE page == [tab[t] EXCEPT !.aborted = TRUE]
<1>1. /\ PageStands(tab[t]) /\ tab[t] \in PageType /\ PageOK(tab[t], Known)
      /\ tab' = [tab EXCEPT ![t] = page] /\ UNCHANGED stored /\ lock' = lock /\ ghosts' = ghosts
  BY TabFacts DEF PageStands, Abort, Become
<1>2. /\ page \in PageType /\ page.phase = tab[t].phase /\ page.job = tab[t].job
      /\ page.arg = tab[t].arg /\ page.stopped = tab[t].stopped /\ page.got = tab[t].got
      /\ page.queue = tab[t].queue /\ page.wanted = tab[t].wanted
      /\ page.reader = tab[t].reader /\ page.waiter = tab[t].waiter
  BY <1>1 DEF PageType
<1> HIDE DEF page
<1>3. JobsOK(page, Known) /\ RestOK(page)
  BY <1>1, <1>2 DEF PageOK, JobsOK, RestOK
<1>4. KeysOK(page)
  BY <1>1, <1>2 DEF PageOK, KeysOK, Outstanding
<1>5. PageOK(page, Known)
  BY <1>1, <1>2, <1>3, <1>4 DEF PageOK
<1>6. Healthy(page) <=> Healthy(tab[t])
  BY <1>2 DEF Healthy
<1>7. PageStands(page)
  BY <1>1, <1>2, <1>5, <1>6 DEF PageStands, GotSaved, Unsaved, Current
<1>8. LockMoves(t, page)
  BY <1>1, <1>2 DEF LockMoves
<1> QED BY <1>1, <1>6, <1>7, <1>8, KeepStep

(* A run that is over, or has failed, submits its last status. *)
LEMMA EndOK ==
    ASSUME NEW page, NEW S, PageOK(page, S), Closed(S), page.phase \in WithJob,
           page.reader = NoRead, page.queue = {}, page.wanted = {},
           NEW phase \in {"failing", "settling"}, NEW status \in {"paused", "failed"},
           phase = "failing" => page.waiter = NoWait
    PROVE  LET next == WithStatus(page, phase, status) IN
           /\ PageOK(next, S) /\ ~Healthy(next) /\ next.phase = phase
           /\ next.reader = NoRead /\ next.waiter = page.waiter
           /\ next.got = page.got /\ next.job.id = page.job.id
<1> DEFINE next == WithStatus(page, phase, status)
<1>1. page \in PageType /\ page.job \in S /\ phase \in Phases /\ status \in Statuses
  BY DEF PageOK, JobsOK, Phases, Statuses
<1>2. /\ next \in PageType /\ next.phase = phase /\ next.job \in S /\ next.job.status = status
      /\ next.job.id = page.job.id /\ next.arg \in S /\ next.arg.status = status
      /\ next.stopped = page.stopped /\ next.queue = {} /\ next.wanted = {}
      /\ next.got = page.got /\ next.reader = NoRead /\ next.waiter = page.waiter
  BY <1>1, WithStatusFields
<1> HIDE DEF next
<1>3. JobsOK(next, S) /\ RestOK(next) /\ ~Healthy(next)
  BY <1>2 DEF JobsOK, RestOK, WithJob, WithArg, Healthy
<1>4. KeysOK(next)
  BY <1>2, NothingOK DEF KeysOK, Outstanding
<1>5. ReaderOK(next.reader, S)
  BY <1>2, NothingOK DEF ReaderOK
<1>6. WaiterOK(next.waiter, next.phase, S)
  BY <1>2 DEF PageOK, WaiterOK
<1>7. PageOK(next, S)
  BY <1>2, <1>3, <1>4, <1>5, <1>6 DEF PageOK
<1> QED BY <1>2, <1>3, <1>7 DEF next

(* A run turns to its last save. *)
LEMMA EndStep ==
    ASSUME Inv, NEW t \in Tabs, tab[t].phase \in {"collecting", "delivering"},
           tab[t].reader = NoRead, tab[t].queue = {}, tab[t].wanted = {},
           NEW phase \in {"failing", "settling"}, NEW status \in {"paused", "failed"},
           phase = "failing" => tab[t].waiter = NoWait,
           Become(t, WithStatus(tab[t], phase, status)), UNCHANGED <<stored, lock, ghosts>>
    PROVE  Inv'
<1> DEFINE page == WithStatus(tab[t], phase, status)
<1>1. PageStands(tab[t]) /\ Closed(Known) /\ tab[t].phase \in WithJob
      /\ tab[t].phase \in Exclusive
  BY TabFacts DEF WithJob, Exclusive, Phases
<1>2. /\ PageOK(page, Known) /\ ~Healthy(page) /\ page.phase = phase
      /\ page.reader = NoRead /\ page.waiter = tab[t].waiter
      /\ page.got = tab[t].got /\ page.job.id = tab[t].job.id
  BY <1>1, EndOK DEF PageStands
<1>3. tab' = [tab EXCEPT ![t] = page]
  BY DEF Become
<1> HIDE DEF page
<1>4. GotSaved(page)
  BY <1>1, <1>2, NothingOK DEF PageStands, GotSaved, Entry
<1>5. PageStands(page)
  BY <1>1, <1>2, <1>4 DEF PageStands
<1>6. LockMoves(t, page)
  BY <1>1, <1>2 DEF LockMoves, Exclusive, Phases
<1> QED BY <1>2, <1>3, <1>5, <1>6, KeepStep

(* The page takes the results, or fails to.                                *)
LEMMA DeliveredInv ==
    ASSUME Inv, NEW t \in Tabs, Delivered(t)
    PROVE  Inv'
<1>1. tab[t].phase = "delivering" /\ tab[t].phase \in Exclusive /\ UNCHANGED stored
  BY DEF Phases, Exclusive, Delivered, At
<1>2. PageStands(tab[t]) /\ tab[t].seen \in JobIds \cup {None}
  BY TabFacts
<1>3. CASE Leave(t, tab[t].seen)
  BY <1>1, <1>2, <1>3, LeaveStep
<1>4. CASE Become(t, WithStatus(tab[t], "failing", "failed")) /\ UNCHANGED <<lock, ghosts>>
  <2>1. /\ tab[t].reader = NoRead /\ tab[t].queue = {} /\ tab[t].wanted = {}
        /\ tab[t].waiter = NoWait
    BY <1>1, <1>2 DEF PageStands, PageOK, RestOK
  <2> QED BY <1>1, <1>4, <2>1, EndStep
<1> QED BY <1>3, <1>4 DEF Delivered

(* A run that has stopped settles its job.                                 *)
LEMMA SettleInv ==
    ASSUME Inv, NEW t \in Tabs, Settle(t)
    PROVE  Inv'
<1>1. PageStands(tab[t])
  BY TabFacts
<1>2. PICK status \in {"paused", "failed"} : Become(t, WithStatus(tab[t], "settling", status))
  BY DEF Settle
<1>3. /\ tab[t].phase = "collecting" /\ tab[t].reader = NoRead /\ tab[t].stopped
      /\ UNCHANGED <<stored, lock, ghosts>>
  BY DEF Settle, At
<1>4. tab[t].queue = {} /\ tab[t].wanted = {}
  BY <1>1, <1>3 DEF PageStands, PageOK, RestOK
<1> QED BY <1>2, <1>3, <1>4, EndStep

(* The waits that a run leaves behind. *)
LEMMA SurvivorsOK ==
    ASSUME NEW t \in Tabs, NEW S, Closed(S), PageOK(tab[t], S), NEW job \in ReportJob,
           NEW ghost \in Survivors(t, job)
    PROVE  /\ ghost \in GhostType /\ tab[t].waiter # NoWait
           /\ \/ ghost.job = job
              \/ ghost.job \in S /\ ghost.job.status # "complete"
<1>1. /\ tab[t].waiter \in WaitType /\ tab[t].aborted \in BOOLEAN
      /\ NoWait.step = "none"
  BY PageFields, NothingOK DEF PageOK
<1>2. tab[t].waiter.step # "none"
  BY DEF Survivors
<1>3. CASE tab[t].waiter.step = "sleeping"
  <2>1. ghost = [tab |-> t, saving |-> FALSE, aborted |-> tab[t].aborted, job |-> job]
    BY <1>3 DEF Survivors
  <2> QED BY <1>1, <1>3, <2>1 DEF GhostType
<1>4. CASE tab[t].waiter.step \notin {"none", "sleeping"}
  <2>1. ghost = [tab |-> t, saving |-> TRUE, aborted |-> tab[t].aborted,
                 job |-> tab[t].waiter.arg]
    BY <1>4 DEF Survivors
  <2>2. tab[t].waiter.step \in {"setting", "clearing"}
    BY <1>1, <1>4 DEF WaitType, Waits
  <2>3. /\ tab[t].waiter.arg \in S /\ tab[t].waiter.arg.status # "complete"
        /\ tab[t].waiter.arg \in ReportJob
    BY <2>2 DEF PageOK, WaiterOK, Closed
  <2> QED BY <1>1, <1>4, <2>1, <2>3 DEF GhostType
<1> QED BY <1>2, <1>3, <1>4

(* The final save of a run: the waits it leaves behind hold the job of     *)
(* before.                                                                 *)
LEMMA SettleCommitInv ==
    ASSUME Inv, NEW t \in Tabs, SettleCommit(t)
    PROVE  Inv'
<1>1. tab[t].phase = "settling" /\ tab[t].phase \in Exclusive /\ ~Healthy(tab[t])
  BY DEF Phases, Exclusive, SettleCommit, At, Healthy
<1>2. /\ StoreInv /\ PageStands(tab[t]) /\ tab[t] \in PageType /\ lock = t
      /\ tab[t].seen \in JobIds \cup {None} /\ Closed(Known) /\ PageOK(tab[t], Known)
  BY <1>1, TabFacts DEF PageStands
<1>3. /\ tab[t].job \in Known /\ tab[t].job.status # "complete"
      /\ tab[t].arg \in Known /\ tab[t].arg.status # "complete"
      /\ tab[t].job \in ReportJob /\ tab[t].arg \in ReportJob
  BY <1>1, <1>2 DEF PageOK, JobsOK, WithJob, WithArg, Closed
<1>4. PICK page : page = Page("idle", tab[t].seen)
  OBVIOUS
<1>5. tab' = [tab EXCEPT ![t] = page] /\ lock' = None
  BY <1>4 DEF SettleCommit, Become
<1>6. page \in PageType /\ AtRest(page) /\ page.phase = "idle" /\ LockMoves(t, page)
  <2>1. "idle" \in Quiet /\ "idle" \notin Exclusive
    BY DEF Quiet, Phases, WithJob, WithArg, Exclusive
  <2> QED BY <1>2, <1>4, <1>5, <2>1, PageAtRest DEF LockMoves
<1>7. /\ ~Healthy(page) /\ page.phase # "creating" /\ page.reader = NoRead
      /\ page.waiter = NoWait /\ PageOK(page, Known') /\ GotSaved(page)'
  BY <1>6, AtRestOK DEF AtRest, Still
<1>8. latest # NoJob /\ latest.id \in usedIds
  BY <1>3 DEF Known, Inv
<1>9. \A u \in Tabs : ~Healthy(tab[u])
  BY <1>1, <1>2, OthersAtRest, AtRestOK
<1>10. CASE Saves(tab[t].arg) /\ ghosts' = ghosts \cup Survivors(t, latest')
  <2>1. PICK arg : arg = tab[t].arg
    OBVIOUS
  <2>2. /\ StoreInv' /\ Written(arg) /\ latest'.revision = latest.revision + 1
        /\ latest'.status = arg.status /\ usedIds' = usedIds
    BY <1>2, <1>3, <1>10, <2>1, SaveWrites DEF Saves
  <2>3. PICK saved : saved = latest'
    OBVIOUS
  <2>4. /\ saved \in Known' /\ Known \subseteq Known' /\ saved \in ReportJob
        /\ saved.status # "complete"
    BY <1>2, <1>3, <2>1, <2>2, <2>3, WrittenKnown DEF Written
  <2>5. ASSUME NEW ghost \in Survivors(t, saved)
        PROVE  ghost \in GhostType /\ GhostOK(ghost)'
    <3>1. ghost \in GhostType /\ ghost.job \in Known' /\ ghost.job.status # "complete"
      BY <1>2, <2>4, SurvivorsOK
    <3>2. ~Done' /\ latest'.id \in usedIds'
      BY <1>8, <2>2, <2>3, <2>4 DEF Done, Written
    <3>3. \A u \in Tabs : ~Healthy(tab'[u])
      BY <1>5, <1>7, <1>9 DEF Inv, TypeOK
    <3> QED BY <3>1, <3>2, <3>3 DEF GhostOK, Known
  <2>6. \A ghost \in ghosts' : ghost \in ghosts \/ (ghost \in GhostType /\ GhostOK(ghost)')
    BY <1>10, <2>3, <2>5
  <2>7. arg \in ReportJob
    BY <1>3, <2>1
  <2> QED BY <1>2, <1>5, <1>6, <1>7, <2>2, <2>6, <2>7, WriteStep
<1>11. CASE UNCHANGED stored /\ ghosts' = ghosts \cup Survivors(t, tab[t].job)
  <2>1. ASSUME NEW ghost \in Survivors(t, tab[t].job)
        PROVE  ghost \in GhostType /\ GhostOK(ghost)
    <3>1. /\ ghost \in GhostType /\ ghost.job \in Known /\ ghost.job.status # "complete"
          /\ tab[t].waiter # NoWait
      BY <1>2, <1>3, SurvivorsOK
    <3>2. ~Done
      BY <1>2, <3>1 DEF PageStands
    <3> QED BY <1>8, <1>9, <3>1, <3>2 DEF GhostOK, Known
  <2>2. \A ghost \in ghosts' : ghost \in ghosts \/ (ghost \in GhostType /\ GhostOK(ghost))
    BY <1>11, <2>1
  <2>3. PageStands(page)
    BY <1>6, RestStands
  <2> QED BY <1>5, <1>6, <1>7, <1>11, <2>2, <2>3, KeepStep
<1> QED BY <1>10, <1>11 DEF SettleCommit, Refused

-----------------------------------------------------------------------------
(* What is left of earlier runs, and the clock *)

(* A step that changes nothing but the ghosts. *)
LEMMA GhostsStep ==
    ASSUME Inv, NEW t \in Tabs, UNCHANGED <<stored, lock, tab>>,
           \A ghost \in ghosts' : ghost \in ghosts \/ (ghost \in GhostType /\ GhostOK(ghost))
    PROVE  Inv'
<1>1. PICK page : page = tab[t]
  OBVIOUS
<1>2. tab' = [tab EXCEPT ![t] = page]
  BY <1>1 DEF Inv, TypeOK
<1>3. PageStands(page)
  BY <1>1, TabFacts
<1>4. LockMoves(t, page)
  BY <1>1 DEF LockMoves
<1> QED BY <1>1, <1>2, <1>3, <1>4, KeepStep

(* A wait that was left behind sleeps, gives up or saves its job.          *)
LEMMA GhostStepInv ==
    ASSUME Inv, GhostStep
    PROVE  Inv'
<1>1. PICK ghost \in ghosts :
        /\ \/ /\ ghost.saving
              /\ Saves(ghost.job) \/ Refused
              /\ ghosts' = ghosts \ {ghost}
           \/ /\ ~ghost.saving
              /\ \/ ghosts' = ghosts \ {ghost}
                 \/ /\ ~ghost.aborted
                    /\ ghost.job.retryAt \in 1..now
                    /\ ghosts' = (ghosts \ {ghost}) \cup
                           {[ghost EXCEPT !.saving = TRUE, !.job.retryAt = NoDeadline]}
              /\ UNCHANGED stored
        /\ UNCHANGED <<lock, tab>>
  BY DEF GhostStep
<1>2. ghost \in GhostType /\ GhostOK(ghost) /\ ghost.tab \in Tabs /\ ghost.job \in ReportJob
  BY DEF Inv, TypeOK, GhostType
<1>3. CASE UNCHANGED stored /\ ghosts' = ghosts \ {ghost}
  <2>1. \A g \in ghosts' : g \in ghosts \/ (g \in GhostType /\ GhostOK(g))
    BY <1>3
  <2> QED BY <1>1, <1>2, <1>3, <2>1, GhostsStep
<1>4. CASE /\ UNCHANGED stored
           /\ ghosts' = (ghosts \ {ghost}) \cup
                  {[ghost EXCEPT !.saving = TRUE, !.job.retryAt = NoDeadline]}
  <2> DEFINE job == [ghost.job EXCEPT !.retryAt = NoDeadline]
  <2>1. NoDeadline \in Deadlines
    BY StoreConstants DEF NoDeadline, Deadlines
  <2>2. /\ job \in ReportJob /\ job.id = ghost.job.id /\ job.revision = ghost.job.revision
        /\ job.status = ghost.job.status
    BY <1>2, <2>1 DEF ReportJob
  <2>3. [ghost EXCEPT !.saving = TRUE, !.job.retryAt = NoDeadline]
           = [ghost EXCEPT !.saving = TRUE, !.job = job]
    OBVIOUS
  <2> HIDE DEF job
  <2>4. PICK next : next = [ghost EXCEPT !.saving = TRUE, !.job = job]
    OBVIOUS
  <2>5. next \in GhostType /\ next.job = job
    BY <1>2, <2>2, <2>4 DEF GhostType
  <2>6. GhostOK(next)
    BY <1>2, <2>2, <2>5 DEF GhostOK
  <2>7. \A g \in ghosts' : g \in ghosts \/ (g \in GhostType /\ GhostOK(g))
    BY <1>4, <2>3, <2>4, <2>5, <2>6
  <2> QED BY <1>1, <1>2, <1>4, <2>7, GhostsStep
<1>5. CASE Saves(ghost.job) /\ ghosts' = ghosts \ {ghost}
  <2>1. PICK job : job = ghost.job
    OBVIOUS
  <2>2. /\ StoreInv' /\ Written(job) /\ latest'.revision = latest.revision + 1
        /\ latest'.status = job.status /\ journal' = journal /\ usedIds' = usedIds
    BY <1>2, <1>5, <2>1, SaveWrites DEF Saves, Inv
  <2>3. /\ Known \subseteq Known' /\ latest.revision \in Nat /\ latest'.revision \in Nat
    BY <2>2, WrittenKnown DEF Inv
  <2>4. ~Done /\ \A t \in Tabs : ~Healthy(tab[t])
    BY <1>2, <2>1, <2>2, <2>3 DEF GhostOK, Written
  <2>5. ~Done' /\ latest # NoJob
    BY <1>2, <2>1, <2>2 DEF Done, GhostOK, Written
  <2>6. ASSUME NEW t \in Tabs PROVE TabOK(t)'
    <3>1. PageStands(tab[t]) /\ tab'[t] = tab[t]
      BY <1>1, TabFacts
    <3>2. PageOK(tab[t], Known')
      BY <2>3, <3>1, PageMono DEF PageStands
    <3>3. GotSaved(tab[t])'
      BY <2>2, <3>1 DEF PageStands, GotSaved, Unsaved
    <3>4. tab[t].phase # "creating"
      BY <2>4, <2>5, <3>1 DEF PageStands
    <3> QED BY <2>4, <2>5, <3>1, <3>2, <3>3, <3>4 DEF TabOK, At
  <2>7. ASSUME NEW g \in ghosts' PROVE GhostOK(g)'
    <3>1. GhostOK(g) /\ g.job.revision \in Nat
      BY <1>5 DEF Inv, TypeOK, ReportJob
    <3>2. latest'.id = g.job.id => g.job.revision <= latest.revision
      BY <2>2, <3>1 DEF GhostOK, Written
    <3> QED BY <2>2, <2>3, <3>1, <3>2 DEF GhostOK
  <2>8. TypeOK'
    BY <1>1, <1>5, <2>2 DEF Inv, TypeOK, StoreInv
  <2>9. latest'.id \in usedIds'
    BY <2>2 DEF Inv, Written
  <2> QED BY <2>2, <2>6, <2>7, <2>8, <2>9 DEF Inv
<1> QED BY <1>1, <1>3, <1>4, <1>5 DEF Refused

(* The clock touches no page.                                              *)
LEMMA TickStep ==
    ASSUME Inv, Tick, UNCHANGED <<lock, tab, ghosts, usedIds>>
    PROVE  Inv'
<1>1. latest' = latest /\ journal' = journal
  BY DEF Tick
<1>2. StoreInv' /\ StoreTypeOK'
  BY TickInv DEF Inv, StoreInv
<1>3. TypeOK'
  BY <1>2 DEF Inv, TypeOK
<1>4. Known' = Known /\ (Done' <=> Done)
  BY <1>1 DEF Known, Done
<1>5. ASSUME NEW t \in Tabs PROVE TabOK(t)'
  BY <1>1, <1>4 DEF Inv, TabOK, At, GotSaved, Unsaved, Current
<1>6. ASSUME NEW ghost \in ghosts' PROVE GhostOK(ghost)'
  BY <1>1, <1>4 DEF Inv, GhostOK
<1> QED BY <1>1, <1>2, <1>3, <1>5, <1>6 DEF Inv

-----------------------------------------------------------------------------
(* A run that collects: the steps without a write *)

(* A tab whose run reads or waits. *)
LEMMA BusyTab ==
    ASSUME Inv, NEW t \in Tabs, tab[t].reader.step # "none" \/ tab[t].waiter.step # "none"
    PROVE  /\ tab[t].phase \in WithJob /\ lock = t /\ ~Done
           /\ PageStands(tab[t]) /\ PageOK(tab[t], Known) /\ Closed(Known)
           /\ now \in 0..MaxTime /\ StoreInv /\ tab[t] \in PageType
           /\ tab[t].job \in Known /\ latest # NoJob
<1>1. /\ PageStands(tab[t]) /\ PageOK(tab[t], Known) /\ Closed(Known)
      /\ now \in 0..MaxTime /\ StoreInv /\ tab[t] \in PageType
      /\ (lock = t) <=> (tab[t].phase \in Exclusive)
  BY TabFacts DEF PageStands
<1>2. tab[t].phase \in {"collecting", "settling"}
  BY <1>1, NothingOK DEF PageOK, RestOK
<1>3. tab[t].phase \in WithJob /\ tab[t].phase \in Exclusive
  BY <1>2 DEF WithJob, Exclusive, Phases
<1>4. ~Done
  BY <1>1, NothingOK DEF PageStands
<1>5. tab[t].job \in Known
  BY <1>1, <1>3 DEF PageOK, JobsOK
<1> QED BY <1>1, <1>3, <1>4, <1>5 DEF Known

(* A run that reads or waits goes on without the store. *)
LEMMA BusyStep ==
    ASSUME Inv, NEW t \in Tabs, tab[t].reader.step # "none" \/ tab[t].waiter.step # "none",
           NEW page, PageOK(page, Known), Follows(tab[t], page), Become(t, page),
           UNCHANGED <<stored, lock, ghosts>>,
           page.reader \in {tab[t].reader, NoRead} \/ Unsaved(tab[t])
    PROVE  Inv'
<1>1. tab[t].phase \in WithJob /\ ~Done
  BY BusyTab
<1>2. page.reader = tab[t].reader \/ Unsaved(tab[t]) \/ page.reader.step \in {"none", "lookup"}
  BY NothingOK
<1> QED BY <1>1, <1>2, FollowStep

(* The timer of a wait ends.                                               *)
LEMMA WaiterWakesInv ==
    ASSUME Inv, NEW t \in Tabs, WaiterWakes(t)
    PROVE  Inv'
<1>1. tab[t].waiter.step # "none" /\ UNCHANGED <<stored, lock, ghosts>>
  BY DEF WaiterWakes
<1>2. PageOK(tab[t], Known) /\ Closed(Known) /\ now \in 0..MaxTime
  BY <1>1, BusyTab
<1>3. Running(tab[t]) \/ tab[t].phase = "settling"
  BY <1>1, <1>2, WaitingOK
<1>4. PICK page \in {StopWait(tab[t]), WaitUntilDue(tab[t])} : Become(t, page)
  BY DEF WaiterWakes
<1>5. PageOK(page, Known) /\ Follows(tab[t], page) /\ page.reader = tab[t].reader
  BY <1>2, <1>3, <1>4, StopWaitOK, WaitUntilDueOK
<1> QED BY <1>1, <1>4, <1>5, BusyStep

(* A read that is past the look-up is not saved. *)
LEMMA PastLookup ==
    ASSUME Inv, NEW t \in Tabs, tab[t].reader.step \notin {"none", "lookup"}
    PROVE  Unsaved(tab[t])
BY TabFacts DEF PageStands, GotSaved

(* The timer of a read ends.                                               *)
LEMMA ReaderWakesInv ==
    ASSUME Inv, NEW t \in Tabs, ReaderWakes(t)
    PROVE  Inv'
<1>1. /\ tab[t].reader.step # "none" /\ tab[t].reader.step # "lookup"
      /\ UNCHANGED <<stored, lock, ghosts>>
  BY DEF ReaderWakes
<1>2. PageOK(tab[t], Known) /\ Closed(Known) /\ now \in 0..MaxTime /\ Unsaved(tab[t])
  BY <1>1, BusyTab, PastLookup
<1>3. Running(tab[t])
  BY <1>1, <1>2, ReadingOK
<1>4. PICK page \in {StopRead(tab[t]), ReadWhenDue(tab[t])} : Become(t, page)
  BY DEF ReaderWakes
<1>5. PageOK(page, Known) /\ Follows(tab[t], page)
  BY <1>1, <1>2, <1>3, <1>4, StopReadOK, ReadWhenDueOK
<1> QED BY <1>1, <1>2, <1>4, <1>5, BusyStep

(* A read ends without its response. *)
LEMMA StopReadInv ==
    ASSUME Inv, NEW t \in Tabs, tab[t].reader.step # "none",
           Become(t, StopRead(tab[t])), UNCHANGED <<stored, lock, ghosts>>
    PROVE  Inv'
<1>1. PageOK(tab[t], Known)
  BY BusyTab
<1>2. /\ PageOK(StopRead(tab[t]), Known) /\ Follows(tab[t], StopRead(tab[t]))
      /\ StopRead(tab[t]).reader = NoRead
  BY <1>1, StopReadOK
<1> QED BY <1>2, BusyStep

(* What is saved is handed out at once, and nothing else is looked for.    *)
LEMMA LookupInv ==
    ASSUME Inv, NEW t \in Tabs, Lookup(t)
    PROVE  Inv'
<1>1. tab[t].reader.step = "lookup" /\ UNCHANGED <<stored, lock, ghosts>>
  BY DEF Lookup
<1>2. /\ PageOK(tab[t], Known) /\ Closed(Known) /\ now \in 0..MaxTime /\ StoreInv
      /\ PageStands(tab[t]) /\ tab[t] \in PageType /\ ~Done /\ tab[t].phase \in WithJob
  BY <1>1, BusyTab
<1>3. Running(tab[t]) /\ tab[t].reader.key \in Keys
  BY <1>1, <1>2, ReadingOK
<1>4. CASE Become(t, StopRead(tab[t]))
  BY <1>1, <1>4, StopReadInv
<1>5. ASSUME NEW entry \in SavedEntries(tab[t].job.id, tab[t].reader.key),
             Become(t, Received(tab[t], entry.response))
      PROVE  Inv'
  <2>1. entry \in journal /\ entry \in JournalEntry /\ entry.jobId = tab[t].job.id
        /\ entry.key = tab[t].reader.key
    BY <1>2 DEF SavedEntries, StoreInv, StoreTypeOK
  <2>2. entry.response \in Responses
        /\ entry = Entry(tab[t].job, tab[t].reader.key, entry.response)
    BY <2>1 DEF JournalEntry, Entry
  <2>3. PICK page : page = Received(tab[t], entry.response)
    OBVIOUS
  <2>4. /\ PageOK(page, Known) /\ page.phase = tab[t].phase /\ page.job = tab[t].job
        /\ page.stopped = tab[t].stopped /\ page.reader = NoRead
        /\ page.got = [tab[t].got EXCEPT ![tab[t].reader.key] = entry.response]
    BY <1>1, <1>2, <2>2, <2>3, ReceivedOK
  <2>5. tab[t].got \in [Keys -> Responses \cup {None}]
    BY <1>2, PageFields
  <2>6. GotSaved(page)
    BY <1>2, <1>3, <2>1, <2>2, <2>4, <2>5, NothingOK DEF PageStands, GotSaved
  <2>7. Healthy(page) <=> Healthy(tab[t])
    BY <2>4 DEF Healthy
  <2>8. PageStands(page)
    BY <1>2, <2>4, <2>6, <2>7 DEF PageStands, Current, WithJob
  <2>9. LockMoves(t, page)
    BY <1>1, <2>4 DEF LockMoves
  <2> QED BY <1>1, <1>5, <2>3, <2>7, <2>8, <2>9, KeepStep DEF Become
<1>6. CASE SavedEntries(tab[t].job.id, tab[t].reader.key) = {} /\ Become(t, ReadWhenDue(tab[t]))
  <2>1. Unsaved(tab[t])
    BY <1>6 DEF Unsaved, Entry, SavedEntries
  <2>2. PageOK(ReadWhenDue(tab[t]), Known) /\ Follows(tab[t], ReadWhenDue(tab[t]))
    BY <1>1, <1>2, <1>3, ReadWhenDueOK
  <2> QED BY <1>1, <1>6, <2>1, <2>2, BusyStep
<1> QED BY <1>4, <1>5, <1>6 DEF Lookup

(* The transport takes a request from its queue. *)
Taken(page, key) == [page EXCEPT !.queue = @ \ {key}]
LookingUp(page, key) ==
    [Taken(page, key) EXCEPT !.reader.step = "lookup", !.reader.key = key]

(* The transport takes a read from the queue.                              *)
LEMMA TakenOK ==
    ASSUME NEW page, NEW S, PageOK(page, S), page.reader = NoRead, NEW key \in page.queue
    PROVE  LET rest == Taken(page, key)
               next == LookingUp(page, key)
           IN /\ PageOK(rest, S) /\ Running(page) /\ ~page.stopped
              /\ PageOK(next, S) /\ next.phase = page.phase /\ next.job = page.job
              /\ next.got = page.got /\ next.stopped = page.stopped
              /\ next.reader.step = "lookup" /\ next.waiter = page.waiter
              /\ rest.stopped = page.stopped /\ rest.job = page.job /\ rest.phase = page.phase
              /\ rest.got = page.got /\ rest.reader = page.reader /\ rest.waiter = page.waiter
<1> DEFINE rest == Taken(page, key)
           reader == [NoRead EXCEPT !.step = "lookup", !.key = key]
           next == LookingUp(page, key)
           queue == page.queue \ {key}
<1>1. page \in PageType /\ page.queue \in SUBSET Keys /\ key \in Keys
  BY PageFields DEF PageOK
<1>2. page.phase = "collecting" /\ ~page.stopped /\ page.job.status = "running"
  BY DEF PageOK, RestOK, JobsOK
<1>3. rest = [page EXCEPT !.queue = queue]
  BY DEF Taken
<1>4. next = [rest EXCEPT !.reader.step = "lookup", !.reader.key = key]
  BY DEF LookingUp
<1>5. /\ reader \in NoReadType /\ reader.step = "lookup" /\ reader.key = key
  BY <1>1, NothingOK DEF NoReadType, Reads
<1>6. queue \in SUBSET Keys
  BY <1>1
<1> HIDE DEF rest, queue, next
<1>7. /\ rest \in PageType /\ rest.stopped = page.stopped
      /\ rest.queue = queue /\ rest.wanted = page.wanted
      /\ rest.phase = page.phase /\ rest.job = page.job /\ rest.arg = page.arg
      /\ rest.got = page.got /\ rest.reader = NoRead /\ rest.waiter = page.waiter
  BY <1>1, <1>3, <1>6 DEF PageType
<1>8. next = [rest EXCEPT !.reader = reader]
  BY <1>7, <1>4 DEF PageType
<1> HIDE DEF reader
<1>9. /\ next \in PageType /\ next.stopped = page.stopped
      /\ next.queue = queue /\ next.wanted = page.wanted
      /\ next.phase = page.phase /\ next.job = page.job /\ next.arg = page.arg
      /\ next.got = page.got /\ next.reader = reader /\ next.waiter = page.waiter
  BY <1>5, <1>7, <1>8 DEF PageType, NoReadType
<1>10. PageOK(rest, S)
  <2>1. JobsOK(rest, S) /\ RestOK(rest)
    BY <1>2, <1>7 DEF PageOK, JobsOK, RestOK, WithArg
  <2>2. KeysOK(rest)
    BY <1>7 DEF PageOK, KeysOK, Outstanding, queue
  <2> QED BY <1>7, <2>1, <2>2 DEF PageOK
<1>11. PageOK(next, S)
  <2>1. JobsOK(next, S) /\ RestOK(next)
    BY <1>2, <1>9 DEF PageOK, JobsOK, RestOK, WithArg, WithJob
  <2>2. KeysOK(next)
    BY <1>5, <1>9 DEF PageOK, KeysOK, Outstanding, queue
  <2>3. ReaderOK(next.reader, S)
    BY <1>1, <1>5, <1>9 DEF ReaderOK
  <2> QED BY <1>9, <2>1, <2>2, <2>3 DEF PageOK
<1> QED BY <1>2, <1>5, <1>7, <1>9, <1>10, <1>11 DEF next, rest, Running

(* And so the tab does.                                                    *)
LEMMA TakeReadInv ==
    ASSUME Inv, NEW t \in Tabs, TakeRead(t)
    PROVE  Inv'
<1>1. tab[t].reader = NoRead /\ UNCHANGED <<stored, lock, ghosts>>
  BY DEF TakeRead
<1>2. /\ PageStands(tab[t]) /\ PageOK(tab[t], Known)
  BY TabFacts DEF PageStands
<1>3. PICK key \in tab[t].queue :
          Become(t, IF Inactive(Taken(tab[t], key)) THEN Stop(Taken(tab[t], key))
                    ELSE LookingUp(tab[t], key))
  BY DEF TakeRead, Taken, LookingUp
<1> DEFINE rest == Taken(tab[t], key)
           next == LookingUp(tab[t], key)
           page == IF Inactive(rest) THEN Stop(rest) ELSE next
<1>4. /\ PageOK(rest, Known) /\ Running(tab[t]) /\ ~tab[t].stopped
      /\ PageOK(next, Known) /\ next.phase = tab[t].phase /\ next.job = tab[t].job
      /\ next.got = tab[t].got /\ next.stopped = tab[t].stopped
      /\ next.reader.step = "lookup" /\ next.waiter = tab[t].waiter
      /\ rest.stopped = tab[t].stopped /\ rest.job = tab[t].job /\ rest.phase = tab[t].phase
      /\ rest.got = tab[t].got /\ rest.reader = NoRead /\ rest.waiter = tab[t].waiter
  BY <1>1, <1>2, TakenOK
<1>5. tab' = [tab EXCEPT ![t] = page]
  BY <1>3 DEF Become
<1> HIDE DEF rest, next
<1>6. PageOK(Stop(rest), Known) /\ Follows(rest, Stop(rest)) /\ Stop(rest).reader = NoRead
  BY <1>4, StopOK
<1>7. /\ PageOK(page, Known) /\ page.phase = tab[t].phase /\ page.job.id = tab[t].job.id
      /\ page.job.revision = tab[t].job.revision /\ page.job.timings = tab[t].job.timings
      /\ page.got = tab[t].got /\ page.reader.step \in {"none", "lookup"}
  <2>1. CASE page = next
    BY <1>4, <2>1
  <2>2. CASE page = Stop(rest)
    BY <1>4, <1>6, <2>2, NothingOK DEF Follows
  <2> QED BY <2>1, <2>2
<1> HIDE DEF page
<1>8. Healthy(tab[t])
  BY <1>4 DEF Healthy, Running
<1>9. Current(page) /\ ~Done
  BY <1>2, <1>4, <1>7, <1>8 DEF PageStands, Current, Running, Done
<1>10. GotSaved(page)
  BY <1>2, <1>7 DEF PageStands, GotSaved, Entry
<1>11. PageStands(page)
  BY <1>4, <1>7, <1>9, <1>10 DEF PageStands, Running
<1>12. LockMoves(t, page)
  BY <1>1, <1>7 DEF LockMoves
<1> QED BY <1>1, <1>8, <1>11, <1>12, <1>5, KeepStep

(* A collector asks for a key that it has not, and has not asked for. *)
Asked(page, queue, wanted, pending) ==
    [page EXCEPT !.retries = 0, !.queue = queue, !.wanted = wanted, !.pending = pending]

(* A collector asks for a key that is not outstanding.                     *)
LEMMA AskedOK ==
    ASSUME NEW page, NEW S, PageOK(page, S), Running(page), ~page.stopped,
           NEW key \in Keys, page.got[key] = None, key \notin Outstanding(page),
           NEW queue, NEW wanted, NEW pending \in BOOLEAN,
           \/ queue = page.queue \cup {key} /\ wanted = page.wanted
           \/ queue = page.queue /\ wanted = page.wanted \cup {key}
    PROVE  LET next == Asked(page, queue, wanted, pending) IN
           PageOK(next, S) /\ Running(next) /\ Follows(page, next) /\ next.reader = page.reader
<1> DEFINE next == Asked(page, queue, wanted, pending)
<1>1. page \in PageType /\ page.queue \in SUBSET Keys /\ page.wanted \in SUBSET Keys
      /\ 0 \in 0..MaxRetries
  BY PageFields, CollectionConstants DEF PageOK
<1>2. queue \in SUBSET Keys /\ wanted \in SUBSET Keys
  BY <1>1
<1>3. /\ next \in PageType /\ next.stopped = page.stopped
      /\ next.queue = queue /\ next.wanted = wanted
      /\ next.phase = page.phase /\ next.job = page.job /\ next.arg = page.arg
      /\ next.got = page.got /\ next.reader = page.reader /\ next.waiter = page.waiter
  BY <1>1, <1>2, ZenonT(30) DEF Asked, PageType
<1> HIDE DEF next
<1>4. JobsOK(next, S) /\ RestOK(next)
  BY <1>3 DEF PageOK, JobsOK, RestOK, Running, WithArg
<1>5. KeysOK(next)
  <2>1. key # None
    BY NothingOK
  <2> QED BY <1>1, <1>3, <2>1 DEF PageOK, KeysOK, Outstanding
<1>6. PageOK(next, S) /\ Running(next) /\ Follows(page, next) /\ next.reader = page.reader
  BY <1>3, <1>4, <1>5 DEF PageOK, Running, Follows
<1> QED BY <1>6 DEF next

(* A request is queued, held back by a wait, or begins one.                *)
LEMMA AskInv ==
    ASSUME Inv, NEW t \in Tabs, Ask(t)
    PROVE  Inv'
<1>1. /\ tab[t].phase = "collecting" /\ ~tab[t].stopped /\ Healthy(tab[t])
      /\ UNCHANGED <<stored, lock, ghosts>>
  BY DEF Ask, At, Inactive, Healthy
<1>2. /\ PageStands(tab[t]) /\ PageOK(tab[t], Known) /\ tab[t] \in PageType
      /\ Closed(Known) /\ now \in 0..MaxTime
  BY TabFacts DEF PageStands
<1>3. Running(tab[t]) /\ tab[t].phase \in WithJob /\ ~Done /\ tab[t].pending \in BOOLEAN
  BY <1>1, <1>2 DEF Running, PageOK, JobsOK, WithJob, PageStands, Current, Done, PageType
<1>4. PICK key \in Keys :
          /\ tab[t].got[key] = None /\ key \notin Outstanding(tab[t])
          /\ \E page :
             /\ Become(t, page)
             /\ \/ \E wanted \in {tab[t].wanted \cup {key}} :
                       page = Asked(tab[t], tab[t].queue, wanted, tab[t].pending)
                \/ \E queue \in {tab[t].queue \cup {key}}, pending \in BOOLEAN :
                       page = Asked(tab[t], queue, tab[t].wanted, pending)
                \/ \E wanted \in {tab[t].wanted \cup {key}}, delay \in Delays :
                       page = StartWait(Asked(tab[t], tab[t].queue, wanted, FALSE), delay)
  <2>1. PICK key \in Keys :
          /\ tab[t].got[key] = None /\ key \notin Outstanding(tab[t])
          /\ LET fresh == [tab[t] EXCEPT !.retries = 0]
                 held == [fresh EXCEPT !.wanted = @ \cup {key}]
                 sent == [fresh EXCEPT !.queue = @ \cup {key}]
             IN \/ Become(t, held)
                \/ Become(t, sent)
                \/ \E delay \in Delays : Become(t, StartWait([held EXCEPT !.pending = FALSE], delay))
                \/ Become(t, [sent EXCEPT !.pending = FALSE])
    BY DEF Ask
  <2> DEFINE fresh == [tab[t] EXCEPT !.retries = 0]
             held == [fresh EXCEPT !.wanted = @ \cup {key}]
             sent == [fresh EXCEPT !.queue = @ \cup {key}]
  <2>2. /\ held = Asked(tab[t], tab[t].queue, tab[t].wanted \cup {key}, tab[t].pending)
        /\ [held EXCEPT !.pending = FALSE]
              = Asked(tab[t], tab[t].queue, tab[t].wanted \cup {key}, FALSE)
    BY <1>2 DEF Asked, PageType
  <2>3. /\ sent = Asked(tab[t], tab[t].queue \cup {key}, tab[t].wanted, tab[t].pending)
        /\ [sent EXCEPT !.pending = FALSE]
              = Asked(tab[t], tab[t].queue \cup {key}, tab[t].wanted, FALSE)
    BY <1>2 DEF Asked, PageType
  <2>4. \/ Become(t, held)
        \/ Become(t, sent)
        \/ \E delay \in Delays : Become(t, StartWait([held EXCEPT !.pending = FALSE], delay))
        \/ Become(t, [sent EXCEPT !.pending = FALSE])
    BY <2>1
  <2> HIDE DEF held, sent
  <2> QED BY <1>3, <2>1, <2>2, <2>3, <2>4
<1>5. PICK page :
          /\ Become(t, page)
          /\ \/ \E wanted \in {tab[t].wanted \cup {key}} :
                    page = Asked(tab[t], tab[t].queue, wanted, tab[t].pending)
             \/ \E queue \in {tab[t].queue \cup {key}}, pending \in BOOLEAN :
                    page = Asked(tab[t], queue, tab[t].wanted, pending)
             \/ \E wanted \in {tab[t].wanted \cup {key}}, delay \in Delays :
                    page = StartWait(Asked(tab[t], tab[t].queue, wanted, FALSE), delay)
  BY <1>4
<1>6. PageOK(page, Known) /\ Follows(tab[t], page) /\ page.reader = tab[t].reader
  <2>1. ASSUME NEW wanted \in {tab[t].wanted \cup {key}}, NEW pending \in BOOLEAN
        PROVE  LET next == Asked(tab[t], tab[t].queue, wanted, pending) IN
               PageOK(next, Known) /\ Running(next) /\ Follows(tab[t], next)
               /\ next.reader = tab[t].reader
    BY <1>1, <1>2, <1>3, <1>4, AskedOK
  <2>2. ASSUME NEW queue \in {tab[t].queue \cup {key}}, NEW pending \in BOOLEAN
        PROVE  LET next == Asked(tab[t], queue, tab[t].wanted, pending) IN
               PageOK(next, Known) /\ Running(next) /\ Follows(tab[t], next)
               /\ next.reader = tab[t].reader
    BY <1>1, <1>2, <1>3, <1>4, AskedOK
  <2>3. ASSUME NEW wanted \in {tab[t].wanted \cup {key}}, NEW delay \in Delays,
               page = StartWait(Asked(tab[t], tab[t].queue, wanted, FALSE), delay)
        PROVE  PageOK(page, Known) /\ Follows(tab[t], page) /\ page.reader = tab[t].reader
    <3>1. PICK next : next = Asked(tab[t], tab[t].queue, wanted, FALSE)
      OBVIOUS
    <3>2. PageOK(next, Known) /\ Running(next) /\ Follows(tab[t], next)
          /\ next.reader = tab[t].reader
      BY <2>1, <3>1
    <3>3. PageOK(page, Known) /\ Follows(next, page) /\ page.reader = next.reader
      BY <1>2, <2>3, <3>1, <3>2, StartWaitOK
    <3> QED BY <3>2, <3>3 DEF Follows
  <2> QED BY <1>3, <1>5, <2>1, <2>2, <2>3
<1> QED BY <1>1, <1>3, <1>6, <1>5, FollowStep

(* The reply of the API: the job holds the delay it asks for, and a save   *)
(* of it begins, or the collector stops, or it asks again.                 *)
LEMMA ReplyInv ==
    ASSUME Inv, NEW t \in Tabs, Reply(t)
    PROVE  Inv'
<1>1. tab[t].reader.step = "fetching" /\ UNCHANGED <<stored, lock, ghosts>>
  BY DEF Reply
<1>2. /\ PageOK(tab[t], Known) /\ Closed(Known) /\ now \in 0..MaxTime
      /\ tab[t].job \in Known /\ tab[t].phase \in WithJob /\ Unsaved(tab[t])
  BY <1>1, BusyTab, PastLookup
<1>3. Running(tab[t]) /\ tab[t].reader \in NoReadType /\ tab[t].reader.key \in Keys
  BY <1>1, <1>2, ReadingOK
<1>4. CASE Become(t, StopRead(tab[t]))
  BY <1>1, <1>4, StopReadInv
<1>5. CASE ~Inactive(tab[t])
           /\ \E delay \in Delays :
             LET page == [tab[t] EXCEPT !.job = Raise(@, delay)]
             IN \/ Become(t, StopRead(page))
                \/ \E response \in Responses, owes \in BOOLEAN :
                    Become(t, [page EXCEPT !.reader.step = "saving",
                                           !.reader.arg = page.job,
                                           !.reader.response = response,
                                           !.reader.owes = owes])
                \/ Become(t, [page EXCEPT !.reader.step = "deferring",
                                          !.reader.arg = page.job])
                \/ \E next \in Rejected(page) : Become(t, next)
  <2>1. PICK delay \in Delays :
             LET page == [tab[t] EXCEPT !.job = Raise(tab[t].job, delay)]
             IN \/ Become(t, StopRead(page))
                \/ \E response \in Responses, owes \in BOOLEAN :
                    Become(t, [page EXCEPT !.reader.step = "saving",
                                           !.reader.arg = page.job,
                                           !.reader.response = response,
                                           !.reader.owes = owes])
                \/ Become(t, [page EXCEPT !.reader.step = "deferring",
                                          !.reader.arg = page.job])
                \/ \E next \in Rejected(page) : Become(t, next)
    BY <1>5
  <2>2. PICK due : due = Raise(tab[t].job, delay)
    OBVIOUS
  <2>3. PICK page : page = [tab[t] EXCEPT !.job = due]
    OBVIOUS
  <2>4. /\ due \in Known /\ due.status = "running" /\ due.id = tab[t].job.id
        /\ due.revision = tab[t].job.revision /\ due.timings = tab[t].job.timings
        /\ due \in JobOrNone
    BY <1>2, <1>3, <2>2, RaiseOK DEF Running, Closed, JobOrNone
  <2>5. /\ PageOK(page, Known) /\ Running(page) /\ page.job = due
        /\ page.phase = tab[t].phase /\ page.got = tab[t].got
        /\ page.stopped = tab[t].stopped /\ page.reader = tab[t].reader
    BY <1>2, <1>3, <2>3, <2>4, JobStepOK DEF Closed
  <2>6. Follows(tab[t], page)
    BY <2>4, <2>5 DEF Follows
  <2>7. \/ Become(t, StopRead(page))
        \/ \E response \in Responses, owes \in BOOLEAN :
              Become(t, [page EXCEPT !.reader.step = "saving",
                                     !.reader.arg = page.job,
                                     !.reader.response = response,
                                     !.reader.owes = owes])
        \/ Become(t, [page EXCEPT !.reader.step = "deferring",
                                  !.reader.arg = page.job])
        \/ \E next \in Rejected(page) : Become(t, next)
    BY <2>1, <2>2, <2>3
  <2>8. ASSUME NEW reader \in NoReadType, reader.step \in {"saving", "deferring"},
               reader.key = tab[t].reader.key, reader.arg = due,
               reader.step = "saving" => reader.response \in Responses,
               Become(t, [page EXCEPT !.reader = reader])
        PROVE  Inv'
    <3>1. ReaderOK(reader, Known)
      BY <1>3, <2>4, <2>8 DEF ReaderOK
    <3>2. /\ PageOK([page EXCEPT !.reader = reader], Known)
          /\ Follows(page, [page EXCEPT !.reader = reader])
      BY <2>5, <2>8, <3>1, ReaderStepOK
    <3>3. Follows(tab[t], [page EXCEPT !.reader = reader])
      BY <2>5, <2>6, <3>2 DEF Follows
    <3> QED BY <1>1, <1>2, <2>8, <3>2, <3>3, BusyStep
  <2>9. CASE Become(t, StopRead(page))
    <3>1. PageOK(StopRead(page), Known) /\ Follows(page, StopRead(page))
          /\ StopRead(page).reader = NoRead
      BY <2>5, StopReadOK
    <3>2. Follows(tab[t], StopRead(page))
      BY <2>5, <2>6, <3>1 DEF Follows
    <3> QED BY <1>1, <2>9, <3>1, <3>2, BusyStep
  <2>10. ASSUME NEW response \in Responses, NEW owes \in BOOLEAN,
                Become(t, [page EXCEPT !.reader.step = "saving", !.reader.arg = page.job,
                                       !.reader.response = response, !.reader.owes = owes])
         PROVE  Inv'
    <3>1. PICK reader : reader = [tab[t].reader EXCEPT !.step = "saving", !.arg = due,
                                                      !.response = response, !.owes = owes]
      OBVIOUS
    <3>2. /\ reader \in NoReadType /\ reader.step = "saving" /\ reader.arg = due
          /\ reader.key = tab[t].reader.key /\ reader.response = response
      BY <1>3, <2>4, <3>1 DEF NoReadType, Reads
    <3>3. [page EXCEPT !.reader.step = "saving", !.reader.arg = page.job,
                       !.reader.response = response, !.reader.owes = owes]
             = [page EXCEPT !.reader = reader]
      BY <2>5, <3>1 DEF PageOK, PageType
    <3> QED BY <2>8, <2>10, <3>2, <3>3
  <2>11. CASE Become(t, [page EXCEPT !.reader.step = "deferring", !.reader.arg = page.job])
    <3>1. PICK reader : reader = [tab[t].reader EXCEPT !.step = "deferring", !.arg = due]
      OBVIOUS
    <3>2. /\ reader \in NoReadType /\ reader.step = "deferring" /\ reader.arg = due
          /\ reader.key = tab[t].reader.key
      BY <1>3, <2>4, <3>1 DEF NoReadType, Reads
    <3>3. [page EXCEPT !.reader.step = "deferring", !.reader.arg = page.job]
             = [page EXCEPT !.reader = reader]
      BY <2>5, <3>1 DEF PageOK, PageType
    <3> QED BY <2>8, <2>11, <3>2, <3>3
  <2>12. ASSUME NEW next \in Rejected(page), Become(t, next)
         PROVE  Inv'
    <3>1. ~page.stopped /\ page.reader.step # "none"
      BY <1>1, <1>5, <2>5 DEF Inactive
    <3>2. PageOK(next, Known) /\ Follows(page, next) /\ next.reader = NoRead
      BY <1>2, <2>5, <3>1, RejectedOK
    <3>3. Follows(tab[t], next)
      BY <2>5, <2>6, <3>2 DEF Follows
    <3> QED BY <1>1, <2>12, <3>2, <3>3, BusyStep
  <2> QED BY <2>7, <2>9, <2>10, <2>11, <2>12
<1> QED BY <1>4, <1>5, ZenonT(30) DEF Reply

-----------------------------------------------------------------------------
(* A run that collects: the steps with a write *)

(* What a read or a wait submits has been known and belongs to a run that  *)
(* is not complete.                                                        *)
LEMMA SubmitOK ==
    ASSUME Inv, NEW t \in Tabs, NEW job,
           \/ tab[t].reader.step \in {"clearing", "saving", "deferring"} /\ job = tab[t].reader.arg
           \/ tab[t].waiter.step \in {"setting", "clearing"} /\ job = tab[t].waiter.arg
    PROVE  /\ job \in Known /\ job \in ReportJob /\ job.status # "complete"
           /\ tab[t].phase = "collecting" => job.status = "running"
           /\ tab[t].reader.step # "none" \/ tab[t].waiter.step # "none"
<1>1. tab[t].reader.step # "none" \/ tab[t].waiter.step # "none"
  OBVIOUS
<1>2. PageOK(tab[t], Known)
  BY <1>1, BusyTab
<1> QED BY <1>1, <1>2 DEF PageOK, ReaderOK, WaiterOK, Known

(* The page with the job that the write returns. *)
Renewed(page, job) == [page EXCEPT !.job = job]

(* A run with the job that a write returned is as it was.                  *)
LEMMA RenewedOK ==
    ASSUME Inv, NEW t \in Tabs, tab[t].reader.step # "none" \/ tab[t].waiter.step # "none",
           NEW job, job.status # "complete", tab[t].phase = "collecting" => job.status = "running",
           StoreInv', Written(job), latest'.status = job.status, NEW saved, saved = latest'
    PROVE  LET next == Renewed(tab[t], saved) IN
           /\ PageOK(next, Known') /\ Closed(Known')
           /\ Running(next) \/ next.phase = "settling"
           /\ tab[t].phase = "collecting" => Running(next)
           /\ next.job = saved /\ next.phase = tab[t].phase /\ next.got = tab[t].got
           /\ next.stopped = tab[t].stopped /\ next.reader = tab[t].reader
           /\ next.waiter = tab[t].waiter
<1>1. PageOK(tab[t], Known) /\ StoreInv
  BY BusyTab
<1>2. Known \subseteq Known' /\ saved \in Known' /\ Closed(Known') /\ Known' \subseteq ReportJob
  BY <1>1, WrittenKnown DEF Known
<1>3. PICK S : S = Known'
  OBVIOUS
<1>4. PageOK(tab[t], S) /\ S \subseteq ReportJob /\ saved \in S
  BY <1>1, <1>2, <1>3, PageMono
<1>5. Running(tab[t]) \/ tab[t].phase = "settling"
  <2>1. CASE tab[t].reader.step # "none"
    BY <1>1, <2>1, ReadingOK
  <2>2. CASE tab[t].waiter.step # "none"
    BY <1>1, <2>2, WaitingOK
  <2> QED BY <2>1, <2>2
<1>6. \/ Running(tab[t]) /\ saved.status = "running"
      \/ tab[t].phase = "settling" /\ saved.status # "complete"
  BY <1>5 DEF Running
<1>7. tab[t].phase = "collecting" => Running(tab[t])
  BY <1>5
<1> QED BY <1>2, <1>3, <1>4, <1>6, <1>7, JobStepOK DEF Renewed, Running

(* What was received stays saved. *)
LEMMA KeptSaved ==
    ASSUME NEW old, GotSaved(old), NEW page, NEW S, PageOK(page, S), page.got = old.got,
           page.job.id = old.job.id, page.reader.key \in {None, old.reader.key},
           page.reader = old.reader \/ page.reader = NoRead \/ Unsaved(old), journal' = journal
    PROVE  GotSaved(page)'
<1>1. ASSUME page.reader.step \notin {"none", "lookup"} PROVE Unsaved(page)'
  <2>1. page.reader.key = old.reader.key
    BY <1>1, NothingOK DEF PageOK, ReaderOK
  <2>2. Unsaved(old)
    BY <1>1, NothingOK DEF GotSaved
  <2> QED BY <2>1, <2>2 DEF Unsaved, Entry
<1> QED BY <1>1 DEF GotSaved, Entry

(* The write of a run that collects or settles, and what the run does next. *)
LEMMA WorkStep ==
    ASSUME Inv, NEW t \in Tabs, tab[t].reader.step # "none" \/ tab[t].waiter.step # "none",
           NEW job \in ReportJob, job.status # "complete",
           tab[t].phase = "collecting" => job.status = "running",
           StoreInv', Written(job), latest'.revision = latest.revision + 1,
           latest'.status = job.status, UNCHANGED <<usedIds, lock, ghosts>>,
           NEW page, PageOK(page, Known'), GotSaved(page)', Become(t, page),
           page.phase = tab[t].phase, page.job.id = latest'.id,
           page.job.revision = latest'.revision, page.job.timings = latest'.timings
    PROVE  Inv'
<1>1. lock = t /\ tab[t].phase \in WithJob
  BY BusyTab
<1>2. ~Done' /\ latest' # NoJob /\ page.phase # "creating"
  BY <1>1 DEF Done, Written, WithJob
<1>3. Healthy(page) => Current(page)'
  <2>1. page.phase \in {"collecting", "settling"}
    BY BusyTab, NothingOK DEF PageOK, RestOK
  <2> QED BY <1>2, <2>1 DEF Healthy, Current
<1>4. LockMoves(t, page) /\ tab' = [tab EXCEPT ![t] = page]
  BY DEF LockMoves, Become
<1>5. \A ghost \in ghosts' : ghost \in ghosts
  OBVIOUS
<1> QED BY <1>1, <1>2, <1>3, <1>4, <1>5, WriteStep

(* The save of a wait commits or is refused.                               *)
LEMMA WaiterCommitInv ==
    ASSUME Inv, NEW t \in Tabs, WaiterCommit(t)
    PROVE  Inv'
<1>1. tab[t].waiter.step \in {"setting", "clearing"} /\ UNCHANGED <<lock, ghosts>>
  BY DEF WaiterCommit
<1>2. /\ PageOK(tab[t], Known) /\ StoreInv /\ PageStands(tab[t]) /\ now \in 0..MaxTime
  BY <1>1, BusyTab
<1>3. PICK job : job = tab[t].waiter.arg
  OBVIOUS
<1>4. /\ job \in ReportJob /\ job \in Known /\ job.status # "complete"
      /\ tab[t].phase = "collecting" => job.status = "running"
  BY <1>1, <1>3, SubmitOK
<1>5. CASE UNCHANGED stored /\ Become(t, StopWait(tab[t]))
  <2>1. /\ PageOK(StopWait(tab[t]), Known) /\ Follows(tab[t], StopWait(tab[t]))
        /\ StopWait(tab[t]).reader = tab[t].reader
    BY <1>2, StopWaitOK
  <2> QED BY <1>1, <1>5, <2>1, BusyStep
<1>6. CASE /\ Save(job) /\ usedIds' = usedIds
           /\ LET next == [tab[t] EXCEPT !.job = latest'] IN
              Become(t, IF next.waiter.step = "setting" THEN WaitUntilDue(next)
                                                        ELSE EndWait(next))
  <2>1. /\ StoreInv' /\ Written(job) /\ latest'.revision = latest.revision + 1
        /\ latest'.status = job.status /\ journal' = journal
    BY <1>2, <1>4, <1>6, SaveWrites
  <2>2. PICK saved : saved = latest'
    OBVIOUS
  <2>3. PICK next : next = Renewed(tab[t], saved)
    OBVIOUS
  <2>4. /\ PageOK(next, Known') /\ Closed(Known')
        /\ Running(next) \/ next.phase = "settling"
        /\ next.job = saved /\ next.phase = tab[t].phase /\ next.got = tab[t].got
        /\ next.reader = tab[t].reader
    BY <1>1, <1>4, <2>1, <2>2, <2>3, RenewedOK
  <2>5. PICK page \in {WaitUntilDue(next), EndWait(next)} : Become(t, page)
    BY <1>6, <2>2, <2>3 DEF Renewed
  <2>6. PICK S : S = Known'
    OBVIOUS
  <2>7. PageOK(page, S) /\ Follows(next, page) /\ page.reader = next.reader
    BY <1>2, <2>4, <2>5, <2>6, WaitUntilDueOK, EndWaitOK
  <2>8. latest'.id = tab[t].job.id
    BY <1>1, <2>1, BusyTab DEF Written, Known
  <2>9. GotSaved(page)'
    BY <1>2, <2>1, <2>2, <2>4, <2>7, <2>8, KeptSaved DEF PageStands, Follows
  <2> QED BY <1>1, <1>4, <1>6, <2>1, <2>2, <2>4, <2>5, <2>6, <2>7, <2>9, WorkStep DEF Follows
<1> QED BY <1>1, <1>3, <1>5, <1>6 DEF WaiterCommit, Saves, Refused

(* What a read submits, and when it may not. *)
LEMMA ReadFacts ==
    ASSUME Inv, NEW t \in Tabs, tab[t].reader.step \in {"clearing", "saving", "deferring"},
           NEW job, job = tab[t].reader.arg
    PROVE  /\ PageOK(tab[t], Known) /\ StoreInv /\ PageStands(tab[t]) /\ now \in 0..MaxTime
           /\ Running(tab[t]) /\ Unsaved(tab[t]) /\ tab[t].job \in Known
           /\ tab[t].reader \in NoReadType /\ tab[t].reader.key \in Keys
           /\ job \in ReportJob /\ job \in Known /\ job.status = "running"
           /\ job.id = tab[t].job.id
<1>1. tab[t].reader.step \notin {"none", "lookup"}
  OBVIOUS
<1>2. /\ PageOK(tab[t], Known) /\ StoreInv /\ PageStands(tab[t]) /\ now \in 0..MaxTime
      /\ tab[t].job \in Known /\ Unsaved(tab[t])
  BY <1>1, BusyTab, PastLookup
<1>3. Running(tab[t]) /\ tab[t].reader \in NoReadType /\ tab[t].reader.key \in Keys
  BY <1>1, <1>2, ReadingOK
<1>4. job \in ReportJob /\ job \in Known /\ job.status = "running"
  BY <1>3, SubmitOK DEF Running
<1> QED BY <1>2, <1>3, <1>4 DEF Known

(* The save of a read that clears a deadline commits or is refused.        *)
LEMMA ReaderClearsInv ==
    ASSUME Inv, NEW t \in Tabs, ReaderClears(t)
    PROVE  Inv'
<1>1. tab[t].reader.step = "clearing" /\ UNCHANGED <<lock, ghosts>>
  BY DEF ReaderClears
<1>2. PICK job : job = tab[t].reader.arg
  OBVIOUS
<1>3. /\ PageOK(tab[t], Known) /\ StoreInv /\ PageStands(tab[t])
      /\ Running(tab[t]) /\ Unsaved(tab[t]) /\ tab[t].job \in Known
      /\ tab[t].reader \in NoReadType /\ tab[t].reader.key \in Keys
      /\ job \in ReportJob /\ job.status = "running"
  BY <1>1, <1>2, ReadFacts
<1>4. CASE UNCHANGED stored /\ Become(t, StopRead(tab[t]))
  BY <1>1, <1>4, StopReadInv
<1>5. CASE /\ Save(job) /\ usedIds' = usedIds
           /\ Become(t, Fetch([tab[t] EXCEPT !.job = latest', !.reader.arg = None]))
  <2>1. /\ StoreInv' /\ Written(job) /\ latest'.revision = latest.revision + 1
        /\ latest'.status = job.status /\ journal' = journal
    BY <1>3, <1>5, SaveWrites
  <2>2. PICK saved, S : saved = latest' /\ S = Known'
    OBVIOUS
  <2>3. PICK next : next = Renewed(tab[t], saved)
    OBVIOUS
  <2>4. /\ PageOK(next, S) /\ Closed(S) /\ Running(next)
        /\ next.job = saved /\ next.phase = tab[t].phase /\ next.got = tab[t].got
        /\ next.reader = tab[t].reader
    BY <1>1, <1>3, <2>1, <2>2, <2>3, RenewedOK DEF Running
  <2>5. PICK reader : reader = [tab[t].reader EXCEPT !.step = "fetching", !.arg = None]
    OBVIOUS
  <2>6. /\ reader \in NoReadType /\ reader.step = "fetching" /\ reader.key = tab[t].reader.key
    BY <1>3, <2>5 DEF NoReadType, JobOrNone, Reads
  <2>7. PICK page \in {StopRead(next), [next EXCEPT !.reader = reader]} : Become(t, page)
    <3>1. PICK ready : ready = [tab[t] EXCEPT !.job = saved, !.reader.arg = None]
      OBVIOUS
    <3>2. StopRead(ready) = StopRead(next)
      <4>1. [ready EXCEPT !.reader = NoRead] = [next EXCEPT !.reader = NoRead]
        BY <1>3, <2>3, <3>1 DEF Renewed, PageOK, PageType
      <4> QED BY <4>1 DEF StopRead
    <3>3. [ready EXCEPT !.reader.step = "fetching"] = [next EXCEPT !.reader = reader]
      BY <1>3, <2>3, <2>5, <3>1, ZenonT(30) DEF Renewed, PageOK, PageType, NoReadType
    <3>4. Become(t, Fetch(ready))
      BY <1>5, <2>2, <3>1
    <3> QED BY <3>2, <3>3, <3>4 DEF Fetch
  <2>8. PageOK(page, S) /\ Follows(next, page)
    <3>1. ReaderOK(reader, S)
      BY <1>3, <2>6 DEF ReaderOK
    <3> QED BY <2>4, <2>6, <2>7, <3>1, StopReadOK, ReaderStepOK
  <2>9. latest'.id = tab[t].job.id
    BY <1>3, <2>1 DEF Written, Known
  <2>10. GotSaved(page)'
    <3>1. PICK old : old = tab[t]
      OBVIOUS
    <3>2. GotSaved(old) /\ Unsaved(old)
      BY <1>3, <3>1 DEF PageStands
    <3>3. /\ page.got = old.got /\ page.job.id = old.job.id
          /\ page.reader.key \in {None, old.reader.key}
      BY <2>2, <2>4, <2>8, <2>9, <3>1 DEF Follows
    <3> QED BY <2>1, <2>8, <3>2, <3>3, KeptSaved
  <2>11. /\ page.phase = tab[t].phase /\ page.job.id = latest'.id
         /\ page.job.revision = latest'.revision /\ page.job.timings = latest'.timings
    BY <2>2, <2>4, <2>8 DEF Follows
  <2>12. PageOK(page, Known') /\ tab[t].reader.step # "none" /\ job.status # "complete"
    BY <1>1, <1>3, <2>2, <2>8
  <2> QED BY <1>1, <1>3, <1>5, <2>1, <2>7, <2>10, <2>11, <2>12, WorkStep
<1> QED BY <1>1, <1>2, <1>4, <1>5 DEF ReaderClears, Saves, Refused

(* The save of a deadline that came with a reply commits or is refused.    *)
LEMMA ReaderDefersInv ==
    ASSUME Inv, NEW t \in Tabs, ReaderDefers(t)
    PROVE  Inv'
<1>1. tab[t].reader.step = "deferring" /\ UNCHANGED <<lock, ghosts>>
  BY DEF ReaderDefers
<1>2. PICK job : job = tab[t].reader.arg
  OBVIOUS
<1>3. /\ PageOK(tab[t], Known) /\ StoreInv /\ PageStands(tab[t]) /\ now \in 0..MaxTime
      /\ Running(tab[t]) /\ tab[t].job \in Known
      /\ job \in ReportJob /\ job.status = "running"
  BY <1>1, <1>2, ReadFacts
<1>4. CASE UNCHANGED stored /\ Become(t, StopRead(tab[t]))
  BY <1>1, <1>4, StopReadInv
<1>5. CASE /\ Save(job) /\ usedIds' = usedIds
           /\ LET page == [tab[t] EXCEPT !.job = latest'] IN
              \E next \in IF Inactive(page) THEN {StopRead(page)} ELSE Rejected(page) :
                  Become(t, next)
  <2>1. /\ StoreInv' /\ Written(job) /\ latest'.revision = latest.revision + 1
        /\ latest'.status = job.status /\ journal' = journal
    BY <1>3, <1>5, SaveWrites
  <2>2. PICK saved, S : saved = latest' /\ S = Known'
    OBVIOUS
  <2>3. PICK next : next = Renewed(tab[t], saved)
    OBVIOUS
  <2>4. /\ PageOK(next, S) /\ Closed(S) /\ Running(next)
        /\ next.job = saved /\ next.phase = tab[t].phase /\ next.got = tab[t].got
        /\ next.reader = tab[t].reader
    BY <1>1, <1>3, <2>1, <2>2, <2>3, RenewedOK DEF Running
  <2>5. \E page \in IF Inactive(next) THEN {StopRead(next)} ELSE Rejected(next) :
            Become(t, page)
    BY <1>5, <2>2, <2>3 DEF Renewed
  <2>6. PICK page : /\ Become(t, page)
                    /\ page = StopRead(next) \/ (~next.stopped /\ page \in Rejected(next))
    BY <2>5 DEF Inactive
  <2>7. PageOK(page, S) /\ Follows(next, page) /\ page.reader = NoRead
    BY <1>1, <1>3, <2>4, <2>6, StopReadOK, RejectedOK
  <2>8. latest'.id = tab[t].job.id
    BY <1>3, <2>1 DEF Written, Known
  <2>9. GotSaved(page)'
    <3>1. PICK old : old = tab[t]
      OBVIOUS
    <3>2. GotSaved(old)
      BY <1>3, <3>1 DEF PageStands
    <3>3. /\ page.got = old.got /\ page.job.id = old.job.id
          /\ page.reader.key \in {None, old.reader.key}
      BY <2>2, <2>4, <2>7, <2>8, <3>1 DEF Follows
    <3> QED BY <2>1, <2>7, <3>2, <3>3, KeptSaved
  <2>10. /\ page.phase = tab[t].phase /\ page.job.id = latest'.id
         /\ page.job.revision = latest'.revision /\ page.job.timings = latest'.timings
    BY <2>2, <2>4, <2>7 DEF Follows
  <2>11. PageOK(page, Known') /\ tab[t].reader.step # "none" /\ job.status # "complete"
    BY <1>1, <1>3, <2>2, <2>7
  <2> QED BY <1>1, <1>3, <1>5, <2>1, <2>6, <2>9, <2>10, <2>11, WorkStep
<1> QED BY <1>1, <1>2, <1>4, <1>5 DEF ReaderDefers, Saves, Refused

(* The response is in the journal before the collector has it. *)
LEMMA ReaderCheckpointsInv ==
    ASSUME Inv, NEW t \in Tabs, ReaderCheckpoints(t)
    PROVE  Inv'
<1>1. tab[t].reader.step = "saving" /\ UNCHANGED <<lock, ghosts>>
  BY DEF ReaderCheckpoints
<1>2. PICK job, key, response : job = tab[t].reader.arg /\ key = tab[t].reader.key
                                /\ response = tab[t].reader.response
  OBVIOUS
<1>3. /\ PageOK(tab[t], Known) /\ StoreInv /\ PageStands(tab[t])
      /\ Running(tab[t]) /\ Unsaved(tab[t]) /\ tab[t].job \in Known
      /\ job \in ReportJob /\ job.status = "running" /\ job.id = tab[t].job.id
      /\ key \in Keys
  BY <1>1, <1>2, ReadFacts
<1>4. response \in Responses
  BY <1>1, <1>2, <1>3 DEF PageOK, ReaderOK
<1>5. CASE UNCHANGED stored /\ Become(t, StopRead(tab[t]))
  BY <1>1, <1>5, StopReadInv
<1>6. CASE /\ Checkpoint(job, key, response) /\ usedIds' = usedIds
           /\ LET page == [tab[t] EXCEPT !.job = latest'] IN
              Become(t, IF Inactive(page) THEN StopRead(page) ELSE Received(page, response))
  <2>1. \A r \in Responses : Entry(job, key, r) \notin journal
    BY <1>2, <1>3 DEF Unsaved, Entry
  <2>2. /\ StoreInv' /\ Written(job) /\ latest'.revision = latest.revision + 1
        /\ latest'.status = job.status /\ Entry(job, key, response) \in journal'
    BY <1>3, <1>4, <1>6, <2>1, CheckpointWrites
  <2>3. PICK saved, S : saved = latest' /\ S = Known'
    OBVIOUS
  <2>4. PICK next : next = Renewed(tab[t], saved)
    OBVIOUS
  <2>5. /\ PageOK(next, S) /\ Closed(S) /\ Running(next)
        /\ next.job = saved /\ next.phase = tab[t].phase /\ next.got = tab[t].got
        /\ next.reader = tab[t].reader
    BY <1>1, <1>3, <2>2, <2>3, <2>4, RenewedOK DEF Running
  <2>6. PICK page \in {StopRead(next), Received(next, response)} : Become(t, page)
    BY <1>6, <2>3, <2>4 DEF Renewed
  <2>7. /\ PageOK(page, S) /\ page.phase = next.phase /\ page.reader = NoRead
        /\ page.job.id = next.job.id /\ page.job.revision = next.job.revision
        /\ page.job.timings = next.job.timings
        /\ page.got \in {next.got, [next.got EXCEPT ![key] = response]}
    <3>1. CASE page = StopRead(next)
      BY <2>5, <3>1, StopReadOK DEF Follows
    <3>2. CASE page = Received(next, response)
      <4>1. next.reader.step # "none" /\ next.reader.key = key
        BY <1>1, <1>2, <2>5
      <4>2. /\ PageOK(page, S) /\ page.phase = next.phase /\ page.job = next.job
            /\ page.reader = NoRead
            /\ page.got = [next.got EXCEPT ![next.reader.key] = response]
        BY <1>4, <2>5, <3>2, <4>1, ReceivedOK
      <4> QED BY <4>1, <4>2
    <3> QED BY <2>6, <3>1, <3>2
  <2>8. latest'.id = tab[t].job.id /\ journal \subseteq journal'
    BY <1>3, <2>2 DEF Written, Known
  <2>9. GotSaved(page)'
    <3>1. PICK old, after : old = tab[t] /\ after = journal'
      OBVIOUS
    <3>2. /\ page.job.id = old.job.id /\ job.id = old.job.id
          /\ page.got \in {old.got, [old.got EXCEPT ![key] = response]}
          /\ old.got \in [Keys -> Responses \cup {None}]
      BY <1>3, <2>3, <2>5, <2>7, <2>8, <3>1, PageFields DEF PageOK
    <3>3. ASSUME NEW k \in Keys, page.got[k] # None
          PROVE  Entry(page.job, k, page.got[k]) \in after
      <4>1. CASE page.got[k] = old.got[k]
        BY <1>3, <2>8, <3>1, <3>2, <3>3, <4>1 DEF PageStands, GotSaved, Entry
      <4>2. CASE page.got[k] # old.got[k]
        <5>1. k = key /\ page.got[k] = response
          BY <1>3, <3>2, <4>2
        <5> QED BY <2>2, <3>1, <3>2, <5>1 DEF Entry
      <4> QED BY <4>1, <4>2
    <3>4. \A k \in Keys : page.got[k] # None => Entry(page.job, k, page.got[k]) \in journal'
      BY <3>1, <3>3
    <3>5. page.reader.step = "none"
      BY <2>7, NothingOK
    <3> QED BY <3>4, <3>5 DEF GotSaved, Entry
  <2>10. /\ page.phase = tab[t].phase /\ page.job.id = latest'.id
         /\ page.job.revision = latest'.revision /\ page.job.timings = latest'.timings
    BY <2>3, <2>5, <2>7
  <2>11. PageOK(page, Known') /\ tab[t].reader.step # "none" /\ job.status # "complete"
    BY <1>1, <1>3, <2>3, <2>7
  <2> QED BY <1>1, <1>3, <1>6, <2>2, <2>6, <2>9, <2>10, <2>11, WorkStep
<1> QED BY <1>1, <1>2, <1>5, <1>6 DEF ReaderCheckpoints, Refused

-----------------------------------------------------------------------------
(* Every step *)

(* At first every page is closed.                                          *)
LEMMA InitInv == Init => Inv
<1> SUFFICES ASSUME Init PROVE Inv
  OBVIOUS
<1>1. StoreInv /\ StoreTypeOK
  BY StoreInitInv DEF Init, StoreInv
<1>2. /\ ghosts = {} /\ lock = None /\ None \notin Tabs
      /\ usedIds = IF latest = NoJob THEN {} ELSE {latest.id}
  BY NothingOK DEF Init
<1>3. latest # NoJob => latest.id \in JobIds
  BY <1>1 DEF StoreTypeOK, ReportJob
<1>4. "closed" \in Quiet /\ "closed" \notin Exclusive
  BY DEF Quiet, Phases, WithJob, WithArg, Exclusive
<1>5. ASSUME NEW t \in Tabs
      PROVE  tab[t] \in PageType /\ AtRest(tab[t]) /\ tab[t].phase = "closed"
  BY <1>4, PageAtRest DEF Init
<1>6. tab \in [Tabs -> PageType]
  <2>1. tab = [t \in Tabs |-> Page("closed", None)]
    BY DEF Init
  <2> QED BY <1>4, <2>1, PageAtRest
<1>7. TypeOK
  BY <1>1, <1>2, <1>3, <1>4, <1>5, <1>6 DEF TypeOK
<1>8. ASSUME NEW t \in Tabs PROVE TabOK(t)
  BY <1>5, RestStands DEF PageStands, TabOK, At
<1> QED BY <1>1, <1>2, <1>7, <1>8 DEF Inv

(* The steps of a run that collects. *)
LEMMA CollectingInv ==
    ASSUME Inv, NEW t \in Tabs, Collecting(t)
    PROVE  Inv'
BY AskInv, CollectorFailsInv, TakeReadInv, LookupInv, ReaderWakesInv, ReaderClearsInv, ReplyInv,
   ReaderCheckpointsInv, ReaderDefersInv, WaiterWakesInv, WaiterCommitInv DEF Collecting

(* What the program does by itself.                                        *)
LEMMA WorksInv ==
    ASSUME Inv, NEW t \in Tabs, Works(t)
    PROVE  Inv'
<1>1. CASE Hydrate(t) \/ Claim(t) \/ Normalize(t) \/ NormalizeCommit(t)
  BY <1>1, HydrateInv, ClaimInv, NormalizeInv, NormalizeCommitInv
<1>2. CASE StartLoad(t) \/ CreateCommit(t) \/ ResumeLoad(t) \/ OpenCommit(t)
  BY <1>2, StartLoadInv, CreateCommitInv, ResumeLoadInv, OpenCommitInv
<1>3. CASE Collecting(t)
  BY <1>3, CollectingInv
<1>4. CASE Finish(t) \/ FinishCommit(t) \/ Delivered(t) \/ DeliveryFailed(t)
  BY <1>4, FinishInv, FinishCommitInv, DeliveredInv, NormalizeCommitInv
<1>5. CASE Settle(t) \/ SettleCommit(t) \/ DiscardLoad(t) \/ DiscardCommit(t)
  BY <1>5, SettleInv, SettleCommitInv, DiscardLoadInv, DiscardCommitInv
<1> QED BY <1>1, <1>2, <1>3, <1>4, <1>5 DEF Works

(* A step that changes nothing. *)
LEMMA StutterInv ==
    ASSUME Inv, UNCHANGED vars
    PROVE  Inv'
<1>1. UNCHANGED storeVars /\ UNCHANGED <<lock, tab, ghosts, usedIds>>
      /\ latest' = latest /\ journal' = journal
  BY DEF vars, storeVars
<1>2. StoreInv' /\ StoreTypeOK'
  BY <1>1, IdleInv DEF Inv, StoreInv
<1>3. TypeOK'
  BY <1>1, <1>2 DEF Inv, TypeOK
<1>4. Known' = Known /\ (Done' <=> Done)
  BY <1>1 DEF Known, Done
<1>5. ASSUME NEW t \in Tabs PROVE TabOK(t)'
  BY <1>1, <1>4 DEF Inv, TabOK, At, GotSaved, Unsaved, Current
<1>6. ASSUME NEW ghost \in ghosts' PROVE GhostOK(ghost)'
  BY <1>1, <1>4 DEF Inv, GhostOK
<1> QED BY <1>1, <1>2, <1>3, <1>5, <1>6 DEF Inv

(* The invariant is inductive.                                             *)
LEMMA NextInv == Inv /\ [Next]_vars => Inv'
<1> SUFFICES ASSUME Inv, [Next]_vars PROVE Inv'
  OBVIOUS
<1>1. ASSUME NEW t \in Tabs, Open(t) \/ Begin(t) \/ Discard(t) \/ Abort(t) \/ Crash(t)
      PROVE  Inv'
  BY <1>1, OpenInv, BeginInv, AbortInv, CrashInv
<1>2. ASSUME NEW t \in Tabs, Works(t) PROVE Inv'
  BY <1>2, WorksInv
<1>3. CASE GhostStep
  BY <1>3, GhostStepInv
<1>4. CASE Tick /\ UNCHANGED <<lock, tab, ghosts, usedIds>>
  BY <1>4, TickStep
<1>5. CASE UNCHANGED vars
  BY <1>5, StutterInv
<1> QED BY <1>1, <1>2, <1>3, <1>4, <1>5 DEF Next

-----------------------------------------------------------------------------
(* The types, and the lock: exactly the tab inside of runExclusive holds   *)
(* it, whichever tabs are closed, paused or crash meanwhile.               *)
THEOREM CollectionTypes == Spec => []TypeOK
<1>1. Inv => TypeOK
  BY DEF Inv
<1> QED BY <1>1, InitInv, NextInv, PTL DEF Spec

(* Whatever a collector has received is in the journal: no crash, pause or *)
(* failure takes back a read the report is built from.                     *)
THEOREM CollectedCorrect == Spec => []CollectedIsSaved
<1>1. Inv => CollectedIsSaved
  BY DEF Inv, TabOK, GotSaved, Entry, CollectedIsSaved
<1> QED BY <1>1, InitInv, NextInv, PTL DEF Spec

(* The saved job does not move under a run that goes on: it has the        *)
(* revision and the counters the run saw last.                             *)
THEOREM CurrentCorrect == Spec => []CollectorIsCurrent
<1>1. Inv => CollectorIsCurrent
  BY DEF Inv, TabOK, Healthy, Current, CollectorIsCurrent, At
<1> QED BY <1>1, InitInv, NextInv, PTL DEF Spec

(* A journal with an entry for every key, and only one for a key, has as   *)
(* many entries as there are keys, in the two APIs together.               *)
LEMMA JournalSize ==
    ASSUME StoreInv, latest # NoJob, NEW got \in [Keys -> Responses],
           journal = {Entry(latest, key, got[key]) : key \in Keys}
    PROVE  latest.completedRequests = Cardinality(Keys)
<1>1. /\ IsFiniteSet(journal) /\ journal \in SUBSET JournalEntry
      /\ \A api \in Apis : latest.timings[api] = Cardinality(EntriesOf(api))
      /\ latest.completedRequests = latest.timings["v2"] + latest.timings["v3"]
  BY DEF StoreInv, StoreTypeOK, CountersMatchJournal
<1>2. /\ journal = EntriesOf("v2") \cup EntriesOf("v3")
      /\ EntriesOf("v2") \cap EntriesOf("v3") = {}
      /\ EntriesOf("v2") \subseteq journal /\ EntriesOf("v3") \subseteq journal
  BY <1>1, StoreConstants DEF EntriesOf, JournalEntry, Apis
<1>3. IsFiniteSet(EntriesOf("v2")) /\ IsFiniteSet(EntriesOf("v3"))
  BY <1>1, <1>2, FS_Subset
<1>4. Cardinality(journal) = Cardinality(EntriesOf("v2")) + Cardinality(EntriesOf("v3"))
  <2>1. Cardinality(journal) = Cardinality(EntriesOf("v2")) + Cardinality(EntriesOf("v3"))
            - Cardinality(EntriesOf("v2") \cap EntriesOf("v3"))
    BY <1>2, <1>3, FS_Union
  <2>2. Cardinality(EntriesOf("v2") \cap EntriesOf("v3")) = 0
    BY <1>2, FS_EmptySet
  <2>3. Cardinality(EntriesOf("v2")) \in Nat /\ Cardinality(EntriesOf("v3")) \in Nat
    BY <1>3, FS_CardinalityType
  <2> QED BY <2>1, <2>2, <2>3
<1>5. Cardinality(journal) = Cardinality(Keys)
  <2> DEFINE f == [entry \in journal |-> entry.key]
  <2>1. \A key \in Keys : Entry(latest, key, got[key]).key = key
    BY DEF Entry
  <2>2. f \in [journal -> Keys] /\ \A key \in Keys : \E entry \in journal : f[entry] = key
    BY <2>1
  <2>3. \A a, b \in journal : f[a] = f[b] => a = b
    BY <2>1
  <2>4. f \in Bijection(journal, Keys)
    BY <2>2, <2>3 DEF Bijection, Injection, Surjection, IsInjective
  <2>5. ExistsBijection(journal, Keys)
    BY <2>4 DEF ExistsBijection
  <2> QED BY <1>1, <2>5, FS_Bijection
<1> QED BY <1>1, <1>4, <1>5 DEF Apis

(* Results are delivered for a job that is saved as complete, and they are *)
(* its whole journal.                                                      *)
THEOREM ResultsCorrect == Spec => []ResultsAreComplete
<1>1. Inv => ResultsAreComplete
  <2> SUFFICES ASSUME Inv, NEW t \in Tabs, tab[t].phase = "delivering"
               PROVE  /\ latest # NoJob
                      /\ latest.status = "complete"
                      /\ latest.completedRequests = Cardinality(Keys)
                      /\ journal = {[jobId |-> latest.id, key |-> key, response |-> tab[t].got[key]] :
                                        key \in Keys}
    BY DEF ResultsAreComplete, At
  <2>1. PageOK(tab[t], Known) /\ GotSaved(tab[t]) /\ Current(tab[t]) /\ StoreInv
    BY DEF Inv, TabOK, Healthy
  <2>2. latest # NoJob /\ latest.status = "complete" /\ latest.id = tab[t].job.id
    BY <2>1 DEF Current
  <2>3. tab[t].got \in [Keys -> Responses \cup {None}] /\ \A key \in Keys : tab[t].got[key] # None
    BY <2>1, PageFields DEF PageOK, RestOK
  <2>4. tab[t].got \in [Keys -> Responses]
    BY <2>3
  <2>5. \A key \in Keys : Entry(latest, key, tab[t].got[key]) \in journal
    BY <2>1, <2>2, <2>3 DEF GotSaved, Entry
  <2>6. ASSUME NEW entry \in journal
        PROVE  entry.key \in Keys /\ entry = Entry(latest, entry.key, tab[t].got[entry.key])
    <3>1. entry.key \in Keys
      BY <2>1 DEF StoreInv, StoreTypeOK, JournalEntry
    <3>2. Entry(latest, entry.key, tab[t].got[entry.key]).key = entry.key
      BY DEF Entry
    <3> QED BY <2>1, <2>2, <2>5, <3>1, <3>2 DEF StoreInv, CountersMatchJournal
  <2>7. journal = {Entry(latest, key, tab[t].got[key]) : key \in Keys}
    BY <2>5, <2>6
  <2>8. latest.completedRequests = Cardinality(Keys)
    BY <2>1, <2>2, <2>4, <2>7, JournalSize
  <2> QED BY <2>2, <2>7, <2>8 DEF Entry
<1> QED BY <1>1, InitInv, NextInv, PTL DEF Spec

-----------------------------------------------------------------------------
(* What the tabs do to the store *)

(* Every page is closed, and no wait is left behind. *)
Asleep == ghosts = {} /\ \A t \in Tabs : At(t, "closed")

(* A write of a job that was once the saved one: by a run, or by a wait    *)
(* that outlived its run.                                                  *)
Writes ==
    /\ \E job \in Known :
           \/ Save(job)
           \/ \E key \in Keys, response \in Responses : Checkpoint(job, key, response)
    /\ usedIds' = usedIds

Creates ==
    \E t \in Tabs, id \in JobIds, connection \in Connections :
        /\ id \notin usedIds
        /\ latest # NoJob => Done
        /\ Create(NewJob(id, connection, NoDeadline))
        /\ usedIds' = usedIds \cup {id}

Deletes ==
    /\ \E t \in Tabs : At(t, "deleting") /\ Delete(tab[t].seen)
    /\ usedIds' = usedIds

StoreStep ==
    \/ UNCHANGED stored
    \/ ~Asleep /\ (Writes \/ Creates \/ Deletes)
    \/ Tick /\ UNCHANGED <<lock, tab, ghosts, usedIds>>

(* What is known of the history: it remembers the saved job as soon as a   *)
(* page is open.                                                           *)
HistoryInv ==
    /\ Inv
    /\ returned \in SUBSET ReportJob
    /\ \A job \in returned : job.id \in usedIds
    /\ latest # NoJob => Asleep \/ Clients!Snapshot(latest) \in returned

(* What the store accepts was read from it.                                *)
LEMMA SubmitKnown ==
    ASSUME NEW job \in ReportJob,
           \/ Save(job)
           \/ \E key \in Keys, response \in Responses : Checkpoint(job, key, response)
    PROVE  job \in Known
<1>1. IsCurrent(job)
  BY DEF Save, Checkpoint, CheckpointNew, CheckpointAgain
<1> QED BY <1>1 DEF IsCurrent, Known, ReportJob

(* A page that is at work is open. *)
LEMMA AwakeOK ==
    ASSUME Inv, NEW t \in Tabs,
           tab[t].phase # "closed" \/ tab[t].reader.step # "none" \/ tab[t].waiter.step # "none"
    PROVE  ~Asleep
<1>1. tab[t].phase # "closed"
  BY BusyTab DEF WithJob
<1> QED BY <1>1 DEF Asleep, At

(* A save by an open page is a write.                                      *)
LEMMA SavesStep ==
    ASSUME Inv, ~Asleep, NEW job \in ReportJob, Saves(job) \/ Refused
    PROVE  StoreStep
BY SubmitKnown DEF Saves, Refused, StoreStep, Writes

(* The final saves of a run, and its first. *)
LEMMA ArgStep ==
    ASSUME Inv, NEW t \in Tabs, tab[t].phase \in WithArg, Saves(tab[t].arg) \/ Refused
    PROVE  StoreStep
<1>1. tab[t].arg \in ReportJob
  BY TabFacts DEF PageStands, PageOK, JobsOK, Known
<1>2. ~Asleep
  BY AwakeOK DEF WithArg
<1> QED BY <1>1, <1>2, SavesStep

(* The job that a start creates has an id that was never used.             *)
LEMMA CreateStoreStep ==
    ASSUME Inv, NEW t \in Tabs, CreateCommit(t)
    PROVE  StoreStep
<1>1. At(t, "creating") /\ ~Asleep
  BY AwakeOK DEF CreateCommit, At
<1>2. PICK id \in JobIds, connection \in Connections :
          tab[t].arg = NewJob(id, connection, NoDeadline)
  BY <1>1, TabFacts DEF PageStands, PageOK, JobsOK, At
<1>3. tab[t].arg.id = id
  BY <1>2 DEF NewJob
<1>4. id \notin usedIds /\ (latest # NoJob => Done)
  BY <1>1, <1>3 DEF Inv, TabOK
<1>5. CASE Create(tab[t].arg) /\ usedIds' = usedIds \cup {tab[t].arg.id}
  <2>1. Creates
    BY <1>2, <1>3, <1>4, <1>5 DEF Creates
  <2> QED BY <1>1, <2>1 DEF StoreStep
<1>6. CASE Refused
  BY <1>6 DEF StoreStep, Refused
<1> QED BY <1>5, <1>6 DEF CreateCommit

(* A job is deleted by a page in its discard, and by nothing else.         *)
LEMMA DeleteStoreStep ==
    ASSUME Inv, NEW t \in Tabs, DiscardCommit(t)
    PROVE  StoreStep
<1>1. At(t, "deleting") /\ ~Asleep
  BY AwakeOK DEF DiscardCommit, At
<1>2. CASE Delete(tab[t].seen) /\ UNCHANGED usedIds
  BY <1>1, <1>2 DEF StoreStep, Deletes
<1>3. CASE UNCHANGED stored
  BY <1>3 DEF StoreStep
<1> QED BY <1>2, <1>3 DEF DiscardCommit, Refused

(* The saves of a read and of a wait, and the checkpoint, are writes.      *)
LEMMA SubmitStep ==
    ASSUME Inv, NEW t \in Tabs,
           WaiterCommit(t) \/ ReaderClears(t) \/ ReaderCheckpoints(t) \/ ReaderDefers(t)
    PROVE  StoreStep
<1>1. CASE WaiterCommit(t)
  <2>1. tab[t].waiter.arg \in ReportJob /\ ~Asleep
    BY <1>1, SubmitOK, AwakeOK DEF WaiterCommit
  <2> QED BY <1>1, <2>1, SavesStep DEF WaiterCommit
<1>2. CASE ReaderClears(t)
  <2>1. tab[t].reader.arg \in ReportJob /\ ~Asleep
    BY <1>2, SubmitOK, AwakeOK DEF ReaderClears
  <2> QED BY <1>2, <2>1, SavesStep DEF ReaderClears
<1>3. CASE ReaderDefers(t)
  <2>1. tab[t].reader.arg \in ReportJob /\ ~Asleep
    BY <1>3, SubmitOK, AwakeOK DEF ReaderDefers
  <2> QED BY <1>3, <2>1, SavesStep DEF ReaderDefers
<1>4. CASE ReaderCheckpoints(t)
  <2>1. tab[t].reader.step = "saving"
    BY <1>4 DEF ReaderCheckpoints
  <2>2. /\ tab[t].reader.arg \in ReportJob /\ ~Asleep
        /\ tab[t].reader.key \in Keys /\ tab[t].reader.response \in Responses
    BY <2>1, SubmitOK, AwakeOK, BusyTab DEF PageOK, ReaderOK
  <2>3. CASE /\ Checkpoint(tab[t].reader.arg, tab[t].reader.key, tab[t].reader.response)
             /\ UNCHANGED usedIds
    <3>1. tab[t].reader.arg \in Known
      BY <2>2, <2>3, SubmitKnown
    <3> QED BY <2>2, <2>3, <3>1 DEF StoreStep, Writes
  <2>4. CASE Refused
    BY <2>4 DEF Refused, StoreStep
  <2> QED BY <1>4, <2>3, <2>4 DEF ReaderCheckpoints
<1> QED BY <1>1, <1>2, <1>3, <1>4

(* The other steps only read. *)
LEMMA QuietStep ==
    ASSUME NEW t \in Tabs,
           \/ Open(t) \/ Begin(t) \/ Discard(t) \/ Abort(t) \/ Crash(t)
           \/ Hydrate(t) \/ Claim(t) \/ Normalize(t) \/ StartLoad(t) \/ ResumeLoad(t)
           \/ Ask(t) \/ CollectorFails(t) \/ TakeRead(t) \/ Lookup(t) \/ ReaderWakes(t)
           \/ Reply(t) \/ WaiterWakes(t) \/ Finish(t) \/ Delivered(t) \/ Settle(t)
           \/ DiscardLoad(t)
    PROVE  StoreStep
<1>1. UNCHANGED stored
  <2>1. CASE Open(t) \/ Begin(t) \/ Discard(t) \/ Abort(t) \/ Crash(t)
    BY <2>1 DEF Open, Begin, Discard, Abort, Crash
  <2>2. CASE Hydrate(t) \/ Claim(t) \/ Normalize(t) \/ StartLoad(t) \/ ResumeLoad(t)
    BY <2>2 DEF Hydrate, Claim, Normalize, StartLoad, ResumeLoad, Loads, Refused
  <2>3. CASE Ask(t) \/ CollectorFails(t) \/ TakeRead(t) \/ Lookup(t) \/ ReaderWakes(t)
    BY <2>3 DEF Ask, CollectorFails, TakeRead, Lookup, ReaderWakes
  <2>4. CASE Reply(t) \/ WaiterWakes(t) \/ Finish(t) \/ Delivered(t) \/ Settle(t)
             \/ DiscardLoad(t)
    BY <2>4 DEF Reply, WaiterWakes, Finish, Delivered, Settle, DiscardLoad, Loads, Refused
  <2> QED BY <2>1, <2>2, <2>3, <2>4
<1> QED BY <1>1 DEF StoreStep

(* The save of a wait that was left behind is a write.                     *)
LEMMA GhostStoreStep ==
    ASSUME Inv, GhostStep
    PROVE  StoreStep
<1>1. PICK ghost \in ghosts :
          \/ ghost.saving /\ (Saves(ghost.job) \/ Refused)
          \/ UNCHANGED stored
  BY DEF GhostStep
<1>2. ghost.job \in ReportJob /\ ~Asleep
  BY DEF Inv, TypeOK, Asleep
<1>3. CASE Saves(ghost.job) \/ Refused
  BY <1>2, <1>3, SavesStep
<1>4. CASE UNCHANGED stored
  BY <1>4 DEF StoreStep
<1> QED BY <1>1, <1>3, <1>4

(* Every step does one of these things with the store.                     *)
LEMMA StoreSteps == Inv /\ [Next]_vars => StoreStep
<1> SUFFICES ASSUME Inv, [Next]_vars PROVE StoreStep
  OBVIOUS
<1>1. ASSUME NEW t \in Tabs, Works(t) PROVE StoreStep
  <2>1. CASE NormalizeCommit(t) \/ OpenCommit(t) \/ FinishCommit(t) \/ DeliveryFailed(t)
             \/ SettleCommit(t)
    <3>1. tab[t].phase \in WithArg /\ (Saves(tab[t].arg) \/ Refused)
      BY <2>1 DEF NormalizeCommit, OpenCommit, FinishCommit, DeliveryFailed, SettleCommit,
                  At, WithArg
    <3> QED BY <3>1, ArgStep
  <2>2. CASE CreateCommit(t) \/ DiscardCommit(t)
    BY <2>2, CreateStoreStep, DeleteStoreStep
  <2>3. CASE WaiterCommit(t) \/ ReaderClears(t) \/ ReaderCheckpoints(t) \/ ReaderDefers(t)
    BY <2>3, SubmitStep
  <2> QED BY <1>1, <2>1, <2>2, <2>3, QuietStep DEF Works, Collecting
<1>2. ASSUME NEW t \in Tabs, Open(t) \/ Begin(t) \/ Discard(t) \/ Abort(t) \/ Crash(t)
      PROVE  StoreStep
  BY <1>2, QuietStep
<1>3. CASE GhostStep
  BY <1>3, GhostStoreStep
<1>4. CASE Tick /\ UNCHANGED <<lock, tab, ghosts, usedIds>>
  BY <1>4 DEF StoreStep
<1>5. CASE UNCHANGED vars
  BY <1>5 DEF vars, stored, StoreStep
<1> QED BY <1>1, <1>2, <1>3, <1>4, <1>5 DEF Next

(* An unfinished job leaves the store only when a page that shows it       *)
(* discards it: neither a start in another tab nor a late save takes it.   *)
THEOREM UnfinishedCorrect == Spec => UnfinishedKept
<1>1. ASSUME Inv, [Next]_vars PROVE LeavesByDiscard
  <2> SUFFICES ASSUME latest # NoJob, latest.status # "complete"
               PROVE  \/ latest' # NoJob /\ latest'.id = latest.id
                      \/ \E t \in Tabs : At(t, "deleting") /\ tab[t].seen = latest.id
    BY DEF LeavesByDiscard
  <2>1. CASE UNCHANGED stored \/ Tick
    BY <2>1 DEF stored, storeVars, Tick
  <2>2. CASE Writes
    <3>1. PICK job \in Known :
              \/ Save(job)
              \/ \E key \in Keys, response \in Responses : Checkpoint(job, key, response)
      BY <2>2 DEF Writes
    <3>2. job \in ReportJob /\ StoreInv
      BY <1>1 DEF Known, Inv
    <3>3. Written(job)
      BY <3>1, <3>2, SaveWrites, CheckpointWrites
    <3> QED BY <3>3 DEF Written
  <2>3. CASE Creates
    BY <2>3 DEF Creates, Done
  <2>4. CASE Deletes
    BY <2>4 DEF Deletes, Delete
  <2> QED BY <1>1, <2>1, <2>2, <2>3, <2>4, StoreSteps DEF StoreStep
<1> QED BY <1>1, InitInv, NextInv, PTL DEF Spec, UnfinishedKept

-----------------------------------------------------------------------------
(* The tabs are clients of the store *)

(* The store of the clients is the store of the tabs. *)
LEMMA SameStore ==
    /\ Clients!StoreInit <=> StoreInit
    /\ Clients!Tick <=> Tick
    /\ Clients!Loaded = Loaded
    /\ \A job : Clients!Create(job) <=> Create(job)
    /\ \A job : Clients!Save(job) <=> Save(job)
    /\ \A job, key, response :
           Clients!Checkpoint(job, key, response) <=> Checkpoint(job, key, response)
    /\ \A id : Clients!Delete(id) <=> Delete(id)
    /\ \A id, connection, deadline :
           Clients!NewJob(id, connection, deadline) = NewJob(id, connection, deadline)
<1>1. /\ \A job, table, previous :
             Clients!WithConnectionThrottle(job, table, previous) =
             WithConnectionThrottle(job, table, previous)
      /\ \A table, job : Clients!Persist(table, job) = Persist(table, job)
      /\ \A job : Clients!NextRevision(job) = NextRevision(job)
      /\ \A job : Clients!IsCurrent(job) <=> IsCurrent(job)
      /\ \A job : Clients!IsNewJob(job) <=> IsNewJob(job)
      /\ \A id, key : Clients!SavedEntries(id, key) = SavedEntries(id, key)
      /\ \A response : Clients!HasCapacity(response) <=> HasCapacity(response)
      /\ Clients!NoDeadline = NoDeadline
      /\ Clients!Deadlines = Deadlines
  BY DEF Clients!WithConnectionThrottle, WithConnectionThrottle, Clients!Live, Live,
         Clients!Later, Later, Clients!Persist, Persist, Clients!NextRevision, NextRevision,
         Clients!IsCurrent, IsCurrent, Clients!IsNewJob, IsNewJob, Clients!SavedEntries,
         SavedEntries, Clients!HasCapacity, HasCapacity, Clients!NoDeadline, NoDeadline,
         Clients!Apis, Apis, Clients!Deadlines, Deadlines
<1>2. \A id, connection, deadline :
          Clients!NewJob(id, connection, deadline) = NewJob(id, connection, deadline)
  BY DEF Clients!NewJob, NewJob, Clients!Apis, Apis
<1>3. Clients!StoreInit <=> StoreInit
  BY <1>1, <1>2 DEF Clients!StoreInit, StoreInit
<1>4. Clients!Tick <=> Tick
  BY DEF Clients!Tick, Tick
<1>5. Clients!Loaded = Loaded /\ Clients!CarriedThrottles = CarriedThrottles
  BY <1>1 DEF Clients!Loaded, Loaded, Clients!CarriedThrottles, CarriedThrottles
<1>6. \A job : Clients!Create(job) <=> Create(job)
  BY <1>1, <1>5 DEF Clients!Create, Create, Clients!Created, Created
<1>7. \A job : Clients!Save(job) <=> Save(job)
  BY <1>1 DEF Clients!Save, Save, Clients!Saved, Saved
<1>8. \A job, key, response :
          Clients!CheckpointNew(job, key, response) <=> CheckpointNew(job, key, response)
  <2>1. \A job, key, response :
            Clients!Checkpointed(job, key, response) = Checkpointed(job, key, response)
    <3> SUFFICES ASSUME NEW job, NEW key, NEW response
                 PROVE  Clients!Checkpointed(job, key, response) = Checkpointed(job, key, response)
      OBVIOUS
    <3>1. Clients!NextRevision(job) = NextRevision(job)
      BY <1>1
    <3> QED BY <1>1, <3>1, Zenon DEF Clients!Checkpointed, Checkpointed
  <2> QED BY <1>1, <2>1 DEF Clients!CheckpointNew, CheckpointNew
<1>9. \A job, key, response :
          Clients!CheckpointAgain(job, key, response) <=> CheckpointAgain(job, key, response)
  BY <1>1 DEF Clients!CheckpointAgain, CheckpointAgain, Clients!AfterRecovery, AfterRecovery,
              Clients!Recovered, Recovered
<1>10. \A job, key, response :
           Clients!Checkpoint(job, key, response) <=> Checkpoint(job, key, response)
  BY <1>8, <1>9 DEF Clients!Checkpoint, Checkpoint
<1>11. \A id : Clients!Delete(id) <=> Delete(id)
  BY <1>5 DEF Clients!Delete, Delete
<1> QED BY <1>2, <1>3, <1>4, <1>5, <1>6, <1>7, <1>10, <1>11

(* A snapshot is a job without what a client may change. *)
LEMMA SnapshotOK ==
    ASSUME NEW job \in ReportJob
    PROVE  /\ Clients!Snapshot(job) \in ReportJob /\ Clients!Snapshot(job).id = job.id
           /\ \A deadline :
                  Clients!Snapshot([job EXCEPT !.retryAt = deadline]) = Clients!Snapshot(job)
           /\ \A other \in ReportJob :
                  /\ other.id = job.id /\ other.revision = job.revision
                  /\ other.connectionKey = job.connectionKey
                  /\ other.completedRequests = job.completedRequests
                  /\ other.savedBytes = job.savedBytes /\ other.timings = job.timings
                  => other = Clients!Changed(Clients!Snapshot(job), other.status, other.retryAt)
<1>1. NoDeadline \in Deadlines /\ "paused" \in Statuses
  BY StoreConstants DEF NoDeadline, Deadlines, Statuses
<1>2. Clients!Snapshot(job) = [job EXCEPT !.status = "paused", !.retryAt = NoDeadline]
  BY DEF Clients!Snapshot, Clients!Changed, Clients!NoDeadline, NoDeadline
<1>3. Clients!Snapshot(job) \in ReportJob /\ Clients!Snapshot(job).id = job.id
  BY <1>1, <1>2 DEF ReportJob
<1>4. ASSUME NEW deadline
      PROVE  Clients!Snapshot([job EXCEPT !.retryAt = deadline]) = Clients!Snapshot(job)
  BY DEF Clients!Snapshot, Clients!Changed, ReportJob
<1>5. ASSUME NEW other \in ReportJob,
             other.id = job.id, other.revision = job.revision,
             other.connectionKey = job.connectionKey,
             other.completedRequests = job.completedRequests,
             other.savedBytes = job.savedBytes, other.timings = job.timings
      PROVE  other = Clients!Changed(Clients!Snapshot(job), other.status, other.retryAt)
  <2>1. Clients!Changed(Clients!Snapshot(job), other.status, other.retryAt) =
            [job EXCEPT !.status = other.status, !.retryAt = other.retryAt]
    BY DEF Clients!Snapshot, Clients!Changed, ReportJob
  <2> DEFINE same == [job EXCEPT !.status = other.status, !.retryAt = other.retryAt]
  <2>2. /\ same \in ReportJob
        /\ same.id = job.id /\ same.revision = job.revision
        /\ same.connectionKey = job.connectionKey
        /\ same.completedRequests = job.completedRequests
        /\ same.savedBytes = job.savedBytes /\ same.timings = job.timings
        /\ same.status = other.status /\ same.retryAt = other.retryAt
    BY DEF ReportJob
  <2> HIDE DEF same
  <2>3. other = same
    BY <1>5, <2>2 DEF ReportJob
  <2> QED BY <2>1, <2>3 DEF same
<1> QED BY <1>3, <1>4, <1>5

(* The history starts empty, with every page closed. *)
LEMMA HistoryInitInv == HistoryInit => HistoryInv
BY InitInv DEF HistoryInit, HistoryInv, Init, Asleep, At, Page

(* What a step of the history hands out. *)
LEMMA RememberOK ==
    ASSUME Remember
    PROVE  /\ latest' = NoJob \/ now' # now => returned' = returned
           /\ latest' # NoJob /\ now' = now => Clients!HandOut(latest')
BY DEF Remember

(* A step that is not a tick keeps the invariant, when the ids of the jobs *)
(* that were saved before are used.                                        *)
LEMMA HistoryStep ==
    ASSUME HistoryInv, Inv', Remember, usedIds \subseteq usedIds', now' = now
    PROVE  HistoryInv'
<1>1. CASE latest' = NoJob
  BY <1>1 DEF HistoryInv, Remember
<1>2. CASE latest' # NoJob
  <2>1. latest' \in ReportJob /\ latest'.id \in usedIds'
    BY <1>2 DEF Inv, StoreInv, StoreTypeOK
  <2>2. PICK saved : saved = latest'
    OBVIOUS
  <2>3. Clients!Snapshot(saved) \in ReportJob /\ Clients!Snapshot(saved).id = saved.id
    BY <2>1, <2>2, SnapshotOK
  <2>4. returned' = returned \cup {Clients!Snapshot(saved)}
    BY <1>2, <2>2, RememberOK DEF Clients!HandOut
  <2>5. returned' \in SUBSET ReportJob /\ \A job \in returned' : job.id \in usedIds'
    BY <2>1, <2>2, <2>3, <2>4 DEF HistoryInv
  <2>6. Clients!Snapshot(latest)' = Clients!Snapshot(saved)
    BY <2>2 DEF Clients!Snapshot, Clients!Changed
  <2> QED BY <2>4, <2>5, <2>6 DEF HistoryInv
<1> QED BY <1>1, <1>2

(* The invariant of the history is inductive.                              *)
LEMMA HistoryNextInv == HistoryInv /\ [HistoryNext]_historyVars => HistoryInv'
<1> SUFFICES ASSUME HistoryInv, [HistoryNext]_historyVars PROVE HistoryInv'
  OBVIOUS
<1>1. Inv /\ [Next]_vars
  BY DEF HistoryInv, HistoryNext, historyVars
<1>2. Inv' /\ StoreStep /\ now \in Nat
  BY <1>1, NextInv, StoreSteps, StoreConstants DEF Inv, StoreInv, StoreTypeOK
<1>3. CASE UNCHANGED historyVars
  <2>1. /\ UNCHANGED <<latest, tab, ghosts, usedIds, returned>>
    BY <1>3 DEF historyVars, vars, storeVars
  <2>2. Clients!Snapshot(latest)' = Clients!Snapshot(latest)
    BY <2>1 DEF Clients!Snapshot, Clients!Changed
  <2> QED BY <1>2, <2>1, <2>2 DEF HistoryInv, Asleep, At
<1>4. CASE HistoryNext /\ Tick /\ UNCHANGED <<lock, tab, ghosts, usedIds>>
  <2>1. now' # now /\ latest' = latest
    BY <1>2, <1>4 DEF Tick
  <2>2. returned' = returned
    BY <1>4, <2>1, RememberOK DEF HistoryNext
  <2>3. Clients!Snapshot(latest)' = Clients!Snapshot(latest)
    BY <2>1 DEF Clients!Snapshot, Clients!Changed
  <2> QED BY <1>2, <1>4, <2>1, <2>2, <2>3 DEF HistoryInv, Asleep, At
<1>5. CASE HistoryNext /\ (UNCHANGED stored \/ Writes \/ Creates \/ Deletes)
  <2>1. usedIds \subseteq usedIds' /\ now' = now
    <3>1. CASE UNCHANGED stored
      BY <3>1 DEF stored, storeVars
    <3>2. CASE Writes
      BY <3>2 DEF Writes, Save, Checkpoint, CheckpointNew, CheckpointAgain
    <3>3. CASE Creates
      BY <3>3 DEF Creates, Create
    <3>4. CASE Deletes
      BY <3>4 DEF Deletes, Delete
    <3> QED BY <1>5, <3>1, <3>2, <3>3, <3>4
  <2> QED BY <1>2, <1>5, <2>1, HistoryStep DEF HistoryNext
<1> QED BY <1>2, <1>3, <1>4, <1>5 DEF StoreStep

(* A write by a tab is a write by a client that holds a snapshot of the    *)
(* saved job.                                                              *)
LEMMA SubmittedOK ==
    ASSUME HistoryInv, ~Asleep, NEW job \in ReportJob, IsCurrent(job)
    PROVE  job \in Clients!Submitted
<1>1. latest # NoJob /\ latest \in ReportJob /\ Clients!Snapshot(latest) \in returned
  BY DEF HistoryInv, Inv, StoreInv, StoreTypeOK, IsCurrent
<1>2. job = Clients!Changed(Clients!Snapshot(latest), job.status, job.retryAt)
  BY <1>1, SnapshotOK DEF IsCurrent
<1>3. job.status \in Clients!Statuses /\ job.retryAt \in Clients!Deadlines
  BY DEF ReportJob, Clients!Statuses, Statuses, Clients!Deadlines, Deadlines
<1> QED BY <1>1, <1>2, <1>3 DEF Clients!Submitted

(* A save or a checkpoint of a tab is one of a client.                     *)
LEMMA WritesClient ==
    ASSUME HistoryInv, Inv', ~Asleep, Writes, Remember
    PROVE  Clients!Next
<1>1. PICK job \in Known :
          \/ Save(job)
          \/ \E key \in Keys, response \in Responses : Checkpoint(job, key, response)
  BY DEF Writes
<1>2. job \in ReportJob /\ StoreInv
  BY <1>1 DEF Known, HistoryInv, Inv
<1>3. IsCurrent(job) /\ now' = now
  BY <1>1 DEF Save, Checkpoint, CheckpointNew, CheckpointAgain
<1>4. Written(job)
  BY <1>1, <1>2, SaveWrites, CheckpointWrites
<1>5. job \in Clients!Submitted
  BY <1>2, <1>3, SubmittedOK
<1>6. Clients!HandOut(latest')
  BY <1>3, <1>4, RememberOK DEF Written
<1>7. CASE Save(job)
  <2>1. Clients!Save(job)
    BY <1>7, SameStore
  <2> QED BY <1>5, <1>6, <2>1 DEF Clients!Next, Clients!ClientSave
<1>8. ASSUME NEW key \in Keys, NEW response \in Responses, Checkpoint(job, key, response)
      PROVE  Clients!Next
  <2>1. Clients!Checkpoint(job, key, response)
    BY <1>8, SameStore
  <2> QED BY <1>5, <1>6, <2>1 DEF Clients!Next, Clients!ClientCheckpoint
<1> QED BY <1>1, <1>7, <1>8

(* A new job is created under an id that no snapshot has.                  *)
LEMMA CreatesClient ==
    ASSUME HistoryInv, Inv', Creates, Remember
    PROVE  Clients!Next
<1>1. PICK id \in JobIds, connection \in Connections :
          id \notin usedIds /\ Create(NewJob(id, connection, NoDeadline))
  BY DEF Creates
<1>2. /\ \A job \in returned : job.id # id
      /\ latest # NoJob => latest.id # id
  BY <1>1 DEF HistoryInv, Inv
<1>3. Clients!Create(Clients!NewJob(id, connection, Clients!NoDeadline))
  BY <1>1, SameStore DEF Clients!NoDeadline, NoDeadline
<1>4. latest' # NoJob /\ now' = now
  <2>1. NewJob(id, connection, NoDeadline) \in ReportJob /\ StoreTypeOK
    BY NewJobOK DEF HistoryInv, Inv, StoreInv
  <2>2. CarriedThrottles \in [Connections -> Deadlines] /\ NoDeadline \in Deadlines
    BY <2>1, CarriedType, StoreConstants DEF NoDeadline, Deadlines
  <2>3. Created(NewJob(id, connection, NoDeadline)) \in ReportJob
    BY <2>1, <2>2, ThrottledJob DEF Created
  <2> QED BY <1>1, <2>3, StoreConstants DEF Create
<1>5. Clients!HandOut(latest')
  BY <1>4, RememberOK
<1> QED BY <1>1, <1>2, <1>3, <1>5 DEF Clients!Next, Clients!ClientCreate

(* A discard is a deletion by a client.                                    *)
LEMMA DeletesClient ==
    ASSUME HistoryInv, Deletes, Remember
    PROVE  Clients!Next
<1>1. PICK id : Delete(id)
  BY DEF Deletes
<1>2. id \in JobIds /\ latest' = NoJob
  BY <1>1 DEF Delete, HistoryInv, Inv, StoreInv, StoreTypeOK, ReportJob
<1>3. returned' = returned
  BY <1>2, RememberOK
<1>4. Clients!Delete(id)
  BY <1>1, SameStore
<1> QED BY <1>2, <1>3, <1>4 DEF Clients!Next, Clients!ClientDelete

(* A step that leaves the store alone loads the job, if there is one.      *)
LEMMA LoadsClient ==
    ASSUME HistoryInv, UNCHANGED stored, Remember
    PROVE  Clients!Next \/ UNCHANGED Clients!vars
<1>1. UNCHANGED storeVars /\ latest' = latest /\ now' = now
  BY DEF stored, storeVars
<1>2. CASE latest = NoJob
  <2>1. returned' = returned
    BY <1>1, <1>2, RememberOK
  <2> QED BY <1>1, <2>1 DEF Clients!vars, Clients!storeVars, storeVars
<1>3. CASE latest # NoJob
  <2>1. latest \in ReportJob
    BY <1>3 DEF HistoryInv, Inv, StoreInv, StoreTypeOK
  <2>2. PICK due : Loaded = [latest EXCEPT !.retryAt = due]
    BY <1>3 DEF Loaded, WithConnectionThrottle
  <2>3. Clients!Snapshot(Loaded) = Clients!Snapshot(latest)
    BY <2>1, <2>2, SnapshotOK
  <2>4. returned' = returned \cup {Clients!Snapshot(latest)}
    BY <1>1, <1>3, RememberOK DEF Clients!HandOut
  <2>5. Clients!HandOut(Clients!Loaded)
    BY <2>3, <2>4, SameStore DEF Clients!HandOut
  <2>6. UNCHANGED Clients!storeVars
    BY <1>1 DEF Clients!storeVars, storeVars
  <2> QED BY <1>3, <2>5, <2>6 DEF Clients!Next, Clients!ClientLoad
<1> QED BY <1>2, <1>3

(* Every step of the tabs, of their runs and of the waits left behind is   *)
(* an operation of a client of ReportStoreClients, or leaves the store     *)
(* alone: what ReportStoreProofs says of any clients, it says of the tabs. *)
THEOREM ClientsCorrect == HistorySpec => ImplementsClients
<1>1. HistoryInit => Clients!Init
  BY SameStore DEF HistoryInit, Init, Clients!Init
<1>2. ASSUME HistoryInv, [HistoryNext]_historyVars
      PROVE  Clients!Next \/ UNCHANGED Clients!vars
  <2>1. CASE UNCHANGED historyVars
    <3>1. UNCHANGED storeVars /\ returned' = returned
      BY <2>1 DEF historyVars, vars, storeVars
    <3> QED BY <3>1 DEF Clients!vars, Clients!storeVars, storeVars
  <2>2. CASE HistoryNext
    <3>1. Remember /\ StoreStep /\ Inv'
      BY <1>2, <2>2, StoreSteps, NextInv DEF HistoryNext, HistoryInv
    <3>2. CASE UNCHANGED stored
      BY <1>2, <3>1, <3>2, LoadsClient
    <3>3. CASE ~Asleep /\ (Writes \/ Creates \/ Deletes)
      BY <1>2, <3>1, <3>3, WritesClient, CreatesClient, DeletesClient
    <3>4. CASE Tick
      <4>1. now' # now
        BY <1>2, <3>4, StoreConstants DEF Tick, HistoryInv, Inv, StoreInv, StoreTypeOK
      <4>2. returned' = returned
        BY <3>1, <4>1, RememberOK
      <4>3. Clients!Tick
        BY <3>4, SameStore
      <4> QED BY <4>2, <4>3 DEF Clients!Next
    <3> QED BY <3>1, <3>2, <3>3, <3>4 DEF StoreStep
  <2> QED BY <1>2, <2>1, <2>2
<1> QED BY <1>1, <1>2, HistoryInitInv, HistoryNextInv, PTL
        DEF HistorySpec, ImplementsClients, Clients!Spec

-----------------------------------------------------------------------------
(* No request before the deadline: one page                                *)

(* A run that may still send a request. *)
Collects(page) == page.phase = "collecting" /\ ~page.stopped

(* What a run knows of the deadline of its connection: its job carries one *)
(* that is as late as the saved one, as long as that has not passed; the   *)
(* save that clears a deadline was begun when it had passed, and a later   *)
(* deadline comes with another revision.                                   *)
Due(page, deadline, revision, time) ==
    Collects(page) =>
        /\ deadline > time => page.job.retryAt >= deadline
        /\ page.reader.step = "clearing" =>
               /\ page.reader.arg.retryAt = NoDeadline
               /\ page.reader.arg.revision = revision => deadline <= time

(* A run drops no deadline that has not passed, and sends a request only   *)
(* without one.                                                            *)
Paced(page, next) ==
    /\ next.phase = page.phase
    /\ Collects(next) =>
           /\ Collects(page)
           /\ \/ next.job = page.job
              \/ next.job.retryAt >= page.job.retryAt
              \/ page.job.retryAt <= now
           /\ next.reader.step = "clearing" =>
                  \/ next.reader = page.reader
                  \/ next.reader.arg.retryAt = NoDeadline /\ page.job.retryAt <= now
    /\ next.reader.step = "fetching" =>
           \/ page.reader.step = "fetching"
           \/ Collects(page) /\ page.job.retryAt = NoDeadline

(* The deadlines of jobs, and the clock, are numbers. *)
Dated(page) == Collects(page) => page.job.retryAt \in Nat

(* What a run knows of the deadline stays known, and a request that it     *)
(* begins is not early.                                                    *)
LEMMA PacedDue ==
    ASSUME NEW page, NEW next, Dated(page), Dated(next), now \in Nat,
           NEW deadline \in Nat, NEW revision,
           Due(page, deadline, revision, now), Paced(page, next)
    PROVE  /\ Due(next, deadline, revision, now)
           /\ page.reader.step # "fetching" /\ next.reader.step = "fetching" =>
                  deadline <= now
<1>1. ASSUME Collects(next) PROVE Due(next, deadline, revision, now)
  <2>1. Collects(page) /\ page.job.retryAt \in Nat /\ next.job.retryAt \in Nat
    BY <1>1 DEF Paced, Dated
  <2>2. deadline > now => next.job.retryAt >= deadline
    BY <1>1, <2>1 DEF Due, Paced
  <2>3. ASSUME next.reader.step = "clearing"
        PROVE  /\ next.reader.arg.retryAt = NoDeadline
               /\ next.reader.arg.revision = revision => deadline <= now
    <3>1. CASE next.reader = page.reader
      BY <2>1, <2>3, <3>1 DEF Due
    <3>2. CASE next.reader.arg.retryAt = NoDeadline /\ page.job.retryAt <= now
      BY <2>1, <3>2 DEF Due
    <3> QED BY <1>1, <2>3, <3>1, <3>2 DEF Paced
  <2> QED BY <2>2, <2>3 DEF Due
<1>2. ASSUME ~Collects(next) PROVE Due(next, deadline, revision, now)
  BY <1>2 DEF Due
<1>3. ASSUME page.reader.step # "fetching", next.reader.step = "fetching"
      PROVE  deadline <= now
  <2>1. Collects(page) /\ page.job.retryAt = NoDeadline
    BY <1>3 DEF Paced
  <2> QED BY <2>1 DEF Due, NoDeadline
<1> QED BY <1>1, <1>2, <1>3

(* A run that has stopped sends nothing. *)
LEMMA HaltPaced ==
    ASSUME NEW page, NEW next, next.phase = page.phase, ~Collects(next),
           next.reader \in {page.reader, NoRead}
    PROVE  Paced(page, next)
BY DEF Paced, NoRead

(* A run that keeps its job, and its read or ends it. *)
LEMMA KeepPaced ==
    ASSUME NEW page, NEW next, next.phase = page.phase, next.job = page.job,
           Collects(next) => Collects(page),
           \/ next.reader \in {page.reader, NoRead}
           \/ next.reader.step \notin {"clearing", "fetching"}
    PROVE  Paced(page, next)
BY DEF Paced, NoRead

(* A step in two parts, of which the first may move the deadline forward.  *)
LEMMA ShiftPaced ==
    ASSUME NEW page, NEW mid, NEW next, mid.phase = page.phase,
           Collects(mid) => Collects(page),
           mid.reader \in {page.reader, NoRead}, now \in Nat,
           Dated(page), Dated(mid), Dated(next),
           mid.job = page.job \/ mid.job.retryAt >= page.job.retryAt,
           Paced(mid, next), mid.job.retryAt = NoDeadline => page.job.retryAt = NoDeadline
    PROVE  Paced(page, next)
<1>1. CASE Collects(next)
  <2>1. /\ Collects(mid) /\ Collects(page)
        /\ next.job.retryAt \in Nat /\ mid.job.retryAt \in Nat /\ page.job.retryAt \in Nat
    BY <1>1 DEF Paced, Dated
  <2>2. next.job.retryAt >= page.job.retryAt \/ page.job.retryAt <= now
    BY <1>1, <2>1 DEF Paced
  <2>3. next.reader.step = "clearing" =>
            \/ next.reader = page.reader
            \/ next.reader.arg.retryAt = NoDeadline /\ page.job.retryAt <= now
    <3>1. mid.job.retryAt <= now => page.job.retryAt <= now
      BY <2>1
    <3>2. next.reader.step = "clearing" =>
            \/ next.reader = mid.reader
            \/ next.reader.arg.retryAt = NoDeadline /\ mid.job.retryAt <= now
      BY <1>1 DEF Paced
    <3> QED BY <3>1, <3>2 DEF NoRead
  <2>4. next.reader.step = "fetching" =>
            \/ page.reader.step = "fetching"
            \/ Collects(page) /\ page.job.retryAt = NoDeadline
    BY DEF Paced, NoRead
  <2> QED BY <2>1, <2>2, <2>3, <2>4 DEF Paced
<1>2. CASE ~Collects(next)
  BY <1>2 DEF Paced, NoRead
<1> QED BY <1>1, <1>2

(* What a run that stops looks like. *)
LEMMA StopFields ==
    ASSUME NEW page \in PageType
    PROVE  /\ Stop(page).stopped = TRUE /\ Stop(page).reader = page.reader
           /\ StopRead(page).stopped = TRUE /\ StopRead(page).reader = NoRead
           /\ StopWait(page).stopped = TRUE /\ StopWait(page).reader = page.reader
           /\ Stop(page).phase = page.phase /\ StopRead(page).phase = page.phase
           /\ StopWait(page).phase = page.phase
BY DEF PageType, Stop, StopRead, StopWait

(* A run that stops drops no deadline. *)
LEMMA StopPaced ==
    ASSUME NEW page \in PageType
    PROVE  /\ Paced(page, Stop(page)) /\ Paced(page, StopRead(page))
           /\ Paced(page, StopWait(page))
<1>1. ASSUME NEW next, next.phase = page.phase, next.stopped = TRUE,
             next.reader \in {page.reader, NoRead}
      PROVE  Paced(page, next)
  BY <1>1, HaltPaced DEF Collects
<1> QED BY <1>1, StopFields

(* The job of a run without its deadline. *)
LEMMA ClearedFields ==
    ASSUME NEW page \in PageType, page.job \in ReportJob
    PROVE  /\ Cleared(page).job.retryAt = NoDeadline
           /\ Cleared(page).phase = page.phase /\ Cleared(page).stopped = page.stopped
           /\ Cleared(page).reader = page.reader /\ Cleared(page).waiter = page.waiter
           /\ Cleared(page) \in PageType
<1>1. NoDeadline \in Deadlines
  BY StoreConstants DEF NoDeadline, Deadlines
<1>2. [page.job EXCEPT !.retryAt = NoDeadline] \in ReportJob
  BY <1>1 DEF ReportJob
<1>3. Cleared(page) = [page EXCEPT !.job = [page.job EXCEPT !.retryAt = NoDeadline]]
  BY DEF Cleared
<1>4. [page.job EXCEPT !.retryAt = NoDeadline].retryAt = NoDeadline
  BY DEF ReportJob
<1> QED BY <1>2, <1>3, <1>4 DEF PageType, JobOrNone

(* A request is sent without a deadline, or after it. *)
LEMMA ReadWhenDuePaced ==
    ASSUME NEW page \in PageType, page.job \in ReportJob, page.phase = "collecting",
           now \in Nat
    PROVE  Paced(page, ReadWhenDue(page))
<1>1. page.job.retryAt \in Nat /\ page.reader \in NoReadType
  BY StoreConstants, PageFields DEF ReportJob, Deadlines
<1>2. CASE page.job.retryAt > now
  <2> DEFINE next == [page EXCEPT !.reader.step = "sleeping"]
  <2>1. ReadWhenDue(page) = IF Inactive(page) THEN StopRead(page) ELSE next
    BY <1>1, <1>2 DEF ReadWhenDue
  <2>2. /\ next.job = page.job /\ next.reader.step = "sleeping"
        /\ next.phase = page.phase /\ next.stopped = page.stopped
    BY <1>1 DEF PageType, NoReadType
  <2> HIDE DEF next
  <2>3. Paced(page, next)
    BY <2>2, KeepPaced DEF Collects
  <2> QED BY <2>1, <2>3, StopPaced
<1>3. CASE page.job.retryAt \in 1..now
  <2> DEFINE cleared == Cleared(page)
             reader == [page.reader EXCEPT !.step = "clearing", !.arg = cleared.job]
             next == [cleared EXCEPT !.reader = reader]
  <2>1. /\ cleared.job.retryAt = NoDeadline /\ cleared \in PageType
        /\ cleared.phase = page.phase /\ cleared.stopped = page.stopped
        /\ cleared.reader = page.reader
    BY ClearedFields
  <2>2. ReadWhenDue(page) =
            [cleared EXCEPT !.reader.step = "clearing", !.reader.arg = cleared.job]
    BY <1>1, <1>3 DEF ReadWhenDue
  <2> HIDE DEF cleared
  <2>3. reader.step = "clearing" /\ reader.arg = cleared.job
    BY <1>1 DEF NoReadType
  <2>4. ReadWhenDue(page) = next
    BY <2>1, <2>2
  <2> HIDE DEF reader
  <2>5. /\ next.reader = reader /\ next.phase = page.phase /\ next.stopped = page.stopped
    BY <2>1 DEF PageType
  <2>6. page.job.retryAt <= now
    BY <1>1, <1>3
  <2> HIDE DEF next
  <2> QED BY <2>1, <2>3, <2>4, <2>5, <2>6 DEF Paced, Collects
<1>4. CASE page.job.retryAt = NoDeadline
  <2> DEFINE next == [page EXCEPT !.reader.step = "fetching"]
  <2>1. ReadWhenDue(page) = IF Inactive(page) THEN StopRead(page) ELSE next
    BY <1>1, <1>4 DEF ReadWhenDue, Fetch, NoDeadline
  <2>2. /\ next.job = page.job /\ next.reader.step = "fetching"
        /\ next.phase = page.phase /\ next.stopped = page.stopped
    BY <1>1 DEF PageType, NoReadType
  <2> HIDE DEF next
  <2>3. CASE ~Inactive(page)
    BY <1>4, <2>1, <2>2, <2>3 DEF Paced, Collects, Inactive
  <2> QED BY <2>1, <2>3, StopPaced
<1> QED BY <1>1, <1>2, <1>3, <1>4 DEF NoDeadline

(* A wait keeps the deadline until it has passed. *)
LEMMA EndWaitPaced ==
    ASSUME NEW page \in PageType
    PROVE  Paced(page, EndWait(page))
<1> DEFINE next == EndWait(page)
<1>1. /\ next.job = page.job /\ next.reader = page.reader
      /\ next.phase = page.phase /\ next.stopped = page.stopped
  BY DEF EndWait, PageType
<1> HIDE DEF next
<1>2. Paced(page, next)
  BY <1>1, KeepPaced DEF Collects
<1> QED BY <1>2 DEF next

(* The same when it must first wait, or clear a deadline that has passed.  *)
LEMMA WaitUntilDuePaced ==
    ASSUME NEW page \in PageType, page.job \in ReportJob, now \in Nat
    PROVE  Paced(page, WaitUntilDue(page))
<1>1. page.job.retryAt \in Nat
  BY StoreConstants DEF ReportJob, Deadlines
<1>2. CASE page.job.retryAt > now
  <2> DEFINE next == [page EXCEPT !.waiter.step = "sleeping"]
  <2>1. WaitUntilDue(page) = IF Inactive(page) THEN StopWait(page) ELSE next
    BY <1>1, <1>2 DEF WaitUntilDue
  <2>2. /\ next.job = page.job /\ next.reader = page.reader
        /\ next.phase = page.phase /\ next.stopped = page.stopped
    BY DEF PageType
  <2> HIDE DEF next
  <2>3. Paced(page, next)
    BY <2>2, KeepPaced DEF Collects
  <2> QED BY <2>1, <2>3, StopPaced
<1>3. CASE page.job.retryAt \in 1..now
  <2> DEFINE cleared == Cleared(page)
             next == [cleared EXCEPT !.waiter = [step |-> "clearing", arg |-> cleared.job]]
  <2>1. /\ cleared \in PageType /\ cleared.reader = page.reader
        /\ cleared.phase = page.phase /\ cleared.stopped = page.stopped
    BY ClearedFields
  <2>2. WaitUntilDue(page) = next
    BY <1>1, <1>3 DEF WaitUntilDue
  <2> HIDE DEF cleared
  <2>3. /\ next.reader = page.reader /\ next.phase = page.phase
        /\ next.stopped = page.stopped
    BY <2>1 DEF PageType
  <2>4. page.job.retryAt <= now
    BY <1>1, <1>3
  <2> HIDE DEF next
  <2> QED BY <2>2, <2>3, <2>4 DEF Paced, Collects
<1>4. CASE page.job.retryAt = NoDeadline
  <2>1. WaitUntilDue(page) = EndWait(page)
    BY <1>1, <1>4 DEF WaitUntilDue, NoDeadline
  <2> QED BY <2>1, EndWaitPaced
<1> QED BY <1>1, <1>2, <1>3, <1>4 DEF NoDeadline

(* A delay moves a deadline forward, never back. *)
LEMMA RaiseLater ==
    ASSUME NEW job \in ReportJob, NEW delay \in Delays, now \in 0..MaxTime
    PROVE  /\ Raise(job, delay).retryAt >= job.retryAt
           /\ Raise(job, delay) \in ReportJob
<1> DEFINE due == IF delay = 0 THEN job.retryAt ELSE Later(job.retryAt, now + delay)
<1>1. job.retryAt \in Deadlines /\ now + delay \in Deadlines
  BY StoreConstants DEF Delays, Deadlines, ReportJob
<1>2. due \in Deadlines /\ due >= job.retryAt
  <2>1. /\ Later(job.retryAt, now + delay) \in Deadlines
        /\ Later(job.retryAt, now + delay) >= job.retryAt
    BY <1>1, LaterType
  <2>2. job.retryAt >= job.retryAt
    BY <1>1, StoreConstants DEF Deadlines
  <2> QED BY <1>1, <2>1, <2>2
<1>3. Raise(job, delay) = [job EXCEPT !.retryAt = due]
  BY DEF Raise
<1> HIDE DEF due
<1> QED BY <1>2, <1>3 DEF ReportJob

(* A wait that begins may move the deadline forward. *)
LEMMA StartWaitPaced ==
    ASSUME NEW page \in PageType, page.job \in ReportJob, NEW delay \in Delays,
           now \in 0..MaxTime
    PROVE  Paced(page, StartWait(page, delay))
<1> DEFINE due == Raise(page.job, delay)
           next == [page EXCEPT !.job = due, !.waiter = [step |-> "setting", arg |-> due]]
<1>1. now \in Nat
  BY StoreConstants
<1>2. due.retryAt >= page.job.retryAt /\ due \in ReportJob
  BY RaiseLater
<1>3. CASE ~Inactive(page) /\ page.job.retryAt = NoDeadline
  <2>1. StartWait(page, delay) = next
    BY <1>3 DEF StartWait
  <2> HIDE DEF due
  <2>2. /\ next.job = due /\ next.reader = page.reader
        /\ next.phase = page.phase /\ next.stopped = page.stopped
    BY DEF PageType
  <2> HIDE DEF next
  <2> QED BY <1>2, <2>1, <2>2 DEF Paced, Collects
<1>4. CASE Inactive(page)
  BY <1>4, StopPaced DEF StartWait
<1>5. CASE ~Inactive(page) /\ page.job.retryAt # NoDeadline
  <2>1. StartWait(page, delay) = WaitUntilDue(page)
    BY <1>5 DEF StartWait
  <2> QED BY <1>1, <2>1, WaitUntilDuePaced
<1> QED BY <1>3, <1>4, <1>5

(* A collector that gets its response sends nothing. *)
LEMMA ReceivedPaced ==
    ASSUME NEW page \in PageType, NEW response
    PROVE  Paced(page, Received(page, response))
<1> DEFINE next == Received(page, response)
<1>1. /\ next.job = page.job /\ next.reader = NoRead
      /\ next.phase = page.phase /\ next.stopped = page.stopped
  BY DEF Received, PageType
<1> HIDE DEF next
<1>2. Paced(page, next)
  BY <1>1, KeepPaced DEF Collects
<1> QED BY <1>2 DEF next

-----------------------------------------------------------------------------
(* No request before the deadline: one tab                                 *)

(* A tab knows the deadline of its own connection.                         *)
Informed(page, connection, deadline, saved, time) ==
    /\ page.phase \in {"creating", "opening"} => page.arg.connectionKey = connection
    /\ Collects(page) => saved.connectionKey = connection
    /\ Due(page, deadline, saved.revision, time)

DueOK(t) == Informed(tab[t], ConnectionOf[t], Deadline(ConnectionOf[t]), latest, now)

(* What a step does to the tab it is about.                                *)
InTime(t) ==
    tab[t].reader.step # "fetching" /\ tab'[t].reader.step = "fetching" =>
        Deadline(ConnectionOf[t])' <= now'

DueStep(t) == DueOK(t)' /\ InTime(t)

(* The numbers that are compared. *)
LEMMA DueTypes ==
    ASSUME Inv, NEW t \in Tabs
    PROVE  /\ ConnectionOf[t] \in Connections /\ now \in Nat /\ StoreInv
           /\ Deadline(ConnectionOf[t]) \in Nat /\ Dated(tab[t])
           /\ PageOK(tab[t], Known) /\ tab[t] \in PageType
           /\ tab[t].phase # "collecting" => tab[t].reader = NoRead
           /\ tab[t].phase = "collecting" => tab[t].job \in ReportJob
<1>1. ConnectionOf[t] \in Connections /\ StoreTypeOK /\ StoreInv
  BY CollectionConstants, TabFacts
<1>2. now \in Nat /\ Deadline(ConnectionOf[t]) \in Nat
  BY <1>1, DeadlineType, StoreConstants DEF StoreTypeOK, Deadlines
<1>3. PageOK(tab[t], Known) /\ tab[t] \in PageType
  BY TabFacts DEF PageStands
<1>4. tab[t].phase = "collecting" => tab[t].job \in ReportJob
  BY <1>3 DEF PageOK, JobsOK, WithJob, Known
<1>5. Dated(tab[t])
  BY <1>4, StoreConstants DEF Dated, Collects, ReportJob, Deadlines
<1> QED BY <1>1, <1>2, <1>3, <1>4, <1>5 DEF PageOK, RestOK

(* The same after a step. *)
LEMMA NextDueTypes ==
    ASSUME Inv', NEW t \in Tabs, NEW page, page = tab'[t]
    PROVE  /\ now' \in Nat /\ Deadline(ConnectionOf[t])' \in Nat /\ Dated(page)
           /\ page \in PageType
           /\ page.phase # "collecting" => page.reader = NoRead
           /\ page.phase = "collecting" => page.job \in ReportJob
<1>1. /\ ConnectionOf[t] \in Connections /\ latest' \in {NoJob} \cup ReportJob
      /\ throttles' \in [Connections -> Deadlines] /\ now' \in 0..MaxTime
      /\ PageOK(tab[t], Known)'
  BY CollectionConstants DEF Inv, TypeOK, StoreTypeOK, TabOK
<1>2. now' \in Nat /\ Deadline(ConnectionOf[t])' \in Nat
  BY <1>1, StoreConstants DEF Deadline, ReportJob, Deadlines, Later
<1>3. PICK S : S = Known'
  OBVIOUS
<1>4. PageOK(page, S) /\ S \subseteq ReportJob
  BY <1>1, <1>3 DEF Known
<1>5. page.phase = "collecting" => page.job \in ReportJob
  BY <1>4 DEF PageOK, JobsOK, WithJob
<1>6. Dated(page)
  BY <1>5, StoreConstants DEF Dated, Collects, ReportJob, Deadlines
<1> QED BY <1>2, <1>4, <1>5, <1>6 DEF PageOK, RestOK

(* A step is in time when the page that it leads to is informed. *)
LEMMA DueStepOK ==
    ASSUME NEW t \in Tabs, NEW page, page = tab'[t],
           NEW deadline, deadline = Deadline(ConnectionOf[t])',
           Informed(page, ConnectionOf[t], deadline, latest', now'),
           tab[t].reader.step # "fetching" /\ page.reader.step = "fetching" =>
               deadline <= now'
    PROVE  DueStep(t)
<1>1. DueOK(t)'
  BY DEF DueOK, Informed
<1> QED BY <1>1 DEF DueStep, InTime

(* A run that has not begun to collect, or is over. *)
LEMMA RestDue ==
    ASSUME Inv', NEW t \in Tabs, NEW page, page = tab'[t], page.phase # "collecting",
           page.phase \in {"creating", "opening"} =>
               page.arg.connectionKey = ConnectionOf[t]
    PROVE  DueStep(t)
<1>1. PICK deadline : deadline = Deadline(ConnectionOf[t])'
  OBVIOUS
<1>2. page.reader.step # "fetching" /\ ~Collects(page)
  BY NextDueTypes DEF NoRead, Collects
<1>3. Informed(page, ConnectionOf[t], deadline, latest', now')
  BY <1>2 DEF Informed, Due
<1> QED BY <1>1, <1>2, <1>3, DueStepOK

(* A run that stops. *)
LEMMA HaltDue ==
    ASSUME NEW t \in Tabs, NEW page, page = tab'[t], page.phase = "collecting",
           page.stopped = TRUE, page.reader \in {tab[t].reader, NoRead}
    PROVE  DueStep(t)
<1>1. PICK deadline : deadline = Deadline(ConnectionOf[t])'
  OBVIOUS
<1>2. Informed(page, ConnectionOf[t], deadline, latest', now')
  BY DEF Informed, Due, Collects
<1> QED BY <1>1, <1>2, DueStepOK DEF NoRead

(* A step of a run that does not write. *)
LEMMA PacedStep ==
    ASSUME Inv, Inv', NEW t \in Tabs, DueOK(t), UNCHANGED stored,
           NEW page, page = tab'[t], page.phase = "collecting", Paced(tab[t], page)
    PROVE  DueStep(t)
<1>1. PICK deadline : deadline = Deadline(ConnectionOf[t])'
  OBVIOUS
<1>2. /\ latest' = latest /\ now' = now /\ deadline = Deadline(ConnectionOf[t])
  BY <1>1 DEF stored, storeVars, Deadline
<1>3. /\ Dated(tab[t]) /\ Dated(page) /\ now \in Nat /\ deadline \in Nat
      /\ Due(tab[t], deadline, latest.revision, now)
  BY <1>2, DueTypes, NextDueTypes DEF DueOK, Informed
<1>4. /\ Due(page, deadline, latest.revision, now)
      /\ tab[t].reader.step # "fetching" /\ page.reader.step = "fetching" =>
             deadline <= now
  BY <1>3, PacedDue
<1>5. Collects(page) => latest.connectionKey = ConnectionOf[t]
  BY DEF Paced, DueOK, Informed
<1>6. Informed(page, ConnectionOf[t], deadline, latest', now')
  BY <1>2, <1>4, <1>5 DEF Informed
<1> QED BY <1>1, <1>2, <1>4, <1>6, DueStepOK

(* A step of a run whose write gives it the job, and with it the deadline. *)
LEMMA CommitStep ==
    ASSUME Inv, Inv', NEW t \in Tabs, DueOK(t), NEW job \in ReportJob,
           \/ Save(job)
           \/ \E key \in Keys, response \in Responses : Checkpoint(job, key, response),
           latest'.revision = latest.revision + 1,
           NEW mid, mid.job = latest', mid.reader = tab[t].reader, mid.phase = "collecting",
           mid.stopped => tab[t].stopped,
           Collects(mid) => Collects(tab[t])
               \/ (tab[t].phase = "opening" /\ job.connectionKey = ConnectionOf[t]),
           NEW page, page = tab'[t], page.phase = "collecting", Paced(mid, page)
    PROVE  DueStep(t)
<1>1. PICK deadline : deadline = Deadline(ConnectionOf[t])'
  OBVIOUS
<1>2. /\ StoreInv /\ StoreInv' /\ ConnectionOf[t] \in Connections
      /\ now \in Nat /\ deadline \in Nat /\ Dated(page) /\ PageOK(tab[t], Known)
  BY <1>1, DueTypes, NextDueTypes DEF Inv
<1>3. /\ latest # NoJob /\ latest \in ReportJob /\ now' = now
      /\ latest' # NoJob /\ latest' \in ReportJob
      /\ latest'.connectionKey = latest.connectionKey
      /\ ConnectionOf[t] = latest.connectionKey => deadline = latest'.retryAt
  BY <1>1, <1>2, WrittenDeadline
<1>4. job.connectionKey = latest.connectionKey
  BY DEF Save, Checkpoint, CheckpointNew, CheckpointAgain, IsCurrent
<1>5. Collects(mid) => latest.connectionKey = ConnectionOf[t]
  BY <1>4 DEF DueOK, Informed
<1>6. Dated(mid)
  BY <1>3, StoreConstants DEF Dated, ReportJob, Deadlines
<1>7. Due(mid, deadline, latest'.revision, now)
  <2> SUFFICES ASSUME Collects(mid)
               PROVE  /\ deadline > now => mid.job.retryAt >= deadline
                      /\ mid.reader.step = "clearing" =>
                             /\ mid.reader.arg.retryAt = NoDeadline
                             /\ mid.reader.arg.revision = latest'.revision => deadline <= now
    BY DEF Due
  <2>1. mid.job.retryAt = deadline
    BY <1>3, <1>5
  <2>2. ASSUME mid.reader.step = "clearing"
        PROVE  mid.reader.arg.retryAt = NoDeadline
               /\ mid.reader.arg.revision # latest'.revision
    <3>1. Collects(tab[t])
      BY <2>2, DueTypes DEF NoRead
    <3>2. tab[t].reader.arg.retryAt = NoDeadline
      BY <2>2, <3>1 DEF DueOK, Informed, Due
    <3>3. tab[t].reader.arg \in Known
      BY <1>2, <2>2 DEF PageOK, ReaderOK
    <3> QED BY <1>3, <3>2, <3>3 DEF Known, ReportJob
  <2> QED BY <1>2, <2>1, <2>2
<1>8. /\ Due(page, deadline, latest'.revision, now)
      /\ mid.reader.step # "fetching" /\ page.reader.step = "fetching" => deadline <= now
  BY <1>2, <1>6, <1>7, PacedDue
<1>9. Collects(page) => latest'.connectionKey = ConnectionOf[t]
  BY <1>3, <1>5 DEF Paced
<1>10. Informed(page, ConnectionOf[t], deadline, latest', now')
  BY <1>3, <1>8, <1>9 DEF Informed
<1> QED BY <1>1, <1>3, <1>8, <1>10, DueStepOK

(* A run of another tab, or the clock, moves no deadline under a run that  *)
(* goes on: only a pass of time may end it.                                *)
LEMMA FrameDue ==
    ASSUME Inv, Inv', NEW t \in Tabs, DueOK(t), StoreStep, NEW page, page = tab[t],
           page = tab'[t]
    PROVE  DueStep(t)
<1>1. PICK deadline : deadline = Deadline(ConnectionOf[t])'
  OBVIOUS
<1>2. page.phase \in {"creating", "opening"} => page.arg.connectionKey = ConnectionOf[t]
  BY DEF DueOK, Informed
<1>3. CASE ~Collects(page)
  <2>1. Informed(page, ConnectionOf[t], deadline, latest', now')
    BY <1>2, <1>3 DEF Informed, Due
  <2> QED BY <1>1, <2>1, DueStepOK
<1>4. CASE Collects(page)
  <2>1. Current(page) /\ Current(page)'
    <3>1. Healthy(page)
      BY <1>4 DEF Healthy, Collects
    <3> QED BY <3>1 DEF Inv, TabOK, Current
  <2>2. latest # NoJob /\ latest.status = "running" /\ latest' # NoJob
        /\ latest'.revision = latest.revision
    BY <1>4, <2>1 DEF Current, Collects
  <2>3. /\ ConnectionOf[t] \in Connections /\ now \in Nat /\ StoreInv
        /\ Deadline(ConnectionOf[t]) \in Nat /\ deadline \in Nat /\ now' \in Nat
    BY <1>1, DueTypes, NextDueTypes
  <2>4. latest' = latest /\ deadline <= Deadline(ConnectionOf[t]) /\ now' >= now
    <3>1. CASE UNCHANGED stored
      <4>1. latest' = latest /\ now' = now /\ deadline = Deadline(ConnectionOf[t])
        BY <1>1, <3>1 DEF stored, storeVars, Deadline
      <4> QED BY <2>3, <4>1
    <3>2. CASE Tick
      <4>1. latest' = latest /\ now' = now + 1 /\ deadline = Deadline(ConnectionOf[t])
        BY <1>1, <3>2 DEF Tick, Deadline
      <4> QED BY <2>3, <4>1
    <3>3. CASE Writes
      <4>1. PICK job \in Known :
                \/ Save(job)
                \/ \E key \in Keys, response \in Responses : Checkpoint(job, key, response)
        BY <3>3 DEF Writes
      <4>2. job \in ReportJob
        BY <4>1 DEF Known
      <4>3. Written(job)
        BY <2>3, <4>1, <4>2, SaveWrites, CheckpointWrites
      <4>4. latest' = latest
        BY <2>2, <4>3 DEF Written, ReportJob
      <4>5. /\ now' = now /\ deadline <= Deadline(ConnectionOf[t])
        BY <1>1, <2>3, <4>1, <4>2, <4>4, WrittenDeadline DEF Inv
      <4> QED BY <2>3, <4>4, <4>5
    <3>4. CASE Creates
      BY <2>2, <3>4 DEF Creates, Done
    <3>5. CASE Deletes
      BY <2>2, <3>5 DEF Deletes, Delete
    <3> QED BY <3>1, <3>2, <3>3, <3>4, <3>5 DEF StoreStep
  <2>5. /\ latest.connectionKey = ConnectionOf[t]
        /\ Due(page, Deadline(ConnectionOf[t]), latest.revision, now)
    BY <1>4 DEF DueOK, Informed
  <2>6. page.job.retryAt \in Nat
    BY <1>4, DueTypes DEF Dated
  <2>7. Due(page, deadline, latest.revision, now')
    BY <2>3, <2>4, <2>5, <2>6 DEF Due
  <2>8. Informed(page, ConnectionOf[t], deadline, latest', now')
    BY <1>2, <2>4, <2>5, <2>7 DEF Informed
  <2> QED BY <1>1, <2>8, DueStepOK
<1> QED BY <1>3, <1>4

-----------------------------------------------------------------------------
(* No request before the deadline: every step of a tab                     *)

(* The pages at rest, and those that end a run. *)
LEMMA RestingDue ==
    ASSUME Inv, Inv', NEW t \in Tabs,
           \/ Open(t) \/ Hydrate(t) \/ Claim(t) \/ Normalize(t) \/ NormalizeCommit(t)
           \/ Begin(t) \/ Discard(t) \/ Crash(t) \/ Delivered(t) \/ DeliveryFailed(t)
           \/ Settle(t) \/ SettleCommit(t) \/ DiscardLoad(t) \/ DiscardCommit(t) \/ Finish(t)
    PROVE  DueStep(t)
<1>1. tab \in [Tabs -> PageType] /\ tab[t] \in PageType
  BY DEF Inv, TypeOK
<1>2. ASSUME NEW page, Become(t, page), page.phase \notin {"creating", "opening", "collecting"}
      PROVE  DueStep(t)
  <2>1. page = tab'[t]
    BY <1>1, <1>2 DEF Become
  <2> QED BY <1>2, <2>1, RestDue
<1>3. ASSUME NEW phase, phase \notin {"creating", "opening", "collecting"}, NEW seen,
             Become(t, Page(phase, seen))
      PROVE  DueStep(t)
  <2>1. Page(phase, seen).phase = phase
    BY DEF Page
  <2> QED BY <1>2, <1>3, <2>1
<1>4. ASSUME NEW seen, Leave(t, seen) PROVE DueStep(t)
  BY <1>3, <1>4 DEF Leave
<1>5. ASSUME NEW phase, phase \notin {"creating", "opening", "collecting"}, NEW status,
             Become(t, WithStatus(tab[t], phase, status))
      PROVE  DueStep(t)
  <2>1. WithStatus(tab[t], phase, status).phase = phase
    BY <1>1 DEF WithStatus, PageType
  <2> QED BY <1>2, <1>5, <2>1
<1>6. CASE Open(t)
  BY <1>3, <1>6 DEF Open
<1>7. CASE Hydrate(t)
  BY <1>3, <1>7 DEF Hydrate
<1>8. CASE Claim(t)
  BY <1>3, <1>8 DEF Claim
<1>9. CASE Normalize(t)
  <2>1. ASSUME NEW arg, Become(t, [tab[t] EXCEPT !.phase = "pausing", !.arg = arg])
        PROVE  DueStep(t)
    <3>1. [tab[t] EXCEPT !.phase = "pausing", !.arg = arg].phase = "pausing"
      BY <1>1 DEF PageType
    <3> QED BY <1>2, <2>1, <3>1
  <2> QED BY <1>4, <1>9, <2>1 DEF Normalize
<1>10. CASE NormalizeCommit(t) \/ Delivered(t) \/ DeliveryFailed(t)
  BY <1>4, <1>5, <1>10 DEF NormalizeCommit, Delivered, DeliveryFailed
<1>11. CASE Begin(t) \/ Discard(t) \/ Crash(t) \/ SettleCommit(t)
  BY <1>3, <1>11 DEF Begin, Discard, Crash, SettleCommit
<1>12. CASE Finish(t) \/ Settle(t)
  BY <1>5, <1>12 DEF Finish, Settle
<1>13. CASE DiscardLoad(t)
  <2>1. [tab[t] EXCEPT !.phase = "deleting"].phase = "deleting"
    BY <1>1 DEF PageType
  <2> QED BY <1>2, <1>4, <1>13, <2>1 DEF DiscardLoad
<1>14. CASE DiscardCommit(t)
  BY <1>4, <1>14 DEF DiscardCommit
<1> QED BY <1>6, <1>7, <1>8, <1>9, <1>10, <1>11, <1>12, <1>13, <1>14

(* A run begins with a job of its own connection. *)
LEMMA BeginningDue ==
    ASSUME Inv, Inv', NEW t \in Tabs, DueOK(t),
           StartLoad(t) \/ CreateCommit(t) \/ ResumeLoad(t)
    PROVE  DueStep(t)
<1>1. tab \in [Tabs -> PageType] /\ tab[t] \in PageType
  BY DEF Inv, TypeOK
<1>2. ASSUME NEW page, Become(t, page), page.phase # "collecting",
             page.phase \in {"creating", "opening"} => page.arg.connectionKey = ConnectionOf[t]
      PROVE  DueStep(t)
  <2>1. page = tab'[t]
    BY <1>1, <1>2 DEF Become
  <2> QED BY <1>2, <2>1, RestDue
<1>3. ASSUME NEW seen, Leave(t, seen) PROVE DueStep(t)
  <2>1. Page("idle", seen).phase = "idle"
    BY DEF Page
  <2> QED BY <1>2, <1>3, <2>1 DEF Leave
<1>4. ASSUME NEW job \in ReportJob, job.connectionKey = ConnectionOf[t],
             Become(t, Opening(tab[t], job))
      PROVE  DueStep(t)
  <2>1. [job EXCEPT !.status = "running"].connectionKey = job.connectionKey
    BY DEF ReportJob
  <2>2. PICK arg : arg = [job EXCEPT !.status = "running"]
    OBVIOUS
  <2>3. PICK page : page = Opening(tab[t], job)
    OBVIOUS
  <2>4. page.phase = "opening" /\ page.arg = arg
    BY <1>1, <2>2, <2>3 DEF Opening, PageType
  <2> QED BY <1>2, <1>4, <2>1, <2>2, <2>3, <2>4
<1>5. CASE StartLoad(t)
  <2>1. ASSUME NEW id \in JobIds,
               Become(t, [tab[t] EXCEPT !.phase = "creating",
                                        !.arg = NewJob(id, ConnectionOf[t], NoDeadline)])
        PROVE  DueStep(t)
    <3>1. NewJob(id, ConnectionOf[t], NoDeadline).connectionKey = ConnectionOf[t]
      BY DEF NewJob
    <3>2. PICK arg : arg = NewJob(id, ConnectionOf[t], NoDeadline)
      OBVIOUS
    <3>3. PICK page : page = [tab[t] EXCEPT !.phase = "creating", !.arg = arg]
      OBVIOUS
    <3>4. page.phase = "creating" /\ page.arg = arg
      BY <1>1, <3>3 DEF PageType
    <3> QED BY <1>2, <2>1, <3>1, <3>2, <3>3, <3>4
  <2> QED BY <1>3, <1>5, <2>1 DEF StartLoad
<1>6. CASE CreateCommit(t)
  <2>1. ASSUME Create(tab[t].arg), Become(t, Opening(tab[t], latest')) PROVE DueStep(t)
    <3>1. tab[t].arg.connectionKey = ConnectionOf[t]
      BY <1>6 DEF CreateCommit, At, DueOK, Informed
    <3>2. PICK id \in JobIds, connection \in Connections :
              tab[t].arg = NewJob(id, connection, NoDeadline)
      BY <1>6, DueTypes DEF CreateCommit, At, PageOK, JobsOK
    <3>3. latest'.connectionKey = tab[t].arg.connectionKey
      BY <2>1, <3>2 DEF Create, Created, WithConnectionThrottle, NewJob
    <3>4. latest' \in ReportJob
      <4>1. PICK job : job = tab[t].arg
        OBVIOUS
      <4>2. job \in ReportJob /\ Create(job) /\ StoreTypeOK
        BY <2>1, <3>2, <4>1, NewJobOK, TabFacts
      <4>3. CarriedThrottles \in [Connections -> Deadlines] /\ NoDeadline \in Deadlines
        BY <4>2, CarriedType, StoreConstants DEF NoDeadline, Deadlines
      <4> QED BY <4>2, <4>3, ThrottledJob DEF Create, Created
    <3> QED BY <1>4, <2>1, <3>1, <3>3, <3>4
  <2> QED BY <1>3, <1>6, <2>1 DEF CreateCommit
<1>7. CASE ResumeLoad(t)
  <2>1. ASSUME latest # NoJob, latest.connectionKey = ConnectionOf[t],
               Become(t, Opening(tab[t], Loaded))
        PROVE  DueStep(t)
    <3>1. StoreTypeOK /\ Closed(Known) /\ latest \in Known
      BY <2>1, TabFacts, KnownOK
    <3>2. Loaded \in ReportJob /\ Loaded.connectionKey = latest.connectionKey
      BY <2>1, <3>1, LoadedOK
    <3> QED BY <1>4, <2>1, <3>2
  <2> QED BY <1>3, <1>7, <2>1 DEF ResumeLoad, MayResume
<1> QED BY <1>5, <1>6, <1>7

(* A step of a run without a write. *)
LEMMA WorkDue ==
    ASSUME Inv, Inv', NEW t \in Tabs, DueOK(t), UNCHANGED stored,
           NEW page, Become(t, page), Paced(tab[t], page),
           page.phase \notin {"creating", "opening"}
    PROVE  DueStep(t)
<1>1. page = tab'[t]
  BY DEF Inv, TypeOK, Become
<1>2. CASE page.phase = "collecting"
  BY <1>1, <1>2, PacedStep
<1>3. CASE page.phase # "collecting"
  BY <1>1, <1>3, RestDue
<1> QED BY <1>2, <1>3

(* The page that a step leads to has a number for a deadline.              *)
LEMMA NextDated ==
    ASSUME Inv, Inv', NEW t \in Tabs, NEW page, Become(t, page)
    PROVE  Dated(page) /\ page = tab'[t]
<1>1. page = tab'[t]
  BY DEF Inv, TypeOK, Become
<1> QED BY <1>1, NextDueTypes

(* A reply that is no success: the run stops, or waits and asks again.     *)
LEMMA RejectedPaced ==
    ASSUME NEW page \in PageType, page.job \in ReportJob, page.reader.key \in Keys,
           now \in 0..MaxTime, NEW next \in Rejected(page), Dated(next)
    PROVE  Paced(page, next)
<1> DEFINE free == [page EXCEPT !.reader = NoRead]
           key == page.reader.key
           retries == page.retries + 1
           held == [page EXCEPT !.reader = NoRead, !.retries = retries, !.wanted = {key}]
<1>1. now \in Nat /\ page.job.retryAt \in Nat
  BY StoreConstants DEF ReportJob, Deadlines
<1>2. \/ next = Stop(free)
      \/ \E delay \in Delays : page.retries < MaxRetries /\ next = StartWait(held, delay)
  <2>1. next \in {Stop(free)} \cup
          IF ApiOf[key] = "v3" /\ page.retries < MaxRetries
          THEN {StartWait([free EXCEPT !.retries = page.retries + 1, !.wanted = {key}], delay) :
                    delay \in Delays}
          ELSE {}
    BY DEF Rejected
  <2>2. [free EXCEPT !.retries = page.retries + 1, !.wanted = {key}] = held
    BY DEF PageType
  <2> HIDE DEF free, held, key
  <2> QED BY <2>1, <2>2
<1>3. CASE next = Stop(free)
  <2>1. free \in PageType /\ free.reader = NoRead /\ free.phase = page.phase
    BY NothingOK DEF PageType, NoReadType
  <2> HIDE DEF free
  <2>2. next.stopped = TRUE /\ next.reader = NoRead /\ next.phase = page.phase
    BY <1>3, <2>1, StopFields
  <2> QED BY <2>2, HaltPaced DEF Collects
<1>4. ASSUME NEW delay \in Delays, page.retries < MaxRetries, next = StartWait(held, delay)
      PROVE  Paced(page, next)
  <2>1. retries \in 0..MaxRetries
    BY <1>4, PageFields, CollectionConstants
  <2> HIDE DEF key, retries
  <2>2. {key} \in SUBSET Keys
    BY DEF key
  <2>3. /\ held \in PageType /\ held.job = page.job /\ held.reader = NoRead
        /\ held.phase = page.phase /\ held.stopped = page.stopped
    BY <2>1, <2>2, NothingOK, ZenonT(30) DEF PageType, NoReadType
  <2> HIDE DEF held
  <2>4. Paced(held, next)
    BY <1>4, <2>3, StartWaitPaced
  <2>5. Dated(page) /\ Dated(held)
    BY <1>1, <2>3 DEF Dated
  <2> QED BY <1>1, <2>3, <2>4, <2>5, ShiftPaced DEF Collects
<1> QED BY <1>2, <1>3, <1>4

(* What is known of a run that reads. *)
LEMMA ReadingDue ==
    ASSUME Inv, NEW t \in Tabs, tab[t].reader.step # "none"
    PROVE  /\ tab[t] \in PageType /\ tab[t].phase = "collecting" /\ tab[t].job \in ReportJob
           /\ tab[t].reader.key \in Keys /\ tab[t].reader \in NoReadType
           /\ now \in 0..MaxTime /\ now \in Nat
<1>1. /\ PageOK(tab[t], Known) /\ tab[t] \in PageType /\ tab[t].job \in ReportJob
      /\ now \in 0..MaxTime
  BY BusyTab DEF Known
<1>2. tab[t].phase = "collecting" /\ tab[t].reader \in NoReadType /\ tab[t].reader.key \in Keys
  BY <1>1, ReadingOK DEF Running
<1> QED BY <1>1, <1>2, StoreConstants

(* The requests of a collector, and the steps of a run that stops.         *)
LEMMA AskDue ==
    ASSUME Inv, Inv', NEW t \in Tabs, DueOK(t), Ask(t)
    PROVE  DueStep(t)
<1>1. /\ tab[t] \in PageType /\ tab[t].phase = "collecting" /\ tab[t].job \in ReportJob
      /\ now \in 0..MaxTime /\ now \in Nat /\ Dated(tab[t]) /\ UNCHANGED stored
  BY TabFacts, DueTypes, StoreConstants DEF Ask, At
<1>2. PICK key \in Keys :
        LET fresh == [tab[t] EXCEPT !.retries = 0]
            held == [fresh EXCEPT !.wanted = @ \cup {key}]
            sent == [fresh EXCEPT !.queue = @ \cup {key}]
        IN \/ Become(t, held)
           \/ Become(t, sent)
           \/ \E delay \in Delays : Become(t, StartWait([held EXCEPT !.pending = FALSE], delay))
           \/ Become(t, [sent EXCEPT !.pending = FALSE])
  BY DEF Ask
<1> DEFINE fresh == [tab[t] EXCEPT !.retries = 0]
           held == [fresh EXCEPT !.wanted = @ \cup {key}]
           sent == [fresh EXCEPT !.queue = @ \cup {key}]
           mid == Asked(tab[t], tab[t].queue, tab[t].wanted \cup {key}, FALSE)
<1>3. /\ held.job = tab[t].job /\ held.reader = tab[t].reader
      /\ held.phase = tab[t].phase /\ held.stopped = tab[t].stopped
      /\ sent.job = tab[t].job /\ sent.reader = tab[t].reader
      /\ sent.phase = tab[t].phase /\ sent.stopped = tab[t].stopped
      /\ held \in PageType /\ sent \in PageType
  <2>1. 0 \in 0..MaxRetries /\ tab[t].wanted \cup {key} \in SUBSET Keys
        /\ tab[t].queue \cup {key} \in SUBSET Keys
    BY <1>1, PageFields, CollectionConstants
  <2>2. fresh \in PageType /\ fresh.wanted = tab[t].wanted /\ fresh.queue = tab[t].queue
        /\ fresh.job = tab[t].job /\ fresh.reader = tab[t].reader
        /\ fresh.phase = tab[t].phase /\ fresh.stopped = tab[t].stopped
    BY <1>1, <2>1 DEF PageType
  <2> HIDE DEF fresh
  <2> QED BY <2>1, <2>2 DEF PageType
<1>4. \/ Become(t, held)
      \/ Become(t, sent)
      \/ \E delay \in Delays : Become(t, StartWait([held EXCEPT !.pending = FALSE], delay))
      \/ Become(t, [sent EXCEPT !.pending = FALSE])
  BY <1>2
<1> HIDE DEF held, sent
<1>5. ASSUME NEW page, Become(t, page), page.job = tab[t].job, page.reader = tab[t].reader,
             page.phase = tab[t].phase, page.stopped = tab[t].stopped
      PROVE  DueStep(t)
  <2>1. Paced(tab[t], page)
    BY <1>5, KeepPaced DEF Collects
  <2> QED BY <1>1, <1>5, <2>1, WorkDue
<1>6. /\ [sent EXCEPT !.pending = FALSE].job = tab[t].job
      /\ [sent EXCEPT !.pending = FALSE].reader = tab[t].reader
      /\ [sent EXCEPT !.pending = FALSE].phase = tab[t].phase
      /\ [sent EXCEPT !.pending = FALSE].stopped = tab[t].stopped
  BY <1>3 DEF PageType
<1>7. ASSUME NEW delay \in Delays, Become(t, StartWait([held EXCEPT !.pending = FALSE], delay))
      PROVE  DueStep(t)
  <2>1. PICK free : free = [held EXCEPT !.pending = FALSE]
    OBVIOUS
  <2>2. /\ free \in PageType /\ free.job = tab[t].job /\ free.reader = tab[t].reader
        /\ free.phase = tab[t].phase /\ free.stopped = tab[t].stopped
    BY <1>3, <2>1 DEF PageType
  <2>3. PICK page : page = StartWait(free, delay)
    OBVIOUS
  <2>4. Become(t, page)
    BY <1>7, <2>1, <2>3
  <2>5. Dated(page)
    BY <2>4, NextDated
  <2>6. Paced(free, page)
    BY <1>1, <2>2, <2>3, StartWaitPaced
  <2>7. Dated(free) /\ tab[t].job.retryAt \in Nat
    BY <1>1, <2>2, StoreConstants DEF Dated, ReportJob, Deadlines
  <2>8. Paced(tab[t], page)
    BY <1>1, <2>2, <2>5, <2>6, <2>7, ShiftPaced DEF Collects
  <2> QED BY <1>1, <2>4, <2>8, WorkDue DEF Paced
<1> QED BY <1>3, <1>4, <1>5, <1>6, <1>7

(* A pause, an error of a collector, and the timers. *)
LEMMA QuietDue ==
    ASSUME Inv, Inv', NEW t \in Tabs, DueOK(t),
           \/ Abort(t) \/ CollectorFails(t) \/ TakeRead(t) \/ Lookup(t)
           \/ ReaderWakes(t) \/ WaiterWakes(t)
    PROVE  DueStep(t)
<1>1. tab[t] \in PageType /\ now \in Nat /\ now \in 0..MaxTime
  BY TabFacts, StoreConstants
<1>2. CASE Abort(t)
  <2>1. PICK page : page = [tab[t] EXCEPT !.aborted = TRUE]
    OBVIOUS
  <2>2. Become(t, page) /\ UNCHANGED stored
    BY <1>2, <2>1 DEF Abort
  <2>3. /\ page.phase = tab[t].phase /\ page.stopped = tab[t].stopped
        /\ page.job = tab[t].job /\ page.reader = tab[t].reader /\ page.arg = tab[t].arg
    BY <1>1, <2>1 DEF PageType
  <2>4. CASE page.phase \in {"creating", "opening"}
    <3>1. page = tab'[t]
      BY <2>2, NextDated
    <3> QED BY <2>3, <2>4, <3>1, RestDue DEF DueOK, Informed
  <2>5. CASE page.phase \notin {"creating", "opening"}
    <3>1. Paced(tab[t], page)
      BY <2>3, KeepPaced DEF Collects
    <3> QED BY <2>2, <2>5, <3>1, WorkDue
  <2> QED BY <2>4, <2>5
<1>3. CASE CollectorFails(t)
  <2>1. Become(t, Stop(tab[t])) /\ UNCHANGED stored /\ tab[t].phase = "collecting"
    BY <1>3 DEF CollectorFails, At
  <2> QED BY <1>1, <2>1, StopPaced, StopFields, WorkDue
<1>4. CASE TakeRead(t)
  <2>1. PICK key \in tab[t].queue :
            Become(t, IF Inactive(Taken(tab[t], key)) THEN Stop(Taken(tab[t], key))
                      ELSE LookingUp(tab[t], key))
    BY <1>4 DEF TakeRead, Taken, LookingUp
  <2>2. PICK rest : rest = Taken(tab[t], key)
    OBVIOUS
  <2>3. /\ rest \in PageType /\ rest.phase = tab[t].phase /\ rest.reader = tab[t].reader
        /\ rest.job = tab[t].job /\ rest.stopped = tab[t].stopped
    BY <1>1, <2>2 DEF Taken, PageType
  <2>4. PICK reader : reader = [rest.reader EXCEPT !.step = "lookup", !.key = key]
    OBVIOUS
  <2>5. reader.step = "lookup"
    BY <2>3, <2>4, PageFields DEF NoReadType
  <2>6. LookingUp(tab[t], key) = [rest EXCEPT !.reader = reader]
    BY <2>2, <2>3, <2>4 DEF LookingUp, PageType
  <2>7. PICK page \in {Stop(rest), [rest EXCEPT !.reader = reader]} : Become(t, page)
    BY <2>1, <2>2, <2>6
  <2>8. Paced(tab[t], page) /\ page.phase = tab[t].phase
    <3>1. CASE page = Stop(rest)
      <4>1. /\ page.phase = tab[t].phase /\ page.stopped = TRUE
            /\ page.reader = tab[t].reader
        BY <2>3, <3>1, StopFields
      <4> QED BY <4>1, HaltPaced DEF Collects
    <3>2. CASE page = [rest EXCEPT !.reader = reader]
      <4>1. /\ page.phase = tab[t].phase /\ page.stopped = tab[t].stopped
            /\ page.job = tab[t].job /\ page.reader = reader
        BY <2>3, <3>2 DEF PageType
      <4> QED BY <2>5, <4>1, KeepPaced DEF Collects
    <3> QED BY <2>7, <3>1, <3>2
  <2>9. tab[t].phase = "collecting"
    BY <1>1, <2>1, DueTypes DEF PageOK, RestOK
  <2> QED BY <1>4, <2>7, <2>8, <2>9, WorkDue DEF TakeRead
<1>5. CASE Lookup(t) \/ ReaderWakes(t)
  <2>1. tab[t].phase = "collecting" /\ tab[t].job \in ReportJob /\ UNCHANGED stored
    BY <1>5, ReadingDue DEF Lookup, ReaderWakes
  <2>2. PICK page : /\ Become(t, page)
                    /\ \/ page \in {StopRead(tab[t]), ReadWhenDue(tab[t])}
                       \/ \E response : page = Received(tab[t], response)
    <3>1. CASE Lookup(t)
      BY <3>1 DEF Lookup
    <3>2. CASE ReaderWakes(t)
      BY <3>2 DEF ReaderWakes
    <3> QED BY <1>5, <3>1, <3>2
  <2>3. Paced(tab[t], page)
    BY <1>1, <2>1, <2>2, StopPaced, ReadWhenDuePaced, ReceivedPaced
  <2> QED BY <2>1, <2>2, <2>3, WorkDue DEF Paced
<1>6. CASE WaiterWakes(t)
  <2>1. /\ tab[t].phase \in {"collecting", "settling"} /\ tab[t].job \in ReportJob
        /\ UNCHANGED stored
    BY <1>6, BusyTab, WaitingOK DEF WaiterWakes, Running, Known
  <2>2. PICK page \in {StopWait(tab[t]), WaitUntilDue(tab[t])} : Become(t, page)
    BY <1>6 DEF WaiterWakes
  <2>3. Paced(tab[t], page)
    BY <1>1, <2>1, <2>2, StopPaced, WaitUntilDuePaced
  <2> QED BY <2>1, <2>2, <2>3, WorkDue DEF Paced
<1> QED BY <1>2, <1>3, <1>4, <1>5, <1>6

(* A reply moves the deadline forward before it is looked at.              *)
LEMMA ReplyDue ==
    ASSUME Inv, Inv', NEW t \in Tabs, DueOK(t), Reply(t)
    PROVE  DueStep(t)
<1>1. /\ tab[t] \in PageType /\ tab[t].phase = "collecting" /\ tab[t].job \in ReportJob
      /\ tab[t].reader.key \in Keys /\ tab[t].reader \in NoReadType
      /\ now \in 0..MaxTime /\ now \in Nat /\ UNCHANGED stored
  BY ReadingDue DEF Reply
<1>2. CASE Become(t, StopRead(tab[t]))
  BY <1>1, <1>2, StopPaced, StopFields, WorkDue
<1>3. ASSUME NEW delay \in Delays, NEW page, page = [tab[t] EXCEPT !.job = Raise(@, delay)],
             \/ Become(t, StopRead(page))
             \/ \E response \in Responses, owes \in BOOLEAN :
                    Become(t, [page EXCEPT !.reader.step = "saving",
                                           !.reader.arg = page.job,
                                           !.reader.response = response,
                                           !.reader.owes = owes])
             \/ Become(t, [page EXCEPT !.reader.step = "deferring",
                                       !.reader.arg = page.job])
             \/ \E next \in Rejected(page) : Become(t, next)
      PROVE  DueStep(t)
  <2>1. PICK due : due = Raise(tab[t].job, delay)
    OBVIOUS
  <2>2. due \in ReportJob /\ due.retryAt >= tab[t].job.retryAt
    BY <1>1, <2>1, RaiseLater
  <2>3. /\ page \in PageType /\ page.job = due /\ page.phase = tab[t].phase
        /\ page.stopped = tab[t].stopped /\ page.reader = tab[t].reader
    BY <1>1, <1>3, <2>1, <2>2 DEF PageType, JobOrNone
  <2>4. due.retryAt \in Nat /\ tab[t].job.retryAt \in Nat
    BY <1>1, <2>2, StoreConstants DEF ReportJob, Deadlines
  <2>5. ASSUME NEW next, Become(t, next), next.phase = page.phase, next.job = due,
               next.stopped = page.stopped, next.reader.step \in {"saving", "deferring"}
        PROVE  DueStep(t)
    <3>1. Paced(tab[t], next)
      BY <2>2, <2>3, <2>5 DEF Paced, Collects
    <3> QED BY <1>1, <2>3, <2>5, <3>1, WorkDue
  <2>6. ASSUME NEW response \in Responses, NEW owes \in BOOLEAN,
               Become(t, [page EXCEPT !.reader.step = "saving", !.reader.arg = page.job,
                                      !.reader.response = response, !.reader.owes = owes])
        PROVE  DueStep(t)
    <3>1. PICK next : next = [page EXCEPT !.reader.step = "saving", !.reader.arg = page.job,
                                 !.reader.response = response, !.reader.owes = owes]
      OBVIOUS
    <3>2. /\ next.phase = page.phase /\ next.job = page.job /\ next.stopped = page.stopped
          /\ next.reader.step = "saving"
      BY <1>1, <2>3, <3>1 DEF PageType, NoReadType
    <3> QED BY <2>3, <2>5, <2>6, <3>1, <3>2
  <2>7. CASE Become(t, [page EXCEPT !.reader.step = "deferring", !.reader.arg = page.job])
    <3>1. PICK next : next = [page EXCEPT !.reader.step = "deferring",
                                          !.reader.arg = page.job]
      OBVIOUS
    <3>2. /\ next.phase = page.phase /\ next.job = page.job /\ next.stopped = page.stopped
          /\ next.reader.step = "deferring"
      BY <1>1, <2>3, <3>1 DEF PageType, NoReadType
    <3> QED BY <2>3, <2>5, <2>7, <3>1, <3>2
  <2>8. CASE Become(t, StopRead(page))
    <3>1. PICK next : next = StopRead(page)
      OBVIOUS
    <3>2. next.phase = tab[t].phase /\ next.stopped = TRUE /\ next.reader = NoRead
      BY <2>3, <3>1, StopFields
    <3>3. Paced(tab[t], next)
      BY <3>2, HaltPaced DEF Collects
    <3> QED BY <1>1, <2>8, <3>1, <3>2, <3>3, WorkDue
  <2>9. ASSUME NEW next \in Rejected(page), Become(t, next) PROVE DueStep(t)
    <3>1. Dated(next) /\ Dated(page) /\ Dated(tab[t])
      BY <2>3, <2>4, <2>9, NextDated DEF Dated
    <3>2. Paced(page, next)
      BY <1>1, <2>2, <2>3, <3>1, RejectedPaced
    <3>3. page.job.retryAt = NoDeadline => tab[t].job.retryAt = NoDeadline
      BY <2>2, <2>3, <2>4 DEF NoDeadline
    <3>4. Paced(tab[t], next)
      BY <1>1, <2>2, <2>3, <3>1, <3>2, <3>3, ShiftPaced DEF Collects
    <3> QED BY <1>1, <2>9, <3>4, WorkDue DEF Paced
  <2> QED BY <1>3, <2>6, <2>7, <2>8, <2>9
<1>4. CASE ~Inactive(tab[t])
           /\ \E delay \in Delays :
             LET page == [tab[t] EXCEPT !.job = Raise(@, delay)]
             IN \/ Become(t, StopRead(page))
                \/ \E response \in Responses, owes \in BOOLEAN :
                    Become(t, [page EXCEPT !.reader.step = "saving",
                                           !.reader.arg = page.job,
                                           !.reader.response = response,
                                           !.reader.owes = owes])
                \/ Become(t, [page EXCEPT !.reader.step = "deferring",
                                          !.reader.arg = page.job])
                \/ \E next \in Rejected(page) : Become(t, next)
  <2>1. PICK delay \in Delays :
             LET page == [tab[t] EXCEPT !.job = Raise(@, delay)]
             IN \/ Become(t, StopRead(page))
                \/ \E response \in Responses, owes \in BOOLEAN :
                    Become(t, [page EXCEPT !.reader.step = "saving",
                                           !.reader.arg = page.job,
                                           !.reader.response = response,
                                           !.reader.owes = owes])
                \/ Become(t, [page EXCEPT !.reader.step = "deferring",
                                          !.reader.arg = page.job])
                \/ \E next \in Rejected(page) : Become(t, next)
    BY <1>4
  <2>2. PICK page : page = [tab[t] EXCEPT !.job = Raise(@, delay)]
    OBVIOUS
  <2>3. \/ Become(t, StopRead(page))
        \/ \E response \in Responses, owes \in BOOLEAN :
              Become(t, [page EXCEPT !.reader.step = "saving",
                                     !.reader.arg = page.job,
                                     !.reader.response = response,
                                     !.reader.owes = owes])
        \/ Become(t, [page EXCEPT !.reader.step = "deferring",
                                  !.reader.arg = page.job])
        \/ \E next \in Rejected(page) : Become(t, next)
    BY <2>1, <2>2
  <2> QED BY <1>3, <2>2, <2>3
<1> QED BY <1>2, <1>4, ZenonT(30) DEF Reply

(* The page with the job that a write returned. *)
LEMMA RenewedFields ==
    ASSUME NEW page \in PageType, NEW job \in ReportJob
    PROVE  /\ Renewed(page, job) \in PageType /\ Renewed(page, job).job = job
           /\ Renewed(page, job).phase = page.phase
           /\ Renewed(page, job).stopped = page.stopped
           /\ Renewed(page, job).reader = page.reader
           /\ Renewed(page, job).waiter = page.waiter
BY DEF Renewed, PageType, JobOrNone

(* A write gives the run the job, and it goes on with it.                  *)
LEMMA RenewedDue ==
    ASSUME Inv, Inv', NEW t \in Tabs, DueOK(t), tab[t].phase \notin {"creating", "opening"},
           NEW job \in ReportJob,
           \/ Save(job)
           \/ \E key \in Keys, response \in Responses : Checkpoint(job, key, response),
           latest'.revision = latest.revision + 1, latest' \in ReportJob,
           NEW saved, saved = latest',
           NEW page, Become(t, page), Paced(Renewed(tab[t], saved), page)
    PROVE  DueStep(t)
<1>1. tab[t] \in PageType /\ page = tab'[t]
  BY TabFacts, NextDated
<1>2. PICK mid : mid = Renewed(tab[t], saved)
  OBVIOUS
<1>3. /\ mid.job = latest' /\ mid.phase = tab[t].phase /\ mid.stopped = tab[t].stopped
      /\ mid.reader = tab[t].reader
  BY <1>1, <1>2, RenewedFields
<1>4. page.phase = tab[t].phase
  BY <1>2, <1>3 DEF Paced
<1>5. CASE tab[t].phase = "collecting"
  BY <1>1, <1>2, <1>3, <1>4, <1>5, CommitStep DEF Collects
<1>6. CASE tab[t].phase # "collecting"
  BY <1>1, <1>4, <1>6, RestDue
<1> QED BY <1>5, <1>6

(* The saves of the waits, and of a deadline that came with a reply.       *)
LEMMA WaiterCommitDue ==
    ASSUME Inv, Inv', NEW t \in Tabs, DueOK(t), WaiterCommit(t)
    PROVE  DueStep(t)
<1>1. /\ tab[t] \in PageType /\ now \in Nat /\ StoreInv
      /\ tab[t].phase \in {"collecting", "settling"} /\ tab[t].waiter.step \in {"setting", "clearing"}
  BY TabFacts, BusyTab, WaitingOK, DueTypes DEF WaiterCommit, Running
<1>2. PICK job : job = tab[t].waiter.arg
  OBVIOUS
<1>3. job \in ReportJob
  BY <1>1, <1>2, SubmitOK
<1>4. CASE UNCHANGED stored /\ Become(t, StopWait(tab[t]))
  BY <1>1, <1>4, StopPaced, StopFields, WorkDue
<1>5. CASE /\ Save(job)
           /\ LET next == [tab[t] EXCEPT !.job = latest'] IN
              Become(t, IF next.waiter.step = "setting" THEN WaitUntilDue(next)
                                                        ELSE EndWait(next))
  <2>1. latest' \in ReportJob /\ latest'.revision = latest.revision + 1
    BY <1>1, <1>3, <1>5, SaveWrites DEF Written
  <2>2. PICK saved : saved = latest'
    OBVIOUS
  <2>3. PICK mid : mid = Renewed(tab[t], saved)
    OBVIOUS
  <2>4. mid \in PageType /\ mid.job \in ReportJob
    BY <1>1, <2>1, <2>2, <2>3, RenewedFields
  <2>5. PICK page \in {WaitUntilDue(mid), EndWait(mid)} : Become(t, page)
    BY <1>5, <2>2, <2>3 DEF Renewed
  <2>6. Paced(mid, page)
    BY <1>1, <2>4, <2>5, WaitUntilDuePaced, EndWaitPaced
  <2> QED BY <1>1, <1>3, <1>5, <2>1, <2>2, <2>3, <2>5, <2>6, RenewedDue
<1> QED BY <1>2, <1>4, <1>5 DEF WaiterCommit, Saves, Refused

(* The run stops with its read, or hands the response to the collector.    *)
LEMMA ReaderCommitDue ==
    ASSUME Inv, Inv', NEW t \in Tabs, DueOK(t), ReaderCheckpoints(t) \/ ReaderDefers(t)
    PROVE  DueStep(t)
<1>1. tab[t].reader.step \in {"saving", "deferring"}
  BY DEF ReaderCheckpoints, ReaderDefers
<1>2. PICK job : job = tab[t].reader.arg
  OBVIOUS
<1>3. /\ tab[t] \in PageType /\ tab[t].phase = "collecting" /\ now \in 0..MaxTime
      /\ tab[t].reader.key \in Keys /\ StoreInv /\ job \in ReportJob
      /\ Unsaved(tab[t]) /\ job.id = tab[t].job.id
  BY <1>1, <1>2, ReadingDue, ReadFacts
<1>4. CASE UNCHANGED stored /\ Become(t, StopRead(tab[t]))
  BY <1>3, <1>4, StopPaced, StopFields, WorkDue
<1>5. CASE ReaderCheckpoints(t) /\ ~(UNCHANGED stored /\ Become(t, StopRead(tab[t])))
  <2>1. PICK key, response : key = tab[t].reader.key /\ response = tab[t].reader.response
    OBVIOUS
  <2>2. /\ Checkpoint(job, key, response)
        /\ LET page == [tab[t] EXCEPT !.job = latest'] IN
           Become(t, IF Inactive(page) THEN StopRead(page) ELSE Received(page, response))
    BY <1>2, <1>5, <2>1 DEF ReaderCheckpoints, Refused
  <2>3. key \in Keys /\ response \in Responses
    <3>1. tab[t].reader.step = "saving"
      BY <1>5 DEF ReaderCheckpoints
    <3> QED BY <1>3, <2>1, <3>1, DueTypes DEF PageOK, ReaderOK
  <2>4. \A r \in Responses : Entry(job, key, r) \notin journal
    BY <1>3, <2>1 DEF Unsaved, Entry
  <2>5. latest' \in ReportJob /\ latest'.revision = latest.revision + 1
    BY <1>3, <2>2, <2>3, <2>4, CheckpointWrites DEF Written
  <2>6. PICK saved : saved = latest'
    OBVIOUS
  <2>7. PICK mid : mid = Renewed(tab[t], saved)
    OBVIOUS
  <2>8. mid \in PageType
    BY <1>3, <2>5, <2>6, <2>7, RenewedFields
  <2>9. PICK page \in {StopRead(mid), Received(mid, response)} : Become(t, page)
    BY <2>2, <2>6, <2>7 DEF Renewed
  <2>10. Paced(mid, page)
    BY <2>8, <2>9, StopPaced, ReceivedPaced
  <2> QED BY <1>3, <2>2, <2>3, <2>5, <2>6, <2>7, <2>9, <2>10, RenewedDue
<1>6. CASE ReaderDefers(t) /\ ~(UNCHANGED stored /\ Become(t, StopRead(tab[t])))
  <2>1. /\ Save(job)
        /\ LET page == [tab[t] EXCEPT !.job = latest'] IN
           \E next \in IF Inactive(page) THEN {StopRead(page)} ELSE Rejected(page) :
               Become(t, next)
    BY <1>2, <1>6 DEF ReaderDefers, Saves, Refused
  <2>2. latest' \in ReportJob /\ latest'.revision = latest.revision + 1
    BY <1>3, <2>1, SaveWrites DEF Written
  <2>3. PICK saved : saved = latest'
    OBVIOUS
  <2>4. PICK mid : mid = Renewed(tab[t], saved)
    OBVIOUS
  <2>5. mid \in PageType /\ mid.job \in ReportJob /\ mid.reader.key \in Keys
    BY <1>3, <2>2, <2>3, <2>4, RenewedFields
  <2>6. PICK page \in {StopRead(mid)} \cup Rejected(mid) : Become(t, page)
    BY <2>1, <2>3, <2>4 DEF Renewed
  <2>7. Dated(page)
    BY <2>6, NextDated
  <2>8. Paced(mid, page)
    BY <1>3, <2>5, <2>6, <2>7, StopPaced, RejectedPaced
  <2> QED BY <1>3, <2>1, <2>2, <2>3, <2>4, <2>6, <2>8, RenewedDue
<1> QED BY <1>1, <1>4, <1>5, <1>6

(* The save that clears a deadline leaves none, or the run stops: a later  *)
(* deadline would have come with another revision.                         *)
LEMMA ReaderClearsDue ==
    ASSUME Inv, Inv', NEW t \in Tabs, DueOK(t), ReaderClears(t)
    PROVE  DueStep(t)
<1>1. tab[t].reader.step = "clearing"
  BY DEF ReaderClears
<1>2. PICK job : job = tab[t].reader.arg
  OBVIOUS
<1>3. /\ tab[t] \in PageType /\ tab[t].phase = "collecting" /\ now \in Nat
      /\ tab[t].reader \in NoReadType /\ StoreInv /\ job \in ReportJob
      /\ ConnectionOf[t] \in Connections
  BY <1>1, <1>2, ReadingDue, ReadFacts, DueTypes
<1>4. CASE UNCHANGED stored /\ Become(t, StopRead(tab[t]))
  BY <1>3, <1>4, StopPaced, StopFields, WorkDue
<1>5. CASE /\ Save(job)
           /\ Become(t, Fetch([tab[t] EXCEPT !.job = latest', !.reader.arg = None]))
  <2>1. latest' \in ReportJob
    BY <1>3, <1>5, SaveWrites DEF Written
  <2>2. PICK saved : saved = latest'
    OBVIOUS
  <2>3. PICK ready : ready = [tab[t] EXCEPT !.job = saved, !.reader.arg = None]
    OBVIOUS
  <2>4. /\ ready \in PageType /\ ready.phase = "collecting" /\ ready.job = saved
        /\ ready.stopped = tab[t].stopped
    BY <1>3, <2>1, <2>2, <2>3 DEF PageType, JobOrNone, NoReadType
  <2>5. PICK page : page = Fetch(ready)
    OBVIOUS
  <2>6. Become(t, page)
    BY <1>5, <2>2, <2>3, <2>5
  <2>7. page = tab'[t]
    BY <2>6, NextDated
  <2>8. CASE Inactive(ready)
    <3>1. page.phase = "collecting" /\ page.stopped = TRUE /\ page.reader = NoRead
      BY <2>4, <2>5, <2>8, StopFields DEF Fetch
    <3> QED BY <2>7, <3>1, HaltDue
  <2>9. CASE ~Inactive(ready)
    <3>1. page = [ready EXCEPT !.reader.step = "fetching"]
      BY <2>5, <2>9 DEF Fetch
    <3>2. page.reader.step = "fetching" /\ page.phase = "collecting" /\ page.job = saved
      BY <2>4, <3>1, PageFields DEF PageType, NoReadType
    <3>3. Collects(tab[t])
      BY <1>3, <2>4, <2>9 DEF Collects, Inactive
    <3>4. /\ latest.connectionKey = ConnectionOf[t] /\ job.retryAt = NoDeadline
          /\ job.revision = latest.revision => Deadline(ConnectionOf[t]) <= now
      BY <1>1, <1>2, <3>3 DEF DueOK, Informed, Due
    <3>5. job.revision = latest.revision
      BY <1>5 DEF Save, IsCurrent
    <3>6. latest'.retryAt = NoDeadline
      BY <1>3, <1>5, <3>4, <3>5, ClearedDeadline
    <3>7. PICK deadline : deadline = Deadline(ConnectionOf[t])'
      OBVIOUS
    <3>8. /\ deadline = NoDeadline /\ now' = now
          /\ latest'.connectionKey = ConnectionOf[t]
      BY <1>3, <1>5, <3>4, <3>6, <3>7, WrittenDeadline DEF Inv
    <3>9. deadline <= now /\ ~(deadline > now)
      BY <1>3, <3>8 DEF NoDeadline
    <3>10. Informed(page, ConnectionOf[t], deadline, latest', now')
      BY <3>2, <3>8, <3>9 DEF Informed, Due
    <3> QED BY <2>7, <3>7, <3>8, <3>9, <3>10, DueStepOK
  <2> QED BY <2>8, <2>9
<1> QED BY <1>2, <1>4, <1>5 DEF ReaderClears, Saves, Refused

(* The first save of a run, and the last.                                  *)
LEMMA OpenCommitDue ==
    ASSUME Inv, Inv', NEW t \in Tabs, DueOK(t), OpenCommit(t)
    PROVE  DueStep(t)
<1>1. tab[t].phase = "opening" /\ tab[t] \in PageType /\ PageOK(tab[t], Known) /\ StoreInv
      /\ tab[t].reader = NoRead
  BY DueTypes DEF OpenCommit, At
<1>2. PICK job : job = tab[t].arg
  OBVIOUS
<1>3. job \in ReportJob /\ job.connectionKey = ConnectionOf[t]
  BY <1>1, <1>2 DEF PageOK, JobsOK, WithArg, Known, DueOK, Informed
<1>4. PICK collecting : collecting = [tab[t] EXCEPT !.phase = "collecting", !.arg = None]
  OBVIOUS
<1>5. collecting \in PageType /\ collecting.phase = "collecting" /\ collecting.reader = NoRead
      /\ collecting.stopped = tab[t].stopped
  BY <1>1, <1>4 DEF PageType, JobOrNone, Phases
<1>6. CASE Save(job) /\ Become(t, [collecting EXCEPT !.job = latest'])
  <2>1. latest' \in ReportJob /\ latest'.revision = latest.revision + 1
    BY <1>1, <1>3, <1>6, SaveWrites DEF Written
  <2>2. PICK saved : saved = latest'
    OBVIOUS
  <2>3. PICK page : page = Renewed(collecting, saved)
    OBVIOUS
  <2>4. /\ page.job = latest' /\ page.phase = "collecting"
        /\ page.stopped = tab[t].stopped /\ page.reader = tab[t].reader
    BY <1>1, <1>5, <2>1, <2>2, <2>3, RenewedFields
  <2>5. Paced(page, page)
    BY KeepPaced
  <2>6. page = tab'[t]
    BY <1>6, <2>2, <2>3, NextDated DEF Renewed
  <2> QED BY <1>1, <1>3, <1>6, <2>1, <2>4, <2>5, <2>6, CommitStep
<1>7. CASE Become(t, Stop(collecting))
  <2>1. PICK page : page = Stop(collecting)
    OBVIOUS
  <2>2. page.phase = "collecting" /\ page.stopped = TRUE /\ page.reader = tab[t].reader
    BY <1>1, <1>5, <2>1, StopFields
  <2>3. page = tab'[t]
    BY <1>7, <2>1, NextDated
  <2> QED BY <2>2, <2>3, HaltDue
<1> QED BY <1>2, <1>4, <1>6, <1>7 DEF OpenCommit, Saves

(* The completion is saved, or the run stops. *)
LEMMA FinishCommitDue ==
    ASSUME Inv, Inv', NEW t \in Tabs, FinishCommit(t)
    PROVE  DueStep(t)
<1>1. tab[t] \in PageType /\ tab[t].phase = "closing" /\ tab[t].reader = NoRead
  BY DueTypes DEF FinishCommit, At
<1>2. ASSUME NEW page \in PageType, page.reader = NoRead,
             Become(t, Stop([page EXCEPT !.phase = "collecting"]))
      PROVE  DueStep(t)
  <2>1. PICK mid : mid = [page EXCEPT !.phase = "collecting"]
    OBVIOUS
  <2>2. mid \in PageType /\ mid.phase = "collecting" /\ mid.reader = NoRead
    BY <1>2, <2>1 DEF PageType, Phases
  <2>3. PICK next : next = Stop(mid)
    OBVIOUS
  <2>4. next.phase = "collecting" /\ next.stopped = TRUE /\ next.reader = NoRead
    BY <2>2, <2>3, StopFields
  <2>5. next = tab'[t]
    BY <1>2, <2>1, <2>3, NextDated
  <2> QED BY <2>4, <2>5, HaltDue
<1>3. CASE Become(t, Stop([tab[t] EXCEPT !.phase = "collecting"]))
  BY <1>1, <1>2, <1>3
<1>4. CASE /\ Save(tab[t].arg)
           /\ LET page == [tab[t] EXCEPT !.job = latest'] IN
              Become(t, IF Inactive(page) THEN Stop([page EXCEPT !.phase = "collecting"])
                        ELSE [page EXCEPT !.phase = "delivering", !.arg = None])
  <2>1. tab[t].arg \in ReportJob /\ StoreInv
    BY <1>1, DueTypes DEF PageOK, JobsOK, WithArg, Known
  <2>2. latest' \in ReportJob
    BY <1>4, <2>1, SaveWrites DEF Written
  <2>3. PICK saved : saved = latest'
    OBVIOUS
  <2>4. PICK page : page = Renewed(tab[t], saved)
    OBVIOUS
  <2>5. page \in PageType /\ page.reader = NoRead
    BY <1>1, <2>2, <2>3, <2>4, RenewedFields
  <2>6. \/ Become(t, Stop([page EXCEPT !.phase = "collecting"]))
        \/ Become(t, [page EXCEPT !.phase = "delivering", !.arg = None])
    BY <1>4, <2>3, <2>4 DEF Renewed
  <2>7. CASE Become(t, [page EXCEPT !.phase = "delivering", !.arg = None])
    <3>1. [page EXCEPT !.phase = "delivering", !.arg = None].phase = "delivering"
      BY <2>5 DEF PageType
    <3> QED BY <2>7, <3>1, NextDated, RestDue
  <2> QED BY <1>2, <2>5, <2>6, <2>7
<1> QED BY <1>3, <1>4 DEF FinishCommit, Saves

-----------------------------------------------------------------------------
(* No request before the deadline: every step                              *)

DueInv == Inv /\ \A t \in Tabs : DueOK(t)

(* Every page is closed at first, and no request is sent.                  *)
LEMMA InitDue == Init => DueInv
<1> SUFFICES ASSUME Init PROVE DueInv
  OBVIOUS
<1>1. ASSUME NEW t \in Tabs PROVE DueOK(t)
  BY DEF Init, Page, DueOK, Informed, Due, Collects
<1> QED BY <1>1, InitInv DEF DueInv

(* The steps of a tab. *)
LEMMA TabDue ==
    ASSUME Inv, Inv', NEW t \in Tabs, DueOK(t),
           Open(t) \/ Begin(t) \/ Discard(t) \/ Abort(t) \/ Crash(t) \/ Works(t)
    PROVE  DueStep(t)
<1>1. CASE Collecting(t)
  BY <1>1, AskDue, QuietDue, ReplyDue, ReaderClearsDue, ReaderCommitDue, WaiterCommitDue
  DEF Collecting
<1>2. CASE \/ StartLoad(t) \/ CreateCommit(t) \/ ResumeLoad(t) \/ OpenCommit(t)
           \/ FinishCommit(t) \/ Abort(t)
  BY <1>2, BeginningDue, OpenCommitDue, FinishCommitDue, QuietDue
<1>3. CASE \/ Open(t) \/ Hydrate(t) \/ Claim(t) \/ Normalize(t) \/ NormalizeCommit(t)
           \/ Begin(t) \/ Discard(t) \/ Crash(t) \/ Delivered(t) \/ DeliveryFailed(t)
           \/ Settle(t) \/ SettleCommit(t) \/ DiscardLoad(t) \/ DiscardCommit(t) \/ Finish(t)
  BY <1>3, RestingDue
<1> QED BY <1>1, <1>2, <1>3 DEF Works

(* A step of a tab leaves the other tabs alone. *)
LEMMA OtherTabs ==
    ASSUME NEW t \in Tabs, NEW other \in Tabs \ {t}, Inv,
           Open(t) \/ Begin(t) \/ Discard(t) \/ Abort(t) \/ Crash(t) \/ Works(t)
    PROVE  tab'[other] = tab[other]
<1>1. ASSUME NEW page, Become(t, page) PROVE tab'[other] = tab[other]
  BY <1>1 DEF Become, Inv, TypeOK
<1>2. ASSUME NEW seen, Leave(t, seen) PROVE tab'[other] = tab[other]
  BY <1>1, <1>2 DEF Leave
<1>3. CASE Open(t) \/ Begin(t) \/ Discard(t) \/ Abort(t) \/ Crash(t)
  BY <1>1, <1>3 DEF Open, Begin, Discard, Abort, Crash
<1>4. CASE Hydrate(t) \/ Claim(t) \/ Normalize(t) \/ NormalizeCommit(t)
  BY <1>1, <1>2, <1>4 DEF Hydrate, Claim, Normalize, NormalizeCommit
<1>5. CASE StartLoad(t) \/ CreateCommit(t) \/ ResumeLoad(t) \/ OpenCommit(t)
  BY <1>1, <1>2, <1>5 DEF StartLoad, CreateCommit, ResumeLoad, OpenCommit
<1>6. CASE Ask(t)
  BY <1>1, <1>6 DEF Ask
<1>7. CASE CollectorFails(t) \/ TakeRead(t) \/ Lookup(t) \/ ReaderWakes(t) \/ ReaderClears(t)
  BY <1>1, <1>7 DEF CollectorFails, TakeRead, Lookup, ReaderWakes, ReaderClears
<1>8. CASE Reply(t)
  BY <1>1, <1>8 DEF Reply
<1>9. CASE ReaderCheckpoints(t) \/ ReaderDefers(t) \/ WaiterWakes(t) \/ WaiterCommit(t)
  BY <1>1, <1>9 DEF ReaderCheckpoints, ReaderDefers, WaiterWakes, WaiterCommit
<1>10. CASE Finish(t) \/ FinishCommit(t) \/ Delivered(t) \/ DeliveryFailed(t)
  BY <1>1, <1>2, <1>10 DEF Finish, FinishCommit, Delivered, DeliveryFailed
<1>11. CASE Settle(t) \/ SettleCommit(t) \/ DiscardLoad(t) \/ DiscardCommit(t)
  BY <1>1, <1>2, <1>11 DEF Settle, SettleCommit, DiscardLoad, DiscardCommit
<1> QED BY <1>3, <1>4, <1>5, <1>6, <1>7, <1>8, <1>9, <1>10, <1>11 DEF Works, Collecting

(* Every step leaves every tab informed, and sends no request early.       *)
LEMMA NextDue ==
    ASSUME DueInv, [Next]_vars
    PROVE  DueInv' /\ \A t \in Tabs : InTime(t)
<1>1. Inv /\ Inv' /\ StoreStep /\ \A t \in Tabs : DueOK(t)
  BY NextInv, StoreSteps DEF DueInv
<1>2. ASSUME NEW t \in Tabs PROVE DueStep(t)
  <2>1. CASE tab'[t] = tab[t]
    BY <1>1, <2>1, FrameDue
  <2>2. CASE tab'[t] # tab[t]
    <3>1. ~(UNCHANGED vars) /\ ~GhostStep /\ ~(Tick /\ UNCHANGED <<lock, tab, ghosts, usedIds>>)
      BY <2>2 DEF vars, GhostStep
    <3>2. PICK other \in Tabs :
              \/ Open(other) \/ Begin(other) \/ Discard(other) \/ Abort(other)
              \/ Crash(other) \/ Works(other)
      BY <3>1 DEF Next
    <3>3. other = t
      BY <1>1, <2>2, <3>2, OtherTabs
    <3> QED BY <1>1, <3>2, <3>3, TabDue
  <2> QED BY <2>1, <2>2
<1>3. DueInv'
  BY <1>1, <1>2 DEF DueInv, DueStep
<1> QED BY <1>2, <1>3 DEF DueStep

(* No request is sent before the deadline that is saved for its            *)
(* connection: not by a read that waits, clears a deadline that has        *)
(* passed or gets its job back from a save, in whatever order the saves    *)
(* of the waits and of the other tabs commit.                              *)
THEOREM NoEarlyFetchCorrect == Spec => NoEarlyFetch
<1>1. ASSUME DueInv, [Next]_vars PROVE FetchesWhenDue
  BY <1>1, NextDue DEF FetchesWhenDue, InTime
<1>2. DueInv /\ [Next]_vars => DueInv'
  BY NextDue
<1> QED BY <1>1, <1>2, InitDue, PTL DEF Spec, NoEarlyFetch

-----------------------------------------------------------------------------
(* The store under the tabs *)

(* What the tabs do to the store keeps its accounts: the counters and the  *)
(* bytes of the saved job are those of its journal, whichever tabs save,   *)
(* checkpoint, crash or leave a wait behind, in whatever order.            *)
THEOREM AccountsCorrect == Spec => [](CountersMatchJournal /\ BytesMatchJournal)
<1>1. Init => BytesInv
  BY InitBytes DEF Init
<1>2. Inv /\ BytesInv /\ [Next]_vars => BytesInv'
  <2> SUFFICES ASSUME Inv, BytesInv, [Next]_vars PROVE BytesInv'
    OBVIOUS
  <2>1. StoreInv
    BY DEF Inv
  <2>2. CASE UNCHANGED <<latest, journal>>
    BY <2>2, IdleBytes
  <2>3. CASE Writes
    BY <2>1, <2>3, WriteBytes DEF Writes, Known
  <2>4. CASE Creates
    BY <2>1, <2>4, NewJobOK, CreateBytes DEF Creates
  <2>5. CASE Deletes
    BY <2>5, DeleteBytes DEF Deletes
  <2> QED BY <2>2, <2>3, <2>4, <2>5, StoreSteps DEF StoreStep, Tick, stored, storeVars
<1>3. Inv /\ BytesInv => CountersMatchJournal /\ BytesMatchJournal
  BY DEF Inv, StoreInv, BytesInv
<1> QED BY <1>1, <1>2, <1>3, InitInv, NextInv, PTL DEF Spec

(* No step of any tab loses or shortens a deadline that has not passed, or *)
(* a response that is saved for the job.                                   *)
THEOREM SavedWorkKept == Spec => [][NoDeadlineLost /\ JournalOnlyGrows]_vars
<1>1. ASSUME Inv, Inv', [Next]_vars PROVE NoDeadlineLost /\ JournalOnlyGrows
  <2>1. StoreInv /\ StoreInv'
    BY <1>1 DEF Inv
  <2>2. CASE UNCHANGED <<latest, journal, throttles>>
    BY <2>1, <2>2, IdleDeadlines DEF JournalOnlyGrows
  <2>3. CASE Writes
    <3>1. PICK job \in ReportJob :
              \/ Save(job)
              \/ \E key \in Keys, response \in Responses : Checkpoint(job, key, response)
      BY <2>3 DEF Writes, Known
    <3>2. latest.revision \in Nat /\ latest.completedRequests \in Nat
      BY <2>1, <3>1, WriteShape DEF ReportJob
    <3>3. JournalOnlyGrows
      BY <2>1, <3>1, <3>2, WriteShape DEF JournalOnlyGrows
    <3> QED BY <2>1, <3>1, <3>3, WriteDeadlines
  <2>4. CASE Creates
    <3>1. PICK job \in ReportJob : Create(job) /\ job.revision = 0
      BY <2>4, NewJobOK DEF Creates, Create, IsNewJob
    <3>2. latest'.revision = 0
      <4>1. CarriedThrottles \in [Connections -> Deadlines] /\ NoDeadline \in Deadlines
        BY <2>1, CarriedType, StoreConstants DEF StoreInv, NoDeadline, Deadlines
      <4> QED BY <2>1, <3>1, <4>1, ThrottledJob DEF Create, Created, StoreInv
    <3> QED BY <2>1, <3>1, <3>2, CreateDeadlines DEF JournalOnlyGrows
  <2>5. CASE Deletes
    <3>1. PICK jobId : Delete(jobId)
      BY <2>5 DEF Deletes
    <3> QED BY <2>1, <3>1, DeleteDeadlines DEF JournalOnlyGrows, Delete
  <2> QED BY <1>1, <2>2, <2>3, <2>4, <2>5, StoreSteps DEF StoreStep, Tick, stored, storeVars
<1> QED BY <1>1, InitInv, NextInv, PTL DEF Spec
=============================================================================
