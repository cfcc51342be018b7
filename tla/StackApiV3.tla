----------------------------- MODULE StackApiV3 -----------------------------
(***************************************************************************)
(* How the client of the Stack API v3 repeats a request                    *)
(* (src/api/stackApiV3.ts, readResponse): a reply 429, 502, 503 or 504 and *)
(* a network failure are waited for and tried again, up to MaxRetries      *)
(* times and within a budget of waiting time.  Reads, and the updates of   *)
(* some clients, are repeated; creations and deletions never are.          *)
(*                                                                         *)
(* A call is a record of what has been spent on it; the modules that send  *)
(* requests carry one for the request that they wait for.                  *)
(***************************************************************************)
EXTENDS Naturals

CONSTANTS Delays,      \* the delays that the API asks for, in seconds
          Fallback,    \* the delay when it asks for none
          MaxRetries,
          MaxRetryWait, MaxCumulativeRetryWait

ASSUME BudgetAssumption ==
    /\ Delays \subseteq Nat /\ Fallback \in Nat /\ MaxRetries \in Nat
    /\ MaxRetryWait \in Nat /\ MaxCumulativeRetryWait \in Nat

Calls == [retries : Nat, waited : Nat, noticed : BOOLEAN]

\* noticed: a caller that is told of the waits has been told of one that lasts.
NewCall == [retries |-> 0, waited |-> 0, noticed |-> FALSE]

Refusals == [kind : {"429", "5xx"}, delay : Delays \cup {Fallback}]
            \cup [kind : {"network"}, delay : {Fallback}]

(* Mutant: each wait is compared with its own limit only. *)
CanWaitForEach(call, seconds) == seconds <= MaxRetryWait

CanWait(call, seconds) ==
    seconds <= MaxRetryWait /\ call.waited + seconds <= MaxCumulativeRetryWait

MayRetry(call, refusal) == call.retries < MaxRetries /\ CanWait(call, refusal.delay)

Retried(call, refusal) ==
    [retries |-> call.retries + 1,
     waited |-> call.waited + refusal.delay,
     noticed |-> call.noticed \/ (refusal.kind = "429" /\ refusal.delay > 0)]

\* What a caller may count on: the requests and the time that a call can take.
IsBounded(call) ==
    call.retries <= MaxRetries /\ call.waited <= MaxCumulativeRetryWait
=============================================================================
