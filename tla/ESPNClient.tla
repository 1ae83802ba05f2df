------------------------------ MODULE ESPNClient ------------------------------
(***************************************************************************)
(* The HTTP client every ESPN fetch goes through                           *)
(* (src/backend/src/providers/espn/client.py): get_json answers from a TTL  *)
(* cache, lets concurrent callers of one URL share a single fetch, bounds   *)
(* the fetches in flight with a semaphore, retries, and stops calling the   *)
(* API through a circuit breaker.                                           *)
(*                                                                          *)
(* Tasks run on one event loop: what happens between two awaits is one      *)
(* action.  A fetch that finished and its done-callback are two steps, and  *)
(* other tasks run in between.  The token bucket only delays an attempt and *)
(* is not modelled.                                                         *)
(***************************************************************************)
EXTENDS Integers, Sequences, FiniteSets, SequencesExt

CONSTANTS
    Callers,        \* tasks that call get_json
    Keys,           \* canonical URLs
    Fetches,        \* fetch tasks that may exist at once
    NoFetch,        \* no fetch
    NoKey,          \* no URL
    MaxConcurrency, \* permits of the semaphore
    MaxEntries,     \* cache_max_entries
    MaxRetries,     \* max_retries
    Threshold,      \* circuit_breaker_threshold
    MaxFaults       \* bound on failed attempts and cancelled callers

ASSUME ClientAssumption ==
    /\ NoFetch \notin Fetches
    /\ NoKey \notin Keys
    /\ IsFiniteSet(Fetches)
    /\ MaxConcurrency \in Nat \ {0}
    /\ MaxEntries \in Nat \ {0}
    /\ MaxRetries \in Nat
    /\ Threshold \in Nat \ {0}
    /\ MaxFaults \in Nat

VARIABLES
    waits,      \* the fetch a caller awaits, or NoFetch
    phase,      \* how far each fetch task came
    key,        \* the URL it fetches
    attempt,    \* retries it made
    queue,      \* fetches waiting for the semaphore, first come first served
    permits,    \* what is left of the semaphore
    pending,    \* _pending: the fetch registered for a URL
    cached,     \* keys of the response cache, oldest first
    expired,    \* those whose entry is older than the TTL
    breaker,    \* state of the circuit breaker
    failures,   \* its failure_count
    cooled,     \* has recovery_timeout passed since last_failure_time?
    probes,     \* fetches the half-open breaker let through (history)
    faults      \* faults injected so far

taskVars    == <<phase, key, attempt, queue, permits>>
sharedVars  == <<pending, cached, expired>>
breakerVars == <<breaker, failures, cooled>>
vars == <<waits, taskVars, sharedVars, breakerVars, probes, faults>>

Phases == {"free", "queued", "flying", "fetched", "failed"}

\* A fetch whose future is not done.
Live(f) == phase[f] \in {"queued", "flying"}

Done(f) == phase[f] \in {"fetched", "failed"}

Init ==
    /\ waits = [c \in Callers |-> NoFetch]
    /\ phase = [f \in Fetches |-> "free"]
    /\ key = [f \in Fetches |-> NoKey]
    /\ attempt = [f \in Fetches |-> 0]
    /\ queue = <<>>
    /\ permits = MaxConcurrency
    /\ pending = [k \in Keys |-> NoFetch]
    /\ cached = <<>>
    /\ expired = {}
    /\ breaker = "CLOSED"
    /\ failures = 0
    /\ cooled = TRUE
    /\ probes = {}
    /\ faults = 0

Fault == faults < MaxFaults /\ faults' = faults + 1

------------------------------------------------------------------------------
\* The circuit breaker

\* mutant of OnSuccess: any success closes the breaker
OnSuccessCloses ==
    /\ failures' = 0
    /\ breaker' = "CLOSED"
    /\ UNCHANGED cooled

\* mutant of OnSuccess: the count is reset, the half-open breaker forgotten
OnSuccessResetsCount ==
    /\ failures' = 0
    /\ UNCHANGED <<breaker, cooled>>

OnSuccess ==
    /\ failures' = 0
    /\ breaker' = IF breaker = "HALF_OPEN" THEN "CLOSED" ELSE breaker
    /\ UNCHANGED cooled

\* mutant of OnFailure: opens one failure too late
OnFailureLate ==
    /\ failures' = failures + 1
    /\ cooled' = FALSE
    /\ breaker' = IF \/ breaker = "CLOSED" /\ failures + 1 > Threshold
                     \/ breaker = "HALF_OPEN"
                  THEN "OPEN"
                  ELSE breaker

OnFailure ==
    /\ failures' = failures + 1
    /\ cooled' = FALSE
    /\ breaker' = IF \/ breaker = "CLOSED" /\ failures + 1 >= Threshold
                     \/ breaker = "HALF_OPEN"
                  THEN "OPEN"
                  ELSE breaker

\* recovery_timeout seconds have passed since the last failure.
CoolDown ==
    /\ ~cooled
    /\ cooled' = TRUE
    /\ UNCHANGED <<waits, taskVars, sharedVars, breaker, failures, probes, faults>>

------------------------------------------------------------------------------
\* The response cache

Fresh(k) == k \in Range(cached) \ expired

\* The entry of k has outlived the TTL.
Expire(k) ==
    /\ Fresh(k)
    /\ expired' = expired \cup {k}
    /\ UNCHANGED <<waits, taskVars, pending, cached, breakerVars, probes, faults>>

\* ResponseCache.get of a key that is missing or expired.
CacheMiss(k) ==
    /\ ~Fresh(k)
    /\ \/ k \notin expired /\ UNCHANGED cached
       \/ \E i \in DOMAIN cached :
              /\ cached[i] = k
              /\ cached' = RemoveAt(cached, i)
    /\ expired' = expired \ {k}

\* mutant of CacheSet: the bound is checked one entry too late
CacheSetLate(k) ==
    LET kept == IF Len(cached) > MaxEntries THEN Tail(cached) ELSE cached
    IN  /\ cached' = IF k \in Range(kept) THEN kept ELSE Append(kept, k)
        /\ expired' = (expired \cap Range(kept)) \ {k}

\* ResponseCache.set: a full cache drops its oldest entry first, and a key that
\* is still there keeps its place.
CacheSet(k) ==
    LET kept == IF Len(cached) >= MaxEntries THEN Tail(cached) ELSE cached
    IN  /\ cached' = IF k \in Range(kept) THEN kept ELSE Append(kept, k)
        /\ expired' = (expired \cap Range(kept)) \ {k}

------------------------------------------------------------------------------
\* get_json.  A call answered from the cache returns at once and changes
\* nothing.

\* A fetch is registered for k and its future is not done.
Joinable(k) == pending[k] # NoFetch /\ Live(pending[k])

\* Share the fetch in flight for this URL.
Join(c, k) ==
    /\ waits[c] = NoFetch
    /\ CacheMiss(k)
    /\ Joinable(k)
    /\ waits' = [waits EXCEPT ![c] = pending[k]]
    /\ UNCHANGED <<taskVars, pending, breakerVars, probes, faults>>

\* Create a fetch task and register it.
StartFetch(c, k, f) ==
    /\ waits[c] = NoFetch
    /\ phase[f] = "free"
    /\ CacheMiss(k)
    /\ ~Joinable(k)
    /\ phase' = [phase EXCEPT ![f] = "queued"]
    /\ key' = [key EXCEPT ![f] = k]
    /\ queue' = Append(queue, f)
    /\ pending' = [pending EXCEPT ![k] = f]
    /\ waits' = [waits EXCEPT ![c] = f]
    /\ UNCHANGED <<attempt, permits, breakerVars, probes, faults>>

\* The caller is cancelled; shield keeps the fetch running for the others.
CancelCaller(c) ==
    /\ waits[c] # NoFetch
    /\ Fault
    /\ waits' = [waits EXCEPT ![c] = NoFetch]
    /\ UNCHANGED <<taskVars, sharedVars, breakerVars, probes>>

------------------------------------------------------------------------------
\* The fetch task: semaphore, before_call, attempts

\* First in line and a permit is free.
Admissible(f) == queue # <<>> /\ Head(queue) = f /\ permits > 0

Admit(f) ==
    /\ Admissible(f)
    /\ breaker = "OPEN" => cooled
    /\ breaker' = IF breaker = "OPEN" THEN "HALF_OPEN" ELSE breaker
    /\ queue' = Tail(queue)
    /\ permits' = permits - 1
    /\ phase' = [phase EXCEPT ![f] = "flying"]
    /\ probes' = IF breaker' = "HALF_OPEN" THEN probes \cup {f} ELSE probes
    /\ UNCHANGED <<waits, key, attempt, sharedVars, failures, cooled, faults>>

\* mutant of RejectOpen: gives back a permit it never took
RejectOpenReleases(f) ==
    /\ Admissible(f)
    /\ breaker = "OPEN"
    /\ ~cooled
    /\ queue' = Tail(queue)
    /\ permits' = permits + 1
    /\ phase' = [phase EXCEPT ![f] = "failed"]
    /\ UNCHANGED <<waits, key, attempt, sharedVars, breakerVars, probes, faults>>

\* The breaker is open: the task fails and gives its permit back at once.
RejectOpen(f) ==
    /\ Admissible(f)
    /\ breaker = "OPEN"
    /\ ~cooled
    /\ queue' = Tail(queue)
    /\ phase' = [phase EXCEPT ![f] = "failed"]
    /\ UNCHANGED <<waits, key, attempt, permits, sharedVars, breakerVars, probes, faults>>

\* mutant of Leave: the permit is returned only after a response
LeaveHoldingPermit(f, outcome) ==
    /\ phase[f] = "flying"
    /\ phase' = [phase EXCEPT ![f] = outcome]
    /\ attempt' = [attempt EXCEPT ![f] = 0]
    /\ permits' = IF outcome = "fetched" THEN permits + 1 ELSE permits
    /\ probes' = probes \ {f}
    /\ UNCHANGED <<waits, key, queue, sharedVars>>

\* The task ends and leaves the semaphore.
Leave(f, outcome) ==
    /\ phase[f] = "flying"
    /\ phase' = [phase EXCEPT ![f] = outcome]
    /\ attempt' = [attempt EXCEPT ![f] = 0]
    /\ permits' = permits + 1
    /\ probes' = probes \ {f}
    /\ UNCHANGED <<waits, key, queue, sharedVars>>

\* A 2xx response; its body may still not parse.
Succeed(f) ==
    /\ \/ Leave(f, "fetched") /\ UNCHANGED faults
       \/ Leave(f, "failed") /\ Fault
    /\ OnSuccess

\* mutant of Retry: one attempt too many
RetryOnceMore(f) ==
    /\ phase[f] = "flying"
    /\ attempt[f] <= MaxRetries
    /\ Fault
    /\ attempt' = [attempt EXCEPT ![f] = @ + 1]
    /\ UNCHANGED <<waits, phase, key, queue, permits, sharedVars, breakerVars, probes>>

\* 429, a retryable 5xx or a connection error: the task sleeps, permit in hand,
\* and tries again without asking the breaker.
Retry(f) ==
    /\ phase[f] = "flying"
    /\ attempt[f] < MaxRetries
    /\ Fault
    /\ attempt' = [attempt EXCEPT ![f] = @ + 1]
    /\ UNCHANGED <<waits, phase, key, queue, permits, sharedVars, breakerVars, probes>>

GiveUp(f) ==
    /\ attempt[f] = MaxRetries
    /\ Leave(f, "failed")
    /\ Fault
    /\ OnFailure

\* Any other status or error is raised at once and does not count.
Refuse(f) ==
    /\ Leave(f, "failed")
    /\ Fault
    /\ UNCHANGED breakerVars

\* mutant of OnFetchDone: only a successful fetch is taken off the register
OnFetchDoneKeepsFailed(f) ==
    /\ Done(f)
    /\ pending' = IF phase[f] = "fetched" THEN [pending EXCEPT ![key[f]] = NoFetch] ELSE pending
    /\ IF phase[f] = "fetched" THEN CacheSet(key[f]) ELSE UNCHANGED <<cached, expired>>
    /\ waits' = [c \in Callers |-> IF waits[c] = f THEN NoFetch ELSE waits[c]]
    /\ phase' = [phase EXCEPT ![f] = "free"]
    /\ key' = [key EXCEPT ![f] = NoKey]
    /\ UNCHANGED <<attempt, queue, permits, breakerVars, probes, faults>>

\* _on_fetch_done, then the callbacks of the callers' shields.
OnFetchDone(f) ==
    /\ Done(f)
    /\ pending' = [pending EXCEPT ![key[f]] = NoFetch]
    /\ IF phase[f] = "fetched" THEN CacheSet(key[f]) ELSE UNCHANGED <<cached, expired>>
    /\ waits' = [c \in Callers |-> IF waits[c] = f THEN NoFetch ELSE waits[c]]
    /\ phase' = [phase EXCEPT ![f] = "free"]
    /\ key' = [key EXCEPT ![f] = NoKey]
    /\ UNCHANGED <<attempt, queue, permits, breakerVars, probes, faults>>

------------------------------------------------------------------------------
Call == \E c \in Callers, k \in Keys : Join(c, k) \/ \E f \in Fetches : StartFetch(c, k, f)

Progress(f) == Admit(f) \/ RejectOpen(f) \/ Succeed(f) \/ OnFetchDone(f)

Next ==
    \/ Call
    \/ \E c \in Callers : CancelCaller(c)
    \/ \E f \in Fetches : Progress(f) \/ Retry(f) \/ GiveUp(f) \/ Refuse(f)
    \/ \E k \in Keys : Expire(k)
    \/ CoolDown

Spec == Init /\ [][Next]_vars

\* The event loop runs every task, every attempt ends (httpx timeouts), time
\* passes, and jobs keep calling; failures need not happen.
FairSpec ==
    /\ Spec
    /\ \A f \in Fetches : WF_vars(Progress(f))
    /\ \A k \in Keys : WF_vars(Expire(k))
    /\ WF_vars(CoolDown)
    /\ WF_vars(Call)

------------------------------------------------------------------------------
\* Properties

\* Every variable keeps to the values the code can give it.
TypeOK ==
    /\ waits \in [Callers -> Fetches \cup {NoFetch}]
    /\ phase \in [Fetches -> Phases]
    /\ key \in [Fetches -> Keys \cup {NoKey}]
    /\ attempt \in [Fetches -> 0..MaxRetries]
    /\ queue \in Seq(Fetches)
    /\ permits \in 0..MaxConcurrency
    /\ pending \in [Keys -> Fetches \cup {NoFetch}]
    /\ cached \in Seq(Keys)
    /\ expired \subseteq Range(cached)
    /\ breaker \in {"CLOSED", "OPEN", "HALF_OPEN"}
    /\ failures \in Nat
    /\ cooled \in BOOLEAN
    /\ probes \subseteq Fetches
    /\ faults \in 0..MaxFaults

Flying == {f \in Fetches : phase[f] = "flying"}

\* No path through request() leaks or doubles a permit of the semaphore, and the
\* fetches in flight stay within max_concurrency (client.py:216).
PermitsConserved == permits + Cardinality(Flying) = MaxConcurrency

\* A registered fetch is one whose callback is still due, and it fetches the URL
\* it is registered for: nobody joins a fetch that will never answer, although
\* callbacks of an older fetch of the same URL run in between.
PendingIsDue ==
    \A k \in Keys : pending[k] # NoFetch =>
        phase[pending[k]] # "free" /\ key[pending[k]] = k

\* The breaker is never closed while as many failures are on the count as open
\* it, whatever late answers of requests from before the trip arrive when.
ClosedBelowThreshold == breaker = "CLOSED" => failures < Threshold

\* The cache holds each URL once and no more than max_entries of them.
CacheBounded == Len(cached) <= MaxEntries /\ IsInjective(cached)

\* An open breaker stays open for recovery_timeout after the latest failure: a
\* late success of a request admitted before the trip does not close it.
OpenUntilCooled == [][breaker = "OPEN" /\ breaker' # "OPEN" => cooled]_vars

\* Every caller gets an answer or an error, also when the caller that started
\* the shared fetch was cancelled (client.py:436-464).
EveryCallerAnswered == \A c \in Callers : waits[c] # NoFetch ~> waits[c] = NoFetch

\* Once the API stops failing the breaker closes for good: no order of late
\* answers, probes and rejections wedges it.
BreakerRecovers == <>[](breaker = "CLOSED")

\* Later callers never re-fetch a URL already in flight (client.py:453).
OneFetchPerURL ==
    \A f, g \in Fetches : f # g /\ Live(f) /\ Live(g) => key[f] # key[g]

\* HALF_OPEN: testing recovery, one probe request allowed (client.py:39).
OneProbe == breaker = "HALF_OPEN" => Cardinality(probes) <= 1
==============================================================================
