----------------------------- MODULE Connector ------------------------------
(***************************************************************************)
(* What every connector of the data platform puts before a request          *)
(* (BaseConnector.fetch, src/data_platform/connectors/__init__.py): a       *)
(* circuit breaker and a token bucket.  The check of the circuit, the       *)
(* bucket and the start of the request run without an await, so they are    *)
(* one step; the answer is another, and other fetches run in between.       *)
(*                                                                          *)
(* Time is counted in ticks, and tokens in the ticks that refill one, so    *)
(* that fractions of a token are whole numbers.  The bucket sleeps in the   *)
(* event loop: nothing else runs while it waits.                            *)
(***************************************************************************)
EXTENDS Integers

CONSTANTS
    Fetches,      \* calls of fetch that may be under way at once
    TokenTicks,   \* ticks that refill one token
    Burst,        \* tokens the bucket holds
    TripAfter,    \* circuit_breaker_threshold
    ResetTicks,   \* circuit_breaker_reset_seconds, in ticks
    MaxClock      \* bound on time

VARIABLES
    clock,
    tokens,       \* of the bucket, in ticks
    lastRefill,   \* when it was last refilled
    circuit,      \* metrics.circuit_state
    openSince,    \* _circuit_open_since
    failed,       \* metrics.consecutive_failures
    asking,       \* fetches whose request is under way
    requests      \* metrics.requests_total

bucketVars  == <<tokens, lastRefill>>
circuitVars == <<circuit, openSince, failed>>
vars == <<clock, bucketVars, circuitVars, asking, requests>>

Init ==
    /\ clock = 0
    /\ tokens = Burst * TokenTicks /\ lastRefill = 0
    /\ circuit = "CLOSED" /\ openSince = 0 /\ failed = 0
    /\ asking = {} /\ requests = 0

Lesser(a, b) == IF a < b THEN a ELSE b
Refilled == Lesser(Burst * TokenTicks, tokens + (clock - lastRefill))

\* _check_circuit lets a call pass: an open circuit whose time is up is half
\* open from now on.  A call that does not pass changes nothing.
Passes == circuit = "OPEN" => clock - openSince >= ResetTicks
CheckCircuit ==
    /\ Passes
    /\ circuit' = IF circuit = "OPEN" THEN "HALF_OPEN" ELSE circuit
    /\ UNCHANGED <<openSince, failed>>

\* Mutant: the refill starts from where the last one started.
AcquireForgetful ==
    IF Refilled >= TokenTicks
    THEN tokens' = Refilled - TokenTicks /\ UNCHANGED <<lastRefill, clock>>
    ELSE /\ clock' = clock + (TokenTicks - Refilled) /\ clock' <= MaxClock
         /\ tokens' = 0 /\ lastRefill' = clock

\* _TokenBucket.acquire: an empty bucket sleeps until a token is there.  What
\* is refilled while it sleeps is refilled again by the next call, because
\* last_refill is the time before the sleep.
Acquire ==
    /\ lastRefill' = clock
    /\ IF Refilled >= TokenTicks
       THEN tokens' = Refilled - TokenTicks /\ UNCHANGED clock
       ELSE /\ clock' = clock + (TokenTicks - Refilled) /\ clock' <= MaxClock
            /\ tokens' = 0

Fetch(f) ==
    /\ f \notin asking
    /\ CheckCircuit
    /\ Acquire
    /\ asking' = asking \cup {f}
    /\ requests' = requests + 1

\* _record_success closes a half-open circuit, and leaves an open one open.
Succeed(f) ==
    /\ f \in asking
    /\ asking' = asking \ {f}
    /\ failed' = 0
    /\ circuit' = IF circuit = "HALF_OPEN" THEN "CLOSED" ELSE circuit
    /\ UNCHANGED <<clock, bucketVars, openSince, requests>>

\* _record_failure; an answer that is late counts like any other.
Fail(f) ==
    /\ f \in asking
    /\ asking' = asking \ {f}
    /\ failed' = failed + 1
    /\ IF failed' >= TripAfter
       THEN circuit' = "OPEN" /\ openSince' = clock
       ELSE UNCHANGED <<circuit, openSince>>
    /\ UNCHANGED <<clock, bucketVars, requests>>

Tick ==
    /\ clock < MaxClock /\ clock' = clock + 1
    /\ UNCHANGED <<bucketVars, circuitVars, asking, requests>>

Next == Tick \/ \E f \in Fetches : Fetch(f) \/ Succeed(f) \/ Fail(f)

Spec == Init /\ [][Next]_vars

----------------------------------------------------------------------------
\* status, of a connector that is connected.
Status ==
    IF circuit = "OPEN" THEN "DOWN" ELSE IF failed >= 2 THEN "DEGRADED" ELSE "HEALTHY"

TypeOK ==
    /\ clock \in 0..MaxClock
    /\ tokens \in 0..(Burst * TokenTicks)
    /\ lastRefill \in 0..clock /\ openSince \in 0..clock
    /\ circuit \in {"CLOSED", "OPEN", "HALF_OPEN"}
    /\ failed \in Nat /\ requests \in Nat
    /\ asking \subseteq Fetches

\* Requests never exceed the burst and twice the configured rate, however
\* fetches, sleeps and idle times follow one another: a tick of sleep is used
\* at most twice, by the sleeper and by the next refill.
RateIsBounded == requests * TokenTicks <= Burst * TokenTicks + 2 * clock

\* rate_limit_rps names the rate itself, which the bucket does not keep.
RateIsKept == requests * TokenTicks <= Burst * TokenTicks + clock

\* A failure in a half-open circuit opens it: refuted when a late success of
\* an earlier fetch has cleared the count while the circuit was open.
ProbeFailureOpens ==
    [][\A f \in Fetches : circuit = "HALF_OPEN" /\ Fail(f) => circuit' = "OPEN"]_vars
=============================================================================
