---------------------------- MODULE SyncBreaker ----------------------------
(***************************************************************************)
(* The per-provider circuit breaker of the sync engine (sync/failure.py)   *)
(* as the pipeline drives it (sync/pipeline.py, sync/reliability.py): one  *)
(* admission check per job, a success after the fetch, a failure for any   *)
(* exception of the job, the ones raised after the fetch included.  Several*)
(* jobs of the same provider may be in flight at once.                     *)
(***************************************************************************)
EXTENDS Integers

CONSTANTS Jobs,              \* the jobs that share the breaker
          FailureThreshold,  \* failure_threshold
          HalfOpenMaxCalls   \* half_open_max_calls

VARIABLES state,        \* _state
          failures,     \* _failure_count, counted up to the threshold
          attempts,     \* _half_open_attempts
          waited,       \* has recovery_timeout passed since the last failure?
          stage         \* where each job is in SyncPipeline.execute

brkVars == <<state, failures, attempts, waited, stage>>

CircuitStates == {"CLOSED", "OPEN", "HALF_OPEN"}

(* PERMANENT and DATA_ERROR are not counted; TRANSIENT, PROVIDER_DOWN and  *)
(* UNKNOWN are.                                                            *)
Counted == BOOLEAN

Init ==
  /\ state = "CLOSED" /\ failures = 0 /\ attempts = 0 /\ waited = FALSE
  /\ stage = [j \in Jobs |-> "idle"]

AtMost(n, bound) == IF n > bound THEN bound ELSE n

(* before_call: CLOSED admits.                                             *)
Admit(j) ==
  /\ stage[j] = "idle" /\ state = "CLOSED"
  /\ stage' = [stage EXCEPT ![j] = "fetching"]
  /\ UNCHANGED <<state, failures, attempts, waited>>

(* before_call: the first call after the timeout opens the half-open       *)
(* episode and is admitted without being counted.                          *)
AdmitFirstProbe(j) ==
  /\ stage[j] = "idle" /\ state = "OPEN" /\ waited
  /\ state' = "HALF_OPEN" /\ attempts' = 0
  /\ stage' = [stage EXCEPT ![j] = "fetching"]
  /\ UNCHANGED <<failures, waited>>

\* mutant of AdmitProbe: the probes are counted and never limited
AdmitProbeAlways(j) ==
  /\ stage[j] = "idle" /\ state = "HALF_OPEN"
  /\ attempts' = attempts + 1
  /\ stage' = [stage EXCEPT ![j] = "fetching"]
  /\ UNCHANGED <<state, failures, waited>>

(* before_call: a half-open breaker counts the calls it admits.            *)
AdmitProbe(j) ==
  /\ stage[j] = "idle" /\ state = "HALF_OPEN" /\ attempts < HalfOpenMaxCalls
  /\ attempts' = attempts + 1
  /\ stage' = [stage EXCEPT ![j] = "fetching"]
  /\ UNCHANGED <<state, failures, waited>>

(* before_call raises: the pipeline answers a FAILED result at once and    *)
(* tells the breaker nothing.                                              *)
Reject(j) ==
  /\ stage[j] = "idle"
  /\ \/ state = "OPEN" /\ ~waited
     \/ state = "HALF_OPEN" /\ attempts >= HalfOpenMaxCalls
  /\ stage' = [stage EXCEPT ![j] = "refused"]
  /\ UNCHANGED <<state, failures, attempts, waited>>

\* mutant of OnSuccess: any success resets the count
OnSuccessResets(j) ==
  /\ stage[j] = "fetching"
  /\ stage' = [stage EXCEPT ![j] = "writing"]
  /\ state' = IF state = "HALF_OPEN" THEN "CLOSED" ELSE state
  /\ failures' = 0
  /\ UNCHANGED <<attempts, waited>>

(* on_success after the fetch; the job goes on to its upserts.  A success  *)
(* that reaches an OPEN breaker changes nothing.                           *)
OnSuccess(j) ==
  /\ stage[j] = "fetching"
  /\ stage' = [stage EXCEPT ![j] = "writing"]
  /\ state' = IF state = "HALF_OPEN" THEN "CLOSED" ELSE state
  /\ failures' = IF state = "OPEN" THEN failures ELSE 0
  /\ UNCHANGED <<attempts, waited>>

(* on_failure, for an exception of the fetch or of the upserts.            *)
OnFailure(j, counts) ==
  LET n     == AtMost(failures + 1, FailureThreshold)
      trips == state # "OPEN" /\ n >= FailureThreshold
  IN  /\ stage[j] \in {"fetching", "writing"}
      /\ stage' = [stage EXCEPT ![j] = "idle"]
      /\ IF counts
         THEN /\ failures' = n
              /\ waited' = FALSE
              /\ state' = IF trips THEN "OPEN" ELSE state
         ELSE UNCHANGED <<failures, waited, state>>
      /\ UNCHANGED attempts

(* The job ends without a word to the breaker: its upserts succeeded, its  *)
(* task was cancelled, or its refusal has been reported.                   *)
Leave(j) ==
  /\ stage[j] \in {"fetching", "writing", "refused"}
  /\ stage' = [stage EXCEPT ![j] = "idle"]
  /\ UNCHANGED <<state, failures, attempts, waited>>

(* recovery_timeout seconds pass without another counted failure.          *)
Wait ==
  /\ state = "OPEN" /\ ~waited /\ waited' = TRUE
  /\ UNCHANGED <<state, failures, attempts, stage>>

(* reset(): manual intervention.                                           *)
Reset ==
  /\ state # "CLOSED"
  /\ state' = "CLOSED" /\ failures' = 0 /\ attempts' = 0
  /\ UNCHANGED <<waited, stage>>

Next ==
  \/ \E j \in Jobs : \/ Admit(j) \/ AdmitFirstProbe(j) \/ AdmitProbe(j)
                     \/ Reject(j) \/ OnSuccess(j) \/ Leave(j)
                     \/ \E counts \in Counted : OnFailure(j, counts)
  \/ Wait \/ Reset

Spec == Init /\ [][Next]_brkVars

----------------------------------------------------------------------------
(* The types of the breaker and of the jobs.                               *)
TypeOK ==
  /\ state \in CircuitStates
  /\ failures \in 0..FailureThreshold /\ attempts \in 0..HalfOpenMaxCalls
  /\ waited \in BOOLEAN
  /\ stage \in [Jobs -> {"idle", "fetching", "writing", "refused"}]

(* A breaker that left CLOSED still holds a full failure count, whatever   *)
(* late successes and failures of jobs admitted earlier reached it: that is*)
(* what makes one counted failure of a probe enough to open it again       *)
(* (failure.py:251 trips on the count, not on the state).                  *)
TrippedKeepsCount == state # "CLOSED" => failures >= FailureThreshold

(* A counted failure of any job in flight during a half-open episode opens *)
(* the breaker again (failure.py:180, "Failure -> back to OPEN").          *)
FailureReopens ==
  [][\A j \in Jobs :
       (state = "HALF_OPEN" /\ OnFailure(j, TRUE)) => state' = "OPEN"]_brkVars
=============================================================================
