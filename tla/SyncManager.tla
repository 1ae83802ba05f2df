----------------------------- MODULE SyncManager -----------------------------
(***************************************************************************)
(* The autonomous sync manager (backend/src/scheduler): several processes,  *)
(* the API server and the stand-alone scheduler, each run one timer per     *)
(* job.  A timer that fires takes the job's lock in Redis and runs the job  *)
(* with a timeout and retries.  The lock expires by itself, Redis may fail  *)
(* at either end of a call, and a process may be stopped or killed at any   *)
(* await.                                                                   *)
(*                                                                         *)
(* Time is kept only where the code compares it: one attempt of job j, with *)
(* the delay before it, takes at most MaxRuntime[j] and the lock lives for  *)
(* LockTtl, both in minutes.                                               *)
(* The live-mode loop is in module LiveMode.                                *)
(***************************************************************************)
EXTENDS Naturals

CONSTANTS
    Procs,        \* processes that started a SyncManager
    Jobs,         \* enabled entries of JOB_REGISTRY
    DependsOn,    \* JobConfig.depends_on
    MaxRuntime,   \* JobConfig.max_runtime_seconds, in minutes
    LockTtl,      \* JobConfig.lock_ttl, in minutes
    MaxAttempts,  \* RetryPolicy.max_attempts
    MaxFaults,    \* bound: Redis errors and killed processes
    MaxStops      \* bound: graceful shutdowns

ASSUME ManagerConstants ==
    /\ DependsOn \in [Jobs -> SUBSET Jobs]
    /\ MaxRuntime \in [Jobs -> Nat \ {0}]
    /\ LockTtl \in Nat \ {0}
    /\ MaxAttempts \in Nat
    /\ MaxFaults \in Nat
    /\ MaxStops \in Nat

Free   == "free"      \* the key does not exist
Orphan == "orphan"    \* the key holds a token no process will ever release

ASSUME KeyMarks == Free \notin Procs /\ Orphan \notin Procs

VARIABLES
    up,        \* up[p]: the life cycle of p's manager
    pc,        \* pc[p][j]: where p's timer for j is
    attempt,   \* attempt[p][j]: RetryState.attempt of the run in progress
    failing,   \* failing[p][j]: HealthMonitor.consecutive_failures(j) > 0,
               \* kept for the jobs some job depends on
    key,       \* key[j]: the process whose current token Redis holds
    lost,      \* lost[p][j]: history, the run went on without its key
    faults, stops

vars == <<up, pc, attempt, failing, key, lost, faults, stops>>

TypeOK ==
    /\ up \in [Procs -> {"up", "stopping", "down"}]
    /\ pc \in [Procs -> [Jobs -> {"none", "waiting", "locking", "running", "backoff", "releasing"}]]
    /\ attempt \in [Procs -> [Jobs -> 0 .. MaxAttempts]]
    /\ failing \in [Procs -> [Jobs -> BOOLEAN]]
    /\ key \in [Jobs -> Procs \cup {Free, Orphan}]
    /\ lost \in [Procs -> [Jobs -> BOOLEAN]]
    /\ faults \in 0 .. MaxFaults
    /\ stops \in 0 .. MaxStops

\* No process has started; Redis is configured and holds no lock.
Init ==
    /\ up = [p \in Procs |-> "down"]
    /\ pc = [p \in Procs |-> [j \in Jobs |-> "none"]]
    /\ attempt = [p \in Procs |-> [j \in Jobs |-> 0]]
    /\ failing = [p \in Procs |-> [j \in Jobs |-> FALSE]]
    /\ key = [j \in Jobs |-> Free]
    /\ lost = [p \in Procs |-> [j \in Jobs |-> FALSE]]
    /\ faults = 0
    /\ stops = 0

Watched == UNION {DependsOn[j] : j \in Jobs}

Running(p, j) == pc[p][j] \in {"running", "backoff"}

Goto(p, j, place) == pc' = [pc EXCEPT ![p][j] = place]

Fault == faults < MaxFaults /\ faults' = faults + 1
----------------------------------------------------------------------------
(* Life cycle of a process.                                                *)

\* A new manager: a timer for every enabled job, which fires at once.
Start(p) ==
    /\ up[p] = "down"
    /\ up' = [up EXCEPT ![p] = "up"]
    /\ pc' = [pc EXCEPT ![p] = [j \in Jobs |-> "waiting"]]
    /\ failing' = [failing EXCEPT ![p] = [j \in Jobs |-> FALSE]]
    /\ UNCHANGED <<attempt, key, lost, faults, stops>>

(***************************************************************************)
(* Every timer is cancelled at the await it stands at.  A sleeping timer    *)
(* ends.  A run is cancelled and leaves through __aexit__, which releases.  *)
(* A timer inside the SET or inside the release gets no second chance: the  *)
(* command may have reached Redis or not ("reached"), and a key that stays  *)
(* is nobody's.                                                             *)
(***************************************************************************)
Shutdown(p) ==
    /\ up[p] = "up"
    /\ stops < MaxStops
    /\ stops' = stops + 1
    /\ up' = [up EXCEPT ![p] = "stopping"]
    /\ pc' = [pc EXCEPT ![p] =
                [j \in Jobs |-> IF Running(p, j) THEN "releasing" ELSE "none"]]
    /\ \E reached \in SUBSET {j \in Jobs : pc[p][j] \in {"locking", "releasing"}} :
          key' = [j \in Jobs |->
                    CASE pc[p][j] = "locking" /\ key[j] = Free /\ j \in reached -> Orphan
                      [] pc[p][j] = "releasing" /\ key[j] = p ->
                            IF j \in reached THEN Free ELSE Orphan
                      [] OTHER -> key[j]]
    /\ attempt' = [attempt EXCEPT ![p] = [j \in Jobs |-> 0]]
    /\ lost' = [lost EXCEPT ![p] = [j \in Jobs |-> Running(p, j) /\ lost[p][j]]]
    /\ UNCHANGED <<failing, faults>>

\* gather() has seen every cancelled task end.
StopDone(p) ==
    /\ up[p] = "stopping"
    /\ \A j \in Jobs : pc[p][j] = "none"
    /\ up' = [up EXCEPT ![p] = "down"]
    /\ UNCHANGED <<pc, attempt, failing, key, lost, faults, stops>>

\* The process is killed: its tokens are forgotten, its keys stay.
Kill(p) ==
    /\ up[p] # "down"
    /\ Fault
    /\ up' = [up EXCEPT ![p] = "down"]
    /\ pc' = [pc EXCEPT ![p] = [j \in Jobs |-> "none"]]
    /\ attempt' = [attempt EXCEPT ![p] = [j \in Jobs |-> 0]]
    /\ lost' = [lost EXCEPT ![p] = [j \in Jobs |-> FALSE]]
    /\ key' = [j \in Jobs |-> IF key[j] = p THEN Orphan ELSE key[j]]
    /\ UNCHANGED <<failing, stops>>
----------------------------------------------------------------------------
(* One firing of a timer: _execute_job.                                    *)

\* A dependency whose last run failed makes the job skip this turn.
Fire(p, j) ==
    /\ up[p] = "up"
    /\ pc[p][j] = "waiting"
    /\ \A d \in DependsOn[j] : ~failing[p][d]
    /\ Goto(p, j, "locking")
    /\ UNCHANGED <<up, attempt, failing, key, lost, faults, stops>>

\* SET NX succeeds.
Acquire(p, j) ==
    /\ pc[p][j] = "locking"
    /\ key[j] = Free
    /\ key' = [key EXCEPT ![j] = p]
    /\ Goto(p, j, "running")
    /\ UNCHANGED <<up, attempt, failing, lost, faults, stops>>

\* SET NX finds a key: LockAcquisitionError, the run is skipped quietly.
SkipHeld(p, j) ==
    /\ pc[p][j] = "locking"
    /\ key[j] # Free
    /\ Goto(p, j, "waiting")
    /\ UNCHANGED <<up, attempt, failing, key, lost, faults, stops>>

\* Redis fails: the job runs without coordination.  The SET may have been
\* applied before the reply was lost, and then the token is in place.
AcquireDegraded(p, j) ==
    /\ pc[p][j] = "locking"
    /\ Fault
    /\ \/ UNCHANGED key /\ lost' = [lost EXCEPT ![p][j] = TRUE]
       \/ key[j] = Free /\ key' = [key EXCEPT ![j] = p] /\ UNCHANGED lost
    /\ Goto(p, j, "running")
    /\ UNCHANGED <<up, attempt, failing, stops>>

\* The function returned a result; SUCCESS or FAILED, the monitor counts a
\* success.
Succeed(p, j) ==
    /\ pc[p][j] = "running"
    /\ Goto(p, j, "releasing")
    /\ failing' = [failing EXCEPT ![p][j] = FALSE]
    /\ UNCHANGED <<up, attempt, key, lost, faults, stops>>

\* Mutant: decide() compares with <= and allows one attempt too many.
RetryLaterOnceMore(p, j) ==
    /\ pc[p][j] = "running"
    /\ attempt[p][j] <= MaxAttempts
    /\ attempt' = [attempt EXCEPT ![p][j] = @ + 1]
    /\ Goto(p, j, "backoff")
    /\ UNCHANGED <<up, failing, key, lost, faults, stops>>

\* wait_for cancelled the attempt and another one is allowed.
RetryLater(p, j) ==
    /\ pc[p][j] = "running"
    /\ attempt[p][j] < MaxAttempts
    /\ attempt' = [attempt EXCEPT ![p][j] = @ + 1]
    /\ Goto(p, j, "backoff")
    /\ UNCHANGED <<up, failing, key, lost, faults, stops>>

RetryNow(p, j) ==
    /\ pc[p][j] = "backoff"
    /\ Goto(p, j, "running")
    /\ UNCHANGED <<up, attempt, failing, key, lost, faults, stops>>

\* The last attempt timed out: the run failed.
GiveUp(p, j) ==
    /\ pc[p][j] = "running"
    /\ attempt[p][j] >= MaxAttempts
    /\ failing' = [failing EXCEPT ![p][j] = j \in Watched]
    /\ Goto(p, j, "releasing")
    /\ UNCHANGED <<up, attempt, key, lost, faults, stops>>

\* Mutant: a cancelled run goes back to its timer loop.
EndRunAndLoop(p, j) ==
    /\ Goto(p, j, "waiting")
    /\ attempt' = [attempt EXCEPT ![p][j] = 0]
    /\ lost' = [lost EXCEPT ![p][j] = FALSE]

\* What is left of the run once its lock object is done.
EndRun(p, j) ==
    /\ Goto(p, j, IF up[p] = "up" THEN "waiting" ELSE "none")
    /\ attempt' = [attempt EXCEPT ![p][j] = 0]
    /\ lost' = [lost EXCEPT ![p][j] = FALSE]

\* Mutant: a plain DEL, whoever's token the key holds.
ReleaseByName(p, j) ==
    /\ pc[p][j] = "releasing"
    /\ key' = [key EXCEPT ![j] = Free]
    /\ EndRun(p, j)
    /\ UNCHANGED <<up, failing, faults, stops>>

\* The script deletes the key only while it still holds this run's token.
Release(p, j) ==
    /\ pc[p][j] = "releasing"
    /\ key' = [key EXCEPT ![j] = IF @ = p THEN Free ELSE @]
    /\ EndRun(p, j)
    /\ UNCHANGED <<up, failing, faults, stops>>

\* Redis fails before the script ran: the token is forgotten, a key stays.
ReleaseFails(p, j) ==
    /\ pc[p][j] = "releasing"
    /\ Fault
    /\ key' = [key EXCEPT ![j] = IF @ = p THEN Orphan ELSE @]
    /\ EndRun(p, j)
    /\ UNCHANGED <<up, failing, stops>>
----------------------------------------------------------------------------
(* Redis expires keys.                                                     *)

\* A run of p has lasted long enough for its key to reach the TTL.
Outlives(p, j) == (attempt[p][j] + 1) * MaxRuntime[j] >= LockTtl

ExpireHeld(p, j) ==
    /\ key[j] = p
    /\ Outlives(p, j)
    /\ key' = [key EXCEPT ![j] = Free]
    /\ lost' = [lost EXCEPT ![p][j] = TRUE]
    /\ UNCHANGED <<up, pc, attempt, failing, faults, stops>>

\* Mutant: the SET has no expiry.
NeverExpires(j) == key[j] = Orphan /\ FALSE /\ UNCHANGED vars

ExpireOrphan(j) ==
    /\ key[j] = Orphan
    /\ key' = [key EXCEPT ![j] = Free]
    /\ UNCHANGED <<up, pc, attempt, failing, lost, faults, stops>>
----------------------------------------------------------------------------
\* One turn of p's timer for j that needs no fault.
TimerStep(p, j) ==
    \/ Acquire(p, j)
    \/ SkipHeld(p, j)
    \/ Succeed(p, j)
    \/ RetryLater(p, j)
    \/ RetryNow(p, j)
    \/ GiveUp(p, j)
    \/ Release(p, j)

Next ==
    \/ \E p \in Procs : Start(p) \/ Shutdown(p) \/ StopDone(p) \/ Kill(p)
    \/ \E p \in Procs, j \in Jobs :
          \/ Fire(p, j)
          \/ TimerStep(p, j)
          \/ AcquireDegraded(p, j)
          \/ ReleaseFails(p, j)
          \/ ExpireHeld(p, j)
    \/ \E j \in Jobs : ExpireOrphan(j)

Spec == Init /\ [][Next]_vars

(***************************************************************************)
(* Timers fire, attempts end (wait_for bounds them), Redis answers and keys *)
(* expire.  Nothing starts, stops or kills a process by itself.             *)
(***************************************************************************)
Fairness ==
    /\ \A p \in Procs :
          /\ WF_vars(StopDone(p))
          /\ \A j \in Jobs : WF_vars(Fire(p, j)) /\ WF_vars(TimerStep(p, j))
    /\ \A j \in Jobs : WF_vars(ExpireOrphan(j))

FairSpec == Spec /\ Fairness
----------------------------------------------------------------------------
(* Properties.                                                             *)

\* A run whose Redis calls succeeded and whose key did not expire still holds
\* its key: whatever other processes acquire, release, retry or leave behind,
\* nobody else's step takes the lock of a running job away.
LockProtectsRun ==
    \A p \in Procs, j \in Jobs :
        Running(p, j) /\ ~lost[p][j] => key[j] = p

\* The worst run of j, all its attempts timing out, ends before the TTL.
FitsTtl(j) == (MaxAttempts + 1) * MaxRuntime[j] < LockTtl

\* A job whose retries fit into the lock's TTL is never run by two processes
\* at once unless Redis failed: stops, restarts and slow runs are not enough.
ShortJobsRunOnce ==
    faults = 0 =>
        \A j \in Jobs, p, q \in Procs :
            FitsTtl(j) /\ Running(p, j) /\ Running(q, j) => p = q

\* The promise of locks.py and of the manager without its fine print: no job
\* is ever run by two processes at once.
NoDuplicateExecution ==
    \A j \in Jobs, p, q \in Procs : Running(p, j) /\ Running(q, j) => p = q

\* While one process stays up and sees its dependencies healthy, the job is
\* run again and again by somebody: a lock left by a killed, stopped or
\* unlucky process delays it and never ends it.
JobsKeepRunning ==
    \A j \in Jobs :
        (\E p \in Procs : <>[](up[p] = "up" /\ \A d \in DependsOn[j] : ~failing[p][d]))
            => []<>(\E p \in Procs : pc[p][j] = "running")

\* A shutdown ends: every cancelled timer leaves its run and its lock.
ShutdownEnds == \A p \in Procs : up[p] = "stopping" ~> up[p] = "down"

\* "Graceful shutdown: complete current jobs": the step that begins a shutdown
\* leaves the jobs in progress running.
ShutdownCompletesRuns ==
    [][\A p \in Procs, j \in Jobs :
          up[p] = "up" /\ up'[p] = "stopping" /\ pc[p][j] = "running"
              => pc'[p][j] = "running"]_vars
==============================================================================
