----------------------------- MODULE JobScheduler -----------------------------
(***************************************************************************)
(* The scheduler of the data platform (data_platform/scheduler): one event  *)
(* loop with interval timers, a heap of queued jobs, workers that run them  *)
(* with retries, in-memory locks with a TTL, a dead-letter list and the     *)
(* operator's calls.  A step is what runs between two awaits.               *)
(*                                                                         *)
(* The lock of a job is named by its connector and entity type, and no two  *)
(* shipped jobs share both, so the lock is named by the job.  Its TTL runs  *)
(* from the trigger and timeout_seconds is enforced nowhere: a key may      *)
(* expire at any time, however its job is doing.                            *)
(***************************************************************************)
EXTENDS Naturals, Sequences, FiniteSets

CONSTANTS
    Jobs,         \* the job definitions
    Interval,     \* those with trigger_type INTERVAL
    Unserved,     \* those whose connector is not in the registry
    Priority,     \* JobDefinition.priority, 0 is the most urgent
    MaxRetries,   \* JobDefinition.max_retries
    Workers,      \* worker_count of them
    Nobody,       \* what an idle worker works on
    MaxQueue,     \* bound: entries in the heap
    MaxDead,      \* bound: dead letters of one job
    MaxOps        \* bound: calls of the operator other than trigger

(* What the job definitions and the pool of workers give.                   *)
ConstantsFit ==
    /\ Interval \subseteq Jobs
    /\ Nobody \notin Jobs
    /\ IsFiniteSet(Workers)
    /\ Priority \in [Jobs -> 0 .. 5]
    /\ MaxRetries \in [Jobs -> Nat]
    /\ MaxQueue \in Nat /\ MaxDead \in Nat /\ MaxOps \in Nat

ASSUME JobSchedulerAssumption == ConstantsFit

VARIABLES
    registered,   \* keys of _jobs
    running,      \* _running
    enabled,      \* enabled[j]: JobDefinition.enabled
    timer,        \* timer[j]: the task of _interval_loop
    heap,         \* _queue._heap
    pc,           \* pc[w]: where worker w is
    doing,        \* doing[w]: WorkerInfo.current_job
    attempts,     \* attempts[w]: failed attempts of the run in progress
    locked,       \* keys of _lock._locks that have not expired
    dead,         \* dead[j]: dead letters of j
    cancelled,    \* history: the jobs cancel() removed from the queue
    bypassed,     \* history: the jobs that got around their lock
    ops

queueVars == <<heap, locked>>
workVars  == <<pc, doing, attempts>>
adminVars == <<registered, running, enabled, timer, dead, ops>>
histVars  == <<cancelled, bypassed>>
vars == <<queueVars, workVars, adminVars, histVars>>

(***************************************************************************)
(* A heap entry is (priority, counter, job).  Only the order of the counters *)
(* matters, so "n" is the entry's rank by age among those in the heap.      *)
(***************************************************************************)
Entries == [prio : 0 .. 5, n : 1 .. MaxQueue, job : Jobs]

Sooner(e, f) == e.prio < f.prio \/ (e.prio = f.prio /\ e.n < f.n)

Heap == INSTANCE Heapq WITH Before <- Sooner

TypeOK ==
    /\ registered \subseteq Jobs
    /\ running \in BOOLEAN
    /\ enabled \in [Jobs -> BOOLEAN]
    /\ timer \in [Interval -> {"none", "new", "sleeping"}]
    /\ heap \in Seq(Entries) /\ Len(heap) <= MaxQueue
    /\ pc \in [Workers -> {"off", "idle", "fetching", "backoff"}]
    /\ doing \in [Workers -> Jobs \cup {Nobody}]
    /\ attempts \in [Workers -> Nat]
    /\ \A w \in Workers :
          /\ doing[w] = Nobody <=> pc[w] \in {"off", "idle"}
          /\ attempts[w] <= IF doing[w] = Nobody THEN 0 ELSE MaxRetries[doing[w]]
    /\ locked \subseteq Jobs
    /\ dead \in [Jobs -> 0 .. MaxDead]
    /\ cancelled \subseteq Jobs /\ bypassed \subseteq Jobs
    /\ ops \in 0 .. MaxOps

Init ==
    /\ registered = {}
    /\ running = FALSE
    /\ enabled = [j \in Jobs |-> TRUE]
    /\ timer = [j \in Interval |-> "none"]
    /\ heap = <<>>
    /\ pc = [w \in Workers |-> "off"]
    /\ doing = [w \in Workers |-> Nobody]
    /\ attempts = [w \in Workers |-> 0]
    /\ locked = {}
    /\ dead = [j \in Jobs |-> 0]
    /\ cancelled = {}
    /\ bypassed = {}
    /\ ops = 0

Queued(j)  == {i \in 1 .. Len(heap) : heap[i].job = j}
RunsOf(j)  == {w \in Workers : doing[w] = j}
Copies(j)  == Cardinality(Queued(j)) + Cardinality(RunsOf(j))

Operator == ops < MaxOps /\ ops' = ops + 1
----------------------------------------------------------------------------
(* The queue.                                                              *)

\* PriorityJobQueue.put.
Put(j, prio) ==
    /\ Len(heap) < MaxQueue
    /\ heap' = Heap!heappush(heap, [prio |-> prio, n |-> Len(heap) + 1, job |-> j])

\* Ages again from 1, oldest first.
Rerank(h) ==
    [i \in 1 .. Len(h) |->
        [h[i] EXCEPT !.n = Cardinality({k \in 1 .. Len(h) : h[k].n <= h[i].n})]]

\* Mutant: get() takes the oldest entry.
GetOldest == \E i \in 1 .. Len(heap) :
    /\ heap[i].n = 1
    /\ heap' = Rerank(SubSeq(heap, 1, i - 1) \o SubSeq(heap, i + 1, Len(heap)))

\* PriorityJobQueue.get.
Get == heap' = Rerank(Heap!heappop(heap))

----------------------------------------------------------------------------
(* Registration, timers and the life of the scheduler.                     *)

\* register(): an INTERVAL job gets a task, whatever the scheduler does.  A
\* job is registered again only after its task has ended.
Register(j) ==
    /\ j \notin registered
    /\ j \in Interval => timer[j] = "none"
    /\ registered' = registered \cup {j}
    /\ timer' = [i \in Interval |-> IF i = j THEN "new" ELSE timer[i]]
    /\ UNCHANGED <<running, enabled, dead, ops, queueVars, workVars, histVars>>

\* unregister(): the timer and the queued entries stay.
Unregister(j) ==
    /\ j \in registered
    /\ Operator
    /\ registered' = registered \ {j}
    /\ UNCHANGED <<running, enabled, timer, dead, queueVars, workVars, histVars>>

\* The task's first turn: a loop that finds the scheduler stopped is over.
TimerBegins(j) ==
    /\ timer[j] = "new"
    /\ timer' = [timer EXCEPT ![j] = IF running THEN "sleeping" ELSE "none"]
    /\ UNCHANGED <<registered, running, enabled, dead, ops, queueVars, workVars, histVars>>

\* The interval is over: the job is queued without taking its lock.
Tick(j) ==
    /\ timer[j] = "sleeping"
    /\ IF enabled[j] THEN Put(j, Priority[j]) /\ bypassed' = bypassed \cup {j}
                     ELSE UNCHANGED <<heap, bypassed>>
    /\ UNCHANGED <<locked, adminVars, workVars, cancelled>>

Start ==
    /\ ~running
    /\ running' = TRUE
    /\ pc' = [w \in Workers |-> "idle"]
    /\ UNCHANGED <<registered, enabled, timer, dead, ops, queueVars, doing, attempts, histVars>>

\* stop() cancels every task; a run in progress leaves through its finally.
Stop ==
    /\ running
    /\ Operator
    /\ running' = FALSE
    /\ timer' = [j \in Interval |-> "none"]
    /\ pc' = [w \in Workers |-> "off"]
    /\ doing' = [w \in Workers |-> Nobody]
    /\ attempts' = [w \in Workers |-> 0]
    /\ locked' = locked \ {doing[w] : w \in Workers}
    /\ UNCHANGED <<registered, enabled, dead, heap, histVars>>
----------------------------------------------------------------------------
(* The operator's calls.                                                   *)

\* trigger() with the job's priority or an urgent one; a held lock or a
\* paused job means None and nothing changes.
Trigger(j) ==
    /\ j \in registered
    /\ enabled[j]
    /\ j \notin locked
    /\ locked' = locked \cup {j}
    /\ \E prio \in {Priority[j], 1} : Put(j, prio)
    /\ UNCHANGED <<adminVars, workVars, histVars>>

SetEnabled(j) ==
    /\ j \in registered
    /\ Operator
    /\ enabled' = [enabled EXCEPT ![j] = ~@]
    /\ UNCHANGED <<registered, running, timer, dead, queueVars, workVars, histVars>>

\* The entries of the other jobs, where they are in the list.
Without(h, j) ==
    LET kept == {i \in 1 .. Len(h) : h[i].job # j}
        upTo(i) == {k \in kept : k <= i}
    IN  [n \in 1 .. Cardinality(kept) |->
            h[CHOOSE i \in kept : Cardinality(upTo(i)) = n]]

\* cancel() filters the list behind the heap and leaves the lock.
Cancel(j) ==
    /\ Queued(j) # {}
    /\ Operator
    /\ heap' = Rerank(Without(heap, j))
    /\ cancelled' = cancelled \cup {j}
    /\ UNCHANGED <<locked, registered, running, enabled, timer, dead, workVars, bypassed>>

\* replay_dead_letter(): queued again without taking the lock; the letter of a
\* job that is no longer registered is dropped.
Replay(j) ==
    /\ dead[j] > 0
    /\ Operator
    /\ dead' = [dead EXCEPT ![j] = @ - 1]
    /\ IF j \in registered THEN Put(j, 3) /\ bypassed' = bypassed \cup {j}
                           ELSE UNCHANGED <<heap, bypassed>>
    /\ UNCHANGED <<locked, registered, running, enabled, timer, workVars, cancelled>>

Purge ==
    /\ \E j \in Jobs : dead[j] > 0
    /\ Operator
    /\ dead' = [j \in Jobs |-> 0]
    /\ UNCHANGED <<registered, running, enabled, timer, queueVars, workVars, histVars>>
----------------------------------------------------------------------------
(* The workers.                                                            *)

\* An idle worker finds a job and starts to fetch.
Take(w) ==
    /\ pc[w] = "idle"
    /\ heap # <<>> /\ heap[1].job \notin Unserved
    /\ Get
    /\ pc' = [pc EXCEPT ![w] = "fetching"]
    /\ doing' = [doing EXCEPT ![w] = heap[1].job]
    /\ UNCHANGED <<locked, attempts, adminVars, histVars>>

\* Mutant: only the retry loop releases.
TakeUnservedKeepsLock(w) ==
    /\ pc[w] = "idle"
    /\ heap # <<>> /\ heap[1].job \in Unserved
    /\ Get
    /\ UNCHANGED <<locked, workVars, adminVars, histVars>>

\* The registry does not know the connector: FAILED before the first await.
TakeUnserved(w) ==
    /\ pc[w] = "idle"
    /\ heap # <<>> /\ heap[1].job \in Unserved
    /\ Get
    /\ locked' = locked \ {heap[1].job}
    /\ UNCHANGED <<workVars, adminVars, histVars>>

\* The end of a run: the finally releases whatever lock the job has.
EndRun(w) ==
    /\ pc' = [pc EXCEPT ![w] = "idle"]
    /\ doing' = [doing EXCEPT ![w] = Nobody]
    /\ attempts' = [attempts EXCEPT ![w] = 0]
    /\ locked' = locked \ {doing[w]}

\* fetch, parse, normalize and validate went through: COMPLETED.
Complete(w) ==
    /\ pc[w] = "fetching"
    /\ EndRun(w)
    /\ UNCHANGED <<heap, adminVars, histVars>>

\* Mutant: the lock is released before the backoff and not taken again.
RetryLaterUnlocked(w) ==
    /\ pc[w] = "fetching"
    /\ attempts[w] < MaxRetries[doing[w]]
    /\ attempts' = [attempts EXCEPT ![w] = @ + 1]
    /\ pc' = [pc EXCEPT ![w] = "backoff"]
    /\ locked' = locked \ {doing[w]}
    /\ UNCHANGED <<heap, doing, adminVars, histVars>>

\* Mutant: the retries are counted one late.
RetryLaterOnceMore(w) ==
    /\ pc[w] = "fetching"
    /\ attempts[w] <= MaxRetries[doing[w]]
    /\ attempts' = [attempts EXCEPT ![w] = @ + 1]
    /\ pc' = [pc EXCEPT ![w] = "backoff"]
    /\ UNCHANGED <<queueVars, doing, adminVars, histVars>>

RetryLater(w) ==
    /\ pc[w] = "fetching"
    /\ attempts[w] < MaxRetries[doing[w]]
    /\ attempts' = [attempts EXCEPT ![w] = @ + 1]
    /\ pc' = [pc EXCEPT ![w] = "backoff"]
    /\ UNCHANGED <<queueVars, doing, adminVars, histVars>>

RetryNow(w) ==
    /\ pc[w] = "backoff"
    /\ pc' = [pc EXCEPT ![w] = "fetching"]
    /\ UNCHANGED <<queueVars, doing, attempts, adminVars, histVars>>

\* The last attempt failed.  The list of dead letters has no limit; the letters
\* of a job beyond MaxDead are not counted.
GiveUp(w) ==
    /\ pc[w] = "fetching"
    /\ attempts[w] = MaxRetries[doing[w]]
    /\ dead' = [dead EXCEPT ![doing[w]] = IF @ < MaxDead THEN @ + 1 ELSE @]
    /\ EndRun(w)
    /\ UNCHANGED <<heap, registered, running, enabled, timer, ops, histVars>>

\* The TTL of a lock is over while its job still waits or runs, or after a
\* cancel.
LockExpires(j) ==
    /\ j \in locked
    /\ locked' = locked \ {j}
    /\ bypassed' = bypassed \cup {j}
    /\ UNCHANGED <<heap, workVars, adminVars, cancelled>>
----------------------------------------------------------------------------
WorkerStep(w) ==
    \/ Take(w)
    \/ TakeUnserved(w)
    \/ Complete(w)
    \/ RetryLater(w)
    \/ RetryNow(w)
    \/ GiveUp(w)

Next ==
    \/ \E j \in Jobs :
          \/ Register(j)
          \/ Unregister(j)
          \/ Trigger(j)
          \/ SetEnabled(j)
          \/ Cancel(j)
          \/ Replay(j)
          \/ LockExpires(j)
    \/ \E j \in Interval : TimerBegins(j) \/ Tick(j)
    \/ Start
    \/ Stop
    \/ Purge
    \/ \E w \in Workers : WorkerStep(w)

Spec == Init /\ [][Next]_vars
----------------------------------------------------------------------------
(* Properties.                                                             *)

\* A job that never ran by timer or replay and whose lock never expired is
\* queued or running at most once, with its lock held, through retries,
\* restarts and cancels.
LockedJobsAreUnique ==
    \A j \in Jobs \ bypassed : Copies(j) <= 1 /\ (Copies(j) = 1 => j \in locked)

\* No lock is left behind: apart from cancelled jobs, a lock is held only while
\* its job waits or runs, however the run ends.
NoLockLeaks == \A j \in locked \ cancelled : Copies(j) > 0

\* The next job a worker takes is the most urgent one, first come first served,
\* as long as nobody has cancelled anything.
MostUrgentNext == cancelled = {} => Heap!HeadIsLeast(heap)

\* "PriorityQueue: LIVE runs first" (verify.py), whatever the operator does.
MostUrgentAlwaysNext == Heap!HeadIsLeast(heap)
==============================================================================
