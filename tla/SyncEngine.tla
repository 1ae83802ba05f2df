------------------------------ MODULE SyncEngine ------------------------------
(***************************************************************************)
(* The sync engine of src/backend/src/sync: SyncEngine.execute runs a plan  *)
(* job by job, SyncPipeline.execute fetches from the provider and upserts   *)
(* in batches, the checkpoint store remembers how far each job came, and    *)
(* all of them write through one shared database session.                   *)
(*                                                                          *)
(* The session is the heart of the model.  Jobs only flush: their rows stay *)
(* pending until _record_job or the checkpoint store commits, a database    *)
(* error leaves the session unusable (SQLAlchemy demands a rollback nobody  *)
(* issues), and a row the database refuses makes the upsert roll back       *)
(* everything pending, the rows of earlier batches included.                *)
(***************************************************************************)
EXTENDS Integers, Sequences, FiniteSets

CONSTANTS
    Jobs,           \* entity types with a registered job
    Order,          \* the plan, in the order _resolve_order returned
    Critical,       \* jobs whose failure aborts the run
    OffsetJobs,     \* jobs whose _fetch starts at state.last_offset
    Total,          \* how many items the provider lists for a job
    BatchSize,      \* SyncJob.batch_size
    PageSize,       \* parents per provider page, for OffsetJobs
    PerParent,      \* items embedded in each listed parent; 1 = the item itself
    Rejectable,     \* items the upsert may refuse itself (unresolved reference)
    Conflicting,    \* items whose row the database may refuse: a duplicate in
                    \* the listing, a missing or rolled-back reference
    Segments,       \* API cache segments a job's rows surface in
    Modes,          \* sync modes callers ask for; "auto" = none
    Reliability,    \* is a ReliabilityConfig (circuit breaker) wired in?
    SharedDatabase, \* may another sync process insert the same rows?
    MaxFaults       \* bound on injected faults, cancellations and crashes

Items(j) == 1..Total[j]

ASSUME EngineAssumption ==
    /\ Order \in Seq(Jobs)
    /\ Order # <<>>
    /\ Critical \subseteq Jobs
    /\ OffsetJobs \subseteq Jobs
    /\ Total \in [Jobs -> Nat]
    /\ BatchSize \in [Jobs -> Nat \ {0}]
    /\ PageSize \in [Jobs -> Nat \ {0}]
    /\ PerParent \in [Jobs -> Nat \ {0}]
    /\ \A j \in Jobs : Rejectable[j] \subseteq Items(j) /\ Conflicting[j] \subseteq Items(j)
    /\ Modes \subseteq {"auto", "FULL", "INCREMENTAL", "RESUME", "FORCE"}
    /\ Reliability \in BOOLEAN
    /\ SharedDatabase \in BOOLEAN
    /\ MaxFaults \in Nat

VARIABLES
    pc,         \* where the engine is between two awaits
    mode,       \* the mode this run was asked for
    cancelled,  \* ctx.token.is_cancelled
    results,    \* statuses of job_results
    overall,    \* overall_status; "NONE" before the first run and after a crash
    job,        \* the job the loop is at
    mem,        \* its SyncState in memory
    start,      \* items the provider skipped for this fetch
    pos,        \* items of the fetched list already handed to _upsert
    reported,   \* items the upserts of this job counted as written
    session,    \* "ok", or "poisoned" by a database error without a rollback
    pending,    \* rows of this job flushed but not committed
    db,         \* committed rows, per job
    rejected,   \* items some upsert counted as an error, per job
    dropped,    \* history: items a conflict's rollback took from the session
                \* after they were counted, not committed since, per job
    stored,     \* the sync_checkpoints rows
    runRow,     \* status of this run's sync_runs row
    jobRow,     \* this run's sync_jobs rows
    stale,      \* API cache segments that may miss committed rows
    faults      \* faults injected so far

jobVars     == <<job, mem, start, pos, reported>>
runVars     == <<mode, cancelled, results, overall>>
durableVars == <<db, rejected, dropped, stored, runRow, jobRow, stale>>
vars == <<pc, runVars, jobVars, session, pending, durableVars, faults>>

------------------------------------------------------------------------------
\* Checkpoints (state.py) and the strategy (strategy.py)

Statuses == {"PENDING", "IN_PROGRESS", "COMPLETED", "FAILED"}
SyncState == [status : Statuses, page : Nat, offset : Nat]

\* A missing checkpoint row and a fresh one load as the same state.
Fresh == [status |-> "PENDING", page |-> 0, offset |-> 0]

\* mutant of MarkFailed: the error message lands in the status column
MarkFailedWithError(s) == [s EXCEPT !.status = "timeout"]

MarkStarted(s)   == [s EXCEPT !.status = "IN_PROGRESS"]
MarkCompleted(s) == [status |-> "COMPLETED", page |-> 0, offset |-> 0]
MarkFailed(s)    == [s EXCEPT !.status = "FAILED"]
UpdateProgress(s, page, offset) == [s EXCEPT !.page = page, !.offset = offset]

Resumable(s) == s.page > 0 \/ s.offset > 0

\* start_offset of SyncStrategy.decide: only a resume carries one.
StartOffset(m, s) ==
    IF /\ Resumable(s)
       /\ \/ m = "RESUME"
          \/ m \in {"auto", "FULL"} /\ s.status \in {"FAILED", "IN_PROGRESS"}
    THEN s.offset
    ELSE 0

\* The pipeline copies the decision into the state, but only when positive.
ApplyDecision(m, s) ==
    IF StartOffset(m, s) > 0 THEN [s EXCEPT !.offset = StartOffset(m, s)] ELSE s

------------------------------------------------------------------------------
\* Fetch windows and batches

Lesser(a, b) == IF a < b THEN a ELSE b

\* mutant of FetchStart: the page holding the offset counts as already seen
FetchStartAfterPage(j, offset) ==
    IF j \in OffsetJobs
    THEN Lesser(Total[j],
                PerParent[j] * (PageSize[j] * ((offset + PageSize[j] - 1) \div PageSize[j])))
    ELSE 0

\* fetch_events asks for page offset // limit + 1: whole pages of parents
\* before the offset are not served, nor the items embedded in them.
FetchStart(j, offset) ==
    IF j \in OffsetJobs
    THEN Lesser(Total[j], PerParent[j] * (PageSize[j] * (offset \div PageSize[j])))
    ELSE 0

MoreBatches == start + pos < Total[job]
BatchEnd    == Lesser(start + pos + BatchSize[job], Total[job])
Batch       == (start + pos + 1)..BatchEnd

------------------------------------------------------------------------------
NoRow == [status |-> "NONE", saved |-> {}]

NoJob ==
    /\ job = Order[1]
    /\ mem = Fresh
    /\ start = 0
    /\ pos = 0
    /\ reported = {}

Init ==
    /\ pc = "idle"
    /\ mode = "auto"
    /\ cancelled = FALSE
    /\ results = <<>>
    /\ overall = "NONE"
    /\ NoJob
    /\ session = "ok"
    /\ pending = {}
    /\ db = [j \in Jobs |-> {}]
    /\ rejected = [j \in Jobs |-> {}]
    /\ dropped = [j \in Jobs |-> {}]
    /\ stored = [j \in Jobs |-> Fresh]
    /\ runRow = "NONE"
    /\ jobRow = [j \in Jobs |-> NoRow]
    /\ stale = {}
    /\ faults = 0

Fault == faults < MaxFaults /\ faults' = faults + 1

------------------------------------------------------------------------------
\* The run (engine.py)

BeginRun(m) ==
    /\ pc = "idle"
    /\ pc' = "next"
    /\ mode' = m
    /\ cancelled' = FALSE
    /\ results' = <<>>
    /\ overall' = "COMPLETED"
    /\ jobRow' = [j \in Jobs |-> NoRow]
    /\ UNCHANGED <<jobVars, pending, db, rejected, dropped, stored, stale>>

\* mutant of StartRun: one session for all runs of a process
StartRunOnOldSession(m) ==
    /\ BeginRun(m)
    /\ runRow' = IF session = "ok" THEN "RUNNING" ELSE runRow
    /\ UNCHANGED <<session, faults>>

\* A process opens its session, inserts the RUNNING row and commits it.
StartRun(m) ==
    /\ BeginRun(m)
    /\ session' = "ok"
    /\ runRow' = "RUNNING"
    /\ UNCHANGED faults

\* The row cannot be written: logged as a warning, the run goes on.
StartRunUnrecorded(m) ==
    /\ BeginRun(m)
    /\ Fault
    /\ session' = "poisoned"
    /\ runRow' = "NONE"

\* CancellationToken.cancel, by the caller, at any moment of the run.
RequestCancel ==
    /\ pc \notin {"idle", "after"}
    /\ ~cancelled
    /\ Fault
    /\ cancelled' = TRUE
    /\ UNCHANGED <<pc, mode, results, overall, jobVars, session, pending, durableVars>>

GiveUp ==
    /\ overall' = "CANCELLED"
    /\ pc' = "end"

\* Top of the loop: token check, load the checkpoint, decide, mark started.
StartJob ==
    /\ pc = "next"
    /\ Len(results) < Len(Order)
    /\ ~cancelled
    /\ session = "ok"
    /\ LET j == Order[Len(results) + 1]
       IN  /\ job' = j
           /\ mem' = MarkStarted(ApplyDecision(mode, stored[j]))
    /\ start' = 0
    /\ pos' = 0
    /\ reported' = {}
    /\ pc' = "fetch"
    /\ UNCHANGED <<runVars, session, pending, durableVars, faults>>

\* mutant of AbandonRun: a session nobody can use is taken for a slow one
AbandonRunWhenCancelled ==
    /\ pc = "next"
    /\ Len(results) < Len(Order)
    /\ \/ cancelled /\ UNCHANGED <<session, faults>>
       \/ Fault /\ session' = "poisoned"
    /\ GiveUp
    /\ UNCHANGED <<mode, cancelled, results, jobVars, pending, durableVars>>

\* The token check or the load raises: any exception in the loop is reported
\* as CANCELLED.
AbandonRun ==
    /\ pc = "next"
    /\ Len(results) < Len(Order)
    /\ \/ /\ cancelled \/ session = "poisoned"
          /\ UNCHANGED <<session, faults>>
       \/ Fault /\ session' = "poisoned"
    /\ GiveUp
    /\ UNCHANGED <<mode, cancelled, results, jobVars, pending, durableVars>>

FinishLoop ==
    /\ pc = "next"
    /\ Len(results) = Len(Order)
    /\ overall' = IF \E i \in DOMAIN results : results[i] = "FAILED"
                  THEN "PARTIAL" ELSE "COMPLETED"
    /\ pc' = "end"
    /\ UNCHANGED <<mode, cancelled, results, jobVars, session, pending, durableVars, faults>>

------------------------------------------------------------------------------
\* One job (pipeline.py)

EndJob(status, s) ==
    /\ results' = Append(results, status)
    /\ mem' = s
    /\ pc' = "record"
    /\ UNCHANGED <<mode, cancelled, overall, job, start, pos, durableVars>>

FailJob(s) == EndJob("FAILED", s) /\ reported' = {}

\* The open breaker refuses the call: the job fails, but without mark_failed.
BreakerRejects ==
    /\ pc = "fetch"
    /\ Reliability
    /\ Fault
    /\ FailJob(mem)
    /\ UNCHANGED <<session, pending>>

FetchSucceeds ==
    /\ pc = "fetch"
    /\ start' = FetchStart(job, mem.offset)
    /\ pc' = "batch"
    /\ UNCHANGED <<runVars, job, mem, pos, reported, session, pending, durableVars, faults>>

\* All attempts of the retry policy failed; a fetch that queries the database
\* may leave the session unusable.
FetchFails ==
    /\ pc = "fetch"
    /\ Fault
    /\ FailJob(MarkFailed(mem))
    /\ session' \in {session, "poisoned"}
    /\ UNCHANGED pending

\* The batch was handled: count it and advance the checkpoint in memory, to a
\* position relative to this fetch.
AdvanceCheckpoint(written) ==
    /\ reported' = reported \cup written
    /\ pos' = BatchEnd - start
    /\ mem' = UpdateProgress(mem, IF pos = 0 THEN 1 ELSE mem.page + 1, BatchEnd - start)

UpsertBatch ==
    /\ pc = "batch"
    /\ session = "ok"
    /\ MoreBatches
    /\ ~cancelled
    /\ \E refused \in SUBSET (Batch \cap Rejectable[job]) :
           /\ pending' = pending \cup (Batch \ refused)
           /\ rejected' = [rejected EXCEPT ![job] = @ \cup refused]
           /\ AdvanceCheckpoint(Batch \ refused)
    /\ UNCHANGED <<pc, runVars, job, start, session, db, dropped, stored, runRow, jobRow, stale,
                   faults>>

\* What a rolled-back flush and the row-by-row retry leave: the rows written
\* after the last conflict, and the updates, which come last.
AfterConflict(written, theirs, errors, conflicts) ==
    /\ db' = [db EXCEPT ![job] = @ \cup theirs]
    /\ pending' = {i \in written : i \in db[job] \/ \A c \in conflicts : i >= c}
    /\ dropped' = [dropped EXCEPT ![job] =
                      (@ \cup ((pending \cup written) \ pending')) \ db'[job]]
    /\ rejected' = [rejected EXCEPT ![job] = @ \cup errors]
    /\ AdvanceCheckpoint(written)

\* The flush of a batch is refused with an IntegrityError: another process
\* committed rows of it since resolve_bulk, or a row (or an earlier batch's
\* update, flushed with it) is one the database cannot take.  The session is
\* rolled back, dropping every pending row; the batch is then inserted row by
\* row, and each row refused again rolls back what the retry inserted before it.
\* A row found committed is updated, any other is counted as an error.
UpsertConflicts ==
    /\ pc = "batch"
    /\ session = "ok"
    /\ MoreBatches
    /\ ~cancelled
    /\ ~(Batch \subseteq db[job])
    /\ \E refused \in SUBSET (Batch \cap Rejectable[job]) :
       \E theirs \in SUBSET ((Batch \ refused) \ db[job]) :
       \E broken \in SUBSET ((Batch \cap Conflicting[job]) \ (refused \cup theirs \cup db[job])) :
           /\ \/ theirs \cup broken # {}
              \/ pending \cap db[job] \cap Conflicting[job] # {}
           /\ \/ theirs # {} /\ broken = {} /\ UNCHANGED faults
              \/ (theirs = {} \/ broken # {}) /\ Fault
           /\ theirs # {} => SharedDatabase
           /\ AfterConflict(Batch \ (refused \cup broken), theirs, refused \cup broken,
                             theirs \cup broken)
    /\ UNCHANGED <<pc, runVars, job, start, session, stored, runRow, jobRow, stale>>

\* The upsert catches a database error where it expects a bad row: it counts
\* errors, the batch passes as handled and the session is unusable from here on.
UpsertSwallowsError ==
    /\ pc = "batch"
    /\ session = "ok"
    /\ MoreBatches
    /\ ~cancelled
    /\ Fault
    /\ session' = "poisoned"
    /\ pending' = {}
    /\ \E failed \in (SUBSET Batch) \ {{}} : AdvanceCheckpoint(Batch \ failed)
    /\ UNCHANGED <<pc, runVars, job, start, durableVars>>

\* A database error escapes _upsert, as it does on a session already unusable.
UpsertFails ==
    /\ pc = "batch"
    /\ MoreBatches
    /\ ~cancelled
    /\ \/ session = "poisoned" /\ UNCHANGED faults
       \/ session = "ok" /\ Fault
    /\ FailJob(MarkFailed(mem))
    /\ session' = "poisoned"
    /\ pending' = {}

\* token.check() between two batches raises inside the pipeline, which treats
\* it like any other failure of the job; pending rows stay pending.
CancelBetweenBatches ==
    /\ pc = "batch"
    /\ MoreBatches
    /\ cancelled
    /\ FailJob(MarkFailed(mem))
    /\ UNCHANGED <<session, pending, faults>>

FinishJob ==
    /\ pc = "batch"
    /\ ~MoreBatches
    /\ EndJob("COMPLETED", MarkCompleted(mem))
    /\ UNCHANGED <<reported, session, pending, faults>>

------------------------------------------------------------------------------
\* After a job (engine.py:165-187): job row and rows, then the checkpoint

JobStatus == results[Len(results)]

\* _record_job commits the sync_jobs row together with the job's rows.
RecordJob ==
    /\ pc = "record"
    /\ session = "ok"
    /\ db' = [db EXCEPT ![job] = @ \cup pending]
    /\ dropped' = [dropped EXCEPT ![job] = @ \ pending]
    /\ stale' = IF pending = {} THEN stale ELSE stale \cup Segments[job]
    /\ pending' = {}
    /\ jobRow' = [jobRow EXCEPT ![job] = [status |-> JobStatus, saved |-> reported]]
    /\ pc' = "save"
    /\ UNCHANGED <<runVars, jobVars, session, rejected, stored, runRow, faults>>

\* The commit fails, or the session already was unusable: only a warning.
RecordJobFails ==
    /\ pc = "record"
    /\ \/ session = "poisoned" /\ UNCHANGED faults
       \/ session = "ok" /\ Fault
    /\ session' = "poisoned"
    /\ pending' = {}
    /\ pc' = "save"
    /\ UNCHANGED <<runVars, jobVars, durableVars>>

\* mutant of SaveState: the checkpoint is written through a session of its own
SaveStateRegardless ==
    /\ pc = "save"
    /\ stored' = [stored EXCEPT ![job] = mem]
    /\ pc' = "next"
    /\ UNCHANGED <<runVars, jobVars, session, pending, db, rejected, dropped, runRow, jobRow, stale,
                   faults>>

\* mutant of SaveState: the break after a critical failure is missing
SaveStateWithoutBreak ==
    /\ pc = "save"
    /\ session = "ok"
    /\ stored' = [stored EXCEPT ![job] = mem]
    /\ pc' = "next"
    /\ UNCHANGED <<runVars, jobVars, session, pending, db, rejected, dropped, runRow, jobRow, stale,
                   faults>>

\* The checkpoint is committed; a failed critical job ends the plan.
SaveState ==
    /\ pc = "save"
    /\ session = "ok"
    /\ stored' = [stored EXCEPT ![job] = mem]
    /\ \/ /\ JobStatus = "FAILED" /\ job \in Critical
          /\ overall' = "FAILED"
          /\ pc' = "end"
       \/ /\ ~(JobStatus = "FAILED" /\ job \in Critical)
          /\ pc' = "next"
          /\ UNCHANGED overall
    /\ UNCHANGED <<mode, cancelled, results, jobVars, session, pending, db, rejected, dropped,
                   runRow, jobRow, stale, faults>>

\* mutant of SaveStateFails: a checkpoint that cannot be saved is only a
\* warning, and the session is rolled back for the next job
SaveStateFailsQuietly ==
    /\ pc = "save"
    /\ \/ session = "poisoned" /\ UNCHANGED faults
       \/ session = "ok" /\ Fault
    /\ session' = "ok"
    /\ pc' = "next"
    /\ UNCHANGED <<runVars, jobVars, pending, durableVars>>

SaveStateFails ==
    /\ pc = "save"
    /\ \/ session = "poisoned" /\ UNCHANGED faults
       \/ session = "ok" /\ Fault
    /\ session' = "poisoned"
    /\ GiveUp
    /\ UNCHANGED <<mode, cancelled, results, jobVars, pending, durableVars>>

------------------------------------------------------------------------------
\* The end of the run

RecordRunEnd ==
    /\ pc = "end"
    /\ session = "ok"
    /\ runRow' = overall
    /\ pc' = "after"
    /\ UNCHANGED <<runVars, jobVars, session, pending, db, rejected, dropped, stored, jobRow, stale,
                   faults>>

RecordRunEndFails ==
    /\ pc = "end"
    /\ \/ session = "poisoned" /\ UNCHANGED faults
       \/ session = "ok" /\ Fault
    /\ session' = "poisoned"
    /\ pc' = "after"
    /\ UNCHANGED <<runVars, jobVars, pending, durableVars>>

\* mutant of Busted: the segments of the last job only
BustedLastJobOnly ==
    IF overall \in {"COMPLETED", "PARTIAL"} /\ JobStatus = "COMPLETED"
    THEN Segments[Order[Len(results)]]
    ELSE {}

\* invalidate_after_sync: segments of the COMPLETED jobs of a run that ended
\* COMPLETED or PARTIAL.
Busted ==
    IF overall \in {"COMPLETED", "PARTIAL"}
    THEN UNION {Segments[Order[i]] : i \in {k \in DOMAIN results : results[k] = "COMPLETED"}}
    ELSE {}

ForgetJob ==
    /\ job' = Order[1]
    /\ mem' = Fresh
    /\ start' = 0
    /\ pos' = 0
    /\ reported' = {}

\* execute fires after_sync and returns.
ReturnResult ==
    /\ pc = "after"
    /\ stale' = stale \ Busted
    /\ ForgetJob
    /\ pc' = "idle"
    /\ UNCHANGED <<runVars, session, pending, db, rejected, dropped, stored, runRow, jobRow, faults>>

\* The process dies: everything uncommitted and everything in memory is gone.
Crash ==
    /\ pc # "idle"
    /\ Fault
    /\ pc' = "idle"
    /\ results' = <<>>
    /\ overall' = "NONE"
    /\ ForgetJob
    /\ session' = "ok"
    /\ pending' = {}
    /\ UNCHANGED <<mode, cancelled, durableVars>>

Begins == \E m \in Modes : StartRun(m)

Proceeds ==
    \/ StartJob \/ AbandonRun \/ FinishLoop
    \/ FetchSucceeds \/ UpsertBatch \/ UpsertFails \/ CancelBetweenBatches \/ FinishJob
    \/ RecordJob \/ RecordJobFails \/ SaveState \/ SaveStateFails
    \/ RecordRunEnd \/ RecordRunEndFails \/ ReturnResult

Disturbs ==
    \/ \E m \in Modes : StartRunUnrecorded(m)
    \/ RequestCancel \/ BreakerRejects \/ FetchFails \/ UpsertConflicts
    \/ UpsertSwallowsError \/ Crash

Next == Begins \/ Proceeds \/ Disturbs

Spec == Init /\ [][Next]_vars

\* The event loop keeps running the engine and runs are started again by cron
\* or an operator; faults, cancellations and crashes need not happen.
FairSpec == Spec /\ WF_vars(Begins) /\ WF_vars(Proceeds)

------------------------------------------------------------------------------
\* Properties

\* Every variable keeps to the values the code can give it.
TypeOK ==
    /\ pc \in {"idle", "next", "fetch", "batch", "record", "save", "end", "after"}
    /\ mode \in Modes \cup {"auto"}
    /\ cancelled \in BOOLEAN
    /\ results \in Seq({"COMPLETED", "FAILED"})
    /\ overall \in {"NONE", "COMPLETED", "PARTIAL", "FAILED", "CANCELLED"}
    /\ job \in Jobs
    /\ mem \in SyncState
    /\ start \in Nat
    /\ pos \in Nat
    /\ reported \subseteq Nat
    /\ session \in {"ok", "poisoned"}
    /\ pending \subseteq Nat
    /\ db \in [Jobs -> SUBSET Nat]
    /\ rejected \in [Jobs -> SUBSET Nat]
    /\ dropped \in [Jobs -> SUBSET Nat]
    /\ stored \in [Jobs -> SyncState]
    /\ runRow \in {"NONE", "RUNNING", "COMPLETED", "PARTIAL", "FAILED", "CANCELLED"}
    /\ jobRow \in [Jobs -> [status : {"NONE", "COMPLETED", "FAILED"}, saved : SUBSET Nat]]
    /\ stale \subseteq UNION {Segments[j] : j \in Jobs}
    /\ faults \in 0..MaxFaults

\* Items whose fate is settled: committed, or counted as an error.
Settled(j) == db[j] \cup rejected[j]

\* Items that are settled or were lost to the rollback of a conflict, the one
\* way in which an item may be counted and yet be nowhere.
Accounted(j) == Settled(j) \cup dropped[j]

\* Jobs whose checkpoint counts what their fetch skips.
Faithful == {j \in Jobs : PerParent[j] = 1}

\* A resumed run must not skip rows that never reached the database
\* (pipeline.py:72, test_resume.py:195 "ensures no gaps in data"): whatever
\* faults, cancellations, crashes and other processes came before, an item a
\* saved checkpoint lets the next fetch skip is settled, unless the rollback of
\* upserts/base.py:137 or 179 took it from the session.
CheckpointBehindData ==
    \A j \in Faithful : 1..FetchStart(j, stored[j].offset) \subseteq Accounted(j)

\* A checkpoint that says COMPLETED means the whole listing was consumed
\* (state.py:99-104), also when the run that completed it only fetched the tail
\* after a resume: every item is settled or was lost to a conflict's rollback.
NoGapWhenCompleted ==
    \A j \in Faithful : stored[j].status = "COMPLETED" => Items(j) \subseteq Accounted(j)

\* Resuming from an offset ensures no gaps, for every job and not only those
\* whose checkpoint counts what their fetch skips (test_resume.py:195).
ResumeLeavesNoGap ==
    \A j \in Jobs : stored[j].status = "COMPLETED" => Items(j) \subseteq Accounted(j)

\* The rows a job's record counts as written are committed, unless a conflict's
\* rollback dropped them: no commit failure, crash or cancellation separates a
\* record from its rows (engine.py:269-291).
JobRowReflectsPersisted ==
    \A j \in Jobs : jobRow[j].saved \subseteq db[j] \cup dropped[j]

\* The records reflect what actually persisted (engine.py:272-273): every row a
\* job's record counts as written is committed.
RecordsArePersisted ==
    \A j \in Jobs : jobRow[j].saved \subseteq db[j]

\* A sync_runs row may say COMPLETED only if every job of the plan has its
\* COMPLETED record and all its items are settled or lost to a conflict's
\* rollback, although failures to write any of these records are only warnings
\* (engine.py:167-173, 214-219).
CompletedRunIsComplete ==
    runRow = "COMPLETED" =>
        \A i \in DOMAIN Order :
            /\ jobRow[Order[i]].status = "COMPLETED"
            /\ Order[i] \in Faithful => Items(Order[i]) \subseteq Accounted(Order[i])

\* After a run that returned COMPLETED no cache segment of its jobs misses
\* committed rows (engine.py:76-78), not even rows an earlier failed,
\* cancelled or killed run committed without invalidating anything.
CompletedRunLeavesNoStaleCache ==
    (pc = "idle" /\ overall = "COMPLETED") =>
        \A i \in DOMAIN Order : stale \cap Segments[Order[i]] = {}

\* The caller's view of a run, whatever the records and the session do.
Run == INSTANCE SyncRun WITH
    active  <- pc # "idle",
    verdict <- IF pc = "idle" THEN overall ELSE "NONE"

\* The engine implements the abstract run: jobs end in plan order, nothing runs
\* after a critical failure, and the verdict follows from the job results.
ImplementsRun == Run!RunSpec

\* Once faults stop, re-running the plan settles every item for good: neither
\* an unusable session, a stale checkpoint nor a cancelled run blocks the next
\* run (pipeline.py:72, state_store.py:66).
EventuallySynced == <>[](\A i \in DOMAIN Order : Items(Order[i]) \subseteq Settled(Order[i]))

\* Every run ends, also one whose session became unusable or whose token was
\* cancelled between two steps.
RunEnds == pc # "idle" ~> pc = "idle"
==============================================================================
