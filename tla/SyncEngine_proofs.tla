-------------------------- MODULE SyncEngine_proofs --------------------------
(***************************************************************************)
(* Proofs about SyncEngine for every plan, page size, batch size and bound: *)
(* type correctness, and the durability of what checkpoints and job records *)
(* claim: an item they count is settled, unless the rollback that answers a *)
(* conflict of the database took it from the session.  The engine also      *)
(* implements the abstract run SyncRun, for every plan and every fault:     *)
(* whatever happens to records, checkpoints and the session, the caller     *)
(* sees jobs end in plan order, nothing after a critical failure and a      *)
(* verdict that follows from the results.  And what a COMPLETED run says is *)
(* true, up to what such rollbacks dropped: its jobs are recorded and their *)
(* items settled, and no API cache segment of its jobs is left stale.       *)
(***************************************************************************)
EXTENDS SyncEngine, SequenceTheorems, TLAPS

------------------------------------------------------------------------------
\* Arithmetic of pages and batches

LEMMA LesserNat ==
    ASSUME NEW a \in Nat, NEW b \in Nat
    PROVE  Lesser(a, b) \in Nat /\ Lesser(a, b) <= a /\ Lesser(a, b) <= b
BY DEF Lesser

\* The start of the page that holds an offset is not beyond the offset.
LEMMA PageFloor ==
    ASSUME NEW o \in Nat, NEW p \in Nat \ {0}
    PROVE  p * (o \div p) \in Nat /\ p * (o \div p) <= o
OBVIOUS

LEMMA FetchStartNat ==
    ASSUME NEW j \in Jobs, NEW o \in Nat
    PROVE  FetchStart(j, o) \in Nat /\ FetchStart(j, o) <= Total[j]
<1>1. Total[j] \in Nat /\ PageSize[j] \in Nat \ {0} /\ PerParent[j] \in Nat \ {0}
  BY EngineAssumption
<1>2. PageSize[j] * (o \div PageSize[j]) \in Nat
  BY <1>1, PageFloor
<1>3. PerParent[j] * (PageSize[j] * (o \div PageSize[j])) \in Nat
  BY <1>1, <1>2
<1> DEFINE skip == PerParent[j] * (PageSize[j] * (o \div PageSize[j]))
<1>4. Lesser(Total[j], skip) \in Nat /\ Lesser(Total[j], skip) <= Total[j]
  BY <1>1, <1>3, LesserNat
<1> QED BY <1>1, <1>4 DEF FetchStart

\* A job whose checkpoint counts what its fetch skips is not served from
\* beyond its offset.
LEMMA FetchStartBehindOffset ==
    ASSUME NEW j \in Faithful, NEW o \in Nat
    PROVE  FetchStart(j, o) <= o
<1>1. /\ j \in Jobs /\ PerParent[j] = 1
      /\ Total[j] \in Nat /\ PageSize[j] \in Nat \ {0}
  BY EngineAssumption DEF Faithful
<1>2. /\ PageSize[j] * (o \div PageSize[j]) \in Nat
      /\ PageSize[j] * (o \div PageSize[j]) <= o
  BY <1>1, PageFloor
<1>3. PerParent[j] * (PageSize[j] * (o \div PageSize[j])) = PageSize[j] * (o \div PageSize[j])
  BY <1>1, <1>2
<1> DEFINE skip == PerParent[j] * (PageSize[j] * (o \div PageSize[j]))
<1>4. /\ Lesser(Total[j], skip) \in Nat /\ Lesser(Total[j], skip) <= skip
      /\ skip \in Nat /\ skip <= o
  BY <1>1, <1>2, <1>3, LesserNat
<1>5. FetchStart(j, o) = Lesser(Total[j], skip) \/ FetchStart(j, o) = 0
  BY DEF FetchStart
<1> QED BY <1>4, <1>5

LEMMA OrderJobs ==
    /\ Len(Order) \in Nat \ {0}
    /\ \A i \in 1..Len(Order) : Order[i] \in Jobs
<1>1. Order \in Seq(Jobs) /\ Order # <<>>
  BY EngineAssumption
<1>2. Len(Order) \in Nat /\ Order \in [1..Len(Order) -> Jobs]
  BY <1>1
<1>3. Len(Order) # 0
  <2>1. \A seq \in Seq(Jobs) : seq # <<>> => Len(seq) \in Nat \ {0}
    BY EmptySeq, Zenon
  <2> QED BY <1>1, <2>1
<1> QED BY <1>2, <1>3

LEMMA BatchBounds ==
    ASSUME TypeOK, MoreBatches
    PROVE  /\ BatchEnd \in Nat
           /\ BatchEnd <= Total[job]
           /\ start + pos < BatchEnd
           /\ BatchEnd - start \in Nat
<1>1. /\ start \in Nat /\ pos \in Nat
      /\ Total[job] \in Nat /\ BatchSize[job] \in Nat \ {0}
  BY EngineAssumption DEF TypeOK
<1>2. start + pos < Total[job]
  BY DEF MoreBatches
<1>3. /\ BatchEnd \in Nat /\ BatchEnd <= Total[job]
      /\ BatchEnd = start + pos + BatchSize[job] \/ BatchEnd = Total[job]
  BY <1>1 DEF BatchEnd, Lesser
<1> QED BY <1>1, <1>2, <1>3

------------------------------------------------------------------------------
\* Type correctness

\* Fresh checkpoints and every update of one are checkpoints.
LEMMA SyncStates ==
    /\ Fresh \in SyncState
    /\ \A s \in SyncState :
          /\ MarkStarted(s) \in SyncState
          /\ MarkCompleted(s) \in SyncState
          /\ MarkFailed(s) \in SyncState
          /\ \A m \in Modes : ApplyDecision(m, s) \in SyncState
          /\ \A p, o \in Nat : UpdateProgress(s, p, o) \in SyncState
BY DEF Fresh, SyncState, Statuses, MarkStarted, MarkCompleted, MarkFailed,
       UpdateProgress, ApplyDecision, StartOffset

LEMMA AdvanceTypeOK ==
    ASSUME TypeOK, NEW refused, AdvanceCheckpoint(Batch \ refused),
           BatchEnd \in Nat, BatchEnd - start \in Nat, Batch \subseteq Nat
    PROVE  mem' \in SyncState /\ pos' \in Nat /\ reported' \subseteq Nat
<1>1. (IF pos = 0 THEN 1 ELSE mem.page + 1) \in Nat
  BY DEF TypeOK, SyncState
<1>2. mem' \in SyncState
  BY <1>1, SyncStates DEF AdvanceCheckpoint, TypeOK
<1> QED BY <1>2 DEF AdvanceCheckpoint, TypeOK


\* A conflict leaves its batch written or counted as an error.
LEMMA ConflictEffect ==
    ASSUME UpsertConflicts
    PROVE  \E written, theirs, errors, conflicts \in SUBSET Batch :
               /\ AfterConflict(written, theirs, errors, conflicts)
               /\ Batch \subseteq written \cup errors
<1>1. PICK refused \in SUBSET (Batch \cap Rejectable[job]) :
           \E theirs \in SUBSET ((Batch \ refused) \ db[job]) :
           \E broken \in SUBSET ((Batch \cap Conflicting[job]) \ (refused \cup theirs \cup db[job])) :
               AfterConflict(Batch \ (refused \cup broken), theirs, refused \cup broken,
                             theirs \cup broken)
  BY DEF UpsertConflicts
<1>2. PICK theirs \in SUBSET ((Batch \ refused) \ db[job]) :
           \E broken \in SUBSET ((Batch \cap Conflicting[job]) \ (refused \cup theirs \cup db[job])) :
               AfterConflict(Batch \ (refused \cup broken), theirs, refused \cup broken,
                             theirs \cup broken)
  BY <1>1
<1>3. PICK broken \in SUBSET ((Batch \cap Conflicting[job]) \ (refused \cup theirs \cup db[job])) :
               AfterConflict(Batch \ (refused \cup broken), theirs, refused \cup broken,
                             theirs \cup broken)
  BY <1>2
<1> DEFINE written == Batch \ (refused \cup broken)
           errors == refused \cup broken
           conflicts == theirs \cup broken
<1>4. /\ written \in SUBSET Batch /\ theirs \in SUBSET Batch /\ errors \in SUBSET Batch
      /\ conflicts \in SUBSET Batch /\ Batch \subseteq written \cup errors
  OBVIOUS
<1>5. AfterConflict(written, theirs, errors, conflicts)
  BY <1>3
<1> HIDE DEF written, errors, conflicts
<1> QED BY <1>4, <1>5

LEMMA InitTypeOK == Init => TypeOK
<1> SUFFICES ASSUME Init PROVE TypeOK
  OBVIOUS
<1>1. Order[1] \in Jobs
  BY OrderJobs
<1>2. MaxFaults \in Nat
  BY EngineAssumption
<1>3. stored \in [Jobs -> SyncState] /\ mem \in SyncState
  BY SyncStates DEF Init, NoJob
<1>4. jobRow \in [Jobs -> [status : {"NONE", "COMPLETED", "FAILED"}, saved : SUBSET Nat]]
  BY DEF Init, NoRow
<1>5. results \in Seq({"COMPLETED", "FAILED"})
  BY DEF Init
<1>6. /\ db \in [Jobs -> SUBSET Nat] /\ rejected \in [Jobs -> SUBSET Nat]
      /\ dropped \in [Jobs -> SUBSET Nat]
  BY DEF Init
<1>7. /\ job \in Jobs /\ start \in Nat /\ pos \in Nat /\ reported \subseteq Nat
      /\ faults \in 0..MaxFaults
  BY <1>1, <1>2 DEF Init, NoJob
<1> QED BY <1>3, <1>4, <1>5, <1>6, <1>7 DEF Init, TypeOK

\* Steps that leave the checkpoint in memory as it is, or fail or finish the job.
LEMMA EndJobTypeOK ==
    ASSUME TypeOK,
           NEW status \in {"COMPLETED", "FAILED"}, NEW s \in SyncState,
           EndJob(status, s),
           reported' \subseteq Nat, session' \in {"ok", "poisoned"},
           pending' \subseteq Nat, faults' \in 0..MaxFaults
    PROVE  TypeOK'
<1>1. results' \in Seq({"COMPLETED", "FAILED"})
  BY AppendProperties DEF TypeOK, EndJob
<1> QED BY <1>1 DEF TypeOK, EndJob, durableVars

LEMMA FaultBound ==
    ASSUME TypeOK, Fault
    PROVE  faults' \in 0..MaxFaults
<1>1. MaxFaults \in Nat
  BY EngineAssumption
<1>2. faults \in 0..MaxFaults
  BY DEF TypeOK
<1>3. faults < MaxFaults /\ faults' = faults + 1
  BY DEF Fault
<1> QED BY <1>1, <1>2, <1>3

\* A job is recorded only after it ended.
JobEnded == pc \in {"record", "save"} => results # <<>>

LEMMA JobEndedStep == TypeOK /\ JobEnded /\ [Next]_vars => JobEnded'
<1> SUFFICES ASSUME TypeOK, JobEnded, [Next]_vars PROVE JobEnded'
  OBVIOUS
<1> USE DEF JobEnded
<1>1. ASSUME NEW status \in {"COMPLETED", "FAILED"}, NEW s, EndJob(status, s)
      PROVE  JobEnded'
  <2>1. Append(results, status) # <<>>
    <3>1. results \in Seq({"COMPLETED", "FAILED"})
      BY DEF TypeOK
    <3> QED BY <3>1, AppendProperties
  <2> QED BY <1>1, <2>1 DEF EndJob
<1>2. CASE Begins \/ (\E m \in Modes : StartRunUnrecorded(m)) \/ RequestCancel
  BY <1>2 DEF Begins, StartRun, StartRunUnrecorded, BeginRun, RequestCancel
<1>3. CASE StartJob \/ AbandonRun \/ FinishLoop
  BY <1>3 DEF StartJob, AbandonRun, GiveUp, FinishLoop
<1>4. CASE BreakerRejects \/ FetchFails \/ UpsertFails \/ CancelBetweenBatches \/ FinishJob
  BY <1>1, <1>4 DEF BreakerRejects, FetchFails, UpsertFails, CancelBetweenBatches,
                    FinishJob, FailJob
<1>5. CASE FetchSucceeds \/ UpsertBatch \/ UpsertConflicts \/ UpsertSwallowsError
  BY <1>5 DEF FetchSucceeds, UpsertBatch, UpsertConflicts, UpsertSwallowsError, runVars
<1>6. CASE RecordJob \/ RecordJobFails \/ SaveState \/ SaveStateFails
  BY <1>6 DEF RecordJob, RecordJobFails, SaveState, SaveStateFails, GiveUp, runVars
<1>7. CASE RecordRunEnd \/ RecordRunEndFails \/ ReturnResult \/ Crash
  BY <1>7 DEF RecordRunEnd, RecordRunEndFails, ReturnResult, Crash
<1>8. CASE UNCHANGED vars
  BY <1>8 DEF vars, runVars
<1> QED
  BY <1>2, <1>3, <1>4, <1>5, <1>6, <1>7, <1>8 DEF Next, Begins, Proceeds, Disturbs

LEMMA TypeOKStep == TypeOK /\ JobEnded /\ [Next]_vars => TypeOK'
<1> SUFFICES ASSUME TypeOK, JobEnded, [Next]_vars PROVE TypeOK'
  OBVIOUS
<1>1. ASSUME NEW m \in Modes, StartRun(m) PROVE TypeOK'
  <2>1. jobRow' \in [Jobs -> [status : {"NONE", "COMPLETED", "FAILED"}, saved : SUBSET Nat]]
    BY <1>1 DEF StartRun, BeginRun, NoRow
  <2>2. results' \in Seq({"COMPLETED", "FAILED"})
    BY <1>1 DEF StartRun, BeginRun
  <2> QED BY <1>1, <2>1, <2>2 DEF TypeOK, StartRun, BeginRun, jobVars
<1>2. ASSUME NEW m \in Modes, StartRunUnrecorded(m) PROVE TypeOK'
  <2>1. jobRow' \in [Jobs -> [status : {"NONE", "COMPLETED", "FAILED"}, saved : SUBSET Nat]]
    BY <1>2 DEF StartRunUnrecorded, BeginRun, NoRow
  <2>2. results' \in Seq({"COMPLETED", "FAILED"})
    BY <1>2 DEF StartRunUnrecorded, BeginRun
  <2>3. faults' \in 0..MaxFaults
    BY <1>2, FaultBound DEF StartRunUnrecorded
  <2> QED BY <1>2, <2>1, <2>2, <2>3 DEF TypeOK, StartRunUnrecorded, BeginRun, jobVars
<1>3. CASE RequestCancel
  <2>1. faults' \in 0..MaxFaults
    BY <1>3, FaultBound DEF RequestCancel
  <2> QED BY <1>3, <2>1 DEF TypeOK, RequestCancel, jobVars, durableVars
<1>4. CASE StartJob
  <2>1. Order[Len(results) + 1] \in Jobs
    BY <1>4, OrderJobs DEF TypeOK, StartJob
  <2> DEFINE s == stored[Order[Len(results) + 1]]
  <2>2. s \in SyncState
    BY <2>1 DEF TypeOK
  <2>3. mem' \in SyncState
    <3>1. ApplyDecision(mode, s) \in SyncState
      BY <2>2 DEF ApplyDecision, StartOffset, SyncState
    <3>2. mem' = MarkStarted(ApplyDecision(mode, s))
      BY <1>4 DEF StartJob
    <3> QED BY <3>1, <3>2, SyncStates
  <2>4. job' \in Jobs
    BY <1>4, <2>1 DEF StartJob
  <2> QED BY <1>4, <2>3, <2>4 DEF TypeOK, StartJob, runVars, durableVars
<1>5. CASE AbandonRun
  <2>1. faults' \in 0..MaxFaults
    BY <1>5, FaultBound DEF AbandonRun, TypeOK
  <2> QED BY <1>5, <2>1 DEF TypeOK, AbandonRun, GiveUp, jobVars, durableVars
<1>6. CASE FinishLoop
  BY <1>6 DEF TypeOK, FinishLoop, jobVars, durableVars
<1>7. CASE BreakerRejects
  <2>1. faults' \in 0..MaxFaults
    BY <1>7, FaultBound DEF BreakerRejects
  <2> QED BY <1>7, <2>1, EndJobTypeOK DEF BreakerRejects, FailJob, TypeOK
<1>8. CASE FetchSucceeds
  <2>1. start' \in Nat
    BY <1>8, FetchStartNat DEF FetchSucceeds, TypeOK, SyncState
  <2> QED BY <1>8, <2>1 DEF TypeOK, FetchSucceeds, runVars, durableVars
<1>9. CASE FetchFails
  <2>1. faults' \in 0..MaxFaults
    BY <1>9, FaultBound DEF FetchFails
  <2>2. MarkFailed(mem) \in SyncState
    BY SyncStates DEF TypeOK
  <2> QED BY <1>9, <2>1, <2>2, EndJobTypeOK DEF FetchFails, FailJob, TypeOK
<1>10. CASE UpsertBatch
  <2>1. PICK refused \in SUBSET (Batch \cap Rejectable[job]) :
           /\ pending' = pending \cup (Batch \ refused)
           /\ rejected' = [rejected EXCEPT ![job] = @ \cup refused]
           /\ AdvanceCheckpoint(Batch \ refused)
    BY <1>10 DEF UpsertBatch
  <2>2. BatchEnd \in Nat /\ BatchEnd - start \in Nat /\ Batch \subseteq Nat
    BY <1>10, BatchBounds DEF UpsertBatch, Batch, TypeOK
  <2>3. mem' \in SyncState /\ pos' \in Nat /\ reported' \subseteq Nat
    BY <2>1, <2>2, AdvanceTypeOK
  <2>4. pending' \subseteq Nat /\ rejected' \in [Jobs -> SUBSET Nat]
    BY <2>1, <2>2 DEF TypeOK
  <2> QED BY <1>10, <2>3, <2>4 DEF TypeOK, UpsertBatch, runVars
<1>11. CASE UpsertConflicts
  <2>1. PICK written \in SUBSET Batch, theirs \in SUBSET Batch, errors \in SUBSET Batch,
             conflicts \in SUBSET Batch : AfterConflict(written, theirs, errors, conflicts)
    BY <1>11, ConflictEffect
  <2>2. BatchEnd \in Nat /\ BatchEnd - start \in Nat /\ Batch \subseteq Nat
    BY <1>11, BatchBounds DEF UpsertConflicts, Batch, TypeOK
  <2>3. mem' \in SyncState /\ pos' \in Nat /\ reported' \subseteq Nat
    <3>1. AdvanceCheckpoint(Batch \ (Batch \ written))
      <4>1. Batch \ (Batch \ written) = written
        OBVIOUS
      <4> QED BY <2>1, <4>1 DEF AfterConflict
    <3> QED BY <2>2, <3>1, AdvanceTypeOK
  <2>4. /\ pending' \subseteq Nat /\ rejected' \in [Jobs -> SUBSET Nat]
        /\ db' \in [Jobs -> SUBSET Nat] /\ dropped' \in [Jobs -> SUBSET Nat]
    BY <2>1, <2>2 DEF AfterConflict, TypeOK
  <2>5. faults' \in 0..MaxFaults
    BY <1>11, FaultBound DEF UpsertConflicts, TypeOK
  <2> QED BY <1>11, <2>3, <2>4, <2>5 DEF TypeOK, UpsertConflicts, runVars
<1>12. CASE UpsertFails
  <2>1. faults' \in 0..MaxFaults
    BY <1>12, FaultBound DEF UpsertFails, TypeOK
  <2>2. MarkFailed(mem) \in SyncState
    BY SyncStates DEF TypeOK
  <2> QED BY <1>12, <2>1, <2>2, EndJobTypeOK DEF UpsertFails, FailJob
<1>13. CASE CancelBetweenBatches
  <2>1. MarkFailed(mem) \in SyncState
    BY SyncStates DEF TypeOK
  <2> QED BY <1>13, <2>1, EndJobTypeOK DEF CancelBetweenBatches, FailJob, TypeOK
<1>14. CASE FinishJob
  <2>1. MarkCompleted(mem) \in SyncState
    BY SyncStates DEF TypeOK
  <2> QED BY <1>14, <2>1, EndJobTypeOK DEF FinishJob, TypeOK
<1>15. CASE RecordJob
  <2>1. db' \in [Jobs -> SUBSET Nat] /\ dropped' \in [Jobs -> SUBSET Nat]
    BY <1>15 DEF RecordJob, TypeOK
  <2>2. JobStatus \in {"NONE", "COMPLETED", "FAILED"}
    BY <1>15, EmptySeq DEF RecordJob, TypeOK, JobEnded, JobStatus
  <2>3. jobRow' \in [Jobs -> [status : {"NONE", "COMPLETED", "FAILED"}, saved : SUBSET Nat]]
    BY <1>15, <2>2 DEF RecordJob, TypeOK
  <2> QED BY <1>15, <2>1, <2>3 DEF TypeOK, RecordJob, runVars, jobVars
<1>16. CASE RecordJobFails
  <2>1. faults' \in 0..MaxFaults
    BY <1>16, FaultBound DEF RecordJobFails, TypeOK
  <2> QED BY <1>16, <2>1 DEF TypeOK, RecordJobFails, runVars, jobVars, durableVars
<1>17. CASE SaveState
  <2>1. stored' \in [Jobs -> SyncState]
    BY <1>17 DEF SaveState, TypeOK
  <2> QED BY <1>17, <2>1 DEF TypeOK, SaveState, jobVars
<1>18. CASE SaveStateFails
  <2>1. faults' \in 0..MaxFaults
    BY <1>18, FaultBound DEF SaveStateFails, TypeOK
  <2> QED BY <1>18, <2>1 DEF TypeOK, SaveStateFails, GiveUp, jobVars, durableVars
<1>19. CASE RecordRunEnd
  BY <1>19 DEF TypeOK, RecordRunEnd, runVars, jobVars
<1>20. CASE RecordRunEndFails
  <2>1. faults' \in 0..MaxFaults
    BY <1>20, FaultBound DEF RecordRunEndFails, TypeOK
  <2> QED BY <1>20, <2>1 DEF TypeOK, RecordRunEndFails, runVars, jobVars, durableVars
<1>21. CASE ReturnResult
  <2>1. Order[1] \in Jobs
    BY OrderJobs
  <2>2. mem' \in SyncState
    BY <1>21, SyncStates DEF ReturnResult, ForgetJob
  <2> QED BY <1>21, <2>1, <2>2 DEF TypeOK, ReturnResult, ForgetJob, runVars
<1>22. CASE Crash
  <2>1. Order[1] \in Jobs
    BY OrderJobs
  <2>2. mem' \in SyncState
    BY <1>22, SyncStates DEF Crash, ForgetJob
  <2>3. faults' \in 0..MaxFaults
    BY <1>22, FaultBound DEF Crash
  <2>4. results' \in Seq({"COMPLETED", "FAILED"})
    BY <1>22 DEF Crash
  <2> QED BY <1>22, <2>1, <2>2, <2>3, <2>4 DEF TypeOK, Crash, ForgetJob, durableVars
<1>23. CASE UpsertSwallowsError
  <2>1. PICK failed \in (SUBSET Batch) \ {{}} : AdvanceCheckpoint(Batch \ failed)
    BY <1>23 DEF UpsertSwallowsError
  <2>2. BatchEnd \in Nat /\ BatchEnd - start \in Nat /\ Batch \subseteq Nat
    BY <1>23, BatchBounds DEF UpsertSwallowsError, Batch, TypeOK
  <2>3. mem' \in SyncState /\ pos' \in Nat /\ reported' \subseteq Nat
    BY <2>1, <2>2, AdvanceTypeOK
  <2>4. faults' \in 0..MaxFaults
    BY <1>23, FaultBound DEF UpsertSwallowsError
  <2> QED BY <1>23, <2>3, <2>4 DEF TypeOK, UpsertSwallowsError, runVars, durableVars
<1>24. CASE UNCHANGED vars
  BY <1>24 DEF TypeOK, vars, runVars, jobVars, durableVars
<1> QED
  BY <1>1, <1>2, <1>3, <1>4, <1>5, <1>6, <1>7, <1>8, <1>9, <1>10, <1>11, <1>12,
     <1>13, <1>14, <1>15, <1>16, <1>17, <1>18, <1>19, <1>20, <1>21, <1>22, <1>23,
     <1>24
  DEF Next, Begins, Proceeds, Disturbs

\* Every variable keeps to the values the code can give it, for every plan,
\* listing and bound.
THEOREM TypeCorrect == Spec => []TypeOK
<1>1. Init => TypeOK /\ JobEnded
  BY InitTypeOK DEF Init, JobEnded
<1>2. TypeOK /\ JobEnded /\ [Next]_vars => (TypeOK /\ JobEnded)'
  BY TypeOKStep, JobEndedStep
<1> QED BY <1>1, <1>2, PTL DEF Spec

------------------------------------------------------------------------------
\* What checkpoints and job records claim is durable

\* The items a checkpoint accounts for are all among items.
Covers(s, j, items) ==
    /\ 1..s.offset \subseteq items
    /\ s.status = "COMPLETED" => Items(j) \subseteq items

StoredCovered == \A j \in Faithful : Covers(stored[j], j, Accounted(j))

\* While the session works, what the job in memory claims is settled or will
\* be with the next commit.
JobCovered ==
    (pc \in {"fetch", "batch", "record", "save"} /\ session = "ok") =>
        /\ job \in Faithful => Covers(mem, job, Accounted(job) \cup pending)
        /\ reported \subseteq db[job] \cup dropped[job] \cup pending

\* While the session works, everything the provider skipped or the upserts
\* handled is accounted for.
WindowCovered ==
    (pc = "batch" /\ session = "ok" /\ job \in Faithful) =>
        1..(start + pos) \subseteq Accounted(job) \cup pending

NothingPending == pc \notin {"batch", "record"} => pending = {}

FetchFresh == pc = "fetch" => session = "ok" /\ pos = 0 /\ mem.status = "IN_PROGRESS"

DurableInv ==
    /\ StoredCovered
    /\ JobRowReflectsPersisted
    /\ JobCovered
    /\ WindowCovered
    /\ NothingPending
    /\ FetchFresh

LEMMA FaithfulJobs ==
    ASSUME NEW j \in Faithful
    PROVE  j \in Jobs /\ Total[j] \in Nat
BY EngineAssumption DEF Faithful

LEMMA InitDurable == Init => DurableInv
<1> SUFFICES ASSUME Init PROVE DurableInv
  OBVIOUS
<1>1. StoredCovered
  BY FaithfulJobs DEF Init, StoredCovered, Covers, Fresh
<1>2. JobRowReflectsPersisted
  BY DEF Init, JobRowReflectsPersisted, NoRow
<1> QED
  BY <1>1, <1>2 DEF Init, DurableInv, JobCovered, WindowCovered, NothingPending, FetchFresh

\* Steps between jobs, and steps that lose the pending rows with the session.
LEMMA OutsideJobs ==
    ASSUME TypeOK, DurableInv,
           pc' \in {"idle", "next", "save", "end", "after"},
           pc' = "save" => session' = "poisoned",
           pending' = {},
           db' = db, rejected' = rejected, dropped' = dropped, stored' = stored,
           jobRow' = jobRow \/ jobRow' = [j \in Jobs |-> NoRow]
    PROVE  DurableInv'
<1>1. StoredCovered'
  BY DEF DurableInv, StoredCovered, Covers, Accounted, Settled
<1>2. JobRowReflectsPersisted'
  BY DEF DurableInv, JobRowReflectsPersisted, NoRow
<1>3. JobCovered' /\ WindowCovered' /\ NothingPending' /\ FetchFresh'
  BY DEF JobCovered, WindowCovered, NothingPending, FetchFresh
<1> QED BY <1>1, <1>2, <1>3 DEF DurableInv

\* A job that fails keeps its offset: rows flushed so far stay pending, or the
\* session is gone and nothing of it is saved.
LEMMA JobFails ==
    ASSUME TypeOK, DurableInv, pc \in {"fetch", "batch"},
           NEW s, FailJob(s), s.offset = mem.offset, s.status # "COMPLETED",
           \/ session' = "poisoned"
           \/ session' = session /\ pending' = pending
    PROVE  DurableInv'
<1>1. StoredCovered' /\ JobRowReflectsPersisted'
  BY DEF DurableInv, StoredCovered, Covers, Accounted, Settled, JobRowReflectsPersisted,
         FailJob, EndJob, durableVars
<1>2. JobCovered'
  BY DEF DurableInv, JobCovered, Covers, Accounted, Settled, FailJob, EndJob, durableVars
<1>3. WindowCovered' /\ NothingPending' /\ FetchFresh'
  BY DEF WindowCovered, NothingPending, FetchFresh, FailJob, EndJob
<1> QED BY <1>1, <1>2, <1>3 DEF DurableInv

\* A checkpoint that is loaded claims no more than when it was saved.
LEMMA StartJobDurable ==
    ASSUME TypeOK, DurableInv, StartJob
    PROVE  DurableInv'
<1> DEFINE j == Order[Len(results) + 1]
<1>1. /\ job' = j /\ mem' = MarkStarted(ApplyDecision(mode, stored[j]))
      /\ reported' = {} /\ pos' = 0 /\ pc' = "fetch"
      /\ session = "ok" /\ pending' = {}
      /\ db' = db /\ rejected' = rejected /\ dropped' = dropped /\ stored' = stored /\ jobRow' = jobRow
      /\ session' = session
  BY DEF StartJob, durableVars, DurableInv, NothingPending
<1>2. j \in Jobs /\ stored[j] \in SyncState
  BY OrderJobs DEF StartJob, TypeOK
<1>3. mem'.offset = stored[j].offset /\ mem'.status = "IN_PROGRESS"
  BY <1>1, <1>2 DEF MarkStarted, ApplyDecision, StartOffset, SyncState
<1>4. StoredCovered' /\ JobRowReflectsPersisted'
  BY <1>1 DEF DurableInv, StoredCovered, Covers, Accounted, Settled, JobRowReflectsPersisted
<1>5. ASSUME j \in Faithful PROVE 1..stored[j].offset \subseteq db[j] \cup rejected[j] \cup dropped[j]
  BY <1>5 DEF DurableInv, StoredCovered, Covers, Accounted, Settled
<1>6. JobCovered'
  <2> HIDE DEF j
  <2> QED BY <1>1, <1>3, <1>5 DEF JobCovered, Covers, Accounted, Settled
<1>7. WindowCovered' /\ NothingPending' /\ FetchFresh'
  BY <1>1, <1>3 DEF WindowCovered, NothingPending, FetchFresh
<1> QED BY <1>4, <1>6, <1>7 DEF DurableInv

\* The pages a fetch skips lie behind the offset of its checkpoint.
LEMMA FetchSucceedsDurable ==
    ASSUME TypeOK, DurableInv, FetchSucceeds
    PROVE  DurableInv'
<1>1. StoredCovered' /\ JobRowReflectsPersisted'
  BY DEF DurableInv, StoredCovered, Covers, Accounted, Settled, JobRowReflectsPersisted,
         FetchSucceeds, durableVars
<1>2. JobCovered'
  BY DEF DurableInv, JobCovered, Covers, Accounted, Settled, FetchSucceeds, durableVars
<1>3. WindowCovered'
  <2>1. session' = "ok" /\ job' = job /\ pending' = pending
    BY DEF FetchSucceeds, DurableInv, FetchFresh
  <2>2. db' = db /\ rejected' = rejected /\ dropped' = dropped
    BY DEF FetchSucceeds, durableVars
  <2>3. ASSUME job \in Faithful
        PROVE  1..(start' + pos') \subseteq Accounted(job) \cup pending
    <3> DEFINE first == FetchStart(job, mem.offset)
    <3>1. mem.offset \in Nat
      BY DEF TypeOK, SyncState
    <3>2. first \in Nat /\ first <= mem.offset
      BY <2>3, <3>1, FetchStartBehindOffset, FetchStartNat, FaithfulJobs
    <3>3. 1..mem.offset \subseteq Accounted(job) \cup pending
      BY <2>3 DEF DurableInv, JobCovered, Covers, FetchFresh, FetchSucceeds
    <3>4. start' = first /\ pos' = 0
      BY DEF FetchSucceeds, DurableInv, FetchFresh
    <3> HIDE DEF first
    <3>5. start' + pos' = first
      BY <3>2, <3>4
    <3>6. 1..first \subseteq 1..mem.offset
      BY <3>1, <3>2
    <3> QED BY <3>3, <3>5, <3>6
  <2> QED BY <2>1, <2>2, <2>3 DEF WindowCovered, Accounted, Settled
<1>4. NothingPending' /\ FetchFresh'
  BY DEF NothingPending, FetchFresh, FetchSucceeds
<1> QED BY <1>1, <1>2, <1>3, <1>4 DEF DurableInv

\* Every item of a batch is pending or counted as an error.
LEMMA UpsertBatchDurable ==
    ASSUME TypeOK, DurableInv, UpsertBatch
    PROVE  DurableInv'
<1>1. PICK refused \in SUBSET (Batch \cap Rejectable[job]) :
           /\ pending' = pending \cup (Batch \ refused)
           /\ rejected' = [rejected EXCEPT ![job] = @ \cup refused]
           /\ AdvanceCheckpoint(Batch \ refused)
  BY DEF UpsertBatch
<1>2. /\ pc = "batch" /\ pc' = "batch" /\ job' = job /\ start' = start
      /\ session' = session /\ db' = db /\ dropped' = dropped /\ stored' = stored
      /\ jobRow' = jobRow /\ job \in Jobs
  BY DEF UpsertBatch, TypeOK
<1>3. /\ BatchEnd \in Nat /\ BatchEnd <= Total[job] /\ start + pos < BatchEnd
      /\ BatchEnd - start \in Nat
  BY BatchBounds DEF UpsertBatch
<1>4. Accounted(job)' = Accounted(job) \cup refused
  BY <1>1, <1>2 DEF Accounted, Settled, TypeOK
<1>5. \A j \in Jobs : Accounted(j) \subseteq Accounted(j)'
  BY <1>1, <1>2 DEF Accounted, Settled, TypeOK
<1>6. StoredCovered'
  BY <1>2, <1>5, FaithfulJobs DEF DurableInv, StoredCovered, Covers
<1>7. JobRowReflectsPersisted'
  BY <1>2 DEF DurableInv, JobRowReflectsPersisted
<1>8. /\ pos' = BatchEnd - start /\ mem'.offset = BatchEnd - start
      /\ mem'.status = mem.status /\ reported' = reported \cup (Batch \ refused)
  BY <1>1 DEF AdvanceCheckpoint, UpdateProgress, TypeOK, SyncState
<1>9. ASSUME job \in Faithful
      PROVE  1..BatchEnd \subseteq Accounted(job)' \cup pending'
  <2>1. 1..(start + pos) \subseteq Accounted(job) \cup pending
    BY <1>2, <1>9 DEF UpsertBatch, DurableInv, WindowCovered
  <2>2. Batch \subseteq refused \cup (Batch \ refused)
    OBVIOUS
  <2>3. 1..BatchEnd \subseteq 1..(start + pos) \cup Batch
    BY <1>3 DEF Batch, TypeOK
  <2> QED BY <1>1, <1>4, <2>1, <2>2, <2>3
<1>10. session = "ok"
  BY DEF UpsertBatch
<1>11. JobCovered'
  <2>1. reported' \subseteq db[job] \cup dropped[job] \cup pending'
    BY <1>1, <1>2, <1>8, <1>10 DEF DurableInv, JobCovered
  <2>2. ASSUME job \in Faithful PROVE Covers(mem', job, Accounted(job)' \cup pending')
    <3>1. 1..mem'.offset \subseteq 1..BatchEnd
      BY <1>3, <1>8 DEF TypeOK
    <3>2. Accounted(job) \cup pending \subseteq Accounted(job)' \cup pending'
      BY <1>1, <1>4
    <3>3. mem.status = "COMPLETED" => Items(job) \subseteq Accounted(job) \cup pending
      BY <1>2, <1>10, <2>2 DEF DurableInv, JobCovered, Covers
    <3> QED BY <1>8, <1>9, <2>2, <3>1, <3>2, <3>3 DEF Covers
  <2>3. Covers(mem, job, Accounted(job) \cup pending)' <=> Covers(mem', job, Accounted(job)' \cup pending')
    BY <1>2 DEF Covers, Accounted, Settled
  <2> QED BY <1>2, <2>1, <2>2, <2>3 DEF JobCovered
<1>12. WindowCovered'
  <2>1. start' + pos' = BatchEnd
    BY <1>2, <1>3, <1>8 DEF TypeOK
  <2> QED BY <1>2, <1>4, <1>9, <1>10, <2>1 DEF WindowCovered, Accounted, Settled
<1>13. NothingPending' /\ FetchFresh'
  BY <1>2 DEF NothingPending, FetchFresh
<1> QED BY <1>6, <1>7, <1>11, <1>12, <1>13 DEF DurableInv

\* A conflict moves items about: what was counted is committed, pending, an
\* error, or dropped.
LEMMA ConflictAccounts ==
    ASSUME TypeOK, NEW written \in SUBSET Batch, NEW theirs \in SUBSET Batch,
           NEW errors \in SUBSET Batch, NEW conflicts,
           AfterConflict(written, theirs, errors, conflicts)
    PROVE  /\ \A j \in Jobs : /\ Accounted(j) \subseteq Accounted(j)'
                              /\ db[j] \cup dropped[j] \subseteq db'[j] \cup dropped'[j]
           /\ db[job] \cup dropped[job] \cup pending \cup written
                  \subseteq db'[job] \cup dropped'[job] \cup pending'
           /\ errors \subseteq rejected'[job]
           /\ rejected[job] \subseteq rejected'[job]
<1>1. /\ db' = [db EXCEPT ![job] = @ \cup theirs]
      /\ dropped' = [dropped EXCEPT ![job] =
                       (@ \cup ((pending \cup written) \ pending')) \ db'[job]]
      /\ rejected' = [rejected EXCEPT ![job] = @ \cup errors]
      /\ job \in Jobs
  BY DEF AfterConflict, TypeOK
<1>2. /\ db'[job] = db[job] \cup theirs
      /\ dropped'[job] = (dropped[job] \cup ((pending \cup written) \ pending')) \ db'[job]
      /\ rejected'[job] = rejected[job] \cup errors
  BY <1>1 DEF TypeOK
<1>3. \A j \in Jobs \ {job} :
          db'[j] = db[j] /\ dropped'[j] = dropped[j] /\ rejected'[j] = rejected[j]
  BY <1>1 DEF TypeOK
<1>4. \A j \in Jobs : /\ db[j] \cup dropped[j] \subseteq db'[j] \cup dropped'[j]
                      /\ rejected[j] \subseteq rejected'[j]
  <2> SUFFICES ASSUME NEW j \in Jobs
               PROVE  /\ db[j] \cup dropped[j] \subseteq db'[j] \cup dropped'[j]
                      /\ rejected[j] \subseteq rejected'[j]
    OBVIOUS
  <2>1. CASE j = job
    BY <1>2, <2>1
  <2>2. CASE j # job
    BY <1>3, <2>2
  <2> QED BY <2>1, <2>2
<1>5. \A j \in Jobs : Accounted(j) \subseteq Accounted(j)'
  BY <1>4 DEF Accounted, Settled
<1>6. db[job] \cup dropped[job] \cup pending \cup written
          \subseteq db'[job] \cup dropped'[job] \cup pending'
  BY <1>2
<1> QED BY <1>2, <1>4, <1>5, <1>6

\* A conflict loses rows, but none that is not on record as dropped.
LEMMA UpsertConflictsDurable ==
    ASSUME TypeOK, DurableInv, UpsertConflicts
    PROVE  DurableInv'
<1>1. PICK written \in SUBSET Batch, theirs \in SUBSET Batch, errors \in SUBSET Batch,
           conflicts \in SUBSET Batch :
               /\ AfterConflict(written, theirs, errors, conflicts)
               /\ Batch \subseteq written \cup errors
  BY ConflictEffect
<1>2. /\ pc = "batch" /\ pc' = "batch" /\ job' = job /\ start' = start
      /\ session = "ok" /\ session' = session /\ stored' = stored /\ jobRow' = jobRow
      /\ job \in Jobs
  BY DEF UpsertConflicts, TypeOK
<1>3. /\ BatchEnd \in Nat /\ start + pos < BatchEnd /\ BatchEnd - start \in Nat
  BY BatchBounds DEF UpsertConflicts
<1>4. /\ \A j \in Jobs : /\ Accounted(j) \subseteq Accounted(j)'
                         /\ db[j] \cup dropped[j] \subseteq db'[j] \cup dropped'[j]
      /\ db[job] \cup dropped[job] \cup pending \cup written
             \subseteq db'[job] \cup dropped'[job] \cup pending'
      /\ errors \subseteq rejected'[job]
      /\ rejected[job] \subseteq rejected'[job]
  BY <1>1, ConflictAccounts
<1>5. Accounted(job) \cup pending \cup Batch
          \subseteq db'[job] \cup rejected'[job] \cup dropped'[job] \cup pending'
  BY <1>1, <1>4 DEF Accounted, Settled
<1>6. StoredCovered'
  BY <1>2, <1>4, FaithfulJobs DEF DurableInv, StoredCovered, Covers
<1>7. JobRowReflectsPersisted'
  BY <1>2, <1>4 DEF DurableInv, JobRowReflectsPersisted
<1>8. /\ pos' = BatchEnd - start /\ mem'.offset = BatchEnd - start
      /\ mem'.status = mem.status /\ reported' = reported \cup written
  BY <1>1 DEF AfterConflict, AdvanceCheckpoint, UpdateProgress, TypeOK, SyncState
<1>9. ASSUME job \in Faithful
      PROVE  1..BatchEnd \subseteq db'[job] \cup rejected'[job] \cup dropped'[job] \cup pending'
  <2>1. 1..(start + pos) \subseteq Accounted(job) \cup pending
    BY <1>2, <1>9 DEF DurableInv, WindowCovered
  <2>2. 1..BatchEnd \subseteq 1..(start + pos) \cup Batch
    BY <1>3 DEF Batch, TypeOK
  <2> QED BY <1>5, <2>1, <2>2
<1>10. JobCovered'
  <2>1. reported' \subseteq db'[job] \cup dropped'[job] \cup pending'
    BY <1>2, <1>4, <1>8 DEF DurableInv, JobCovered
  <2>2. ASSUME job \in Faithful
        PROVE  Covers(mem', job, db'[job] \cup rejected'[job] \cup dropped'[job] \cup pending')
    <3>1. 1..mem'.offset \subseteq 1..BatchEnd
      BY <1>3, <1>8 DEF TypeOK
    <3>2. mem.status = "COMPLETED" => Items(job) \subseteq Accounted(job) \cup pending
      BY <1>2, <2>2 DEF DurableInv, JobCovered, Covers
    <3> QED BY <1>5, <1>8, <1>9, <2>2, <3>1, <3>2 DEF Covers
  <2> QED BY <1>2, <2>1, <2>2 DEF JobCovered, Covers, Accounted, Settled
<1>11. WindowCovered'
  <2>1. start' + pos' = BatchEnd
    BY <1>2, <1>3, <1>8 DEF TypeOK
  <2> QED BY <1>2, <1>9, <2>1 DEF WindowCovered, Accounted, Settled
<1>12. NothingPending' /\ FetchFresh'
  BY <1>2 DEF NothingPending, FetchFresh
<1> QED BY <1>6, <1>7, <1>10, <1>11, <1>12 DEF DurableInv

\* A job is complete when the listing is used up.
LEMMA FinishJobDurable ==
    ASSUME TypeOK, DurableInv, FinishJob
    PROVE  DurableInv'
<1>1. /\ pc = "batch" /\ pc' = "record" /\ job' = job /\ mem' = MarkCompleted(mem)
      /\ session' = session /\ pending' = pending /\ reported' = reported
      /\ db' = db /\ rejected' = rejected /\ dropped' = dropped /\ stored' = stored /\ jobRow' = jobRow
  BY DEF FinishJob, EndJob, durableVars
<1>2. StoredCovered' /\ JobRowReflectsPersisted'
  BY <1>1 DEF DurableInv, StoredCovered, Covers, Accounted, Settled, JobRowReflectsPersisted
<1>3. ASSUME job \in Faithful, session = "ok"
      PROVE  Items(job) \subseteq Accounted(job) \cup pending
  <2>1. Total[job] \in Nat /\ Total[job] <= start + pos
    BY <1>3, FaithfulJobs DEF FinishJob, MoreBatches, TypeOK
  <2>2. 1..(start + pos) \subseteq Accounted(job) \cup pending
    BY <1>1, <1>3 DEF DurableInv, WindowCovered
  <2> QED BY <2>1, <2>2 DEF Items, TypeOK
<1>4. mem'.offset = 0
  BY <1>1 DEF MarkCompleted
<1>5. session = "ok" => reported \subseteq db[job] \cup dropped[job] \cup pending
  BY <1>1 DEF DurableInv, JobCovered
<1>6. JobCovered'
  BY <1>1, <1>3, <1>4, <1>5 DEF JobCovered, Covers, Accounted, Settled
<1>7. WindowCovered' /\ NothingPending' /\ FetchFresh'
  BY <1>1 DEF WindowCovered, NothingPending, FetchFresh
<1> QED BY <1>2, <1>6, <1>7 DEF DurableInv

\* One commit makes the rows and the record that counts them durable.
LEMMA RecordJobDurable ==
    ASSUME TypeOK, DurableInv, RecordJob
    PROVE  DurableInv'
<1>1. /\ pc = "record" /\ pc' = "save" /\ job' = job /\ mem' = mem
      /\ session = "ok" /\ session' = "ok" /\ pending' = {} /\ reported' = reported
      /\ db' = [db EXCEPT ![job] = @ \cup pending]
      /\ dropped' = [dropped EXCEPT ![job] = @ \ pending]
      /\ rejected' = rejected /\ stored' = stored /\ job \in Jobs
      /\ jobRow' = [jobRow EXCEPT ![job] = [status |-> JobStatus, saved |-> reported]]
  BY DEF RecordJob, jobVars, TypeOK
<1>2. db'[job] \cup dropped'[job] = db[job] \cup dropped[job] \cup pending
  BY <1>1 DEF TypeOK
<1>3. \A j \in Jobs : db[j] \cup dropped[j] \subseteq db'[j] \cup dropped'[j]
  BY <1>1 DEF TypeOK
<1>4. \A j \in Jobs : Accounted(j) \subseteq Accounted(j)'
  BY <1>1, <1>3 DEF Accounted, Settled
<1>5. StoredCovered'
  BY <1>1, <1>4, FaithfulJobs DEF DurableInv, StoredCovered, Covers
<1>6. reported \subseteq db'[job] \cup dropped'[job]
  BY <1>1, <1>2 DEF DurableInv, JobCovered
<1>7. JobRowReflectsPersisted'
  <2> SUFFICES ASSUME NEW j \in Jobs PROVE jobRow'[j].saved \subseteq db'[j] \cup dropped'[j]
    BY DEF JobRowReflectsPersisted
  <2>1. CASE j = job
    BY <1>1, <1>6, <2>1 DEF TypeOK
  <2>2. CASE j # job
    <3>1. jobRow'[j] = jobRow[j]
      BY <1>1, <2>2 DEF TypeOK
    <3> QED BY <1>3, <3>1 DEF DurableInv, JobRowReflectsPersisted
  <2> QED BY <2>1, <2>2
<1>8. db'[job] \cup rejected'[job] \cup dropped'[job] = Accounted(job) \cup pending
  BY <1>1, <1>2 DEF Accounted, Settled
<1>9. job \in Faithful => Covers(mem, job, Accounted(job) \cup pending)
  BY <1>1 DEF DurableInv, JobCovered
<1>10. JobCovered'
  BY <1>1, <1>6, <1>8, <1>9 DEF JobCovered, Covers, Accounted, Settled
<1>11. WindowCovered' /\ NothingPending' /\ FetchFresh'
  BY <1>1 DEF WindowCovered, NothingPending, FetchFresh
<1> QED BY <1>5, <1>7, <1>10, <1>11 DEF DurableInv

\* A checkpoint is saved only after the rows it accounts for were committed:
\* the session refuses to save it otherwise.
LEMMA SaveStateDurable ==
    ASSUME TypeOK, DurableInv, SaveState
    PROVE  DurableInv'
<1>1. /\ pc = "save" /\ pc' \in {"next", "end"} /\ session = "ok"
      /\ pending = {} /\ pending' = {} /\ job \in Jobs
      /\ stored' = [stored EXCEPT ![job] = mem]
      /\ db' = db /\ rejected' = rejected /\ dropped' = dropped /\ jobRow' = jobRow
  BY DEF SaveState, DurableInv, NothingPending, TypeOK
<1>2. job \in Faithful => Covers(mem, job, Accounted(job))
  BY <1>1 DEF DurableInv, JobCovered
<1>3. \A j \in Faithful : Covers(stored'[j], j, Accounted(j))
  <2> SUFFICES ASSUME NEW j \in Faithful PROVE Covers(stored'[j], j, Accounted(j))
    OBVIOUS
  <2>1. CASE j = job
    BY <1>1, <1>2, <2>1 DEF TypeOK
  <2>2. CASE j # job
    <3>1. stored'[j] = stored[j]
      BY <1>1, <2>2, FaithfulJobs DEF TypeOK
    <3> QED BY <3>1 DEF DurableInv, StoredCovered
  <2> QED BY <2>1, <2>2
<1>4. StoredCovered'
  BY <1>1, <1>3 DEF StoredCovered, Covers, Accounted, Settled
<1>5. JobRowReflectsPersisted'
  BY <1>1 DEF DurableInv, JobRowReflectsPersisted
<1>6. JobCovered' /\ WindowCovered' /\ NothingPending' /\ FetchFresh'
  BY <1>1 DEF JobCovered, WindowCovered, NothingPending, FetchFresh
<1> QED BY <1>4, <1>5, <1>6 DEF DurableInv

\* Every step keeps the claims durable.
LEMMA DurableStep == TypeOK /\ DurableInv /\ [Next]_vars => DurableInv'
<1> SUFFICES ASSUME TypeOK, DurableInv, [Next]_vars PROVE DurableInv'
  OBVIOUS
<1>1. CASE Begins \/ \E m \in Modes : StartRunUnrecorded(m)
  BY <1>1, OutsideJobs DEF Begins, StartRun, StartRunUnrecorded, BeginRun, DurableInv,
                           NothingPending
<1>2. CASE RequestCancel
  BY <1>2 DEF RequestCancel, jobVars, durableVars, DurableInv, StoredCovered,
              JobRowReflectsPersisted, JobCovered, WindowCovered, NothingPending,
              FetchFresh, Covers, Accounted, Settled
<1>3. CASE StartJob
  BY <1>3, StartJobDurable
<1>4. CASE AbandonRun \/ FinishLoop
  BY <1>4, OutsideJobs DEF AbandonRun, GiveUp, FinishLoop, durableVars, DurableInv,
                           NothingPending
<1>5. CASE BreakerRejects
  <2>1. mem.status # "COMPLETED"
    BY <1>5 DEF BreakerRejects, DurableInv, FetchFresh
  <2> QED BY <1>5, <2>1, JobFails DEF BreakerRejects
<1>6. CASE FetchSucceeds
  BY <1>6, FetchSucceedsDurable
<1>7. CASE FetchFails \/ UpsertFails \/ CancelBetweenBatches
  <2>1. MarkFailed(mem).offset = mem.offset /\ MarkFailed(mem).status = "FAILED"
    BY DEF MarkFailed, TypeOK, SyncState
  <2> QED BY <1>7, <2>1, JobFails DEF FetchFails, UpsertFails, CancelBetweenBatches
<1>8. CASE UpsertBatch
  BY <1>8, UpsertBatchDurable
<1>9. CASE UpsertConflicts
  BY <1>9, UpsertConflictsDurable
<1>10. CASE FinishJob
  BY <1>10, FinishJobDurable
<1>11. CASE RecordJob
  BY <1>11, RecordJobDurable
<1>12. CASE RecordJobFails
  BY <1>12, OutsideJobs DEF RecordJobFails, durableVars
<1>13. CASE SaveState
  BY <1>13, SaveStateDurable
<1>14. CASE SaveStateFails
  BY <1>14, OutsideJobs DEF SaveStateFails, GiveUp, durableVars, DurableInv, NothingPending
<1>15. CASE RecordRunEnd \/ RecordRunEndFails
  BY <1>15, OutsideJobs DEF RecordRunEnd, RecordRunEndFails, durableVars, DurableInv,
                            NothingPending
<1>16. CASE ReturnResult \/ Crash
  BY <1>16, OutsideJobs DEF ReturnResult, Crash, durableVars, DurableInv, NothingPending
<1>17. CASE UpsertSwallowsError
  BY <1>17 DEF UpsertSwallowsError, durableVars, DurableInv, StoredCovered,
               JobRowReflectsPersisted, JobCovered, WindowCovered, NothingPending,
               FetchFresh, Covers, Accounted, Settled
<1>18. CASE UNCHANGED vars
  BY <1>18 DEF vars, jobVars, durableVars, DurableInv, StoredCovered,
               JobRowReflectsPersisted, JobCovered, WindowCovered, NothingPending,
               FetchFresh, Covers, Accounted, Settled
<1> QED
  BY <1>1, <1>2, <1>3, <1>4, <1>5, <1>6, <1>7, <1>8, <1>9, <1>10, <1>11, <1>12,
     <1>13, <1>14, <1>15, <1>16, <1>17, <1>18
  DEF Next, Begins, Proceeds, Disturbs

\* DurableInv is an invariant.
LEMMA Durable == Spec => [](TypeOK /\ DurableInv)
<1>1. Init => TypeOK /\ JobEnded /\ DurableInv
  BY InitTypeOK, InitDurable DEF Init, JobEnded
<1>2. TypeOK /\ JobEnded /\ DurableInv /\ [Next]_vars
      => (TypeOK /\ JobEnded /\ DurableInv)'
  BY TypeOKStep, JobEndedStep, DurableStep
<1> QED BY <1>1, <1>2, PTL DEF Spec

\* A resumed run skips no row that never reached the database, unless a
\* conflict's rollback dropped it, however many faults, conflicts,
\* cancellations, crashes and commits of other processes preceded it, for every
\* listing, batch and page size (pipeline.py:72).
THEOREM CheckpointsStayBehindData == Spec => []CheckpointBehindData
<1>1. TypeOK /\ DurableInv => CheckpointBehindData
  <2> SUFFICES ASSUME TypeOK, DurableInv, NEW j \in Faithful
               PROVE  1..FetchStart(j, stored[j].offset) \subseteq Accounted(j)
    BY DEF CheckpointBehindData
  <2>1. stored[j].offset \in Nat
    BY FaithfulJobs DEF TypeOK, SyncState
  <2>2. /\ FetchStart(j, stored[j].offset) \in Nat
        /\ FetchStart(j, stored[j].offset) <= stored[j].offset
    BY <2>1, FetchStartNat, FetchStartBehindOffset, FaithfulJobs
  <2>3. 1..stored[j].offset \subseteq Accounted(j)
    BY DEF DurableInv, StoredCovered, Covers
  <2>4. 1..FetchStart(j, stored[j].offset) \subseteq 1..stored[j].offset
    BY <2>1, <2>2
  <2> QED BY <2>3, <2>4
<1> QED BY <1>1, Durable, PTL

\* A COMPLETED checkpoint means the whole listing is settled or on record as
\* dropped by a conflict, also when the run that completed it fetched only the
\* tail (state.py:99-104).
THEOREM CompletedLeavesNoGap == Spec => []NoGapWhenCompleted
<1>1. DurableInv => NoGapWhenCompleted
  BY DEF DurableInv, StoredCovered, Covers, NoGapWhenCompleted
<1> QED BY <1>1, Durable, PTL

\* The sync_jobs rows of a run count only rows that are committed or that a
\* conflict's rollback dropped (engine.py:269-291).
THEOREM JobRowsReflectPersisted == Spec => []JobRowReflectsPersisted
<1>1. DurableInv => JobRowReflectsPersisted
  BY DEF DurableInv
<1> QED BY <1>1, Durable, PTL

\* What it takes for the records to be exact: no other process inserts the same
\* rows and no row is a duplicate or misses a reference.
LEMMA NothingDropped ==
    ASSUME ~SharedDatabase, \A j \in Jobs : Conflicting[j] = {}
    PROVE  Spec => [](\A j \in Jobs : dropped[j] = {})
<1> DEFINE Kept == \A j \in Jobs : dropped[j] = {}
<1>1. Init => TypeOK /\ Kept
  BY InitTypeOK DEF Init
<1>2. TypeOK /\ Kept /\ [Next]_vars => Kept'
  <2> SUFFICES ASSUME TypeOK, Kept, [Next]_vars PROVE Kept'
    OBVIOUS
  <2>1. ~UpsertConflicts
    BY DEF UpsertConflicts, TypeOK
  <2>2. CASE RecordJob
    BY <2>2 DEF RecordJob, TypeOK
  <2>3. CASE ~RecordJob
    <3>1. dropped' = dropped
      BY <2>1, <2>3
      DEF vars, Next, Begins, Proceeds, Disturbs, StartRun, StartRunUnrecorded, BeginRun,
          StartJob, AbandonRun, FinishLoop, FetchSucceeds, UpsertBatch, UpsertFails,
          CancelBetweenBatches, FinishJob, FailJob, EndJob, RecordJobFails,
          SaveState, SaveStateFails, RecordRunEnd, RecordRunEndFails, RequestCancel,
          BreakerRejects, FetchFails, UpsertSwallowsError, ReturnResult, Crash, durableVars
    <3> QED BY <3>1
  <2> QED BY <2>2, <2>3
<1>3. Spec => []TypeOK
  BY TypeCorrect
<1> QED BY <1>1, <1>2, <1>3, PTL DEF Spec

\* Without conflicts the records are what engine.py:272-273 promises: every row
\* they count is committed, whatever else fails.
THEOREM ConflictFreeRecordsPersist ==
    ASSUME ~SharedDatabase, \A j \in Jobs : Conflicting[j] = {}
    PROVE  Spec => []RecordsArePersisted
<1>1. JobRowReflectsPersisted /\ (\A j \in Jobs : dropped[j] = {}) => RecordsArePersisted
  BY DEF JobRowReflectsPersisted, RecordsArePersisted
<1> QED BY <1>1, JobRowsReflectPersisted, NothingDropped, PTL

------------------------------------------------------------------------------
\* The abstract run, and what a completed run says

\* The status of job i of the plan ended the run.
Breaks(i) == results[i] = "FAILED" /\ Order[i] \in Critical

\* Where the loop stands says how many jobs have ended, and that none of them
\* should have ended the plan; after the loop the verdict is settled.
LoopInv ==
    /\ pc \in {"next", "fetch", "batch"} => ~Run!Aborted
    /\ pc = "next" => Len(results) <= Len(Order)
    /\ pc \in {"fetch", "batch"} => /\ Len(results) < Len(Order)
                                    /\ job = Order[Len(results) + 1]
    /\ pc \in {"record", "save"} => /\ Len(results) \in 1..Len(Order)
                                    /\ job = Order[Len(results)]
                                    /\ \A i \in 1..(Len(results) - 1) : ~Breaks(i)
    /\ pc \in {"end", "after"} => overall \in Run!Verdicts

RunInv == TypeOK /\ JobEnded /\ LoopInv

\* The results seen as a sequence.
LEMMA ResultsSeq ==
    ASSUME TypeOK
    PROVE  /\ Len(results) \in Nat
           /\ DOMAIN results = 1..Len(results)
           /\ \A i \in 1..Len(results) : results[i] \in {"COMPLETED", "FAILED"}
BY DEF TypeOK

LEMMA AppendResults ==
    ASSUME TypeOK, NEW status \in {"COMPLETED", "FAILED"},
           results' = Append(results, status)
    PROVE  /\ Len(results') = Len(results) + 1
           /\ \A i \in 1..Len(results) : results'[i] = results[i]
           /\ results'[Len(results')] = status
BY AppendProperties DEF TypeOK

LEMMA LastIndex ==
    ASSUME NEW n \in Nat, NEW i \in 1..n
    PROVE  i = n \/ i \in 1..(n - 1)
OBVIOUS

LEMMA AbortedBreaks == Run!Aborted <=> \E i \in DOMAIN results : Breaks(i)
BY DEF Run!Aborted, Run!Failed, Breaks

LEMMA InitLoop == Init => LoopInv
BY DEF Init, LoopInv

\* A step that leaves the results alone keeps whether the run is aborted.
LEMMA SameResults ==
    ASSUME results' = results
    PROVE  Run!Aborted' = Run!Aborted /\ Run!Verdicts' = Run!Verdicts
BY DEF Run!Aborted, Run!Failed, Run!Verdicts

\* The end of a job, from either place in the pipeline.
LEMMA JobEndsLoop ==
    ASSUME RunInv, pc \in {"fetch", "batch"},
           NEW status \in {"COMPLETED", "FAILED"}, NEW s, EndJob(status, s)
    PROVE  LoopInv' /\ Run!JobEnds(status)
<1>1. /\ results' = Append(results, status)
      /\ pc' = "record" /\ job' = job /\ overall' = overall
  BY DEF EndJob
<1>2. /\ ~Run!Aborted
      /\ Len(results) < Len(Order) /\ job = Order[Len(results) + 1]
  BY DEF RunInv, LoopInv
<1>3. Run!JobEnds(status)
  BY <1>1, <1>2 DEF Run!JobEnds
<1>4. Len(results) \in Nat /\ DOMAIN results = 1..Len(results) /\ Len(Order) \in Nat
  BY ResultsSeq, OrderJobs DEF RunInv
<1>5. /\ Len(results') = Len(results) + 1
      /\ \A i \in 1..Len(results) : results'[i] = results[i]
  BY <1>1, AppendResults DEF RunInv
<1>6. Len(results') \in 1..Len(Order) /\ job' = Order[Len(results')]
  BY <1>1, <1>2, <1>4, <1>5
<1>7. \A i \in 1..(Len(results') - 1) : ~Breaks(i)'
  <2>1. \A i \in 1..Len(results) : ~Breaks(i)
    BY <1>2, <1>4, AbortedBreaks
  <2>2. Len(results') - 1 = Len(results)
    BY <1>4, <1>5
  <2> QED BY <1>5, <2>1, <2>2 DEF Breaks
<1>8. LoopInv'
  BY <1>1, <1>6, <1>7 DEF LoopInv
<1> QED BY <1>3, <1>8

\* Everything a finished loop may return is a verdict.
LEMMA FinishLoopVerdict ==
    ASSUME RunInv, FinishLoop
    PROVE  overall' \in Run!Verdicts'
<1>1. /\ ~Run!Aborted /\ Len(results) = Len(Order) /\ results' = results
      /\ overall' = IF \E i \in DOMAIN results : results[i] = "FAILED"
                    THEN "PARTIAL" ELSE "COMPLETED"
  BY DEF RunInv, LoopInv, FinishLoop
<1>2. overall' \in Run!Verdicts
  BY <1>1 DEF Run!Verdicts, Run!Failed
<1> QED BY <1>1, <1>2, SameResults

\* The checkpoint was saved: a failed critical job ends the plan, otherwise no
\* result ends it.
LEMMA SaveStateLoop ==
    ASSUME RunInv, SaveState
    PROVE  LoopInv'
<1>1. /\ results' = results /\ pc = "save"
      /\ Len(results) \in 1..Len(Order) /\ job = Order[Len(results)]
      /\ \A i \in 1..(Len(results) - 1) : ~Breaks(i)
      /\ DOMAIN results = 1..Len(results) /\ Len(results) \in Nat
      /\ Len(Order) \in Nat
  BY ResultsSeq, OrderJobs DEF SaveState, RunInv, LoopInv
<1>2. CASE JobStatus = "FAILED" /\ job \in Critical
  <2>1. pc' = "end" /\ overall' = "FAILED"
    BY <1>2 DEF SaveState
  <2>2. Breaks(Len(results)) /\ Len(results) \in DOMAIN results
    BY <1>1, <1>2 DEF Breaks, JobStatus
  <2>3. Run!Aborted
    BY <2>2, AbortedBreaks
  <2>4. overall' \in Run!Verdicts'
    BY <1>1, <2>1, <2>3, SameResults DEF Run!Verdicts
  <2> QED BY <2>1, <2>4 DEF LoopInv
<1>3. CASE ~(JobStatus = "FAILED" /\ job \in Critical)
  <2>1. pc' = "next"
    BY <1>3 DEF SaveState
  <2>2. ~Breaks(Len(results))
    BY <1>1, <1>3 DEF Breaks, JobStatus
  <2>3. \A i \in 1..Len(results) : i = Len(results) \/ i \in 1..(Len(results) - 1)
    BY <1>1, LastIndex
  <2>4. ~Run!Aborted
    BY <1>1, <2>2, <2>3, AbortedBreaks
  <2>5. ~Run!Aborted' /\ Len(results') <= Len(Order)
    BY <1>1, <2>4, SameResults
  <2> QED BY <2>1, <2>5 DEF LoopInv
<1> QED BY <1>2, <1>3

\* CANCELLED is always among the verdicts.
LEMMA CancelledVerdict == "CANCELLED" \in Run!Verdicts'
BY DEF Run!Verdicts

LEMMA BeginLoop ==
    ASSUME NEW m, BeginRun(m)
    PROVE  LoopInv' /\ Run!Begin
<1>1. pc = "idle" /\ pc' = "next" /\ results' = <<>>
  BY DEF BeginRun
<1>2. ~Run!Aborted' /\ Len(results') <= Len(Order)
  BY <1>1, OrderJobs DEF Run!Aborted, Run!Failed
<1> QED BY <1>1, <1>2 DEF LoopInv, Run!Begin

\* A step inside a run that changes no result is a stutter of the abstract run.
LEMMA Stutters ==
    ASSUME results' = results, pc # "idle", pc' # "idle"
    PROVE  UNCHANGED Run!runVars
BY DEF Run!runVars

\* Every step keeps LoopInv and is a step or a stutter of the abstract run.
LEMMA RunStep == RunInv /\ [Next]_vars => LoopInv' /\ [Run!RunNext]_(Run!runVars)
<1> SUFFICES ASSUME RunInv, [Next]_vars
             PROVE  LoopInv' /\ [Run!RunNext]_(Run!runVars)
  OBVIOUS
<1>1. CASE Begins \/ \E m \in Modes : StartRunUnrecorded(m)
  <2>1. PICK m : BeginRun(m)
    BY <1>1 DEF Begins, StartRun, StartRunUnrecorded
  <2> QED BY <2>1, BeginLoop DEF Run!RunNext
<1>2. CASE RequestCancel
  <2>1. /\ pc' = pc /\ results' = results /\ overall' = overall /\ job' = job
        /\ pc # "idle"
    BY <1>2 DEF RequestCancel, jobVars
  <2>2. LoopInv'
    BY <2>1, SameResults DEF RunInv, LoopInv, Breaks
  <2> QED BY <2>1, <2>2, Stutters
<1>3. CASE StartJob
  <2>1. /\ pc = "next" /\ pc' = "fetch" /\ results' = results
        /\ job' = Order[Len(results) + 1] /\ Len(results) < Len(Order)
    BY <1>3 DEF StartJob, runVars
  <2>2. LoopInv'
    BY <2>1, SameResults DEF RunInv, LoopInv
  <2> QED BY <2>1, <2>2, Stutters
<1>4. CASE AbandonRun \/ SaveStateFails
  <2>1. /\ pc # "idle" /\ pc' = "end" /\ results' = results /\ overall' = "CANCELLED"
    BY <1>4 DEF AbandonRun, SaveStateFails, GiveUp
  <2>2. LoopInv'
    BY <2>1, CancelledVerdict DEF LoopInv
  <2> QED BY <2>1, <2>2, Stutters
<1>5. CASE FinishLoop
  <2>1. pc = "next" /\ pc' = "end" /\ results' = results
    BY <1>5 DEF FinishLoop
  <2>2. LoopInv'
    BY <1>5, <2>1, FinishLoopVerdict DEF LoopInv
  <2> QED BY <2>1, <2>2, Stutters
<1>6. CASE BreakerRejects \/ FetchFails \/ UpsertFails \/ CancelBetweenBatches
  <2>1. pc \in {"fetch", "batch"} /\ \E s : EndJob("FAILED", s)
    BY <1>6 DEF BreakerRejects, FetchFails, UpsertFails, CancelBetweenBatches, FailJob
  <2> QED BY <2>1, JobEndsLoop DEF Run!RunNext
<1>7. CASE FinishJob
  <2>1. pc = "batch" /\ EndJob("COMPLETED", MarkCompleted(mem))
    BY <1>7 DEF FinishJob
  <2> QED BY <2>1, JobEndsLoop DEF Run!RunNext
<1>8. CASE FetchSucceeds \/ UpsertBatch \/ UpsertConflicts \/ UpsertSwallowsError
  <2>1. /\ pc \in {"fetch", "batch"} /\ pc' = "batch" /\ results' = results
        /\ job' = job
    BY <1>8 DEF FetchSucceeds, UpsertBatch, UpsertConflicts, UpsertSwallowsError, runVars
  <2>2. LoopInv'
    BY <2>1, SameResults DEF RunInv, LoopInv
  <2> QED BY <2>1, <2>2, Stutters
<1>9. CASE RecordJob \/ RecordJobFails
  <2>1. /\ pc = "record" /\ pc' = "save" /\ results' = results /\ job' = job
    BY <1>9 DEF RecordJob, RecordJobFails, runVars, jobVars
  <2>2. LoopInv'
    BY <2>1 DEF RunInv, LoopInv, Breaks
  <2> QED BY <2>1, <2>2, Stutters
<1>10. CASE SaveState
  <2>1. pc = "save" /\ pc' # "idle" /\ results' = results
    BY <1>10 DEF SaveState
  <2> QED BY <1>10, <2>1, SaveStateLoop, Stutters
<1>11. CASE RecordRunEnd \/ RecordRunEndFails
  <2>1. /\ pc = "end" /\ pc' = "after" /\ results' = results /\ overall' = overall
    BY <1>11 DEF RecordRunEnd, RecordRunEndFails, runVars
  <2>2. LoopInv'
    BY <2>1, SameResults DEF RunInv, LoopInv
  <2> QED BY <2>1, <2>2, Stutters
<1>12. CASE ReturnResult
  <2>1. /\ pc = "after" /\ pc' = "idle" /\ results' = results /\ overall' = overall
        /\ overall \in Run!Verdicts
    BY <1>12 DEF ReturnResult, runVars, RunInv, LoopInv
  <2>2. Run!Return
    BY <2>1 DEF Run!Return
  <2> QED BY <2>1, <2>2 DEF LoopInv, Run!RunNext
<1>13. CASE Crash
  <2>1. pc # "idle" /\ pc' = "idle" /\ results' = <<>> /\ overall' = "NONE"
    BY <1>13 DEF Crash
  <2>2. Run!Die
    BY <2>1 DEF Run!Die
  <2> QED BY <2>1, <2>2 DEF LoopInv, Run!RunNext
<1>14. CASE UNCHANGED vars
  <2>1. pc' = pc /\ results' = results /\ overall' = overall /\ job' = job
    BY <1>14 DEF vars, runVars, jobVars
  <2>2. LoopInv'
    BY <2>1, SameResults DEF RunInv, LoopInv, Breaks
  <2>3. UNCHANGED Run!runVars
    BY <2>1 DEF Run!runVars
  <2> QED BY <2>2, <2>3
<1> QED
  BY <1>1, <1>2, <1>3, <1>4, <1>5, <1>6, <1>7, <1>8, <1>9, <1>10, <1>11, <1>12,
     <1>13, <1>14 DEF Next, Begins, Proceeds, Disturbs

\* The engine implements the abstract run for every plan: jobs end in plan
\* order, each once, nothing follows a failed critical job, and the verdict
\* follows from the results (engine.py:83-235).
THEOREM EngineImplementsRun == Spec => ImplementsRun
<1>1. Init => RunInv /\ Run!RunInit
  BY InitTypeOK, InitLoop DEF Init, RunInv, JobEnded, Run!RunInit
<1>2. RunInv /\ [Next]_vars => RunInv'
  BY TypeOKStep, JobEndedStep, RunStep DEF RunInv
<1>3. RunInv /\ [Next]_vars => [Run!RunNext]_(Run!runVars)
  BY RunStep
<1> QED BY <1>1, <1>2, <1>3, PTL DEF Spec, ImplementsRun, Run!RunSpec

------------------------------------------------------------------------------
\* A returned COMPLETED leaves nothing stale

\* A COMPLETED verdict invalidates the segments of every job of the plan.
LEMMA CompletedBusts ==
    ASSUME RunInv, pc = "after", overall = "COMPLETED"
    PROVE  \A i \in DOMAIN Order : Segments[Order[i]] \subseteq Busted
<1>1. /\ Len(results) = Len(Order)
      /\ \A i \in DOMAIN results : results[i] # "FAILED"
  <2>1. overall \in Run!Verdicts
    BY DEF RunInv, LoopInv
  <2> QED BY <2>1 DEF Run!Verdicts, Run!Failed
<1>2. DOMAIN Order = 1..Len(Order) /\ DOMAIN results = 1..Len(results)
  BY EngineAssumption, ResultsSeq DEF RunInv
<1>3. \A i \in DOMAIN Order : i \in DOMAIN results /\ results[i] = "COMPLETED"
  BY <1>1, <1>2, ResultsSeq DEF RunInv
<1> QED BY <1>3 DEF Busted

LEMMA NoStaleStep ==
    RunInv /\ CompletedRunLeavesNoStaleCache /\ [Next]_vars
    => CompletedRunLeavesNoStaleCache'
<1> SUFFICES ASSUME RunInv, CompletedRunLeavesNoStaleCache, [Next]_vars
             PROVE  CompletedRunLeavesNoStaleCache'
  OBVIOUS
<1> USE DEF CompletedRunLeavesNoStaleCache
<1>1. CASE ReturnResult
  <2>1. stale' = stale \ Busted /\ overall' = overall /\ pc = "after"
    BY <1>1 DEF ReturnResult, runVars
  <2> QED BY <2>1, CompletedBusts
<1>2. CASE Crash
  BY <1>2 DEF Crash
<1>3. CASE UNCHANGED vars
  BY <1>3 DEF vars, runVars, durableVars
<1>4. CASE Next /\ ~ReturnResult /\ ~Crash
  <2>1. pc' # "idle"
    BY <1>4
    DEF Next, Begins, Proceeds, Disturbs, StartRun, StartRunUnrecorded, BeginRun,
        StartJob, AbandonRun, GiveUp, FinishLoop, FetchSucceeds, UpsertBatch, UpsertFails,
        CancelBetweenBatches, FinishJob, FailJob, EndJob, RecordJob, RecordJobFails,
        SaveState, SaveStateFails, RecordRunEnd, RecordRunEndFails, RequestCancel,
        BreakerRejects, FetchFails, UpsertConflicts, UpsertSwallowsError
  <2> QED BY <2>1
<1> QED BY <1>1, <1>2, <1>3, <1>4

\* After a run that returned COMPLETED no cache segment of its jobs misses
\* committed rows (engine.py:76-78), whatever rows earlier failed, cancelled or
\* killed runs left behind, for every plan and however segments overlap.
THEOREM CompletedRunsLeaveNoStaleCache == Spec => []CompletedRunLeavesNoStaleCache
<1>1. Init => RunInv /\ CompletedRunLeavesNoStaleCache
  BY InitTypeOK, InitLoop DEF Init, RunInv, JobEnded, CompletedRunLeavesNoStaleCache
<1>2. RunInv /\ [Next]_vars => RunInv'
  BY TypeOKStep, JobEndedStep, RunStep DEF RunInv
<1> QED BY <1>1, <1>2, NoStaleStep, PTL DEF Spec

------------------------------------------------------------------------------
\* A recorded COMPLETED is true

InLoop == pc \in {"next", "fetch", "batch", "record", "save"}

\* How many jobs of this run have their record, while the session works.
RecordedJobs == IF pc = "record" THEN Len(results) - 1 ELSE Len(results)

JobComplete(j) ==
    /\ jobRow[j].status = "COMPLETED"
    /\ j \in Faithful => Items(j) \subseteq Accounted(j)

AllComplete(n) == \A i \in 1..n : JobComplete(Order[i])

\* While the session works, jobs that completed are recorded and settled.  (A
\* plan may name a job twice: the record of a job that failed may be that of
\* an earlier completion, so nothing is said once one has failed.)
RecordsTrue ==
    (InLoop /\ session = "ok" /\ \A i \in 1..RecordedJobs : results[i] = "COMPLETED")
    => AllComplete(RecordedJobs)

\* A session unusable at the top of the loop was so from the start of the run:
\* later on the checkpoint could not have been saved.
LoopSession == pc = "next" /\ session # "ok" => results = <<>>

\* A job reported as completed has a completed checkpoint in memory.
CompletedMem ==
    (pc \in {"record", "save"} /\ results[Len(results)] = "COMPLETED")
    => mem.status = "COMPLETED"

\* Only a loop that went through leaves COMPLETED as the verdict to record.
EndTrue == pc = "end" /\ overall = "COMPLETED" => AllComplete(Len(Order))

\* The run's row is final only after the loop.
RowOpen == (InLoop \/ pc = "end") => runRow \in {"NONE", "RUNNING"}

RecordInv ==
    /\ RecordsTrue
    /\ LoopSession
    /\ CompletedMem
    /\ EndTrue
    /\ RowOpen
    /\ CompletedRunIsComplete

CompletedInv == RunInv /\ DurableInv /\ RecordInv

\* The property in the terms of the invariant.
LEMMA CompleteRun ==
    CompletedRunIsComplete <=> (runRow = "COMPLETED" => AllComplete(Len(Order)))
<1>1. DOMAIN Order = 1..Len(Order)
  BY EngineAssumption
<1> QED BY <1>1 DEF CompletedRunIsComplete, AllComplete, JobComplete

\* Records and settled items only improve while jobRow is left alone.
LEMMA CompleteStays ==
    ASSUME TypeOK, NEW n \in 0..Len(Order), AllComplete(n), jobRow' = jobRow,
           \A j \in Jobs : Accounted(j) \subseteq Accounted(j)'
    PROVE  AllComplete(n)'
BY OrderJobs DEF AllComplete, JobComplete

\* No item that is accounted for is lost again.
LEMMA AccountedGrows ==
    ASSUME TypeOK, [Next]_vars
    PROVE  \A j \in Jobs : Accounted(j) \subseteq Accounted(j)'
<1>1. CASE UpsertBatch \/ RecordJob
  <2>1. \A j \in Jobs : /\ db[j] \cup dropped[j] \subseteq db'[j] \cup dropped'[j]
                        /\ rejected[j] \subseteq rejected'[j]
    <3>1. CASE UpsertBatch
      BY <3>1 DEF UpsertBatch, TypeOK
    <3>2. CASE RecordJob
      BY <3>2 DEF RecordJob, TypeOK
    <3> QED BY <1>1, <3>1, <3>2
  <2> QED BY <2>1 DEF Accounted, Settled
<1>0. CASE UpsertConflicts
  BY <1>0, ConflictEffect, ConflictAccounts
<1>2. CASE db' = db /\ rejected' = rejected /\ dropped' = dropped
  BY <1>2 DEF Accounted, Settled
<1>3. ~(UpsertBatch \/ UpsertConflicts \/ RecordJob) => db' = db /\ rejected' = rejected /\ dropped' = dropped
  BY DEF vars, Next, Begins, Proceeds, Disturbs, StartRun, StartRunUnrecorded, BeginRun,
         StartJob, AbandonRun, FinishLoop, FetchSucceeds, UpsertFails,
         CancelBetweenBatches, FinishJob, FailJob, EndJob, RecordJobFails,
         SaveState, SaveStateFails, RecordRunEnd, RecordRunEndFails, RequestCancel,
         BreakerRejects, FetchFails, UpsertSwallowsError, ReturnResult, Crash, durableVars
<1> QED BY <1>0, <1>1, <1>2, <1>3

\* A step that records nothing takes nothing away from earlier records.
LEMMA NothingRecorded ==
    ASSUME CompletedInv, [Next]_vars, jobRow' = jobRow
    PROVE  /\ \A n \in 0..Len(Order) : AllComplete(n) => AllComplete(n)'
           /\ runRow' = runRow => CompletedRunIsComplete'
<1>1. \A n \in 0..Len(Order) : AllComplete(n) => AllComplete(n)'
  BY AccountedGrows, CompleteStays DEF CompletedInv, RunInv
<1>2. Len(Order) \in 0..Len(Order)
  BY OrderJobs
<1>3. (CompletedRunIsComplete <=> (runRow = "COMPLETED" => AllComplete(Len(Order))))'
  BY CompleteRun, PTL
<1>4. runRow' = runRow => CompletedRunIsComplete'
  BY <1>1, <1>2, <1>3, CompleteRun DEF CompletedInv, RecordInv
<1> QED BY <1>1, <1>4

\* How far the records of a run may reach.
LEMMA RecordedBound ==
    ASSUME CompletedInv, InLoop
    PROVE  RecordedJobs \in 0..Len(Order)
<1>1. Len(results) \in Nat /\ Len(Order) \in Nat
  BY ResultsSeq, OrderJobs DEF CompletedInv, RunInv
<1> QED BY <1>1 DEF CompletedInv, RunInv, LoopInv, InLoop, RecordedJobs

\* A step inside the loop that neither ends a job nor records one.
LEMMA LoopGoesOn ==
    ASSUME CompletedInv, [Next]_vars, InLoop, pc # "record",
           pc' \in {"next", "fetch", "batch"}, pc' = "next" => session' = "ok",
           results' = results, jobRow' = jobRow, runRow' = runRow,
           session' = "ok" => session = "ok"
    PROVE  RecordInv'
<1>1. RecordedJobs' = RecordedJobs /\ RecordedJobs \in 0..Len(Order)
  BY RecordedBound DEF RecordedJobs
<1>2. RecordsTrue'
  BY <1>1, NothingRecorded DEF RecordsTrue, CompletedInv, RecordInv
<1>3. CompletedRunIsComplete'
  BY NothingRecorded
<1>4. LoopSession' /\ CompletedMem' /\ EndTrue' /\ RowOpen'
  BY DEF LoopSession, CompletedMem, EndTrue, RowOpen, InLoop, CompletedInv, RecordInv
<1> QED BY <1>2, <1>3, <1>4 DEF RecordInv

\* The run is started: nothing is recorded yet.
LEMMA BeginRecords ==
    ASSUME CompletedInv, NEW m, BeginRun(m), runRow' \in {"NONE", "RUNNING"}
    PROVE  RecordInv'
<1>1. pc' = "next" /\ results' = <<>>
  BY DEF BeginRun
<1>2. RecordsTrue'
  BY <1>1 DEF RecordsTrue, RecordedJobs, AllComplete
<1> QED
  BY <1>1, <1>2 DEF RecordInv, LoopSession, CompletedMem, EndTrue, RowOpen, InLoop,
                    CompletedRunIsComplete

\* The loop went through: every job is recorded, because an unusable session
\* would have ended the run before.
LEMMA FinishLoopRecords ==
    ASSUME CompletedInv, FinishLoop
    PROVE  RecordInv'
<1>1. /\ pc = "next" /\ pc' = "end" /\ results' = results /\ jobRow' = jobRow
      /\ runRow' = runRow /\ Len(results) = Len(Order)
      /\ overall' = "COMPLETED" => \A i \in DOMAIN results : results[i] # "FAILED"
  BY DEF FinishLoop, durableVars
<1>2. Next
  BY DEF Next, Proceeds
<1>3. session = "ok"
  BY <1>1, OrderJobs DEF CompletedInv, RecordInv, LoopSession
<1>4. ASSUME overall' = "COMPLETED" PROVE AllComplete(Len(Order))
  <2>1. \A i \in 1..Len(results) : results[i] = "COMPLETED"
    BY <1>1, <1>4, ResultsSeq DEF CompletedInv, RunInv
  <2> QED
    BY <1>1, <1>3, <2>1
    DEF CompletedInv, RecordInv, RecordsTrue, RecordedJobs, InLoop
<1>5. Len(Order) \in 0..Len(Order)
  BY OrderJobs
<1>6. EndTrue'
  BY <1>1, <1>2, <1>4, <1>5, NothingRecorded DEF EndTrue
<1>7. CompletedRunIsComplete'
  BY <1>1, <1>2, NothingRecorded
<1>8. RecordsTrue' /\ LoopSession' /\ CompletedMem' /\ RowOpen'
  BY <1>1 DEF RecordsTrue, LoopSession, CompletedMem, RowOpen, InLoop, CompletedInv,
              RecordInv
<1> QED BY <1>6, <1>7, <1>8 DEF RecordInv

\* A job ends: its own record is still to come.
LEMMA EndJobRecords ==
    ASSUME CompletedInv, [Next]_vars, pc \in {"fetch", "batch"},
           NEW status \in {"COMPLETED", "FAILED"}, NEW s, EndJob(status, s),
           status = "COMPLETED" => s.status = "COMPLETED",
           session' = "ok" => session = "ok"
    PROVE  RecordInv'
<1>1. /\ pc' = "record" /\ results' = Append(results, status) /\ mem' = s
      /\ jobRow' = jobRow /\ runRow' = runRow
  BY DEF EndJob, durableVars
<1>2. /\ Len(results') = Len(results) + 1 /\ Len(results) \in Nat
      /\ \A i \in 1..Len(results) : results'[i] = results[i]
      /\ results'[Len(results')] = status
  BY <1>1, AppendResults, ResultsSeq DEF CompletedInv, RunInv
<1>3. RecordedJobs' = Len(results) /\ RecordedJobs = Len(results)
  BY <1>1, <1>2 DEF RecordedJobs
<1>4. RecordedJobs \in 0..Len(Order)
  BY RecordedBound DEF InLoop
<1>5. RecordsTrue'
  BY <1>1, <1>2, <1>3, <1>4, NothingRecorded
  DEF RecordsTrue, CompletedInv, RecordInv, InLoop
<1>6. CompletedRunIsComplete'
  BY <1>1, NothingRecorded
<1>7. LoopSession' /\ CompletedMem' /\ EndTrue' /\ RowOpen'
  BY <1>1, <1>2 DEF LoopSession, CompletedMem, EndTrue, RowOpen, InLoop, CompletedInv,
                    RecordInv
<1> QED BY <1>5, <1>6, <1>7 DEF RecordInv

\* The commit that writes a job's record settles what the job claims.
LEMMA RecordJobRecords ==
    ASSUME CompletedInv, RecordJob
    PROVE  RecordInv'
<1> DEFINE n == Len(results)
<1>1. /\ pc = "record" /\ pc' = "save" /\ session = "ok" /\ session' = "ok"
      /\ results' = results /\ mem' = mem /\ runRow' = runRow /\ job' = job /\ job \in Jobs
      /\ rejected' = rejected /\ db' = [db EXCEPT ![job] = @ \cup pending]
      /\ dropped' = [dropped EXCEPT ![job] = @ \ pending]
      /\ jobRow' = [jobRow EXCEPT ![job] = [status |-> results[n], saved |-> reported]]
  BY DEF RecordJob, runVars, jobVars, JobStatus, CompletedInv, RunInv, TypeOK
<1>2. n \in 1..Len(Order) /\ job = Order[n] /\ n \in Nat /\ Len(Order) \in Nat
  BY <1>1, ResultsSeq, OrderJobs DEF CompletedInv, RunInv, LoopInv
<1>3. ASSUME \A i \in 1..n : results[i] = "COMPLETED"
      PROVE  AllComplete(n)'
  <2>1. AllComplete(n - 1)
    BY <1>1, <1>2, <1>3
    DEF CompletedInv, RecordInv, RecordsTrue, InLoop, RecordedJobs
  <2>2. mem.status = "COMPLETED"
    BY <1>1, <1>2, <1>3 DEF CompletedInv, RecordInv, CompletedMem
  <2>3. job \in Faithful => Items(job) \subseteq Accounted(job) \cup pending
    BY <1>1, <2>2 DEF CompletedInv, DurableInv, JobCovered, Covers
  <2>4. db'[job] \cup dropped'[job] = db[job] \cup dropped[job] \cup pending
    BY <1>1 DEF CompletedInv, RunInv, TypeOK
  <2>5. JobComplete(job)'
    <3>1. jobRow'[job].status = "COMPLETED"
      BY <1>1, <1>2, <1>3 DEF CompletedInv, RunInv, TypeOK
    <3>2. job \in Faithful => Items(job) \subseteq db'[job] \cup rejected'[job] \cup dropped'[job]
      BY <1>1, <2>3, <2>4 DEF Accounted, Settled
    <3> QED BY <1>1, <3>1, <3>2 DEF JobComplete, Accounted, Settled
  <2>6. ASSUME NEW j \in Jobs, JobComplete(j), j # job PROVE JobComplete(j)'
    <3>1. jobRow'[j] = jobRow[j] /\ db'[j] = db[j] /\ dropped'[j] = dropped[j]
      BY <1>1, <2>6 DEF CompletedInv, RunInv, TypeOK
    <3> QED BY <1>1, <2>6, <3>1 DEF JobComplete, Accounted, Settled
  <2> SUFFICES ASSUME NEW i \in 1..n PROVE JobComplete(Order[i])'
    BY <1>1 DEF AllComplete
  <2>7. Order[i] \in Jobs
    BY <1>2, OrderJobs
  <2>8. i = n \/ i \in 1..(n - 1)
    BY <1>2
  <2>9. CASE Order[i] = job
    BY <1>1, <2>5, <2>9 DEF JobComplete, Accounted, Settled
  <2>10. CASE Order[i] # job
    <3>1. JobComplete(Order[i])
      BY <1>1, <1>2, <2>1, <2>8, <2>10 DEF AllComplete
    <3> QED BY <2>6, <2>7, <2>10, <3>1
  <2> QED BY <2>9, <2>10
<1>4. RecordsTrue'
  BY <1>1, <1>2, <1>3 DEF RecordsTrue, RecordedJobs
<1>5. runRow' # "COMPLETED"
  BY <1>1 DEF CompletedInv, RecordInv, RowOpen, InLoop
<1>6. CompletedRunIsComplete'
  BY <1>5 DEF CompletedRunIsComplete
<1>7. LoopSession' /\ CompletedMem' /\ EndTrue' /\ RowOpen'
  BY <1>1 DEF LoopSession, CompletedMem, EndTrue, RowOpen, InLoop, CompletedInv, RecordInv
<1> QED BY <1>4, <1>6, <1>7 DEF RecordInv

LEMMA RecordStep ==
    ASSUME CompletedInv, [Next]_vars
    PROVE  RecordInv'
<1>1. CASE Begins \/ \E m \in Modes : StartRunUnrecorded(m)
  BY <1>1, BeginRecords DEF Begins, StartRun, StartRunUnrecorded
<1>2. CASE RequestCancel \/ UNCHANGED vars
  <2>1. /\ pc' = pc /\ results' = results /\ session' = session /\ mem' = mem
        /\ overall' = overall /\ jobRow' = jobRow /\ runRow' = runRow
    BY <1>2 DEF RequestCancel, vars, runVars, jobVars, durableVars
  <2>2. InLoop => RecordedJobs \in 0..Len(Order)
    BY RecordedBound
  <2>3. RecordsTrue'
    BY <2>1, <2>2, NothingRecorded
    DEF RecordsTrue, RecordedJobs, InLoop, CompletedInv, RecordInv
  <2>4. EndTrue' /\ CompletedRunIsComplete'
    BY <2>1, OrderJobs, NothingRecorded DEF EndTrue, CompletedInv, RecordInv
  <2>5. LoopSession' /\ CompletedMem' /\ RowOpen'
    BY <2>1 DEF LoopSession, CompletedMem, RowOpen, InLoop, CompletedInv, RecordInv
  <2> QED BY <2>3, <2>4, <2>5 DEF RecordInv
<1>3. CASE StartJob
  BY <1>3, LoopGoesOn DEF StartJob, InLoop, runVars, durableVars
<1>4. CASE AbandonRun \/ SaveStateFails
  <2>1. /\ pc' = "end" /\ overall' = "CANCELLED" /\ jobRow' = jobRow /\ runRow' = runRow
        /\ InLoop
    BY <1>4 DEF AbandonRun, SaveStateFails, GiveUp, durableVars, InLoop
  <2>2. CompletedRunIsComplete'
    BY <2>1, NothingRecorded
  <2> QED
    BY <2>1, <2>2 DEF RecordsTrue, LoopSession, CompletedMem, EndTrue, RowOpen, InLoop,
                      CompletedInv, RecordInv
<1>5. CASE FinishLoop
  BY <1>5, FinishLoopRecords
<1>6. CASE BreakerRejects \/ FetchFails \/ UpsertFails \/ CancelBetweenBatches
  <2>1. /\ pc \in {"fetch", "batch"} /\ \E s : EndJob("FAILED", s)
        /\ session' = "ok" => session = "ok"
    BY <1>6 DEF BreakerRejects, FetchFails, UpsertFails, CancelBetweenBatches, FailJob
  <2> QED BY <2>1, EndJobRecords
<1>7. CASE FinishJob
  <2>1. /\ pc \in {"fetch", "batch"} /\ EndJob("COMPLETED", MarkCompleted(mem))
        /\ MarkCompleted(mem).status = "COMPLETED"
        /\ session' = "ok" => session = "ok"
    BY <1>7 DEF FinishJob, MarkCompleted
  <2> QED BY <2>1, EndJobRecords
<1>8. CASE FetchSucceeds \/ UpsertBatch \/ UpsertConflicts \/ UpsertSwallowsError
  <2>1. /\ pc \in {"fetch", "batch"} /\ pc' = "batch" /\ results' = results
        /\ jobRow' = jobRow /\ runRow' = runRow
        /\ session' = "ok" => session = "ok"
    BY <1>8 DEF FetchSucceeds, UpsertBatch, UpsertConflicts, UpsertSwallowsError, runVars,
                durableVars
  <2> QED BY <2>1, LoopGoesOn DEF InLoop
<1>9. CASE RecordJob
  BY <1>9, RecordJobRecords
<1>10. CASE RecordJobFails
  <2>1. /\ pc = "record" /\ pc' = "save" /\ session' = "poisoned" /\ mem' = mem
        /\ results' = results /\ jobRow' = jobRow /\ runRow' = runRow
    BY <1>10 DEF RecordJobFails, runVars, jobVars, durableVars
  <2>2. CompletedRunIsComplete'
    BY <2>1, NothingRecorded
  <2> QED
    BY <2>1, <2>2 DEF RecordsTrue, LoopSession, CompletedMem, EndTrue, RowOpen, InLoop,
                      CompletedInv, RecordInv
<1>11. CASE SaveState
  <2>1. /\ pc = "save" /\ session = "ok" /\ session' = session /\ results' = results
        /\ jobRow' = jobRow /\ runRow' = runRow
        /\ pc' = "next" \/ (pc' = "end" /\ overall' = "FAILED")
    BY <1>11 DEF SaveState
  <2>2. CASE pc' = "next"
    BY <2>1, <2>2, LoopGoesOn DEF InLoop
  <2>3. CASE pc' = "end" /\ overall' = "FAILED"
    <3>1. CompletedRunIsComplete'
      BY <2>1, NothingRecorded
    <3> QED
      BY <2>1, <2>3, <3>1 DEF RecordsTrue, LoopSession, CompletedMem, EndTrue, RowOpen,
                              InLoop, CompletedInv, RecordInv
  <2> QED BY <2>1, <2>2, <2>3
<1>12. CASE RecordRunEnd
  <2>1. pc = "end" /\ pc' = "after" /\ runRow' = overall /\ jobRow' = jobRow
    BY <1>12 DEF RecordRunEnd
  <2>2. overall = "COMPLETED" => AllComplete(Len(Order))'
    BY <2>1, OrderJobs, NothingRecorded DEF EndTrue, CompletedInv, RecordInv
  <2>3. (CompletedRunIsComplete <=> (runRow = "COMPLETED" => AllComplete(Len(Order))))'
    BY CompleteRun, PTL
  <2>4. CompletedRunIsComplete'
    BY <2>1, <2>2, <2>3
  <2> QED
    BY <2>1, <2>4 DEF RecordsTrue, LoopSession, CompletedMem, EndTrue, RowOpen, InLoop,
                      RecordInv
<1>13. CASE RecordRunEndFails \/ ReturnResult \/ Crash
  <2>1. pc' \in {"after", "idle"} /\ jobRow' = jobRow /\ runRow' = runRow
    BY <1>13 DEF RecordRunEndFails, ReturnResult, Crash, durableVars
  <2>2. CompletedRunIsComplete'
    BY <2>1, NothingRecorded
  <2> QED
    BY <2>1, <2>2 DEF RecordsTrue, LoopSession, CompletedMem, EndTrue, RowOpen, InLoop,
                      RecordInv
<1> QED
  BY <1>1, <1>2, <1>3, <1>4, <1>5, <1>6, <1>7, <1>8, <1>9, <1>10, <1>11, <1>12, <1>13
  DEF Next, Begins, Proceeds, Disturbs

\* A sync_runs row says COMPLETED only when every job of the plan has its
\* COMPLETED record and all its items are settled or on record as dropped by a
\* conflict, although each failure to write such a record is only a warning
\* (engine.py:167-173, 214-219): for every plan, also one that names a job
\* twice, and whatever other processes insert.
THEOREM CompletedRunsAreComplete == Spec => []CompletedRunIsComplete
<1>1. Init => CompletedInv
  BY InitTypeOK, InitLoop, InitDurable
  DEF Init, CompletedInv, RunInv, JobEnded, RecordInv, RecordsTrue, LoopSession,
      CompletedMem, EndTrue, RowOpen, InLoop, CompletedRunIsComplete
<1>2. CompletedInv /\ [Next]_vars => RunInv'
  BY TypeOKStep, JobEndedStep, RunStep DEF RunInv, CompletedInv
<1>3. CompletedInv /\ [Next]_vars => DurableInv'
  BY DurableStep DEF RunInv, CompletedInv
<1>4. CompletedInv /\ [Next]_vars => RecordInv'
  BY RecordStep
<1>5. CompletedInv /\ [Next]_vars => CompletedInv'
  BY <1>2, <1>3, <1>4 DEF CompletedInv
<1>6. CompletedInv => CompletedRunIsComplete
  BY DEF CompletedInv, RecordInv
<1> QED BY <1>1, <1>5, <1>6, PTL DEF Spec
==============================================================================
