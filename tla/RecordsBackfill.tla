--------------------------- MODULE RecordsBackfill -------------------------
(***************************************************************************)
(* The records backfill (providers/espn/jobs/records.py): fighters without *)
(* a fighter_records row are fetched, and each answer becomes a record or a*)
(* row of fighter_provider_record_status with a retry budget               *)
(* (upserts/fighter.py).  A fighter or ranking job of another process may  *)
(* write records at the same time.                                         *)
(***************************************************************************)
EXTENDS Integers, Sequences, FiniteSets, SequencesExt

CONSTANTS Fighters,   \* external ids, in their order
          Limit,      \* ESPN_RECORDS_BACKFILL_LIMIT, 0 = all
          BatchSize,  \* batch_size of the job
          Budget,     \* MAX_RECORD_FETCH_RETRIES
          MaxFaults   \* bound on failing fetches and failing runs

VARIABLES published,  \* fighters whose /records the provider serves
          records,    \* committed fighter_records rows
          status,     \* committed fighter_provider_record_status rows
          emptied,    \* fighters whose fetch was ever answered EMPTY
          phase,      \* where the run is
          queue,      \* its fetched fighters, not handled yet
          answer,     \* the outcome of each fetch
          newRecords, \* records added and not committed
          newStatus,  \* status rows written and not committed
          faults

backVars == <<published, records, status, emptied, phase, queue, answer,
              newRecords, newStatus, faults>>
tables   == <<records, status>>
work     == <<newRecords, newStatus>>

NotChecked == [status |-> "NOT_CHECKED", retries |-> 0]
Absent     == [status |-> "CONFIRMED_ABSENT", retries |-> 0]

\* mutant of FailedAgain: a failure is taken for evidence of absence
FailedIsAbsent(row) == Absent

\* INSERT with retry_count 1, or ON CONFLICT retry_count + 1.
FailedAgain(row) == [status |-> "FETCH_FAILED", retries |-> row.retries + 1]

Init ==
  /\ published \in SUBSET Fighters /\ records = {} /\ emptied = {}
  /\ status = [f \in Fighters |-> NotChecked]
  /\ phase = "idle" /\ queue = <<>> /\ faults = 0
  /\ answer = [f \in Fighters |-> "EMPTY"]
  /\ newRecords = {} /\ newStatus = [f \in {} |-> NotChecked]

Fault == faults < MaxFaults /\ faults' = faults + 1

(* The provider starts to serve a record (a first bout).                   *)
Publish(f) ==
  /\ f \notin published /\ published' = published \cup {f}
  /\ UNCHANGED <<tables, emptied, phase, queue, answer, work, faults>>

(* The target query: no record, and no status row or a failure within the  *)
(* budget.                                                                 *)
Missing == {f \in Fighters \ records :
              \/ status[f] = NotChecked
              \/ status[f].status = "FETCH_FAILED" /\ status[f].retries < Budget}

InOrder(s) == \A i, k \in DOMAIN s : i < k => s[i] < s[k]

Selected(all) == IF Limit = 0 \/ Len(all) <= Limit THEN all ELSE SubSeq(all, 1, Limit)

Outcome(f, failing) == IF f \in failing THEN "FAILED"
                       ELSE IF f \in published THEN "AVAILABLE" ELSE "EMPTY"

(* _fetch: the query, then every fetch; an open breaker or a 5xx fails some*)
(* of them.                                                                *)
Fetch(failing) ==
  \E all \in SetToSeqs(Missing) :
  LET chosen == ToSet(Selected(all))
  IN  /\ phase = "idle" /\ Missing # {} /\ InOrder(all) /\ failing \subseteq chosen
      /\ IF failing = {} THEN UNCHANGED faults ELSE Fault
      /\ phase' = "batches" /\ queue' = Selected(all)
      /\ answer' = [f \in Fighters |->
                      IF f \in chosen THEN Outcome(f, failing) ELSE answer[f]]
      /\ emptied' = emptied \cup {f \in chosen : Outcome(f, failing) = "EMPTY"}
      /\ UNCHANGED <<published, tables, work>>

BatchOf == SubSeq(queue, 1, IF Len(queue) < BatchSize THEN Len(queue) ELSE BatchSize)

\* apply_record_fetch_outcomes, after the records of the batch.
StatusAfter(f) == CASE answer[f] = "AVAILABLE" -> NotChecked
                    [] answer[f] = "EMPTY"     -> Absent
                    [] answer[f] = "FAILED"    -> FailedAgain(status[f])

(* upsert_records and apply_record_fetch_outcomes of one batch: the record *)
(* rows are added to the session, the status rows written.                 *)
Upsert ==
  LET batch == ToSet(BatchOf)
  IN  /\ phase = "batches" /\ queue # <<>>
      /\ newRecords' = newRecords \cup {f \in batch \ records : answer[f] = "AVAILABLE"}
      /\ newStatus' = [f \in DOMAIN newStatus \cup batch |->
                         IF f \in batch THEN StatusAfter(f) ELSE newStatus[f]]
      /\ phase' = "flush"
      /\ UNCHANGED <<published, tables, emptied, queue, answer, faults>>

(* The job's flush inserts the record rows.                                *)
Flush ==
  /\ phase = "flush" /\ newRecords \cap records = {}
  /\ phase' = "batches" /\ queue' = SubSeq(queue, Len(BatchOf) + 1, Len(queue))
  /\ UNCHANGED <<published, tables, emptied, answer, work, faults>>

\* The run is over and its uncommitted rows are gone.
Abandon ==
  /\ phase' = "idle" /\ queue' = <<>> /\ newRecords' = {}
  /\ newStatus' = [f \in {} |-> NotChecked]
  /\ UNCHANGED <<published, tables, emptied, answer>>

(* Another job committed one of the records since the batch looked: the    *)
(* unique fighter_id fails the job.                                        *)
FlushFails == phase = "flush" /\ newRecords \cap records # {} /\ Abandon /\ UNCHANGED faults

(* A crash or a database error before the commit.                          *)
Die == phase # "idle" /\ Fault /\ Abandon

(* _record_job commits what the batches have written.                      *)
RecordJob ==
  /\ records' = records \cup newRecords
  /\ status' = [f \in Fighters |-> IF f \in DOMAIN newStatus THEN newStatus[f] ELSE status[f]]
  /\ phase' = "idle" /\ newRecords' = {} /\ newStatus' = [f \in {} |-> NotChecked]
  /\ queue' = <<>>
  /\ UNCHANGED <<published, emptied, answer>>

Commit == phase = "batches" /\ queue = <<>> /\ RecordJob /\ UNCHANGED faults

(* Cancelled before a batch: the job ends, and the batches that ran are    *)
(* recorded.                                                               *)
Cancel == phase = "batches" /\ queue # <<>> /\ Fault /\ RecordJob

\* Rows of this run that another transaction waits for: a status row it updated
\* or deleted, a record row it flushed.  A status row it inserted is not seen.
Locked == {f \in DOMAIN newStatus : status[f] # NotChecked}
          \cup {f \in newRecords : phase = "batches" \/ f \notin ToSet(BatchOf)}

(* FighterUpsert._upsert_record by another job: record in, status row out, *)
(* committed at once.                                                      *)
OtherJobWrites(f) ==
  /\ f \in published \ (records \cup Locked)
  /\ records' = records \cup {f} /\ status' = [status EXCEPT ![f] = NotChecked]
  /\ UNCHANGED <<published, emptied, phase, queue, answer, work, faults>>

Run == \/ \E failing \in SUBSET Fighters : Fetch(failing)
       \/ Upsert \/ Flush \/ FlushFails \/ Commit

Next == \/ Run \/ Cancel \/ Die
        \/ \E f \in Fighters : Publish(f) \/ OtherJobWrites(f)

(* The operator runs the backfill again and again.                         *)
Spec == Init /\ [][Next]_backVars /\ WF_backVars(Run)

----------------------------------------------------------------------------
Statuses == {"NOT_CHECKED", "CONFIRMED_ABSENT", "FETCH_FAILED"}

(* The types of the two tables and of the run.                             *)
TypeOK ==
  /\ published \subseteq Fighters /\ records \subseteq Fighters /\ emptied \subseteq Fighters
  /\ status \in [Fighters -> [status : Statuses, retries : 0..Budget]]
  /\ phase \in {"idle", "batches", "flush"} /\ queue \in Seq(Fighters)
  /\ answer \in [Fighters -> {"AVAILABLE", "EMPTY", "FAILED"}]
  /\ newRecords \subseteq Fighters /\ DOMAIN newStatus \subseteq Fighters
  /\ \A f \in DOMAIN newStatus : newStatus[f] \in [status : Statuses, retries : 0..Budget]
  /\ faults \in 0..MaxFaults

(* A repeated backfill settles every fighter for good, whatever runs died  *)
(* or were cancelled, whatever fetches failed and whatever records other   *)
(* jobs wrote meanwhile: it has a record, or the provider did answer once  *)
(* that there is none, or it failed as often as the budget allows.  "Only  *)
(* EMPTY may ever become CONFIRMED_ABSENT" (provider.py:300), and no       *)
(* fighter is passed over.                                                 *)
BackfillSettles ==
  <>[](\A f \in Fighters :
         \/ f \in records
         \/ status[f] = Absent /\ f \in emptied
         \/ status[f] = [status |-> "FETCH_FAILED", retries |-> Budget])

(* "a persisted CONFIRMED_ABSENT / FETCH_FAILED row must never survive (or *)
(* block) a real record" (upserts/fighter.py:257-259).                     *)
NoStatusBesideRecord == \A f \in records : status[f] = NotChecked
=============================================================================
