------------------------------ MODULE Discovery ------------------------------
(***************************************************************************)
(* The fighter census (providers/espn/discovery.py, jobs/fighter.py, the    *)
(* injection of jobs/ranking.py): a resumable walk over the listings fills  *)
(* a registry of athlete ids, a window of ids is fetched, the profiles are  *)
(* upserted, and the ids that are done with are marked consumed.            *)
(*                                                                         *)
(* Each process runs the jobs on a database session of its own.  What it    *)
(* inserts or marks is visible to the others when its job is recorded; an   *)
(* insert of a row another session has inserted waits for its commit        *)
(* (uq_fighters_provider_external), and so does an update of a marked row.  *)
(* The weight class a profile names is inserted with the first row that     *)
(* needs it (uq_weight_classes_provider_external), and its id is cached for *)
(* the rest of the batch.                                                   *)
(* The profiles are those without a record breakdown: the row of a          *)
(* breakdown would fail the job where its fighter has been rolled back.     *)
(***************************************************************************)
EXTENDS Naturals, Sequences, FiniteSets, Functions

CONSTANTS
    Procs,       \* processes that sync
    Ids,         \* athlete ids: numbers, because a window takes the least
    Listing,     \* Listing[s]: the pages of the s-th source, sets of ids
    Late,        \* ids met in bouts or event logs
    Ranked,      \* ids the rankings name
    Gone,        \* ids ESPN answers with 404
    Malformed,   \* ids whose profile no Fighter row can be built from
    ClassOf,     \* ClassOf[i]: the weight class of the profile, {} for none
    Limit,       \* ESPN_FIGHTER_SYNC_LIMIT, 0 for no limit
    BatchSize,   \* ESPN_FighterSyncJob.batch_size
    MaxFaults    \* bound on failed requests, statements and processes

ASSUME DiscoveryAssumption ==
    /\ Ids \subseteq Nat
    /\ Listing \in Seq(Seq(SUBSET Ids))
    /\ Listing # <<>>
    /\ Late \subseteq Ids
    /\ Ranked \subseteq Ids
    /\ MaxFaults \in Nat

VARIABLES
    registry,    \* ids in sync_discovered_athletes
    consumed,    \* those with consumed = true
    stored,      \* ids with a committed row in fighters
    classes,     \* weight classes with a committed row
    checkpoint,  \* checkpoint[s]: page and completed of the s-th source
    pc,          \* pc[p]: where process p is
    src,         \* src[p]: the source it walks
    first,       \* first[p]: start_page of the walk
    page,        \* page[p]: the last page of it that is registered
    todo,        \* todo[p]: ids still to fetch, or rows still to insert
    got,         \* got[p]: profiles resolved and not yet upserted
    dead,        \* dead[p]: ids of the window without a profile
    silent,      \* silent[p]: those whose failure moved no counter
    signals,     \* signals[p]: did a counter of the client move?
    open,        \* open[p]: the circuit breaker of its client is not closed
    batch,       \* batch[p]: the batch in hand
    fresh,       \* fresh[p]: weight classes whose id the resolver of the batch
                 \* took from rows that were not committed
    rows,        \* rows[p]: fighters inserted in its transaction
    made,        \* made[p]: weight classes inserted in its transaction
    marks,       \* marks[p]: ids marked consumed in its transaction
    mislaid,     \* history: ids taken for dead ends without an answer, rolled
                 \* back between their insert and their mark, or refused by the
                 \* database for a weight class that was rolled back
    faults

dbVars    == <<registry, consumed, stored, classes, checkpoint>>
walkVars  == <<src, first, page>>
fetchVars == <<dead, silent, signals>>
batchVars == <<batch, fresh>>
txVars    == <<rows, made, marks>>
vars == <<dbVars, pc, walkVars, todo, got, fetchVars, open, batchVars, txVars,
          mislaid, faults>>

Sources == DOMAIN Listing

Listed == UNION {UNION Range(Listing[s]) : s \in Sources}

ClassesOf(S) == UNION {ClassOf[i] : i \in S}

TypeOK ==
    /\ registry \subseteq Ids
    /\ consumed \subseteq Ids
    /\ stored \subseteq Ids
    /\ classes \subseteq ClassesOf(Ids)
    /\ checkpoint \in [Sources -> [page : Nat, done : BOOLEAN]]
    /\ pc \in [Procs -> {"idle", "source", "walk", "window", "fetch", "inject",
                         "upsert", "insert", "retry", "mark", "commit"}]
    /\ src \in [Procs -> Sources]
    /\ first \in [Procs -> Nat]
    /\ page \in [Procs -> Nat]
    /\ todo \in [Procs -> SUBSET Ids]
    /\ got \in [Procs -> SUBSET Ids]
    /\ dead \in [Procs -> SUBSET Ids]
    /\ silent \in [Procs -> SUBSET Ids]
    /\ batch \in [Procs -> SUBSET Ids]
    /\ rows \in [Procs -> SUBSET Ids]
    /\ fresh \in [Procs -> SUBSET ClassesOf(Ids)]
    /\ made \in [Procs -> SUBSET ClassesOf(Ids)]
    /\ marks \in [Procs -> SUBSET Ids]
    /\ signals \in [Procs -> BOOLEAN]
    /\ open \in [Procs -> BOOLEAN]
    /\ mislaid \subseteq Ids
    /\ faults \in 0 .. MaxFaults

\* The bouts may have brought weight classes before.
Init ==
    /\ registry = {}
    /\ consumed = {}
    /\ stored = {}
    /\ classes \in SUBSET ClassesOf(Ids)
    /\ checkpoint = [s \in Sources |-> [page |-> 0, done |-> FALSE]]
    /\ pc = [p \in Procs |-> "idle"]
    /\ src = [p \in Procs |-> 1]
    /\ first = [p \in Procs |-> 1]
    /\ page = [p \in Procs |-> 0]
    /\ todo = [p \in Procs |-> {}]
    /\ got = [p \in Procs |-> {}]
    /\ dead = [p \in Procs |-> {}]
    /\ silent = [p \in Procs |-> {}]
    /\ batch = [p \in Procs |-> {}]
    /\ fresh = [p \in Procs |-> {}]
    /\ rows = [p \in Procs |-> {}]
    /\ made = [p \in Procs |-> {}]
    /\ marks = [p \in Procs |-> {}]
    /\ signals = [p \in Procs |-> FALSE]
    /\ open = [p \in Procs |-> FALSE]
    /\ mislaid = {}
    /\ faults = 0

At(p, here) == pc[p] = here

Goto(p, there) == pc' = [pc EXCEPT ![p] = there]

Fault == faults < MaxFaults /\ faults' = faults + 1

\* The n least ids of S, or all of them when n is 0.
Least(n, S) ==
    IF n = 0 THEN S ELSE {i \in S : Cardinality({j \in S : j < i}) < n}

\* Rows of S another transaction has inserted, or marked.
Held(p, S, tx) == \E q \in Procs \ {p} : S \cap tx[q] # {}

------------------------------------------------------------------------------
\* The walk

StartJob(p) ==
    /\ At(p, "idle")
    /\ Goto(p, "source")
    /\ src' = [src EXCEPT ![p] = 1]
    /\ UNCHANGED <<dbVars, first, page, todo, got, fetchVars, open, batchVars,
                   txVars,
                   mislaid, faults>>

\* mutant of ResumeAt: starts one page too far
ResumePast(s) == IF checkpoint[s].page = 0 THEN 0 ELSE checkpoint[s].page + 1

\* mutant of ResumeAt: the last page is walked again
ResumeBefore(s) == checkpoint[s].page - 1

\* The page before start_page.
ResumeAt(s) == checkpoint[s].page

NextSource(p) ==
    /\ Goto(p, IF src[p] < Len(Listing) THEN "source" ELSE "window")
    /\ src' = [src EXCEPT ![p] = IF @ < Len(Listing) THEN @ + 1 ELSE 1]

\* A source whose walk is completed is not walked again.
SkipSource(p) ==
    /\ At(p, "source")
    /\ checkpoint[src[p]].done
    /\ NextSource(p)
    /\ UNCHANGED <<dbVars, first, page, todo, got, fetchVars, open, batchVars,
                   txVars,
                   mislaid, faults>>

OpenSource(p) ==
    /\ At(p, "source")
    /\ ~ checkpoint[src[p]].done
    /\ Goto(p, "walk")
    /\ page' = [page EXCEPT ![p] = ResumeAt(src[p])]
    /\ first' = [first EXCEPT ![p] = ResumeAt(src[p]) + 1]
    /\ UNCHANGED <<dbVars, src, todo, got, fetchVars, open, batchVars, txVars,
                   mislaid, faults>>

\* mutant of WalkPage: the checkpoint names the page that is asked for next
WalkPageAhead(p) ==
    LET s == src[p]
        n == page[p] + 1
    IN
    /\ At(p, "walk")
    /\ n <= Len(Listing[s])
    /\ registry' = registry \cup Listing[s][n]
    /\ checkpoint' = [checkpoint EXCEPT ![s] = [page |-> n + 1, done |-> FALSE]]
    /\ page' = [page EXCEPT ![p] = n]
    /\ UNCHANGED <<consumed, stored, classes, pc, src, first, todo, got,
                   fetchVars, open, batchVars,
                   txVars, mislaid, faults>>

\* A page is registered, checkpointed and committed before the next request.
WalkPage(p) ==
    LET s == src[p]
        n == page[p] + 1
    IN
    /\ At(p, "walk")
    /\ n <= Len(Listing[s])
    /\ registry' = registry \cup Listing[s][n]
    /\ checkpoint' = [checkpoint EXCEPT ![s] = [page |-> n, done |-> FALSE]]
    /\ page' = [page EXCEPT ![p] = n]
    /\ UNCHANGED <<consumed, stored, classes, pc, src, first, todo, got,
                   fetchVars, open, batchVars,
                   txVars, mislaid, faults>>

\* max(start_page, page - 1): a walk that had no page left counts one more.
EndWalk(p) ==
    LET s == src[p] IN
    /\ At(p, "walk")
    /\ page[p] >= Len(Listing[s])
    /\ \E n \in {first[p], page[p]} :
           /\ first[p] <= n /\ page[p] <= n
           /\ checkpoint' = [checkpoint EXCEPT ![s] = [page |-> n, done |-> TRUE]]
    /\ NextSource(p)
    /\ page' = [page EXCEPT ![p] = 0]
    /\ first' = [first EXCEPT ![p] = 1]
    /\ UNCHANGED <<registry, consumed, stored, classes, todo, got, fetchVars,
                   open, batchVars,
                   txVars, mislaid, faults>>

\* The listing cannot be read: the source is given up for this run.
WalkFails(p) ==
    /\ At(p, "walk")
    /\ \/ Fault /\ open' \in {open, [open EXCEPT ![p] = TRUE]}
       \/ open[p] /\ UNCHANGED <<open, faults>>
    /\ NextSource(p)
    /\ page' = [page EXCEPT ![p] = 0]
    /\ first' = [first EXCEPT ![p] = 1]
    /\ UNCHANGED <<dbVars, todo, got, fetchVars, batchVars, txVars, mislaid>>

\* A bout or an event log names a fighter: UpsertCompetitors, eventlog hooks.
Arrive(i) ==
    /\ i \in Late \ registry
    /\ registry' = registry \cup {i}
    /\ UNCHANGED <<consumed, stored, classes, checkpoint, pc, walkVars, todo, got,
                   fetchVars, open, batchVars, txVars, mislaid, faults>>

------------------------------------------------------------------------------
\* The window

Fetch(p, ids, there) ==
    /\ Goto(p, IF ids = {} THEN "idle" ELSE there)
    /\ todo' = [todo EXCEPT ![p] = ids]

TakeWindow(p) ==
    /\ At(p, "window")
    /\ Fetch(p, Least(Limit, registry \ consumed), "fetch")
    /\ UNCHANGED <<dbVars, walkVars, got, fetchVars, open, batchVars, txVars,
                   mislaid, faults>>

\* The ranking job fetches ranked fighters the database does not know.
InjectRanked(p) ==
    /\ At(p, "idle")
    /\ Ranked \ stored # {}
    /\ Fetch(p, Ranked \ stored, "inject")
    /\ UNCHANGED <<dbVars, walkVars, got, fetchVars, open, batchVars, txVars,
                   mislaid, faults>>

Fetching(p, i) == pc[p] \in {"fetch", "inject"} /\ i \in todo[p]

\* An answer: a profile or a 404.  After the recovery time the breaker lets a
\* request through, and a profile closes it.
Answer(p, i) ==
    /\ Fetching(p, i)
    /\ todo' = [todo EXCEPT ![p] = @ \ {i}]
    /\ IF i \in Gone
       THEN /\ dead' = [dead EXCEPT ![p] = @ \cup {i}]
            /\ UNCHANGED <<got, open>>
       ELSE /\ got' = [got EXCEPT ![p] = @ \cup {i}]
            /\ open' = [open EXCEPT ![p] = FALSE]
            /\ UNCHANGED dead
    /\ UNCHANGED <<dbVars, pc, walkVars, silent, signals, batchVars, txVars,
                   mislaid, faults>>

\* 429, 5xx, a timeout or a refused connection, to the last retry.
FetchFails(p, i) ==
    /\ Fetching(p, i)
    /\ Fault
    /\ todo' = [todo EXCEPT ![p] = @ \ {i}]
    /\ dead' = [dead EXCEPT ![p] = @ \cup {i}]
    /\ signals' = [signals EXCEPT ![p] = TRUE]
    /\ open' \in {open, [open EXCEPT ![p] = TRUE]}
    /\ UNCHANGED <<dbVars, pc, walkVars, got, silent, batchVars, txVars, mislaid>>

\* A failure no counter counts: the open breaker refuses the request, or the
\* connection is lost while the answer is read (httpx.ReadError).
FetchFailsSilently(p, i) ==
    /\ Fetching(p, i)
    /\ \/ open[p] /\ UNCHANGED faults
       \/ Fault
    /\ todo' = [todo EXCEPT ![p] = @ \ {i}]
    /\ dead' = [dead EXCEPT ![p] = @ \cup {i}]
    /\ silent' = [silent EXCEPT ![p] = @ \cup {i}]
    /\ UNCHANGED <<dbVars, pc, walkVars, got, signals, open, batchVars, txVars,
                   mislaid>>

\* mutant of Healthy: the counters are not compared
HealthyIfClosed(p) == ~ open[p]

Healthy(p) == ~ open[p] /\ ~ signals[p]

\* Dead ends of a healthy fetch; the injection of ranked fighters knows none.
DeadEnds(p) == IF At(p, "fetch") /\ Healthy(p) THEN dead[p] ELSE {}

\* The rows to insert are built: the resolver of the batch looks up, or makes
\* up, the ids of their weight classes.
Enrich(p, new) ==
    /\ todo' = [todo EXCEPT ![p] = new]
    /\ fresh' = [fresh EXCEPT ![p] = ClassesOf(new) \ classes]

\* The window is fetched: its dead ends are marked consumed.
EndFetch(p) ==
    LET ends == DeadEnds(p) IN
    /\ pc[p] \in {"fetch", "inject"}
    /\ todo[p] = {}
    /\ ~ Held(p, ends, marks)
    /\ marks' = [marks EXCEPT ![p] = ends]
    /\ mislaid' = mislaid \cup (ends \cap silent[p])
    /\ IF At(p, "inject") /\ got[p] # {}
       THEN /\ Goto(p, "insert")
            /\ batch' = [batch EXCEPT ![p] = got[p]]
            /\ Enrich(p, (got[p] \ stored) \ Malformed)
            /\ got' = [got EXCEPT ![p] = {}]
       ELSE /\ Goto(p, IF got[p] = {} THEN "commit" ELSE "upsert")
            /\ UNCHANGED <<todo, got, batchVars>>
    /\ dead' = [dead EXCEPT ![p] = {}]
    /\ silent' = [silent EXCEPT ![p] = {}]
    /\ signals' = [signals EXCEPT ![p] = FALSE]
    /\ UNCHANGED <<dbVars, walkVars, open, rows, made, faults>>

------------------------------------------------------------------------------
\* The upsert

\* resolve_bulk: rows to insert are those neither committed nor its own.
TakeBatch(p) ==
    LET b == Least(BatchSize, got[p]) IN
    /\ At(p, "upsert")
    /\ Goto(p, "insert")
    /\ batch' = [batch EXCEPT ![p] = b]
    /\ got' = [got EXCEPT ![p] = @ \ b]
    /\ Enrich(p, b \ (stored \cup rows[p] \cup Malformed))
    /\ UNCHANGED <<dbVars, walkVars, fetchVars, open, txVars, mislaid, faults>>

\* Weight classes the flush of the batch inserts.
NewClasses(p) == fresh[p] \ made[p]

Blocked(p) == Held(p, todo[p], rows) \/ Held(p, NewClasses(p), made)

Conflicts(p) == todo[p] \cap stored # {} \/ NewClasses(p) \cap classes # {}

\* All new rows in one flush.
InsertBatch(p) ==
    /\ At(p, "insert")
    /\ ~ Blocked(p)
    /\ ~ Conflicts(p)
    /\ rows' = [rows EXCEPT ![p] = @ \cup todo[p]]
    /\ made' = [made EXCEPT ![p] = @ \cup fresh[p]]
    /\ todo' = [todo EXCEPT ![p] = {}]
    /\ Goto(p, "mark")
    /\ UNCHANGED <<dbVars, walkVars, got, fetchVars, open, batchVars, marks,
                   mislaid, faults>>

\* session.rollback(): everything since the last commit, not only the row.
Rollback(p) ==
    /\ rows' = [rows EXCEPT ![p] = {}]
    /\ made' = [made EXCEPT ![p] = {}]
    /\ marks' = [marks EXCEPT ![p] = {}]

\* Another process was first with one of the rows: the rows go in one by one.
InsertConflicts(p) ==
    /\ At(p, "insert")
    /\ ~ Blocked(p)
    /\ Conflicts(p)
    /\ Rollback(p)
    /\ Goto(p, "retry")
    /\ UNCHANGED <<dbVars, walkVars, todo, got, fetchVars, open, batchVars,
                   mislaid,
                   faults>>

IsNext(p, i) == i \in todo[p] /\ \A j \in todo[p] : i <= j

Retried(p, i) ==
    /\ At(p, "retry")
    /\ IsNext(p, i)
    /\ ~ Held(p, {i}, rows)
    /\ todo' = [todo EXCEPT ![p] = @ \ {i}]
    /\ Goto(p, IF todo[p] = {i} THEN "mark" ELSE "retry")
    /\ UNCHANGED <<dbVars, walkVars, got, fetchVars, open, batchVars, faults>>

\* The id of the row's weight class is that of a row the rollback dropped.
Dangling(p, i) == ClassOf[i] \cap fresh[p] # {}

\* A row goes in.
RetryRow(p, i) ==
    /\ Retried(p, i)
    /\ i \notin stored /\ ~ Dangling(p, i)
    /\ rows' = [rows EXCEPT ![p] = @ \cup {i}]
    /\ UNCHANGED <<made, marks, mislaid>>

\* A row that meets its twin is updated, one whose weight class is gone is
\* counted as an error: both after a rollback that takes the rows the loop has
\* just inserted along.
RetryFails(p, i) ==
    /\ Retried(p, i)
    /\ i \in stored \/ Dangling(p, i)
    /\ Rollback(p)
    /\ mislaid' = mislaid \cup rows[p] \cup ({i} \ stored)

\* The whole batch is marked, whatever became of each row.
MarkBatch(p) ==
    /\ At(p, "mark")
    /\ ~ Held(p, batch[p], marks)
    /\ marks' = [marks EXCEPT ![p] = @ \cup batch[p]]
    /\ batch' = [batch EXCEPT ![p] = {}]
    /\ fresh' = [fresh EXCEPT ![p] = {}]
    /\ Goto(p, IF got[p] = {} THEN "commit" ELSE "upsert")
    /\ UNCHANGED <<dbVars, walkVars, todo, got, fetchVars, open, rows, made,
                   mislaid,
                   faults>>

\* The token is checked between batches; what came before stays.
CancelJob(p) ==
    /\ At(p, "upsert")
    /\ Fault
    /\ Goto(p, "commit")
    /\ got' = [got EXCEPT ![p] = {}]
    /\ UNCHANGED <<dbVars, walkVars, todo, fetchVars, open, batchVars, txVars,
                   mislaid>>

\* _record_job.  Marked ids that the injection brought in are registered too.
RecordJob(p) ==
    /\ At(p, "commit")
    /\ stored' = stored \cup rows[p]
    /\ classes' = classes \cup made[p]
    /\ registry' = registry \cup marks[p]
    /\ consumed' = consumed \cup marks[p]
    /\ rows' = [rows EXCEPT ![p] = {}]
    /\ made' = [made EXCEPT ![p] = {}]
    /\ marks' = [marks EXCEPT ![p] = {}]
    /\ Goto(p, "idle")
    /\ UNCHANGED <<checkpoint, walkVars, todo, got, fetchVars, open, batchVars,
                   mislaid, faults>>

\* Process p waits for a row that process q holds.
Waits(p, q) ==
    \/ At(p, "insert") /\ (todo[p] \cap rows[q] # {} \/ NewClasses(p) \cap made[q] # {})
    \/ At(p, "retry") /\ \E i \in rows[q] : IsNext(p, i)
    \/ At(p, "mark") /\ batch[p] \cap marks[q] # {}
    \/ At(p, "fetch") /\ todo[p] = {} /\ DeadEnds(p) \cap marks[q] # {}

\* The job of p ends without a record: its transaction is rolled back.
Abort(p) ==
    /\ Goto(p, "idle")
    /\ src' = [src EXCEPT ![p] = 1]
    /\ first' = [first EXCEPT ![p] = 1]
    /\ page' = [page EXCEPT ![p] = 0]
    /\ todo' = [todo EXCEPT ![p] = {}]
    /\ got' = [got EXCEPT ![p] = {}]
    /\ dead' = [dead EXCEPT ![p] = {}]
    /\ silent' = [silent EXCEPT ![p] = {}]
    /\ batch' = [batch EXCEPT ![p] = {}]
    /\ fresh' = [fresh EXCEPT ![p] = {}]
    /\ Rollback(p)
    /\ signals' = [signals EXCEPT ![p] = FALSE]
    /\ UNCHANGED <<dbVars, mislaid>>

\* A statement fails, or the process dies and a new one takes its place.
EndAbruptly(p) ==
    /\ ~ At(p, "idle")
    /\ Fault
    /\ Abort(p)
    /\ open' \in {open, [open EXCEPT ![p] = FALSE]}

\* Transactions that wait for each other: the database ends one.
BreakDeadlock(p) ==
    /\ \E q \in Procs \ {p} : Waits(p, q) /\ Waits(q, p)
    /\ Abort(p)
    /\ UNCHANGED <<open, faults>>


------------------------------------------------------------------------------

Work(p) ==
    \/ StartJob(p)
    \/ SkipSource(p)
    \/ OpenSource(p)
    \/ WalkPage(p)
    \/ EndWalk(p)
    \/ TakeWindow(p)
    \/ \E i \in Ids : Answer(p, i)
    \/ EndFetch(p)
    \/ TakeBatch(p)
    \/ InsertBatch(p)
    \/ InsertConflicts(p)
    \/ \E i \in Ids : RetryRow(p, i) \/ RetryFails(p, i)
    \/ MarkBatch(p)
    \/ RecordJob(p)

Next ==
    \/ \E i \in Late : Arrive(i)
    \/ \E p \in Procs :
           \/ Work(p)
           \/ InjectRanked(p)
           \/ WalkFails(p)
           \/ \E i \in Ids : FetchFails(p, i) \/ FetchFailsSilently(p, i)
           \/ CancelJob(p)
           \/ EndAbruptly(p)
           \/ BreakDeadlock(p)

Spec == Init /\ [][Next]_vars

(***************************************************************************)
(* A process that is running runs on, and the fighter timer starts the next *)
(* job.  The fairness is strong because a step may wait for a row: the      *)
(* database grants a lock in the order it was asked for.                    *)
(***************************************************************************)
FairSpec ==
    Spec /\ \A p \in Procs : SF_vars(Work(p)) /\ WF_vars(BreakDeadlock(p))

------------------------------------------------------------------------------
\* Properties

(***************************************************************************)
(* What a checkpoint says of a walk is in the registry: every page up to    *)
(* the one it names, and all pages once it says completed - whichever       *)
(* process wrote it, and wherever another one was interrupted               *)
(* (_walk_source).                                                          *)
(***************************************************************************)
CheckpointCovers ==
    \A s \in Sources : \A n \in DOMAIN Listing[s] :
        checkpoint[s].done \/ n <= checkpoint[s].page
            => Listing[s][n] \subseteq registry

(***************************************************************************)
(* An id that will never be looked at again was stored, or ESPN does not    *)
(* know it, or no row can be made of it - or it is one of those the code    *)
(* loses: taken for a dead end without an answer, rolled back after its     *)
(* insert, or refused for a weight class that was rolled back               *)
(* (mark_consumed in jobs/fighter.py and jobs/ranking.py).                  *)
(***************************************************************************)
ConsumedAreSettled ==
    consumed \subseteq stored \cup Gone \cup Malformed \cup mislaid

(***************************************************************************)
(* The promise without its exceptions: "only successfully upserted IDs are  *)
(* consumed, and content-dependent 404s" (discovery.py:14-16).              *)
(***************************************************************************)
OnlyStoredAreConsumed == consumed \subseteq stored \cup Gone

(***************************************************************************)
(* The census comes to an end: whatever was interrupted, every listed id    *)
(* is some day consumed, and every registered one too (next_window).        *)
(***************************************************************************)
CensusEnds ==
    /\ \A i \in Listed : <>(i \in consumed)
    /\ \A i \in Ids : i \in registry ~> i \in consumed
==============================================================================
