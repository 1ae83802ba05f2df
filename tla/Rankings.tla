------------------------------ MODULE Rankings ------------------------------
(***************************************************************************)
(* The rankings table: ranking jobs that replace it category by category    *)
(* (src/backend/src/sync/upserts/ranking.py, providers/espn/jobs/ranking.py)*)
(* and the API that groups its rows (src/backend/src/api/v1/other.py).      *)
(*                                                                          *)
(* A job fetches the whole listing and hands it over in batches; a batch    *)
(* deletes and inserts each category it mentions.  Everything of a job      *)
(* happens in one READ COMMITTED transaction: a DELETE finds the rows that  *)
(* are committed when it starts, and waits for a transaction that is        *)
(* deleting one of them.  A row is known by its entry and by the job that   *)
(* inserted it.                                                             *)
(***************************************************************************)
EXTENDS Integers, Sequences, Functions

CONSTANTS
    Jobs,       \* runs of the ranking job; they may overlap
    Listing,    \* what the provider lists to each: a sequence of entries,
                \* records of a category, a fighter and "are they champion?"
    Promoted,   \* categories whose promotion is in the database
    Ranked,     \* fighters in the database
    BatchSize,  \* batch_size of the job
    MaxFaults,  \* bound on failed fetches, failed statements and crashes
    Nothing     \* no DELETE under way

VARIABLES
    rankings,   \* the committed rows
    jobAt,      \* the batch a job is in: 0 before the first, and one past the
                \* last when the job has ended
    left,       \* categories of that batch it has not replaced yet
    seen,       \* the rows its DELETE found, or Nothing
    deleted,    \* committed rows its transaction deleted
    inserted,   \* rows its transaction inserted
    tableFaults

vars == <<rankings, jobAt, left, seen, deleted, inserted, tableFaults>>

Row(e, j)     == [entry |-> e, job |-> j]
Of(rows, c)   == {r \in rows : r.entry.category = c}
Categories    == UNION {{e.category : e \in Range(Listing[j])} : j \in Jobs}
BatchCount(j) == (Len(Listing[j]) + BatchSize - 1) \div BatchSize

\* The entries of a batch, by their places in the listing.
Batch(j, n) ==
    {i \in DOMAIN Listing[j] : i > (n - 1) * BatchSize /\ i <= n * BatchSize}

\* The categories of a batch.
Groups(j, n) == {Listing[j][i].category : i \in Batch(j, n)}

\* That of some categories whose first entry comes first.
FirstGroup(j, n, cs) ==
    CHOOSE c \in cs : \E i \in Batch(j, n) :
        /\ Listing[j][i].category = c
        /\ \A k \in Batch(j, n) : k < i => Listing[j][k].category \notin cs

\* The rows inserted for a category's entries; an unknown fighter has none.
RowsOf(entries, j, c) ==
    {Row(Listing[j][i], j) : i \in {i \in entries :
        Listing[j][i].category = c /\ Listing[j][i].fighter \in Ranked}}

----------------------------------------------------------------------------
Init ==
    /\ rankings = {}
    /\ jobAt = [j \in Jobs |-> 0]
    /\ left = [j \in Jobs |-> {}]
    /\ seen = [j \in Jobs |-> Nothing]
    /\ deleted = [j \in Jobs |-> {}]
    /\ inserted = [j \in Jobs |-> {}]
    /\ tableFaults = 0

Fault == tableFaults < MaxFaults /\ tableFaults' = tableFaults + 1

EnterBatch(j, n) ==
    /\ jobAt' = [jobAt EXCEPT ![j] = n]
    /\ left' = [left EXCEPT ![j] = Groups(j, n)]

End(j) ==
    /\ jobAt' = [jobAt EXCEPT ![j] = BatchCount(j) + 1]
    /\ left' = [left EXCEPT ![j] = {}]
    /\ seen' = [seen EXCEPT ![j] = Nothing]
    /\ deleted' = [deleted EXCEPT ![j] = {}]
    /\ inserted' = [inserted EXCEPT ![j] = {}]

\* The listing arrives, and the first batch begins.
Fetch(j) ==
    /\ jobAt[j] = 0
    /\ EnterBatch(j, 1)
    /\ UNCHANGED <<rankings, seen, deleted, inserted, tableFaults>>

\* A failed fetch answers an empty listing: the job completes with no batch.
FetchNothing(j) ==
    /\ jobAt[j] = 0
    /\ Fault
    /\ End(j)
    /\ UNCHANGED rankings

NextGroup(j) == FirstGroup(j, jobAt[j], left[j])

\* A group whose promotion is not in the database is counted as errors.
SkipGroup(j) ==
    /\ left[j] # {} /\ NextGroup(j) \notin Promoted
    /\ left' = [left EXCEPT ![j] = @ \ {NextGroup(j)}]
    /\ UNCHANGED <<rankings, jobAt, seen, deleted, inserted, tableFaults>>

\* The DELETE of a group starts.
StartDelete(j) ==
    /\ left[j] # {} /\ NextGroup(j) \in Promoted /\ seen[j] = Nothing
    /\ seen' = [seen EXCEPT ![j] = Of(rankings, NextGroup(j)) \ deleted[j]]
    /\ UNCHANGED <<rankings, jobAt, left, deleted, inserted, tableFaults>>

\* It ends, once nobody else holds a row it found, and the batch's rows of the
\* group are inserted.  The rows an earlier batch of the job inserted are
\* flushed: the DELETE removes them too.
Replace(j) ==
    /\ seen[j] # Nothing
    /\ \A i \in Jobs \ {j} : deleted[i] \cap seen[j] = {}
    /\ LET c == NextGroup(j) IN
        /\ deleted' = [deleted EXCEPT ![j] = @ \cup (seen[j] \cap rankings)]
        /\ inserted' = [inserted EXCEPT ![j] =
                            (@ \ Of(@, c)) \cup RowsOf(Batch(j, jobAt[j]), j, c)]
    /\ left' = [left EXCEPT ![j] = @ \ {NextGroup(j)}]
    /\ seen' = [seen EXCEPT ![j] = Nothing]
    /\ UNCHANGED <<rankings, jobAt, tableFaults>>

BetweenBatches(j) == jobAt[j] \in 1..(BatchCount(j) - 1) /\ left[j] = {}

NextBatch(j) ==
    /\ BetweenBatches(j)
    /\ EnterBatch(j, jobAt[j] + 1)
    /\ UNCHANGED <<rankings, seen, deleted, inserted, tableFaults>>

Store(j) == rankings' = (rankings \ deleted[j]) \cup inserted[j]

\* The state of the completed job is saved, which commits the session.
Commit(j) ==
    /\ jobAt[j] = BatchCount(j) /\ left[j] = {}
    /\ Store(j) /\ End(j)
    /\ UNCHANGED tableFaults

\* Cancelled between two batches: the failed state is saved, and the session
\* the job shares with the state store commits the batches that ran.
Cancel(j) ==
    /\ BetweenBatches(j)
    /\ Fault
    /\ Store(j) /\ End(j)

Running(j) == jobAt[j] \in 1..BatchCount(j)

\* Mutant: the DELETEs are committed on their own.
AbortAfterDelete(j) ==
    /\ Running(j) /\ Fault
    /\ End(j)
    /\ rankings' = rankings \ deleted[j]

\* A statement fails or the process dies: the transaction is rolled back.
Abort(j) ==
    /\ Running(j) /\ Fault
    /\ End(j)
    /\ UNCHANGED rankings

Next ==
    \E j \in Jobs :
        \/ Fetch(j) \/ FetchNothing(j) \/ SkipGroup(j) \/ StartDelete(j)
        \/ Replace(j) \/ NextBatch(j) \/ Commit(j) \/ Cancel(j) \/ Abort(j)

Spec == Init /\ [][Next]_vars

----------------------------------------------------------------------------
\* The API's answer for a category: its first champion, and the other rows.
Shown(rows, c) ==
    LET champions == {r \in Of(rows, c) : r.entry.champion} IN
    (Of(rows, c) \ champions)
        \cup (IF champions = {} THEN {} ELSE {CHOOSE r \in champions : TRUE})

TypeOK ==
    /\ \A j \in Jobs :
        /\ jobAt[j] \in 0..(BatchCount(j) + 1)
        /\ left[j] \subseteq Categories
        /\ deleted[j] \subseteq rankings
        /\ \A r \in inserted[j] : r.job = j /\ r \notin rankings
    /\ \A r \in rankings : r.job \in Jobs /\ r.entry \in Range(Listing[r.job])
    /\ tableFaults \in 0..MaxFaults

\* Batch n is the last one of job j so far that lists something in category c.
IsLastFor(j, c, n) ==
    /\ c \in Groups(j, n)
    /\ \A k \in 1..jobAt[j] : k > n => c \notin Groups(j, k)

\* "No data loss": whatever fails, is cancelled or runs beside it, the committed
\* rows of a category only change when a job ends that replaced it, and what the
\* category then holds of this job is each row that the last of its batches with
\* that category makes, and no other.  No reader finds a DELETE without its
\* INSERTs or half of a batch's rows, and a job that fails changes nothing.  A
\* reader may find a category empty: when the database knows none of the fighters
\* this batch lists for it (CategoriesStayFilled says otherwise, and is wrong).
NoDataLoss ==
    [][\A c \in Categories :
          Of(rankings', c) # Of(rankings, c) =>
             \E j \in Jobs :
                /\ Running(j) /\ ~Running(j)'
                /\ \E n \in 1..jobAt[j] :
                     /\ IsLastFor(j, c, n)
                     /\ {r \in Of(rankings', c) : r.job = j} = RowsOf(Batch(j, n), j, c)]_vars

\* "If step 2 fails, the DELETE is rolled back - rankings preserved": nothing
\* takes a category's last rows without putting others in their place.  It does
\* where the inserts of a batch have no fighter to name: they are passed over,
\* and the DELETE stays.
CategoriesStayFilled ==
    [][\A c \in Categories : Of(rankings, c) # {} => Of(rankings', c) # {}]_vars

\* "Old rankings for a given (promotion, category) are deleted, then new
\* rankings are inserted": a job that ran to its end has stored its listing.
CategoriesAreWhole ==
    [][\A j \in Jobs : Commit(j) =>
          \A c \in Promoted :
             {r \in Of(rankings', c) : r.job = j} = RowsOf(DOMAIN Listing[j], j, c)]_vars

\* The unique constraint the upsert counts on would keep a fighter's rows of
\* a category apart; the table has none, and two jobs that overlap add both.
OneRowPerFighter ==
    \A r, s \in rankings :
        r.entry.category = s.entry.category /\ r.entry.fighter = s.entry.fighter => r = s

\* "All UFC rankings": every row of a category is in the answer.
EveryRowIsShown == \A c \in Categories : Shown(rankings, c) = Of(rankings, c)
=============================================================================
