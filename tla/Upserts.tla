------------------------------- MODULE Upserts ------------------------------
(***************************************************************************)
(* Row level of the upserts: two or more sync processes write competitions *)
(* (bouts) with their weight class and their competitors, through          *)
(* BaseUpsert.upsert_batch (sync/upserts/base.py) and CompetitionUpsert    *)
(* (sync/upserts/competition.py), each in the one transaction of its job.  *)
(* A uuid is the process that drew it: a row is created once.  The events  *)
(* and the fighters are synced; a bout stands for its competitors too.  A  *)
(* weight class and its external id are added together.  An insert waits   *)
(* for a transaction that inserted the same key (Postgres).                *)
(***************************************************************************)
EXTENDS Integers, Sequences

CONSTANTS Workers,   \* the sync processes
          Bouts,     \* external ids of competitions
          Classes,   \* external ids of weight classes
          ClassOf,   \* the weight class named inline by each bout
          Batches,   \* the batches of each process's job, each bout once
          Earlier,   \* the uuid of any row an earlier run committed
          Nobody

VARIABLES bouts,    \* committed competition rows with their external ids
          classes,  \* committed weight classes
          kids,     \* bouts whose competitor rows are committed
          mine,     \* rows each process flushed and did not commit
          stage,    \* where each process is in its job
          batch,    \* the batch it is at
          known,    \* the IdResolver's cache of competitions
          knownWc,  \* its cache of weight classes
          todo,     \* to_insert
          fresh,    \* weight classes added to the session, not flushed yet
          newKids,  \* competitors added to the session, not flushed yet
          lost      \* rows this job counted as errors

committed == <<bouts, classes, kids>>
resolver  == <<known, knownWc>>
adding    == <<todo, fresh, newKids>>
upsVars   == <<committed, mine, stage, batch, resolver, adding, lost>>

NoRows == [bouts |-> {}, classes |-> {}, kids |-> {}]

\* What earlier runs may have left: weight classes, and bouts whose competitors
\* were skipped because their fighters were not synced then.
Init ==
  /\ bouts \in [Bouts -> {Earlier, Nobody}]
  /\ classes \in [Classes -> {Earlier, Nobody}]
  /\ \A b \in Bouts : bouts[b] = Earlier => classes[ClassOf[b]] = Earlier
  /\ kids = {}
  /\ mine = [w \in Workers |-> NoRows]
  /\ stage = [w \in Workers |-> "idle"] /\ batch = [w \in Workers |-> 1]
  /\ known = [w \in Workers |-> [b \in Bouts |-> Nobody]]
  /\ knownWc = [w \in Workers |-> [c \in Classes |-> Nobody]]
  /\ todo = [w \in Workers |-> {}] /\ fresh = [w \in Workers |-> {}]
  /\ newKids = [w \in Workers |-> {}] /\ lost = [w \in Workers |-> {}]

Batch(w) == Batches[w][batch[w]]
InBatch(w, b) == \E i \in DOMAIN Batch(w) : Batch(w)[i] = b

\* What a session reads: the committed rows and its own flushed ones.
BoutSeen(w, b)  == IF b \in mine[w].bouts THEN w ELSE bouts[b]
ClassSeen(w, c) == IF c \in mine[w].classes THEN w ELSE classes[c]

Goto(w, s) == stage' = [stage EXCEPT ![w] = s]

(* A run reaches the job with a new session.                               *)
StartJob(w) ==
  /\ stage[w] = "idle" /\ Goto(w, "resolve")
  /\ batch' = [batch EXCEPT ![w] = 1] /\ lost' = [lost EXCEPT ![w] = {}]
  /\ UNCHANGED <<committed, mine, resolver, adding>>

\* mutant of Resolve: one IdResolver for all batches and runs of a process
ResolveCached(w) ==
  LET Seen(b) == IF known[w][b] # Nobody THEN known[w][b] ELSE BoutSeen(w, b)
      absent  == {b \in Bouts : InBatch(w, b) /\ Seen(b) = Nobody}
      named   == {ClassOf[b] : b \in absent}
      created == {c \in named : ClassSeen(w, c) = Nobody}
  IN  /\ stage[w] = "resolve"
      /\ known' = [known EXCEPT ![w] = [b \in Bouts |->
                     IF InBatch(w, b) THEN Seen(b) ELSE known[w][b]]]
      /\ knownWc' = [knownWc EXCEPT ![w] = [c \in Classes |->
                       IF c \in created THEN w
                       ELSE IF c \in named THEN ClassSeen(w, c) ELSE Nobody]]
      /\ todo' = [todo EXCEPT ![w] = absent] /\ fresh' = [fresh EXCEPT ![w] = created]
      /\ Goto(w, IF absent = {} THEN "children" ELSE "flush")
      /\ UNCHANGED <<committed, mine, batch, newKids, lost>>

(* A new IdResolver resolves the batch in one query.  For each row to be   *)
(* inserted, _ensure_weight_class resolves its class or adds it, and caches*)
(* the uuid in either case.                                                *)
Resolve(w) ==
  LET absent  == {b \in Bouts : InBatch(w, b) /\ BoutSeen(w, b) = Nobody}
      named   == {ClassOf[b] : b \in absent}
      created == {c \in named : ClassSeen(w, c) = Nobody}
  IN  /\ stage[w] = "resolve"
      /\ known' = [known EXCEPT ![w] = [b \in Bouts |->
                     IF InBatch(w, b) THEN BoutSeen(w, b) ELSE Nobody]]
      /\ knownWc' = [knownWc EXCEPT ![w] = [c \in Classes |->
                       IF c \in created THEN w
                       ELSE IF c \in named THEN ClassSeen(w, c) ELSE Nobody]]
      /\ todo' = [todo EXCEPT ![w] = absent] /\ fresh' = [fresh EXCEPT ![w] = created]
      /\ Goto(w, IF absent = {} THEN "children" ELSE "flush")
      /\ UNCHANGED <<committed, mine, batch, newKids, lost>>

\* The row that comes first in the batch.
NextRow(w) ==
  CHOOSE b \in todo[w] : \E i \in DOMAIN Batch(w) :
     Batch(w)[i] = b /\ \A k \in DOMAIN Batch(w) : k < i => Batch(w)[k] \notin todo[w]

\* The rows one flush of the process inserts.
FlushRows(w) ==
  CASE stage[w] = "flush"      -> [bouts |-> todo[w], classes |-> fresh[w], kids |-> {}]
    [] stage[w] = "retry"      -> [bouts |-> {NextRow(w)}, classes |-> {}, kids |-> {}]
    [] stage[w] = "flush kids" -> [bouts |-> {}, classes |-> {},
                                   kids |-> {k[1] : k \in newKids[w]}]
    [] OTHER                   -> NoRows

Collide(r, s) == r.bouts \cap s.bouts # {} \/ r.classes \cap s.classes # {}
                 \/ r.kids \cap s.kids # {}

Holders(w) == {x \in Workers \ {w} : Collide(FlushRows(w), mine[x])}

Duplicate(w) == \/ \E b \in FlushRows(w).bouts : bouts[b] # Nobody
                \/ \E c \in FlushRows(w).classes : classes[c] # Nobody
                \/ FlushRows(w).kids \cap kids # {}

Flushed(w) == [bouts   |-> mine[w].bouts \cup FlushRows(w).bouts,
               classes |-> mine[w].classes \cup FlushRows(w).classes,
               kids    |-> mine[w].kids \cup FlushRows(w).kids]

\* mutant of Rollback: a savepoint that ends with the competition rows
RollbackToBouts(w) == mine' = [mine EXCEPT ![w] = [NoRows EXCEPT !.bouts = @ \cup mine[w].bouts]]

\* session.rollback(): all of the job's uncommitted rows go.
Rollback(w) == mine' = [mine EXCEPT ![w] = NoRows]

(* _bulk_insert flushes; then the external ids are registered.             *)
Flush(w) ==
  /\ stage[w] = "flush" /\ Holders(w) = {} /\ ~Duplicate(w)
  /\ mine' = [mine EXCEPT ![w] = Flushed(w)]
  /\ known' = [known EXCEPT ![w] = [b \in Bouts |->
                 IF b \in todo[w] THEN w ELSE known[w][b]]]
  /\ fresh' = [fresh EXCEPT ![w] = {}] /\ todo' = [todo EXCEPT ![w] = {}]
  /\ Goto(w, "children")
  /\ UNCHANGED <<committed, batch, knownWc, newKids, lost>>

(* IntegrityError: rollback, and the rows one by one.  The caches stay.    *)
FlushConflict(w) ==
  /\ stage[w] = "flush" /\ Holders(w) = {} /\ Duplicate(w)
  /\ Rollback(w)
  /\ fresh' = [fresh EXCEPT ![w] = {}]
  /\ Goto(w, "retry")
  /\ UNCHANGED <<committed, batch, resolver, todo, newKids, lost>>

\* The foreign key of the next row: the cached uuid names a weight class.
ClassExists(w, c) == knownWc[w][c] = ClassSeen(w, c)

Retried(w) ==
  /\ todo' = [todo EXCEPT ![w] = @ \ {NextRow(w)}]
  /\ Goto(w, IF todo'[w] = {} THEN "children" ELSE "retry")

(* _insert_with_race_retry: the row goes in.                               *)
RetryRow(w) ==
  /\ stage[w] = "retry" /\ Holders(w) = {}
  /\ ~Duplicate(w) /\ ClassExists(w, ClassOf[NextRow(w)])
  /\ mine' = [mine EXCEPT ![w] = Flushed(w)]
  /\ known' = [known EXCEPT ![w][NextRow(w)] = w]
  /\ Retried(w)
  /\ UNCHANGED <<committed, batch, knownWc, fresh, newKids, lost>>

(* _insert_with_race_retry: IntegrityError, rollback, and the id is        *)
(* resolved again: the other process's row is updated, and without one the *)
(* row counts as an error.                                                 *)
RetryConflict(w) ==
  LET b == NextRow(w)
  IN  /\ stage[w] = "retry" /\ Holders(w) = {}
      /\ Duplicate(w) \/ ~ClassExists(w, ClassOf[b])
      /\ Rollback(w)
      /\ known' = [known EXCEPT ![w][b] = bouts[b]]
      /\ lost' = IF bouts[b] = Nobody THEN [lost EXCEPT ![w] = @ \cup {b}] ELSE lost
      /\ Retried(w)
      /\ UNCHANGED <<committed, batch, knownWc, fresh, newKids>>

(* CompetitionUpsert.upsert_batch: the competitors of every bout the cache *)
(* resolves, under the cached uuid, unless they exist.                     *)
HasKids(w, b) == known[w][b] = BoutSeen(w, b) /\ b \in kids \cup mine[w].kids

AddChildren(w) ==
  /\ stage[w] = "children"
  /\ newKids' = [newKids EXCEPT ![w] =
       {<<b, known[w][b]>> : b \in {x \in Bouts :
           InBatch(w, x) /\ known[w][x] # Nobody /\ ~HasKids(w, x)}}]
  /\ Goto(w, "flush kids")
  /\ UNCHANGED <<committed, mine, batch, resolver, todo, fresh, lost>>

BatchDone(w) ==
  /\ newKids' = [newKids EXCEPT ![w] = {}]
  /\ IF batch[w] < Len(Batches[w])
     THEN batch' = [batch EXCEPT ![w] = @ + 1] /\ Goto(w, "resolve")
     ELSE UNCHANGED batch /\ Goto(w, "commit")

(* The job's flush at the end of the batch.                                *)
FlushChildren(w) ==
  /\ stage[w] = "flush kids" /\ Holders(w) = {} /\ ~Duplicate(w)
  /\ \A k \in newKids[w] : k[2] = BoutSeen(w, k[1])
  /\ mine' = [mine EXCEPT ![w] = Flushed(w)]
  /\ BatchDone(w)
  /\ UNCHANGED <<committed, resolver, todo, fresh, lost>>

\* The exception leaves the job, whose transaction is gone.
Fail(w) ==
  /\ mine' = [mine EXCEPT ![w] = NoRows]
  /\ todo' = [todo EXCEPT ![w] = {}] /\ fresh' = [fresh EXCEPT ![w] = {}]
  /\ newKids' = [newKids EXCEPT ![w] = {}]
  /\ Goto(w, "idle")
  /\ UNCHANGED <<committed, batch, resolver, lost>>

(* The competitors exist by now, or their competition does not: nothing    *)
(* catches this IntegrityError.                                            *)
ChildrenFail(w) ==
  /\ stage[w] = "flush kids" /\ Holders(w) = {}
  /\ Duplicate(w) \/ \E k \in newKids[w] : k[2] # BoutSeen(w, k[1])
  /\ Fail(w)

(* Two flushes wait for each other: Postgres aborts one of them, which is  *)
(* no IntegrityError.                                                      *)
Deadlocked(w) ==
  /\ \E x \in Holders(w) : Collide(FlushRows(x), mine[w]) \/ Collide(FlushRows(x), FlushRows(w))
  /\ Fail(w)

(* _record_job commits; the next run reads what is there.                  *)
Commit(w) ==
  /\ stage[w] = "commit"
  /\ bouts' = [b \in Bouts |-> IF b \in mine[w].bouts THEN w ELSE bouts[b]]
  /\ classes' = [c \in Classes |-> IF c \in mine[w].classes THEN w ELSE classes[c]]
  /\ kids' = kids \cup mine[w].kids
  /\ mine' = [mine EXCEPT ![w] = NoRows]
  /\ Goto(w, "idle")
  /\ UNCHANGED <<batch, resolver, adding, lost>>

Write(w) == \/ Flush(w) \/ FlushConflict(w) \/ RetryRow(w) \/ RetryConflict(w)
            \/ FlushChildren(w) \/ ChildrenFail(w)

Work(w) == \/ StartJob(w) \/ Resolve(w) \/ Write(w) \/ AddChildren(w)
           \/ Deadlocked(w) \/ Commit(w)

Next == \E w \in Workers : Work(w)

(* Runs follow one another, and a transaction that waits for a lock gets it*)
(* when the holder ends, before the holder's next run comes back for it.   *)
Fairness(w) ==
  /\ WF_upsVars(Work(w))
  /\ \A n \in DOMAIN Batches[w] : SF_upsVars(batch[w] = n /\ Write(w))

Spec == Init /\ [][Next]_upsVars /\ \A w \in Workers : Fairness(w)

----------------------------------------------------------------------------
Rows == [bouts : SUBSET Bouts, classes : SUBSET Classes, kids : SUBSET Bouts]
Uuids == Workers \cup {Earlier, Nobody}

(* The types of the tables, the sessions and the resolvers.                *)
TypeOK ==
  /\ bouts \in [Bouts -> Uuids] /\ classes \in [Classes -> Uuids] /\ kids \subseteq Bouts
  /\ mine \in [Workers -> Rows]
  /\ stage \in [Workers -> {"idle", "resolve", "flush", "retry", "children",
                            "flush kids", "commit"}]
  /\ batch \in [Workers -> Nat] /\ \A w \in Workers : batch[w] \in DOMAIN Batches[w]
  /\ known \in [Workers -> [Bouts -> Uuids]] /\ knownWc \in [Workers -> [Classes -> Uuids]]
  /\ todo \in [Workers -> SUBSET Bouts] /\ fresh \in [Workers -> SUBSET Classes]
  /\ newKids \in [Workers -> SUBSET (Bouts \X (Workers \cup {Earlier}))]
  /\ lost \in [Workers -> SUBSET Bouts]

(* Whatever races, rollbacks and retries a job went through, it commits    *)
(* every new bout together with its weight class and its competitors       *)
(* (competition.py:68-113), and never has rows of two processes under one  *)
(* external id in sight.                                                   *)
BoutsAreComplete ==
  /\ \A b \in Bouts : bouts[b] \in Workers => b \in kids
  /\ \A b \in Bouts : bouts[b] # Nobody => classes[ClassOf[b]] # Nobody
  /\ \A b \in kids : bouts[b] # Nobody
  /\ \A w \in Workers : \A b \in mine[w].bouts : bouts[b] = Nobody

(* Rows lost to a rollback are written by a later run: with every process  *)
(* running its job again and again, the database ends complete for good.   *)
EventuallyStored ==
  <>[](\A w \in Workers : \A n \in DOMAIN Batches[w] :
         \A i \in DOMAIN Batches[w][n] : Batches[w][n][i] \in kids)

(* "Race conditions: IntegrityError on insert -> re-resolve -> update."    *)
(* (base.py:34): a row that lost a race, or whose batch did, is not counted*)
(* as an error.                                                            *)
RaceIsRecovered == \A w \in Workers : lost[w] = {}
=============================================================================
