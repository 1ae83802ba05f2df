--------------------------- MODULE Discovery_proofs ---------------------------
(***************************************************************************)
(* The census for any number of processes, sources, pages and ids.  Two     *)
(* inductive invariants on top of the types: one follows the walkers, the   *)
(* other a profile from its fetch to the mark of its id.                    *)
(***************************************************************************)
EXTENDS Discovery, TLAPS

LEMMA Shape ==
    /\ Sources = 1 .. Len(Listing)
    /\ Len(Listing) \in Nat
    /\ \A s \in Sources :
           Len(Listing[s]) \in Nat /\ DOMAIN Listing[s] = 1 .. Len(Listing[s])
  BY DiscoveryAssumption DEF Sources

LEMMA PagesHoldIds ==
    ASSUME NEW s \in Sources, NEW n \in Nat \ {0}, n <= Len(Listing[s])
    PROVE  n \in DOMAIN Listing[s] /\ Listing[s][n] \subseteq Ids
  BY DiscoveryAssumption DEF Sources

LEMMA NextSourceTypes ==
    ASSUME TypeOK, NEW p \in Procs, NextSource(p)
    PROVE  /\ src' \in [Procs -> Sources]
           /\ pc' \in [Procs -> {"idle", "source", "walk", "window", "fetch", "inject",
                         "upsert", "insert", "retry", "mark", "commit"}]
<1>1. (IF src[p] < Len(Listing) THEN src[p] + 1 ELSE 1) \in Sources
  <2>1. src[p] \in Sources
    BY DEF TypeOK
  <2>2. Sources = 1 .. Len(Listing) /\ Len(Listing) \in Nat
    BY Shape
  <2> QED
    BY <2>1, <2>2
<1> QED
  BY <1>1 DEF NextSource, Goto, TypeOK

LEMMA SavedCheckpoint ==
    ASSUME NEW s \in Sources, NEW n \in Nat, NEW d \in BOOLEAN, NEW c,
           checkpoint \in [Sources -> [page : Nat, done : BOOLEAN]],
           c = [checkpoint EXCEPT ![s] = [page |-> n, done |-> d]]
    PROVE  c \in [Sources -> [page : Nat, done : BOOLEAN]]
<1>1. [page |-> n, done |-> d] \in [page : Nat, done : BOOLEAN]
  BY Zenon
<1> QED
  BY <1>1, Zenon

LEMMA SetFlag ==
    ASSUME NEW f \in [Procs -> BOOLEAN], NEW p \in Procs, NEW b \in BOOLEAN
    PROVE  [f EXCEPT ![p] = b] \in [Procs -> BOOLEAN]
  BY Zenon

LEMMA ClassesHold ==
    ASSUME NEW S, S \subseteq Ids
    PROVE  ClassesOf(S) \subseteq ClassesOf(Ids)
  BY DEF ClassesOf

\* The rows in hand and the classes the resolver made up for them.
LEMMA EnrichTypes ==
    ASSUME TypeOK, NEW p \in Procs, NEW new \in SUBSET Ids, Enrich(p, new)
    PROVE  /\ todo' \in [Procs -> SUBSET Ids]
           /\ fresh' \in [Procs -> SUBSET ClassesOf(Ids)]
<1>1. ClassesOf(new) \ classes \in SUBSET ClassesOf(Ids)
  BY ClassesHold
<1> HIDE DEF ClassesOf
<1> QED
  BY <1>1 DEF Enrich, TypeOK

LEMMA RollbackTypes ==
    ASSUME TypeOK, NEW p \in Procs, Rollback(p)
    PROVE  /\ rows' \in [Procs -> SUBSET Ids]
           /\ made' \in [Procs -> SUBSET ClassesOf(Ids)]
           /\ marks' \in [Procs -> SUBSET Ids]
  BY DEF Rollback, TypeOK

LEMMA InitTypes == Init => TypeOK
<1> SUFFICES ASSUME Init PROVE TypeOK
  OBVIOUS
<1>1. 1 \in Sources
  BY Shape, DiscoveryAssumption
<1>2. checkpoint \in [Sources -> [page : Nat, done : BOOLEAN]]
  BY DEF Init
<1> QED
  BY <1>1, <1>2, DiscoveryAssumption DEF Init, TypeOK

LEMMA StepKeepsTypes == TypeOK /\ [Next]_vars => TypeOK'
<1> SUFFICES ASSUME TypeOK, [Next]_vars PROVE TypeOK'
  OBVIOUS
<1>1. CASE UNCHANGED vars
  BY <1>1 DEF vars, TypeOK, Goto, At, Sources, dbVars, walkVars, fetchVars, batchVars, txVars
<1>2. ASSUME NEW i \in Late, Arrive(i) PROVE TypeOK'
  BY <1>2, DiscoveryAssumption DEF Arrive, TypeOK, Goto, At, Sources, dbVars,
     walkVars, fetchVars, batchVars, txVars
<1>3. ASSUME NEW p \in Procs, StartJob(p) PROVE TypeOK'
  <2>1. src' \in [Procs -> Sources]
    BY <1>3, Shape, DiscoveryAssumption DEF StartJob, TypeOK
  <2> QED
    BY <1>3, <2>1 DEF StartJob, Goto, TypeOK, dbVars, fetchVars, batchVars, txVars
<1>4. ASSUME NEW p \in Procs, SkipSource(p) PROVE TypeOK'
  <2>1. src' \in [Procs -> Sources]
    BY <1>4, NextSourceTypes DEF SkipSource, At
  <2>2. pc' \in [Procs -> {"idle", "source", "walk", "window", "fetch", "inject",
                           "upsert", "insert", "retry", "mark", "commit"}]
    BY <1>4, NextSourceTypes DEF SkipSource, At
  <2> QED
    BY <1>4, <2>1, <2>2 DEF SkipSource, TypeOK, dbVars, fetchVars, batchVars, txVars
<1>5. ASSUME NEW p \in Procs, OpenSource(p) PROVE TypeOK'
  <2>1. ResumeAt(src[p]) \in Nat /\ ResumeAt(src[p]) + 1 \in Nat
    BY DEF ResumeAt, TypeOK
  <2> QED
    BY <1>5, <2>1 DEF OpenSource, Goto, TypeOK, dbVars, fetchVars, batchVars, txVars
<1>6. ASSUME NEW p \in Procs, WalkPage(p) PROVE TypeOK'
  <2>1. src[p] \in Sources /\ page[p] + 1 \in Nat \ {0}
    BY DEF TypeOK
  <2>2. Listing[src[p]][page[p] + 1] \subseteq Ids
    BY <1>6, <2>1, PagesHoldIds DEF WalkPage
  <2>3. checkpoint' \in [Sources -> [page : Nat, done : BOOLEAN]]
    BY <1>6, <2>1, SavedCheckpoint, TRUE \in BOOLEAN,
       FALSE \in BOOLEAN DEF WalkPage, TypeOK
  <2> QED
    BY <1>6, <2>1, <2>2, <2>3 DEF WalkPage, TypeOK, fetchVars, batchVars, txVars
<1>7. ASSUME NEW p \in Procs, EndWalk(p) PROVE TypeOK'
  <2>1. src[p] \in Sources /\ first[p] \in Nat /\ page[p] \in Nat
    BY DEF TypeOK
  <2>2. checkpoint' \in [Sources -> [page : Nat, done : BOOLEAN]]
    BY <1>7, <2>1, SavedCheckpoint, TRUE \in BOOLEAN DEF EndWalk, TypeOK
  <2>3. src' \in [Procs -> Sources]
    BY <1>7, NextSourceTypes DEF EndWalk, At
  <2>4. pc' \in [Procs -> {"idle", "source", "walk", "window", "fetch", "inject",
                           "upsert", "insert", "retry", "mark", "commit"}]
    BY <1>7, NextSourceTypes DEF EndWalk, At
  <2> QED
    BY <1>7, <2>2, <2>3, <2>4 DEF EndWalk, TypeOK, fetchVars, batchVars, txVars
<1>8. ASSUME NEW p \in Procs, TakeWindow(p) PROVE TypeOK'
  BY <1>8, DiscoveryAssumption DEF TakeWindow, Fetch, Least, TypeOK, Goto, At,
     Sources, dbVars, walkVars, fetchVars, batchVars, txVars
<1>9. ASSUME NEW p \in Procs, NEW i \in Ids, Answer(p, i) PROVE TypeOK'
  <2>1. open' \in [Procs -> BOOLEAN]
    <3>1. open' = open \/ open' = [open EXCEPT ![p] = FALSE]
      BY <1>9, Zenon DEF Answer
    <3> QED
      BY <3>1, SetFlag, Zenon DEF TypeOK
  <2>2. dead' \in [Procs -> SUBSET Ids] /\ got' \in [Procs -> SUBSET Ids]
    <3>1. dead \in [Procs -> SUBSET Ids] /\ got \in [Procs -> SUBSET Ids]
      BY DEF TypeOK
    <3>2. CASE i \in Gone
      BY <1>9, <3>1, <3>2 DEF Answer
    <3>3. CASE i \notin Gone
      BY <1>9, <3>1, <3>3 DEF Answer
    <3> QED
      BY <3>2, <3>3
  <2> QED
    BY <1>9, <2>1, <2>2 DEF Answer, TypeOK, dbVars, walkVars, batchVars, txVars
<1>10. ASSUME NEW p \in Procs, EndFetch(p) PROVE TypeOK'
  <2>1. DeadEnds(p) \subseteq Ids
    BY DEF DeadEnds, TypeOK
  <2>2. marks' \in [Procs -> SUBSET Ids]
    BY <1>10, <2>1 DEF EndFetch, TypeOK
  <2>3. mislaid' \subseteq Ids
    BY <1>10, <2>1 DEF EndFetch, TypeOK
  <2>4. pc' \in [Procs -> {"idle", "source", "walk", "window", "fetch", "inject",
                           "upsert", "insert", "retry", "mark", "commit"}]
    <3>1. \/ pc' = [pc EXCEPT ![p] = "insert"]
          \/ pc' = [pc EXCEPT ![p] = "commit"]
          \/ pc' = [pc EXCEPT ![p] = "upsert"]
      BY <1>10 DEF EndFetch, Goto
    <3> QED
      BY <3>1 DEF TypeOK
  <2>5. /\ todo' \in [Procs -> SUBSET Ids]
        /\ fresh' \in [Procs -> SUBSET ClassesOf(Ids)]
    <3>1. (got[p] \ stored) \ Malformed \in SUBSET Ids
      BY DEF TypeOK
    <3>2. \/ Enrich(p, (got[p] \ stored) \ Malformed)
          \/ todo' = todo /\ fresh' = fresh
      BY <1>10 DEF EndFetch, batchVars
    <3> QED
      BY <3>1, <3>2, EnrichTypes DEF TypeOK
  <2>6. got' \in [Procs -> SUBSET Ids] /\ batch' \in [Procs -> SUBSET Ids]
    <3>1. got \in [Procs -> SUBSET Ids] /\ batch \in [Procs -> SUBSET Ids]
      BY DEF TypeOK
    <3>2. CASE At(p, "inject") /\ got[p] # {}
      BY <1>10, <3>1, <3>2 DEF EndFetch
    <3>3. CASE ~ (At(p, "inject") /\ got[p] # {})
      BY <1>10, <3>1, <3>3 DEF EndFetch, batchVars
    <3> QED
      BY <3>2, <3>3
  <2>7. signals' \in [Procs -> BOOLEAN]
    BY <1>10, SetFlag, Zenon DEF EndFetch, TypeOK
  <2>8. dead' \in [Procs -> SUBSET Ids] /\ silent' \in [Procs -> SUBSET Ids]
    BY <1>10 DEF EndFetch, TypeOK
  <2> QED
    BY <1>10, <2>2, <2>3, <2>4, <2>5, <2>6, <2>7, <2>8 DEF EndFetch, TypeOK,
       dbVars, walkVars
<1>11. ASSUME NEW p \in Procs, TakeBatch(p) PROVE TypeOK'
  <2> DEFINE b == Least(BatchSize, got[p])
             new == b \ (stored \cup rows[p] \cup Malformed)
  <2>1. b \in SUBSET Ids
    BY DEF Least, TypeOK
  <2>2. Enrich(p, new) /\ batch' = [batch EXCEPT ![p] = b]
    BY <1>11 DEF TakeBatch
  <2>3. todo' \in [Procs -> SUBSET Ids] /\ fresh' \in [Procs -> SUBSET ClassesOf(Ids)]
    BY <2>1, <2>2, EnrichTypes
  <2>4. batch' \in [Procs -> SUBSET Ids]
    BY <2>1, <2>2 DEF TypeOK
  <2>5. got' \in [Procs -> SUBSET Ids]
    BY <1>11 DEF TakeBatch, TypeOK
  <2>6. pc' \in [Procs -> {"idle", "source", "walk", "window", "fetch", "inject",
                           "upsert", "insert", "retry", "mark", "commit"}]
    BY <1>11 DEF TakeBatch, Goto, TypeOK
  <2> QED
    BY <1>11, <2>3, <2>4, <2>5, <2>6 DEF TakeBatch, TypeOK, dbVars, walkVars,
       fetchVars, txVars
<1>12. ASSUME NEW p \in Procs, InsertBatch(p) PROVE TypeOK'
  BY <1>12 DEF InsertBatch, TypeOK, Goto, dbVars, walkVars, fetchVars, batchVars
<1>13. ASSUME NEW p \in Procs, InsertConflicts(p) PROVE TypeOK'
  <2>1. /\ rows' \in [Procs -> SUBSET Ids]
        /\ made' \in [Procs -> SUBSET ClassesOf(Ids)]
        /\ marks' \in [Procs -> SUBSET Ids]
    BY <1>13, RollbackTypes DEF InsertConflicts
  <2> QED
    BY <1>13, <2>1 DEF InsertConflicts, Goto, TypeOK, dbVars, walkVars, fetchVars,
       batchVars
<1>14. ASSUME NEW p \in Procs, NEW i \in Ids, RetryRow(p, i) PROVE TypeOK'
  BY <1>14 DEF RetryRow, Retried, Goto, TypeOK, dbVars, walkVars, fetchVars,
     batchVars
<1>24. ASSUME NEW p \in Procs, NEW i \in Ids, RetryFails(p, i) PROVE TypeOK'
  <2>1. /\ rows' \in [Procs -> SUBSET Ids]
        /\ made' \in [Procs -> SUBSET ClassesOf(Ids)]
        /\ marks' \in [Procs -> SUBSET Ids]
    BY <1>24, RollbackTypes DEF RetryFails
  <2>2. mislaid' \subseteq Ids
    BY <1>24 DEF RetryFails, TypeOK
  <2> QED
    BY <1>24, <2>1, <2>2 DEF RetryFails, Retried, Goto, TypeOK, dbVars, walkVars,
       fetchVars, batchVars
<1>15. ASSUME NEW p \in Procs, MarkBatch(p) PROVE TypeOK'
  BY <1>15, DiscoveryAssumption DEF MarkBatch, TypeOK, Goto, At, Sources,
     dbVars, walkVars, fetchVars, batchVars, txVars
<1>16. ASSUME NEW p \in Procs, RecordJob(p) PROVE TypeOK'
  BY <1>16, DiscoveryAssumption DEF RecordJob, TypeOK, Goto, At, Sources,
     dbVars, walkVars, fetchVars, batchVars, txVars
<1>17. ASSUME NEW p \in Procs, InjectRanked(p) PROVE TypeOK'
  BY <1>17, DiscoveryAssumption DEF InjectRanked, Fetch, TypeOK, Goto, At,
     Sources, dbVars, walkVars, fetchVars, batchVars, txVars
<1>18. ASSUME NEW p \in Procs, WalkFails(p) PROVE TypeOK'
  <2>1. open' \in [Procs -> BOOLEAN]
    <3>1. open' = open \/ open' = [open EXCEPT ![p] = TRUE]
      BY <1>18, Zenon DEF WalkFails
    <3> QED
      BY <3>1, SetFlag, Zenon DEF TypeOK
  <2>2. faults' \in 0 .. MaxFaults
    BY <1>18, DiscoveryAssumption DEF WalkFails, Fault, TypeOK
  <2>3. src' \in [Procs -> Sources]
    BY <1>18, NextSourceTypes DEF WalkFails, At
  <2>4. pc' \in [Procs -> {"idle", "source", "walk", "window", "fetch", "inject",
                           "upsert", "insert", "retry", "mark", "commit"}]
    BY <1>18, NextSourceTypes DEF WalkFails, At
  <2> QED
    BY <1>18, <2>1, <2>2, <2>3, <2>4 DEF WalkFails, TypeOK, dbVars, fetchVars,
       batchVars, txVars
<1>19. ASSUME NEW p \in Procs, NEW i \in Ids, FetchFails(p, i) PROVE TypeOK'
  <2>1. open' \in [Procs -> BOOLEAN]
    <3>1. open' = open \/ open' = [open EXCEPT ![p] = TRUE]
      BY <1>19, Zenon DEF FetchFails
    <3> QED
      BY <3>1, SetFlag, Zenon DEF TypeOK
  <2>2. signals' \in [Procs -> BOOLEAN]
    BY <1>19, SetFlag, Zenon DEF FetchFails, TypeOK
  <2>3. faults' \in 0 .. MaxFaults
    BY <1>19, DiscoveryAssumption DEF FetchFails, Fault, TypeOK
  <2> QED
    BY <1>19, <2>1, <2>2, <2>3 DEF FetchFails, TypeOK, dbVars, walkVars, batchVars, txVars
<1>20. ASSUME NEW p \in Procs, NEW i \in Ids, FetchFailsSilently(p, i) PROVE TypeOK'
  <2>1. faults' \in 0 .. MaxFaults
    BY <1>20, DiscoveryAssumption DEF FetchFailsSilently, Fault, TypeOK
  <2>2. dead' \in [Procs -> SUBSET Ids] /\ silent' \in [Procs -> SUBSET Ids]
    BY <1>20 DEF FetchFailsSilently, TypeOK
  <2> QED
    BY <1>20, <2>1, <2>2 DEF FetchFailsSilently, TypeOK, dbVars, walkVars, batchVars, txVars
<1>21. ASSUME NEW p \in Procs, CancelJob(p) PROVE TypeOK'
  <2>1. faults' \in 0 .. MaxFaults
    BY <1>21, DiscoveryAssumption DEF CancelJob, Fault, TypeOK
  <2> QED
    BY <1>21, <2>1 DEF CancelJob, Goto, TypeOK, dbVars, walkVars, fetchVars,
       batchVars, txVars
<1>22. ASSUME NEW p \in Procs, EndAbruptly(p) PROVE TypeOK'
  <2>1. open' \in [Procs -> BOOLEAN]
    <3>1. open' = open \/ open' = [open EXCEPT ![p] = FALSE]
      BY <1>22, Zenon DEF EndAbruptly
    <3> QED
      BY <3>1, SetFlag, Zenon DEF TypeOK
  <2>2. signals' \in [Procs -> BOOLEAN]
    BY <1>22, SetFlag, Zenon DEF EndAbruptly, Abort, TypeOK
  <2>3. faults' \in 0 .. MaxFaults
    BY <1>22, DiscoveryAssumption DEF EndAbruptly, Fault, TypeOK
  <2>4. src' \in [Procs -> Sources]
    BY <1>22, Shape, DiscoveryAssumption DEF EndAbruptly, Abort, TypeOK
  <2> QED
    BY <1>22, <2>1, <2>2, <2>3, <2>4 DEF EndAbruptly, Abort, Rollback, Goto, TypeOK, dbVars
<1>23. ASSUME NEW p \in Procs, BreakDeadlock(p) PROVE TypeOK'
  <2>1. src' \in [Procs -> Sources]
    BY <1>23, Shape, DiscoveryAssumption DEF BreakDeadlock, Abort, TypeOK
  <2>2. signals' \in [Procs -> BOOLEAN]
    BY <1>23, SetFlag, Zenon DEF BreakDeadlock, Abort, TypeOK
  <2> QED
    BY <1>23, <2>1, <2>2 DEF BreakDeadlock, Abort, Rollback, Goto, TypeOK, dbVars
<1> QED
  BY <1>1, <1>2, <1>3, <1>4, <1>5, <1>6, <1>7, <1>8, <1>9, <1>10, <1>11, <1>12,
     <1>13, <1>14, <1>15, <1>16, <1>17, <1>18, <1>19, <1>20, <1>21, <1>22,
     <1>23, <1>24 DEF Next, Work

(***************************************************************************)
(* The state keeps its types.                                              *)
(***************************************************************************)
THEOREM TypeCorrect == Spec => []TypeOK
  BY InitTypes, StepKeepsTypes, PTL DEF Spec

------------------------------------------------------------------------------
(* The walk.                                                               *)

Registered(s, n) ==
    \A k \in DOMAIN Listing[s] : k <= n => Listing[s][k] \subseteq registry

WalkersCover == \A p \in Procs : pc[p] = "walk" => Registered(src[p], page[p])

WalkInv == TypeOK /\ CheckpointCovers /\ WalkersCover

\* A step that leaves the walks alone, or ends one.
LEMMA StepsAside ==
    ASSUME WalkInv, registry \subseteq registry', checkpoint' = checkpoint,
           \A q \in Procs : pc'[q] = "walk" =>
               pc[q] = "walk" /\ src'[q] = src[q] /\ page'[q] = page[q]
    PROVE  CheckpointCovers' /\ WalkersCover'
<1>1. CheckpointCovers'
  BY DEF WalkInv, CheckpointCovers
<1>2. WalkersCover'
  BY DEF WalkInv, WalkersCover, Registered
<1> QED
  BY <1>1, <1>2

LEMMA InitWalk == Init => WalkInv
<1> SUFFICES ASSUME Init PROVE WalkInv
  OBVIOUS
<1>1. CheckpointCovers
  BY Shape DEF Init, CheckpointCovers
<1>2. WalkersCover
  BY DEF Init, WalkersCover
<1> QED
  BY <1>1, <1>2, InitTypes DEF WalkInv

LEMMA StepKeepsWalk == WalkInv /\ [Next]_vars => CheckpointCovers' /\ WalkersCover'
<1> SUFFICES ASSUME WalkInv, [Next]_vars PROVE CheckpointCovers' /\ WalkersCover'
  OBVIOUS
<1> USE DEF WalkInv
<1>1. CASE UNCHANGED vars
  BY <1>1, StepsAside DEF vars, dbVars, walkVars
<1>2. ASSUME NEW i \in Late, Arrive(i) PROVE CheckpointCovers' /\ WalkersCover'
  BY <1>2, StepsAside DEF Arrive, walkVars
<1>3. ASSUME NEW p \in Procs, StartJob(p) PROVE CheckpointCovers' /\ WalkersCover'
  <2>1. \A q \in Procs : pc'[q] = "walk" =>
            pc[q] = "walk" /\ src'[q] = src[q] /\ page'[q] = page[q]
    BY <1>3 DEF StartJob, TypeOK, At, Goto, walkVars
  <2>2. registry \subseteq registry' /\ checkpoint' = checkpoint
    BY <1>3 DEF StartJob, dbVars
  <2> QED
    BY <2>1, <2>2, StepsAside
<1>4. ASSUME NEW p \in Procs, SkipSource(p) PROVE CheckpointCovers' /\ WalkersCover'
  <2>1. \A q \in Procs : pc'[q] = "walk" =>
            pc[q] = "walk" /\ src'[q] = src[q] /\ page'[q] = page[q]
    BY <1>4 DEF SkipSource, NextSource, TypeOK, At, Goto, walkVars
  <2>2. registry \subseteq registry' /\ checkpoint' = checkpoint
    BY <1>4 DEF SkipSource, NextSource, dbVars
  <2> QED
    BY <2>1, <2>2, StepsAside
<1>5. ASSUME NEW p \in Procs, OpenSource(p) PROVE CheckpointCovers' /\ WalkersCover'
  <2>1. CheckpointCovers'
    BY <1>5 DEF OpenSource, CheckpointCovers, dbVars
  <2>2. ASSUME NEW q \in Procs, pc'[q] = "walk" PROVE Registered(src[q], page[q])'
    <3>1. src'[q] = src[q] /\ src[q] \in Sources
      BY <1>5 DEF OpenSource, TypeOK
    <3>2. CASE q = p
      BY <1>5, <3>1, <3>2 DEF OpenSource, ResumeAt, CheckpointCovers,
         Registered, TypeOK, dbVars
    <3>3. CASE q # p
      BY <1>5, <2>2, <3>1, <3>3 DEF OpenSource, WalkersCover, Registered,
         TypeOK, Goto, dbVars
    <3> QED
      BY <3>2, <3>3
  <2> QED
    BY <1>5, <2>1, <2>2 DEF WalkersCover, OpenSource
<1>6. ASSUME NEW p \in Procs, WalkPage(p) PROVE CheckpointCovers' /\ WalkersCover'
  <2> DEFINE s == src[p]
             n == page[p] + 1
  <2>1. s \in Sources /\ page[p] \in Nat /\ n \in Nat
    BY DEF TypeOK
  <2>2. registry' = registry \cup Listing[s][n]
    BY <1>6 DEF WalkPage
  <2>3. checkpoint' = [checkpoint EXCEPT ![s] = [page |-> n, done |-> FALSE]]
    BY <1>6 DEF WalkPage
  <2>4. \A k \in DOMAIN Listing[s] : k <= n => Listing[s][k] \subseteq registry'
    <3>1. Registered(s, page[p])
      BY <1>6 DEF WalkPage, WalkersCover, At
    <3>2. \A k \in DOMAIN Listing[s] : k <= n => k <= page[p] \/ k = n
      BY <2>1, Shape
    <3> QED
      BY <2>2, <3>1, <3>2 DEF Registered
  <2>5. CheckpointCovers'
    <3>1. ASSUME NEW t \in Sources, NEW k \in DOMAIN Listing[t],
                 checkpoint'[t].done \/ k <= checkpoint'[t].page
          PROVE  Listing[t][k] \subseteq registry'
      <4>1. CASE t = s
        <5>1. checkpoint'[t].done = FALSE /\ checkpoint'[t].page = n
          BY <2>1, <2>3, <4>1 DEF TypeOK
        <5> QED
          BY <2>4, <3>1, <4>1, <5>1 DEF Registered
      <4>2. CASE t # s
        <5>1. checkpoint'[t] = checkpoint[t]
          BY <2>1, <2>3, <4>2 DEF TypeOK
        <5> QED
          BY <2>2, <3>1, <5>1 DEF CheckpointCovers
      <4> QED
        BY <4>1, <4>2
    <3> QED
      BY <3>1 DEF CheckpointCovers
  <2>6. WalkersCover'
    <3>1. ASSUME NEW q \in Procs, pc'[q] = "walk" PROVE Registered(src[q], page[q])'
      <4>1. CASE q = p
        <5>1. src'[q] = s /\ page'[q] = n
          BY <1>6, <2>1, <4>1 DEF WalkPage, TypeOK
        <5> QED
          BY <2>4, <5>1 DEF Registered
      <4>2. CASE q # p
        BY <1>6, <2>1, <2>2, <3>1, <4>2 DEF WalkPage, WalkersCover, Registered,
           TypeOK
      <4> QED
        BY <4>1, <4>2
    <3> QED
      BY <1>6, <3>1 DEF WalkersCover, WalkPage
  <2> QED
    BY <2>5, <2>6
<1>7. ASSUME NEW p \in Procs, EndWalk(p) PROVE CheckpointCovers' /\ WalkersCover'
  <2> DEFINE s == src[p]
  <2>1. s \in Sources /\ page[p] \in Nat /\ first[p] \in Nat
    BY DEF TypeOK
  <2>2. PICK n \in Nat : checkpoint' = [checkpoint EXCEPT ![s] = [page |-> n, done |-> TRUE]]
    BY <1>7, <2>1 DEF EndWalk
  <2>3. \A k \in DOMAIN Listing[s] : Listing[s][k] \subseteq registry
    <3>1. Registered(s, page[p]) /\ page[p] >= Len(Listing[s])
      BY <1>7 DEF EndWalk, WalkersCover, At
    <3>2. \A k \in DOMAIN Listing[s] : k <= page[p]
      BY <2>1, <3>1, Shape
    <3> QED
      BY <3>1, <3>2 DEF Registered
  <2>4. CheckpointCovers'
    <3>1. ASSUME NEW t \in Sources, t # s PROVE checkpoint'[t] = checkpoint[t]
      BY <2>1, <2>2, <3>1 DEF TypeOK
    <3> QED
      BY <1>7, <2>3, <3>1 DEF EndWalk, CheckpointCovers
  <2>5. WalkersCover'
    BY <1>7 DEF EndWalk, NextSource, WalkersCover, Registered, Goto, TypeOK
  <2> QED
    BY <2>4, <2>5
<1>8. ASSUME NEW p \in Procs, TakeWindow(p) PROVE CheckpointCovers' /\ WalkersCover'
  <2>1. \A q \in Procs : pc'[q] = "walk" =>
            pc[q] = "walk" /\ src'[q] = src[q] /\ page'[q] = page[q]
    BY <1>8 DEF TakeWindow, Fetch, TypeOK, At, Goto, walkVars
  <2>2. registry \subseteq registry' /\ checkpoint' = checkpoint
    BY <1>8 DEF TakeWindow, Fetch, dbVars
  <2> QED
    BY <2>1, <2>2, StepsAside
<1>9. ASSUME NEW p \in Procs, NEW i \in Ids, Answer(p, i) PROVE CheckpointCovers' /\ WalkersCover'
  <2>1. \A q \in Procs : pc'[q] = "walk" =>
            pc[q] = "walk" /\ src'[q] = src[q] /\ page'[q] = page[q]
    BY <1>9 DEF Answer, TypeOK, At, Goto, walkVars
  <2>2. registry \subseteq registry' /\ checkpoint' = checkpoint
    BY <1>9 DEF Answer, dbVars
  <2> QED
    BY <2>1, <2>2, StepsAside
<1>10. ASSUME NEW p \in Procs, EndFetch(p) PROVE CheckpointCovers' /\ WalkersCover'
  <2>1. \A q \in Procs : pc'[q] = "walk" =>
            pc[q] = "walk" /\ src'[q] = src[q] /\ page'[q] = page[q]
    BY <1>10 DEF EndFetch, TypeOK, At, Goto, walkVars
  <2>2. registry \subseteq registry' /\ checkpoint' = checkpoint
    BY <1>10 DEF EndFetch, dbVars
  <2> QED
    BY <2>1, <2>2, StepsAside
<1>11. ASSUME NEW p \in Procs, TakeBatch(p) PROVE CheckpointCovers' /\ WalkersCover'
  <2>1. \A q \in Procs : pc'[q] = "walk" =>
            pc[q] = "walk" /\ src'[q] = src[q] /\ page'[q] = page[q]
    BY <1>11 DEF TakeBatch, TypeOK, At, Goto, walkVars
  <2>2. registry \subseteq registry' /\ checkpoint' = checkpoint
    BY <1>11 DEF TakeBatch, dbVars
  <2> QED
    BY <2>1, <2>2, StepsAside
<1>12. ASSUME NEW p \in Procs, InsertBatch(p) PROVE CheckpointCovers' /\ WalkersCover'
  <2>1. \A q \in Procs : pc'[q] = "walk" =>
            pc[q] = "walk" /\ src'[q] = src[q] /\ page'[q] = page[q]
    BY <1>12 DEF InsertBatch, TypeOK, At, Goto, walkVars
  <2>2. registry \subseteq registry' /\ checkpoint' = checkpoint
    BY <1>12 DEF InsertBatch, dbVars
  <2> QED
    BY <2>1, <2>2, StepsAside
<1>13. ASSUME NEW p \in Procs, InsertConflicts(p) PROVE CheckpointCovers' /\ WalkersCover'
  <2>1. \A q \in Procs : pc'[q] = "walk" =>
            pc[q] = "walk" /\ src'[q] = src[q] /\ page'[q] = page[q]
    BY <1>13 DEF InsertConflicts, TypeOK, At, Goto, walkVars
  <2>2. registry \subseteq registry' /\ checkpoint' = checkpoint
    BY <1>13 DEF InsertConflicts, dbVars
  <2> QED
    BY <2>1, <2>2, StepsAside
<1>14. ASSUME NEW p \in Procs, NEW i \in Ids, RetryRow(p, i) PROVE CheckpointCovers' /\ WalkersCover'
  <2>1. \A q \in Procs : pc'[q] = "walk" =>
            pc[q] = "walk" /\ src'[q] = src[q] /\ page'[q] = page[q]
    BY <1>14 DEF RetryRow, Retried, TypeOK, At, Goto, walkVars
  <2>2. registry \subseteq registry' /\ checkpoint' = checkpoint
    BY <1>14 DEF RetryRow, Retried, dbVars
  <2> QED
    BY <2>1, <2>2, StepsAside
<1>24. ASSUME NEW p \in Procs, NEW i \in Ids, RetryFails(p, i) PROVE CheckpointCovers' /\ WalkersCover'
  <2>1. \A q \in Procs : pc'[q] = "walk" =>
            pc[q] = "walk" /\ src'[q] = src[q] /\ page'[q] = page[q]
    BY <1>24 DEF RetryFails, Retried, TypeOK, At, Goto, walkVars
  <2>2. registry \subseteq registry' /\ checkpoint' = checkpoint
    BY <1>24 DEF RetryFails, Retried, dbVars
  <2> QED
    BY <2>1, <2>2, StepsAside
<1>15. ASSUME NEW p \in Procs, MarkBatch(p) PROVE CheckpointCovers' /\ WalkersCover'
  <2>1. \A q \in Procs : pc'[q] = "walk" =>
            pc[q] = "walk" /\ src'[q] = src[q] /\ page'[q] = page[q]
    BY <1>15 DEF MarkBatch, TypeOK, At, Goto, walkVars
  <2>2. registry \subseteq registry' /\ checkpoint' = checkpoint
    BY <1>15 DEF MarkBatch, dbVars
  <2> QED
    BY <2>1, <2>2, StepsAside
<1>16. ASSUME NEW p \in Procs, RecordJob(p) PROVE CheckpointCovers' /\ WalkersCover'
  <2>1. \A q \in Procs : pc'[q] = "walk" =>
            pc[q] = "walk" /\ src'[q] = src[q] /\ page'[q] = page[q]
    BY <1>16 DEF RecordJob, TypeOK, At, Goto, walkVars
  <2>2. registry \subseteq registry' /\ checkpoint' = checkpoint
    BY <1>16 DEF RecordJob, dbVars
  <2> QED
    BY <2>1, <2>2, StepsAside
<1>17. ASSUME NEW p \in Procs, InjectRanked(p) PROVE CheckpointCovers' /\ WalkersCover'
  <2>1. \A q \in Procs : pc'[q] = "walk" =>
            pc[q] = "walk" /\ src'[q] = src[q] /\ page'[q] = page[q]
    BY <1>17 DEF InjectRanked, Fetch, TypeOK, At, Goto, walkVars
  <2>2. registry \subseteq registry' /\ checkpoint' = checkpoint
    BY <1>17 DEF InjectRanked, Fetch, dbVars
  <2> QED
    BY <2>1, <2>2, StepsAside
<1>18. ASSUME NEW p \in Procs, WalkFails(p) PROVE CheckpointCovers' /\ WalkersCover'
  <2>1. \A q \in Procs : pc'[q] = "walk" =>
            pc[q] = "walk" /\ src'[q] = src[q] /\ page'[q] = page[q]
    BY <1>18 DEF WalkFails, NextSource, TypeOK, At, Goto, walkVars
  <2>2. registry \subseteq registry' /\ checkpoint' = checkpoint
    BY <1>18 DEF WalkFails, NextSource, dbVars
  <2> QED
    BY <2>1, <2>2, StepsAside
<1>19. ASSUME NEW p \in Procs, NEW i \in Ids, FetchFails(p, i) PROVE CheckpointCovers' /\ WalkersCover'
  <2>1. \A q \in Procs : pc'[q] = "walk" =>
            pc[q] = "walk" /\ src'[q] = src[q] /\ page'[q] = page[q]
    BY <1>19 DEF FetchFails, TypeOK, At, Goto, walkVars
  <2>2. registry \subseteq registry' /\ checkpoint' = checkpoint
    BY <1>19 DEF FetchFails, dbVars
  <2> QED
    BY <2>1, <2>2, StepsAside
<1>20. ASSUME NEW p \in Procs, NEW i \in Ids, FetchFailsSilently(p, i) PROVE CheckpointCovers' /\ WalkersCover'
  <2>1. \A q \in Procs : pc'[q] = "walk" =>
            pc[q] = "walk" /\ src'[q] = src[q] /\ page'[q] = page[q]
    BY <1>20 DEF FetchFailsSilently, TypeOK, At, Goto, walkVars
  <2>2. registry \subseteq registry' /\ checkpoint' = checkpoint
    BY <1>20 DEF FetchFailsSilently, dbVars
  <2> QED
    BY <2>1, <2>2, StepsAside
<1>21. ASSUME NEW p \in Procs, CancelJob(p) PROVE CheckpointCovers' /\ WalkersCover'
  <2>1. \A q \in Procs : pc'[q] = "walk" =>
            pc[q] = "walk" /\ src'[q] = src[q] /\ page'[q] = page[q]
    BY <1>21 DEF CancelJob, TypeOK, At, Goto, walkVars
  <2>2. registry \subseteq registry' /\ checkpoint' = checkpoint
    BY <1>21 DEF CancelJob, dbVars
  <2> QED
    BY <2>1, <2>2, StepsAside
<1>22. ASSUME NEW p \in Procs, EndAbruptly(p) PROVE CheckpointCovers' /\ WalkersCover'
  <2>1. \A q \in Procs : pc'[q] = "walk" =>
            pc[q] = "walk" /\ src'[q] = src[q] /\ page'[q] = page[q]
    BY <1>22 DEF EndAbruptly, Abort, TypeOK, At, Goto, walkVars
  <2>2. registry \subseteq registry' /\ checkpoint' = checkpoint
    BY <1>22 DEF EndAbruptly, Abort, dbVars
  <2> QED
    BY <2>1, <2>2, StepsAside
<1>23. ASSUME NEW p \in Procs, BreakDeadlock(p) PROVE CheckpointCovers' /\ WalkersCover'
  <2>1. \A q \in Procs : pc'[q] = "walk" =>
            pc[q] = "walk" /\ src'[q] = src[q] /\ page'[q] = page[q]
    BY <1>23 DEF BreakDeadlock, Abort, TypeOK, At, Goto, walkVars
  <2>2. registry \subseteq registry' /\ checkpoint' = checkpoint
    BY <1>23 DEF BreakDeadlock, Abort, dbVars
  <2> QED
    BY <2>1, <2>2, StepsAside
<1> QED
  BY <1>1, <1>2, <1>3, <1>4, <1>5, <1>6, <1>7, <1>8, <1>9, <1>10, <1>11, <1>12,
     <1>13, <1>14, <1>15, <1>16, <1>17, <1>18, <1>19, <1>20, <1>21, <1>22,
     <1>23, <1>24 DEF Next, Work

(***************************************************************************)
(* A checkpoint never claims a page that is not in the registry, however    *)
(* many processes walk and wherever they are interrupted (_walk_source).    *)
(***************************************************************************)
THEOREM CheckpointsCover == Spec => []CheckpointCovers
<1>1. WalkInv /\ [Next]_vars => WalkInv'
  BY StepKeepsTypes, StepKeepsWalk DEF WalkInv
<1>2. WalkInv => CheckpointCovers
  BY DEF WalkInv
<1> QED
  BY InitWalk, <1>1, <1>2, PTL DEF Spec

------------------------------------------------------------------------------
(* The way of a profile.                                                   *)

Settled == stored \cup Gone \cup Malformed \cup mislaid

Uploading == {"upsert", "insert", "retry", "mark", "commit"}

\* A dead end of a fetch without signals is a 404 or failed silently.
DeadEndsKnown(p) == ~ signals[p] => dead[p] \subseteq Gone \cup silent[p]

\* A transaction is empty until its window is fetched, its batch until taken.
TxStarts(p) ==
    /\ pc[p] \notin Uploading => rows[p] = {} /\ marks[p] = {}
    /\ pc[p] \notin {"insert", "retry", "mark"} => batch[p] = {}

\* What a transaction marks is settled once its rows are committed.
MarksSettled(p) == marks[p] \subseteq Settled \cup rows[p]

\* The batch in hand: to be inserted, inserted, or settled.
BatchSettled(p) ==
    /\ batch[p] \subseteq Settled \cup rows[p] \cup todo[p]
    /\ pc[p] = "mark" => batch[p] \subseteq Settled \cup rows[p]

\* The rows of a transaction are of batches that are done with.
RowsBehind(p) ==
    /\ got[p] \cap (rows[p] \cup batch[p]) = {}
    /\ pc[p] \in {"insert", "retry"} => todo[p] \subseteq batch[p]
    /\ pc[p] = "insert" => batch[p] \cap rows[p] = {}

Tidy(p) ==
    /\ DeadEndsKnown(p)
    /\ TxStarts(p)
    /\ MarksSettled(p)
    /\ BatchSettled(p)
    /\ RowsBehind(p)

SettleInv == TypeOK /\ ConsumedAreSettled /\ \A p \in Procs : Tidy(p)

Untouched(q) ==
    /\ pc'[q] = pc[q]
    /\ todo'[q] = todo[q]
    /\ got'[q] = got[q]
    /\ dead'[q] = dead[q]
    /\ silent'[q] = silent[q]
    /\ signals'[q] = signals[q]
    /\ batch'[q] = batch[q]
    /\ rows'[q] = rows[q]
    /\ marks'[q] = marks[q]

\* A step of p cannot unsettle what another process has in hand.
LEMMA StepOf ==
    ASSUME SettleInv, NEW p \in Procs, Settled \subseteq Settled',
           consumed' \subseteq Settled', Tidy(p)',
           \A q \in Procs : q # p => Untouched(q)
    PROVE  ConsumedAreSettled' /\ \A q \in Procs : Tidy(q)'
<1>1. ConsumedAreSettled'
  BY DEF ConsumedAreSettled, Settled
<1>2. ASSUME NEW q \in Procs, q # p PROVE Tidy(q)'
  <2> USE <1>2 DEF SettleInv, Tidy, Untouched
  <2>1. DeadEndsKnown(q)'
    BY DEF DeadEndsKnown
  <2>2. TxStarts(q)'
    BY DEF TxStarts
  <2>3. MarksSettled(q)'
    BY DEF MarksSettled
  <2>4. BatchSettled(q)'
    BY DEF BatchSettled
  <2>5. RowsBehind(q)'
    BY DEF RowsBehind
  <2> QED
    BY <2>1, <2>2, <2>3, <2>4, <2>5
<1> QED
  BY <1>1, <1>2

\* Nothing is in hand: the walk, and the start of a window.
LEMMA StepBefore ==
    ASSUME SettleInv, NEW p \in Procs, UNCHANGED <<consumed, stored, mislaid>>,
           UNCHANGED <<got, dead, silent, signals, batch, rows, marks>>,
           pc[p] \notin Uploading, pc'[p] \notin Uploading,
           \A q \in Procs : q # p => pc'[q] = pc[q] /\ todo'[q] = todo[q]
    PROVE  ConsumedAreSettled' /\ \A q \in Procs : Tidy(q)'
<1>1. Settled' = Settled
  BY DEF Settled
<1>2. consumed' \subseteq Settled'
  BY <1>1 DEF SettleInv, ConsumedAreSettled, Settled
<1>3. rows[p] = {} /\ marks[p] = {} /\ batch[p] = {}
  BY DEF SettleInv, Tidy, TxStarts, Uploading
<1>4. Tidy(p)'
  BY <1>1, <1>3 DEF SettleInv, Tidy, DeadEndsKnown, TxStarts, MarksSettled,
     BatchSettled, RowsBehind, Uploading
<1>5. \A q \in Procs : q # p => Untouched(q)
  BY DEF Untouched
<1> QED
  BY <1>1, <1>2, <1>4, <1>5, StepOf

LEMMA InitSettled == Init => SettleInv
<1> SUFFICES ASSUME Init PROVE SettleInv
  OBVIOUS
<1>1. ConsumedAreSettled
  BY DEF Init, ConsumedAreSettled
<1>2. ASSUME NEW p \in Procs PROVE Tidy(p)
  BY <1>2 DEF Init, Tidy, DeadEndsKnown, TxStarts, MarksSettled, BatchSettled,
     RowsBehind
<1> QED
  BY <1>1, <1>2, InitTypes DEF SettleInv

LEMMA StepKeepsSettled ==
    SettleInv /\ [Next]_vars => ConsumedAreSettled' /\ \A q \in Procs : Tidy(q)'
<1> SUFFICES ASSUME SettleInv, [Next]_vars
             PROVE  ConsumedAreSettled' /\ \A q \in Procs : Tidy(q)'
  OBVIOUS
<1> USE DEF SettleInv
<1>1. CASE UNCHANGED vars
  BY <1>1 DEF vars, dbVars, fetchVars, batchVars, txVars, ConsumedAreSettled,
       Tidy,
     Settled, DeadEndsKnown, TxStarts, MarksSettled, BatchSettled, RowsBehind
<1>2. ASSUME NEW i \in Late, Arrive(i) PROVE ConsumedAreSettled' /\ \A q \in Procs : Tidy(q)'
  BY <1>2 DEF Arrive, fetchVars, batchVars, txVars, ConsumedAreSettled, Tidy,
       Settled,
     DeadEndsKnown, TxStarts, MarksSettled, BatchSettled, RowsBehind
<1>3. ASSUME NEW p \in Procs, StartJob(p) PROVE ConsumedAreSettled' /\ \A q \in Procs : Tidy(q)'
  BY <1>3, StepBefore DEF StartJob, TypeOK, At, Goto, dbVars, fetchVars,
     batchVars, txVars, Uploading
<1>4. ASSUME NEW p \in Procs, SkipSource(p) PROVE ConsumedAreSettled' /\ \A q \in Procs : Tidy(q)'
  BY <1>4, StepBefore DEF SkipSource, NextSource, TypeOK, At, Goto, dbVars,
     fetchVars, batchVars, txVars, Uploading
<1>5. ASSUME NEW p \in Procs, OpenSource(p) PROVE ConsumedAreSettled' /\ \A q \in Procs : Tidy(q)'
  BY <1>5, StepBefore DEF OpenSource, TypeOK, At, Goto, dbVars, fetchVars,
     batchVars, txVars, Uploading
<1>6. ASSUME NEW p \in Procs, WalkPage(p) PROVE ConsumedAreSettled' /\ \A q \in Procs : Tidy(q)'
  BY <1>6, StepBefore DEF WalkPage, TypeOK, At, Goto, dbVars, fetchVars,
     batchVars, txVars, Uploading
<1>7. ASSUME NEW p \in Procs, EndWalk(p) PROVE ConsumedAreSettled' /\ \A q \in Procs : Tidy(q)'
  BY <1>7, StepBefore DEF EndWalk, NextSource, TypeOK, At, Goto, dbVars,
     fetchVars, batchVars, txVars, Uploading
<1>8. ASSUME NEW p \in Procs, TakeWindow(p) PROVE ConsumedAreSettled' /\ \A q \in Procs : Tidy(q)'
  BY <1>8, StepBefore DEF TakeWindow, Fetch, TypeOK, At, Goto, dbVars,
     fetchVars, batchVars, txVars, Uploading
<1>9. ASSUME NEW p \in Procs, NEW i \in Ids, Answer(p, i) PROVE ConsumedAreSettled' /\ \A q \in Procs : Tidy(q)'
  <2>1. Settled \subseteq Settled'
    BY <1>9 DEF Answer, Fetching, Settled, dbVars, walkVars, fetchVars, batchVars, txVars
  <2>2. consumed' \subseteq Settled'
    BY <1>9, <2>1 DEF Answer, Fetching, ConsumedAreSettled, Settled, dbVars,
       walkVars, fetchVars, batchVars, txVars
  <2>3. \A q \in Procs : q # p => Untouched(q)
    BY <1>9 DEF Answer, Fetching, Untouched, TypeOK, Goto, dbVars, walkVars,
       fetchVars, batchVars, txVars
  <2>4. DeadEndsKnown(p)'
    BY <1>9, <2>1 DEF Answer, Fetching, dbVars, walkVars, fetchVars, batchVars,
         txVars,
       DeadEndsKnown, TypeOK, Tidy, At, Goto, Uploading
  <2>5. TxStarts(p)'
    BY <1>9, <2>1 DEF Answer, Fetching, dbVars, walkVars, fetchVars, batchVars,
         txVars,
       TxStarts, RowsBehind, BatchSettled, MarksSettled, TypeOK, Tidy, At,
       Goto, Uploading
  <2>6. MarksSettled(p)'
    BY <1>9, <2>1 DEF Answer, Fetching, dbVars, walkVars, fetchVars, batchVars,
         txVars,
       MarksSettled, TxStarts, RowsBehind, BatchSettled, TypeOK, Tidy, At,
       Goto, Uploading
  <2>7. BatchSettled(p)'
    BY <1>9, <2>1 DEF Answer, Fetching, dbVars, walkVars, fetchVars, batchVars,
         txVars,
       BatchSettled, TxStarts, RowsBehind, MarksSettled, TypeOK, Tidy, At,
       Goto, Uploading
  <2>8. RowsBehind(p)'
    BY <1>9, <2>1 DEF Answer, Fetching, dbVars, walkVars, fetchVars, batchVars,
         txVars,
       RowsBehind, TxStarts, BatchSettled, MarksSettled, TypeOK, Tidy, At,
       Goto, Uploading
  <2>9. Tidy(p)'
    BY <2>4, <2>5, <2>6, <2>7, <2>8 DEF Tidy
  <2> QED
    BY <2>1, <2>2, <2>3, <2>9, StepOf
<1>10. ASSUME NEW p \in Procs, EndFetch(p) PROVE ConsumedAreSettled' /\ \A q \in Procs : Tidy(q)'
  <2>1. Settled \subseteq Settled'
    BY <1>10 DEF EndFetch, Enrich, DeadEnds, Healthy, Settled, dbVars, walkVars,
       fetchVars, batchVars, txVars
  <2>2. consumed' \subseteq Settled'
    BY <1>10, <2>1 DEF EndFetch, Enrich, DeadEnds, Healthy, ConsumedAreSettled,
       Settled, dbVars, walkVars, fetchVars, batchVars, txVars
  <2>3. \A q \in Procs : q # p => Untouched(q)
    BY <1>10 DEF EndFetch, Enrich, DeadEnds, Healthy, Untouched, TypeOK, Goto,
         dbVars,
       walkVars, fetchVars, batchVars, txVars
  <2>4. DeadEndsKnown(p)'
    BY <1>10, <2>1 DEF EndFetch, Enrich, DeadEnds, Healthy, dbVars, walkVars,
       fetchVars, batchVars, txVars, DeadEndsKnown, TypeOK, Tidy, At, Goto, Uploading
  <2>5. TxStarts(p)'
    <3>1. /\ pc'[p] \in Uploading
          /\ pc'[p] # "insert" => pc'[p] \in {"commit", "upsert"} /\ batch' = batch
      BY <1>10 DEF EndFetch, Goto, TypeOK, Uploading, batchVars
    <3>2. batch[p] = {}
      BY <1>10 DEF EndFetch, Tidy, TxStarts
    <3> QED
      BY <3>1, <3>2 DEF TxStarts
  <2>6. MarksSettled(p)'
    <3>1. marks'[p] = DeadEnds(p) /\ mislaid' = mislaid \cup (DeadEnds(p) \cap silent[p])
      BY <1>10 DEF EndFetch, TypeOK
    <3>2. DeadEnds(p) \subseteq Gone \cup silent[p]
      BY DEF DeadEnds, Healthy, Tidy, DeadEndsKnown
    <3> QED
      BY <3>1, <3>2 DEF MarksSettled, Settled
  <2>7. BatchSettled(p)'
    <3>1. stored' = stored
      BY <1>10 DEF EndFetch, dbVars
    <3>2. CASE At(p, "inject") /\ got[p] # {}
      <4>1. /\ pc'[p] = "insert"
            /\ batch'[p] = got[p]
            /\ todo'[p] = (got[p] \ stored) \ Malformed
        BY <1>10, <3>2 DEF EndFetch, Enrich, Goto, TypeOK
      <4> QED
        BY <3>1, <4>1 DEF BatchSettled, Settled
    <3>3. CASE ~ (At(p, "inject") /\ got[p] # {})
      <4>1. batch[p] = {} /\ batch' = batch
        BY <1>10, <3>3 DEF EndFetch, Tidy, TxStarts, batchVars
      <4> QED
        BY <4>1 DEF BatchSettled
    <3> QED
      BY <3>2, <3>3
  <2>8. RowsBehind(p)'
    BY <1>10, <2>1 DEF EndFetch, Enrich, DeadEnds, Healthy, dbVars, walkVars,
       fetchVars, batchVars, txVars, RowsBehind, TxStarts, BatchSettled, MarksSettled,
       TypeOK, Tidy, At, Goto, Uploading
  <2>9. Tidy(p)'
    BY <2>4, <2>5, <2>6, <2>7, <2>8 DEF Tidy
  <2> QED
    BY <2>1, <2>2, <2>3, <2>9, StepOf
<1>11. ASSUME NEW p \in Procs, TakeBatch(p) PROVE ConsumedAreSettled' /\ \A q \in Procs : Tidy(q)'
  <2>1. Settled \subseteq Settled'
    BY <1>11 DEF TakeBatch, Enrich, Least, Settled, dbVars, walkVars, fetchVars, batchVars, txVars
  <2>2. consumed' \subseteq Settled'
    BY <1>11, <2>1 DEF TakeBatch, Enrich, Least, ConsumedAreSettled, Settled,
         dbVars,
       walkVars, fetchVars, batchVars, txVars
  <2>3. \A q \in Procs : q # p => Untouched(q)
    BY <1>11 DEF TakeBatch, Enrich, Least, Untouched, TypeOK, Goto, dbVars,
         walkVars,
       fetchVars, batchVars, txVars
  <2>4. DeadEndsKnown(p)'
    BY <1>11, <2>1 DEF TakeBatch, Enrich, Least, dbVars, walkVars, fetchVars,
         batchVars, txVars,
       DeadEndsKnown, TypeOK, Tidy, At, Goto, Uploading
  <2>5. TxStarts(p)'
    BY <1>11, <2>1 DEF TakeBatch, Enrich, Least, dbVars, walkVars, fetchVars,
         batchVars, txVars,
       TxStarts, RowsBehind, BatchSettled, MarksSettled, TypeOK, Tidy, At,
       Goto, Uploading
  <2>6. MarksSettled(p)'
    BY <1>11, <2>1 DEF TakeBatch, Enrich, Least, dbVars, walkVars, fetchVars,
         batchVars, txVars,
       MarksSettled, TxStarts, RowsBehind, BatchSettled, TypeOK, Tidy, At,
       Goto, Uploading
  <2>7. BatchSettled(p)'
    <3> DEFINE b == Least(BatchSize, got[p])
    <3>1. /\ batch'[p] = b /\ pc'[p] = "insert" /\ rows' = rows
          /\ todo'[p] = b \ (stored \cup rows[p] \cup Malformed)
      BY <1>11 DEF TakeBatch, Enrich, Goto, TypeOK, txVars
    <3> HIDE DEF b
    <3>2. b \subseteq Settled \cup rows[p] \cup todo'[p]
      BY <3>1 DEF Settled
    <3> QED
      BY <2>1, <3>1, <3>2 DEF BatchSettled
  <2>8. RowsBehind(p)'
    BY <1>11, <2>1 DEF TakeBatch, Enrich, Least, dbVars, walkVars, fetchVars,
         batchVars, txVars,
       RowsBehind, TxStarts, BatchSettled, MarksSettled, TypeOK, Tidy, At,
       Goto, Uploading
  <2>9. Tidy(p)'
    BY <2>4, <2>5, <2>6, <2>7, <2>8 DEF Tidy
  <2> QED
    BY <2>1, <2>2, <2>3, <2>9, StepOf
<1>12. ASSUME NEW p \in Procs, InsertBatch(p) PROVE ConsumedAreSettled' /\ \A q \in Procs : Tidy(q)'
  <2>1. Settled \subseteq Settled'
    BY <1>12 DEF InsertBatch, Settled, dbVars, walkVars, fetchVars, batchVars, txVars
  <2>2. consumed' \subseteq Settled'
    BY <1>12, <2>1 DEF InsertBatch, ConsumedAreSettled, Settled, dbVars,
       walkVars, fetchVars, batchVars, txVars
  <2>3. \A q \in Procs : q # p => Untouched(q)
    BY <1>12 DEF InsertBatch, Untouched, TypeOK, Goto, dbVars, walkVars,
       fetchVars, batchVars, txVars
  <2>4. DeadEndsKnown(p)'
    BY <1>12, <2>1 DEF InsertBatch, dbVars, walkVars, fetchVars, batchVars,
         txVars,
       DeadEndsKnown, TypeOK, Tidy, At, Goto, Uploading
  <2>5. TxStarts(p)'
    BY <1>12, <2>1 DEF InsertBatch, dbVars, walkVars, fetchVars, batchVars,
         txVars,
       TxStarts, RowsBehind, BatchSettled, MarksSettled, TypeOK, Tidy, At,
       Goto, Uploading
  <2>6. MarksSettled(p)'
    BY <1>12, <2>1 DEF InsertBatch, dbVars, walkVars, fetchVars, batchVars,
         txVars,
       MarksSettled, TxStarts, RowsBehind, BatchSettled, TypeOK, Tidy, At,
       Goto, Uploading
  <2>7. BatchSettled(p)'
    BY <1>12, <2>1 DEF InsertBatch, dbVars, walkVars, fetchVars, batchVars,
         txVars,
       BatchSettled, TxStarts, RowsBehind, MarksSettled, TypeOK, Tidy, At,
       Goto, Uploading
  <2>8. RowsBehind(p)'
    BY <1>12, <2>1 DEF InsertBatch, dbVars, walkVars, fetchVars, batchVars,
         txVars,
       RowsBehind, TxStarts, BatchSettled, MarksSettled, TypeOK, Tidy, At,
       Goto, Uploading
  <2>9. Tidy(p)'
    BY <2>4, <2>5, <2>6, <2>7, <2>8 DEF Tidy
  <2> QED
    BY <2>1, <2>2, <2>3, <2>9, StepOf
<1>13. ASSUME NEW p \in Procs, InsertConflicts(p) PROVE ConsumedAreSettled' /\ \A q \in Procs : Tidy(q)'
  <2>1. Settled \subseteq Settled'
    BY <1>13 DEF InsertConflicts, Rollback, Settled, dbVars, walkVars,
       fetchVars, batchVars, txVars
  <2>2. consumed' \subseteq Settled'
    BY <1>13, <2>1 DEF InsertConflicts, Rollback, ConsumedAreSettled, Settled,
       dbVars, walkVars, fetchVars, batchVars, txVars
  <2>3. \A q \in Procs : q # p => Untouched(q)
    BY <1>13 DEF InsertConflicts, Rollback, Untouched, TypeOK, Goto, dbVars,
       walkVars, fetchVars, batchVars, txVars
  <2>4. DeadEndsKnown(p)'
    BY <1>13, <2>1 DEF InsertConflicts, Rollback, dbVars, walkVars, fetchVars,
       batchVars, txVars, DeadEndsKnown, TypeOK, Tidy, At, Goto, Uploading
  <2>5. TxStarts(p)'
    BY <1>13, <2>1 DEF InsertConflicts, Rollback, dbVars, walkVars, fetchVars,
       batchVars, txVars, TxStarts, RowsBehind, BatchSettled, MarksSettled, TypeOK, Tidy,
       At, Goto, Uploading
  <2>6. MarksSettled(p)'
    BY <1>13, <2>1 DEF InsertConflicts, Rollback, dbVars, walkVars, fetchVars,
       batchVars, txVars, MarksSettled, TxStarts, RowsBehind, BatchSettled, TypeOK, Tidy,
       At, Goto, Uploading
  <2>7. BatchSettled(p)'
    BY <1>13, <2>1 DEF InsertConflicts, Rollback, dbVars, walkVars, fetchVars,
       batchVars, txVars, BatchSettled, TxStarts, RowsBehind, MarksSettled, TypeOK, Tidy,
       At, Goto, Uploading
  <2>8. RowsBehind(p)'
    BY <1>13, <2>1 DEF InsertConflicts, Rollback, dbVars, walkVars, fetchVars,
       batchVars, txVars, RowsBehind, TxStarts, BatchSettled, MarksSettled, TypeOK, Tidy,
       At, Goto, Uploading
  <2>9. Tidy(p)'
    BY <2>4, <2>5, <2>6, <2>7, <2>8 DEF Tidy
  <2> QED
    BY <2>1, <2>2, <2>3, <2>9, StepOf
<1>14. ASSUME NEW p \in Procs, NEW i \in Ids, RetryRow(p, i) PROVE ConsumedAreSettled' /\ \A q \in Procs : Tidy(q)'
  <2>1. Settled' = Settled /\ consumed' \subseteq Settled'
    BY <1>14 DEF RetryRow, Retried, Settled, ConsumedAreSettled, dbVars
  <2>2. \A q \in Procs : q # p => Untouched(q)
    BY <1>14 DEF RetryRow, Retried, Untouched, TypeOK, Goto, fetchVars, batchVars
  <2>3. /\ todo'[p] = todo[p] \ {i} /\ i \in todo[p]
        /\ rows'[p] = rows[p] \cup {i}
        /\ pc[p] = "retry" /\ pc'[p] \in {"mark", "retry"}
        /\ pc'[p] = "mark" => todo'[p] = {}
        /\ UNCHANGED <<got, dead, silent, signals, batch, marks>>
    BY <1>14 DEF RetryRow, Retried, IsNext, At, Goto, TypeOK, fetchVars, batchVars
  <2>4. Tidy(p)'
    BY <2>1, <2>3 DEF Tidy, DeadEndsKnown, TxStarts, MarksSettled, BatchSettled,
       RowsBehind, Uploading
  <2> QED
    BY <2>1, <2>2, <2>4, StepOf
<1>24. ASSUME NEW p \in Procs, NEW i \in Ids, RetryFails(p, i) PROVE ConsumedAreSettled' /\ \A q \in Procs : Tidy(q)'
  <2>1. Settled \subseteq Settled'
    BY <1>24 DEF RetryFails, Retried, Settled, dbVars
  <2>2. consumed' \subseteq Settled'
    BY <1>24, <2>1 DEF RetryFails, Retried, Settled, ConsumedAreSettled, dbVars
  <2>3. \A q \in Procs : q # p => Untouched(q)
    BY <1>24 DEF RetryFails, Retried, Rollback, Untouched, TypeOK, Goto,
         fetchVars,
       batchVars
  <2>4. /\ todo'[p] = todo[p] \ {i} /\ i \in todo[p]
        /\ rows'[p] = {} /\ marks'[p] = {}
        /\ pc[p] = "retry" /\ pc'[p] \in {"mark", "retry"}
        /\ pc'[p] = "mark" => todo'[p] = {}
        /\ UNCHANGED <<got, dead, silent, signals, batch>>
    BY <1>24 DEF RetryFails, Retried, Rollback, IsNext, At, Goto, TypeOK,
         fetchVars,
       batchVars
  <2>5. rows[p] \cup {i} \subseteq Settled'
    BY <1>24 DEF RetryFails, Retried, Settled, dbVars
  <2>6. Tidy(p)'
    BY <2>1, <2>4, <2>5 DEF Tidy, DeadEndsKnown, TxStarts, MarksSettled,
       BatchSettled, RowsBehind, Uploading
  <2> QED
    BY <2>1, <2>2, <2>3, <2>6, StepOf
<1>15. ASSUME NEW p \in Procs, MarkBatch(p) PROVE ConsumedAreSettled' /\ \A q \in Procs : Tidy(q)'
  <2>1. Settled \subseteq Settled'
    BY <1>15 DEF MarkBatch, Settled, dbVars, walkVars, fetchVars, batchVars, txVars
  <2>2. consumed' \subseteq Settled'
    BY <1>15, <2>1 DEF MarkBatch, ConsumedAreSettled, Settled, dbVars,
       walkVars, fetchVars, batchVars, txVars
  <2>3. \A q \in Procs : q # p => Untouched(q)
    BY <1>15 DEF MarkBatch, Untouched, TypeOK, Goto, dbVars, walkVars,
       fetchVars, batchVars, txVars
  <2>4. DeadEndsKnown(p)'
    BY <1>15, <2>1 DEF MarkBatch, dbVars, walkVars, fetchVars, batchVars, txVars,
       DeadEndsKnown, TypeOK, Tidy, At, Goto, Uploading
  <2>5. TxStarts(p)'
    BY <1>15, <2>1 DEF MarkBatch, dbVars, walkVars, fetchVars, batchVars, txVars,
       TxStarts, RowsBehind, BatchSettled, MarksSettled, TypeOK, Tidy, At,
       Goto, Uploading
  <2>6. MarksSettled(p)'
    BY <1>15, <2>1 DEF MarkBatch, dbVars, walkVars, fetchVars, batchVars, txVars,
       MarksSettled, TxStarts, RowsBehind, BatchSettled, TypeOK, Tidy, At,
       Goto, Uploading
  <2>7. BatchSettled(p)'
    BY <1>15, <2>1 DEF MarkBatch, dbVars, walkVars, fetchVars, batchVars, txVars,
       BatchSettled, TxStarts, RowsBehind, MarksSettled, TypeOK, Tidy, At,
       Goto, Uploading
  <2>8. RowsBehind(p)'
    BY <1>15, <2>1 DEF MarkBatch, dbVars, walkVars, fetchVars, batchVars, txVars,
       RowsBehind, TxStarts, BatchSettled, MarksSettled, TypeOK, Tidy, At,
       Goto, Uploading
  <2>9. Tidy(p)'
    BY <2>4, <2>5, <2>6, <2>7, <2>8 DEF Tidy
  <2> QED
    BY <2>1, <2>2, <2>3, <2>9, StepOf
<1>16. ASSUME NEW p \in Procs, RecordJob(p) PROVE ConsumedAreSettled' /\ \A q \in Procs : Tidy(q)'
  <2>1. Settled \subseteq Settled'
    BY <1>16 DEF RecordJob, Settled, dbVars, walkVars, fetchVars, batchVars, txVars
  <2>2. consumed' \subseteq Settled'
    <3>1. consumed' = consumed \cup marks[p] /\ stored' = stored \cup rows[p]
      BY <1>16 DEF RecordJob
    <3>2. consumed \subseteq Settled /\ marks[p] \subseteq Settled \cup rows[p]
      BY DEF ConsumedAreSettled, Settled, Tidy, MarksSettled
    <3>3. rows[p] \subseteq Settled'
      BY <3>1 DEF Settled
    <3> QED
      BY <2>1, <3>1, <3>2, <3>3
  <2>3. \A q \in Procs : q # p => Untouched(q)
    BY <1>16 DEF RecordJob, Untouched, TypeOK, Goto, dbVars, walkVars,
       fetchVars, batchVars, txVars
  <2>4. DeadEndsKnown(p)'
    BY <1>16, <2>1 DEF RecordJob, dbVars, walkVars, fetchVars, batchVars, txVars,
       DeadEndsKnown, TypeOK, Tidy, At, Goto, Uploading
  <2>5. TxStarts(p)'
    BY <1>16, <2>1 DEF RecordJob, dbVars, walkVars, fetchVars, batchVars, txVars,
       TxStarts, RowsBehind, BatchSettled, MarksSettled, TypeOK, Tidy, At,
       Goto, Uploading
  <2>6. MarksSettled(p)'
    BY <1>16, <2>1 DEF RecordJob, dbVars, walkVars, fetchVars, batchVars, txVars,
       MarksSettled, TxStarts, RowsBehind, BatchSettled, TypeOK, Tidy, At,
       Goto, Uploading
  <2>7. BatchSettled(p)'
    BY <1>16, <2>1 DEF RecordJob, dbVars, walkVars, fetchVars, batchVars, txVars,
       BatchSettled, TxStarts, RowsBehind, MarksSettled, TypeOK, Tidy, At,
       Goto, Uploading
  <2>8. RowsBehind(p)'
    BY <1>16, <2>1 DEF RecordJob, dbVars, walkVars, fetchVars, batchVars, txVars,
       RowsBehind, TxStarts, BatchSettled, MarksSettled, TypeOK, Tidy, At,
       Goto, Uploading
  <2>9. Tidy(p)'
    BY <2>4, <2>5, <2>6, <2>7, <2>8 DEF Tidy
  <2> QED
    BY <2>1, <2>2, <2>3, <2>9, StepOf
<1>17. ASSUME NEW p \in Procs, InjectRanked(p) PROVE ConsumedAreSettled' /\ \A q \in Procs : Tidy(q)'
  BY <1>17, StepBefore DEF InjectRanked, Fetch, TypeOK, At, Goto, dbVars,
     fetchVars, batchVars, txVars, Uploading
<1>18. ASSUME NEW p \in Procs, WalkFails(p) PROVE ConsumedAreSettled' /\ \A q \in Procs : Tidy(q)'
  BY <1>18, StepBefore DEF WalkFails, NextSource, TypeOK, At, Goto, dbVars,
     fetchVars, batchVars, txVars, Uploading
<1>19. ASSUME NEW p \in Procs, NEW i \in Ids, FetchFails(p, i) PROVE ConsumedAreSettled' /\ \A q \in Procs : Tidy(q)'
  <2>1. Settled \subseteq Settled'
    BY <1>19 DEF FetchFails, Fetching, Settled, dbVars, walkVars, fetchVars, batchVars, txVars
  <2>2. consumed' \subseteq Settled'
    BY <1>19, <2>1 DEF FetchFails, Fetching, ConsumedAreSettled, Settled,
       dbVars, walkVars, fetchVars, batchVars, txVars
  <2>3. \A q \in Procs : q # p => Untouched(q)
    BY <1>19 DEF FetchFails, Fetching, Untouched, TypeOK, Goto, dbVars,
       walkVars, fetchVars, batchVars, txVars
  <2>4. DeadEndsKnown(p)'
    BY <1>19, <2>1 DEF FetchFails, Fetching, dbVars, walkVars, fetchVars,
       batchVars, txVars, DeadEndsKnown, TypeOK, Tidy, At, Goto, Uploading
  <2>5. TxStarts(p)'
    BY <1>19, <2>1 DEF FetchFails, Fetching, dbVars, walkVars, fetchVars,
       batchVars, txVars, TxStarts, RowsBehind, BatchSettled, MarksSettled, TypeOK, Tidy,
       At, Goto, Uploading
  <2>6. MarksSettled(p)'
    BY <1>19, <2>1 DEF FetchFails, Fetching, dbVars, walkVars, fetchVars,
       batchVars, txVars, MarksSettled, TxStarts, RowsBehind, BatchSettled, TypeOK, Tidy,
       At, Goto, Uploading
  <2>7. BatchSettled(p)'
    BY <1>19, <2>1 DEF FetchFails, Fetching, dbVars, walkVars, fetchVars,
       batchVars, txVars, BatchSettled, TxStarts, RowsBehind, MarksSettled, TypeOK, Tidy,
       At, Goto, Uploading
  <2>8. RowsBehind(p)'
    BY <1>19, <2>1 DEF FetchFails, Fetching, dbVars, walkVars, fetchVars,
       batchVars, txVars, RowsBehind, TxStarts, BatchSettled, MarksSettled, TypeOK, Tidy,
       At, Goto, Uploading
  <2>9. Tidy(p)'
    BY <2>4, <2>5, <2>6, <2>7, <2>8 DEF Tidy
  <2> QED
    BY <2>1, <2>2, <2>3, <2>9, StepOf
<1>20. ASSUME NEW p \in Procs, NEW i \in Ids, FetchFailsSilently(p, i) PROVE ConsumedAreSettled' /\ \A q \in Procs : Tidy(q)'
  <2>1. Settled \subseteq Settled'
    BY <1>20 DEF FetchFailsSilently, Fetching, Settled, dbVars, walkVars,
       fetchVars, batchVars, txVars
  <2>2. consumed' \subseteq Settled'
    BY <1>20, <2>1 DEF FetchFailsSilently, Fetching, ConsumedAreSettled,
       Settled, dbVars, walkVars, fetchVars, batchVars, txVars
  <2>3. \A q \in Procs : q # p => Untouched(q)
    BY <1>20 DEF FetchFailsSilently, Fetching, Untouched, TypeOK, Goto, dbVars,
       walkVars, fetchVars, batchVars, txVars
  <2>4. DeadEndsKnown(p)'
    BY <1>20, <2>1 DEF FetchFailsSilently, Fetching, dbVars, walkVars,
       fetchVars, batchVars, txVars, DeadEndsKnown, TypeOK, Tidy, At, Goto, Uploading
  <2>5. TxStarts(p)'
    BY <1>20, <2>1 DEF FetchFailsSilently, Fetching, dbVars, walkVars,
       fetchVars, batchVars, txVars, TxStarts, RowsBehind, BatchSettled, MarksSettled,
       TypeOK, Tidy, At, Goto, Uploading
  <2>6. MarksSettled(p)'
    BY <1>20, <2>1 DEF FetchFailsSilently, Fetching, dbVars, walkVars,
       fetchVars, batchVars, txVars, MarksSettled, TxStarts, RowsBehind, BatchSettled,
       TypeOK, Tidy, At, Goto, Uploading
  <2>7. BatchSettled(p)'
    BY <1>20, <2>1 DEF FetchFailsSilently, Fetching, dbVars, walkVars,
       fetchVars, batchVars, txVars, BatchSettled, TxStarts, RowsBehind, MarksSettled,
       TypeOK, Tidy, At, Goto, Uploading
  <2>8. RowsBehind(p)'
    BY <1>20, <2>1 DEF FetchFailsSilently, Fetching, dbVars, walkVars,
       fetchVars, batchVars, txVars, RowsBehind, TxStarts, BatchSettled, MarksSettled,
       TypeOK, Tidy, At, Goto, Uploading
  <2>9. Tidy(p)'
    BY <2>4, <2>5, <2>6, <2>7, <2>8 DEF Tidy
  <2> QED
    BY <2>1, <2>2, <2>3, <2>9, StepOf
<1>21. ASSUME NEW p \in Procs, CancelJob(p) PROVE ConsumedAreSettled' /\ \A q \in Procs : Tidy(q)'
  <2>1. Settled \subseteq Settled'
    BY <1>21 DEF CancelJob, Settled, dbVars, walkVars, fetchVars, batchVars, txVars
  <2>2. consumed' \subseteq Settled'
    BY <1>21, <2>1 DEF CancelJob, ConsumedAreSettled, Settled, dbVars,
       walkVars, fetchVars, batchVars, txVars
  <2>3. \A q \in Procs : q # p => Untouched(q)
    BY <1>21 DEF CancelJob, Untouched, TypeOK, Goto, dbVars, walkVars,
       fetchVars, batchVars, txVars
  <2>4. DeadEndsKnown(p)'
    BY <1>21, <2>1 DEF CancelJob, dbVars, walkVars, fetchVars, batchVars, txVars,
       DeadEndsKnown, TypeOK, Tidy, At, Goto, Uploading
  <2>5. TxStarts(p)'
    BY <1>21, <2>1 DEF CancelJob, dbVars, walkVars, fetchVars, batchVars, txVars,
       TxStarts, RowsBehind, BatchSettled, MarksSettled, TypeOK, Tidy, At,
       Goto, Uploading
  <2>6. MarksSettled(p)'
    BY <1>21, <2>1 DEF CancelJob, dbVars, walkVars, fetchVars, batchVars, txVars,
       MarksSettled, TxStarts, RowsBehind, BatchSettled, TypeOK, Tidy, At,
       Goto, Uploading
  <2>7. BatchSettled(p)'
    BY <1>21, <2>1 DEF CancelJob, dbVars, walkVars, fetchVars, batchVars, txVars,
       BatchSettled, TxStarts, RowsBehind, MarksSettled, TypeOK, Tidy, At,
       Goto, Uploading
  <2>8. RowsBehind(p)'
    BY <1>21, <2>1 DEF CancelJob, dbVars, walkVars, fetchVars, batchVars, txVars,
       RowsBehind, TxStarts, BatchSettled, MarksSettled, TypeOK, Tidy, At,
       Goto, Uploading
  <2>9. Tidy(p)'
    BY <2>4, <2>5, <2>6, <2>7, <2>8 DEF Tidy
  <2> QED
    BY <2>1, <2>2, <2>3, <2>9, StepOf
<1>22. ASSUME NEW p \in Procs, EndAbruptly(p) PROVE ConsumedAreSettled' /\ \A q \in Procs : Tidy(q)'
  <2>1. Settled \subseteq Settled'
    BY <1>22 DEF EndAbruptly, Abort, Rollback, Settled, dbVars, walkVars, fetchVars, batchVars, txVars
  <2>2. consumed' \subseteq Settled'
    BY <1>22, <2>1 DEF EndAbruptly, Abort, Rollback, ConsumedAreSettled,
         Settled, dbVars,
       walkVars, fetchVars, batchVars, txVars
  <2>3. \A q \in Procs : q # p => Untouched(q)
    BY <1>22 DEF EndAbruptly, Abort, Rollback, Untouched, TypeOK, Goto, dbVars,
         walkVars,
       fetchVars, batchVars, txVars
  <2>4. DeadEndsKnown(p)'
    BY <1>22, <2>1 DEF EndAbruptly, Abort, Rollback, dbVars, walkVars,
         fetchVars, batchVars, txVars,
       DeadEndsKnown, TypeOK, Tidy, At, Goto, Uploading
  <2>5. TxStarts(p)'
    BY <1>22, <2>1 DEF EndAbruptly, Abort, Rollback, dbVars, walkVars,
         fetchVars, batchVars, txVars,
       TxStarts, RowsBehind, BatchSettled, MarksSettled, TypeOK, Tidy, At,
       Goto, Uploading
  <2>6. MarksSettled(p)'
    BY <1>22, <2>1 DEF EndAbruptly, Abort, Rollback, dbVars, walkVars,
         fetchVars, batchVars, txVars,
       MarksSettled, TxStarts, RowsBehind, BatchSettled, TypeOK, Tidy, At,
       Goto, Uploading
  <2>7. BatchSettled(p)'
    BY <1>22, <2>1 DEF EndAbruptly, Abort, Rollback, dbVars, walkVars,
         fetchVars, batchVars, txVars,
       BatchSettled, TxStarts, RowsBehind, MarksSettled, TypeOK, Tidy, At,
       Goto, Uploading
  <2>8. RowsBehind(p)'
    BY <1>22, <2>1 DEF EndAbruptly, Abort, Rollback, dbVars, walkVars,
         fetchVars, batchVars, txVars,
       RowsBehind, TxStarts, BatchSettled, MarksSettled, TypeOK, Tidy, At,
       Goto, Uploading
  <2>9. Tidy(p)'
    BY <2>4, <2>5, <2>6, <2>7, <2>8 DEF Tidy
  <2> QED
    BY <2>1, <2>2, <2>3, <2>9, StepOf
<1>23. ASSUME NEW p \in Procs, BreakDeadlock(p) PROVE ConsumedAreSettled' /\ \A q \in Procs : Tidy(q)'
  <2>1. Settled \subseteq Settled'
    BY <1>23 DEF BreakDeadlock, Abort, Rollback, Settled, dbVars, walkVars, fetchVars, batchVars, txVars
  <2>2. consumed' \subseteq Settled'
    BY <1>23, <2>1 DEF BreakDeadlock, Abort, Rollback, ConsumedAreSettled,
         Settled,
       dbVars, walkVars, fetchVars, batchVars, txVars
  <2>3. \A q \in Procs : q # p => Untouched(q)
    BY <1>23 DEF BreakDeadlock, Abort, Rollback, Untouched, TypeOK, Goto, dbVars,
       walkVars, fetchVars, batchVars, txVars
  <2>4. DeadEndsKnown(p)'
    BY <1>23, <2>1 DEF BreakDeadlock, Abort, Rollback, dbVars, walkVars,
         fetchVars,
       batchVars, txVars, DeadEndsKnown, TypeOK, Tidy, At, Goto, Uploading
  <2>5. TxStarts(p)'
    BY <1>23, <2>1 DEF BreakDeadlock, Abort, Rollback, dbVars, walkVars,
         fetchVars,
       batchVars, txVars, TxStarts, RowsBehind, BatchSettled, MarksSettled, TypeOK, Tidy,
       At, Goto, Uploading
  <2>6. MarksSettled(p)'
    BY <1>23, <2>1 DEF BreakDeadlock, Abort, Rollback, dbVars, walkVars,
         fetchVars,
       batchVars, txVars, MarksSettled, TxStarts, RowsBehind, BatchSettled, TypeOK, Tidy,
       At, Goto, Uploading
  <2>7. BatchSettled(p)'
    BY <1>23, <2>1 DEF BreakDeadlock, Abort, Rollback, dbVars, walkVars,
         fetchVars,
       batchVars, txVars, BatchSettled, TxStarts, RowsBehind, MarksSettled, TypeOK, Tidy,
       At, Goto, Uploading
  <2>8. RowsBehind(p)'
    BY <1>23, <2>1 DEF BreakDeadlock, Abort, Rollback, dbVars, walkVars,
         fetchVars,
       batchVars, txVars, RowsBehind, TxStarts, BatchSettled, MarksSettled, TypeOK, Tidy,
       At, Goto, Uploading
  <2>9. Tidy(p)'
    BY <2>4, <2>5, <2>6, <2>7, <2>8 DEF Tidy
  <2> QED
    BY <2>1, <2>2, <2>3, <2>9, StepOf
<1> QED
  BY <1>1, <1>2, <1>3, <1>4, <1>5, <1>6, <1>7, <1>8, <1>9, <1>10, <1>11, <1>12,
     <1>13, <1>14, <1>15, <1>16, <1>17, <1>18, <1>19, <1>20, <1>21, <1>22,
     <1>23, <1>24 DEF Next, Work

(***************************************************************************)
(* An id that is never looked at again was stored, is unknown to ESPN, has  *)
(* no usable profile, or is one of the three kinds mislaid keeps: the code  *)
(* loses no other (mark_consumed).                                          *)
(***************************************************************************)
THEOREM ConsumedSettled == Spec => []ConsumedAreSettled
<1>1. SettleInv /\ [Next]_vars => SettleInv'
  BY StepKeepsTypes, StepKeepsSettled DEF SettleInv
<1>2. SettleInv => ConsumedAreSettled
  BY DEF SettleInv
<1> QED
  BY InitSettled, <1>1, <1>2, PTL DEF Spec
==============================================================================
