-------------------------- MODULE Services_proofs --------------------------
(***************************************************************************)
(* Proofs about the components of the backend that Services composes, for   *)
(* every value of their constants.                                          *)
(***************************************************************************)
EXTENDS Services, WellFoundedInduction, FiniteSetTheorems, SequenceTheorems, TLAPS

(* A behaviour of the composition is one of each component.                 *)
LEMMA BreakerRuns == Spec => Breaker!Spec
<1>1. Init => Breaker!Init
  BY DEF Init
<1>2. [Next]_vars => [Breaker!Next]_(Breaker!brkVars)
  <2>1. ASSUME Next PROVE Breaker!Next \/ UNCHANGED breakerVars
    BY <2>1 DEF Next, Rest
  <2>2. (UNCHANGED vars \/ UNCHANGED breakerVars) => UNCHANGED Breaker!brkVars
    BY DEF vars, breakerVars, Breaker!brkVars
  <2> QED BY <2>1, <2>2
<1> QED BY <1>1, <1>2, PTL DEF Spec, Breaker!Spec

LEMMA ListsRuns == Spec => Lists!Spec
<1>1. Init => Lists!Init
  BY DEF Init
<1>2. [Next]_vars => [Lists!Next]_(Lists!vars)
  <2>1. ASSUME Next PROVE Lists!Next \/ UNCHANGED listVars
    BY <2>1 DEF Next, Rest
  <2>2. (UNCHANGED vars \/ UNCHANGED listVars) => UNCHANGED Lists!vars
    BY DEF vars, listVars, Lists!vars
  <2> QED BY <2>1, <2>2
<1> QED BY <1>1, <1>2, PTL DEF Spec, Lists!Spec

LEMMA TableRuns == Spec => Table!Spec
<1>1. Init => Table!Init
  BY DEF Init
<1>2. [Next]_vars => [Table!Next]_(Table!vars)
  <2>1. ASSUME Next PROVE Table!Next \/ UNCHANGED rankingVars
    BY <2>1 DEF Next, Rest
  <2>2. (UNCHANGED vars \/ UNCHANGED rankingVars) => UNCHANGED Table!vars
    BY DEF vars, rankingVars, Table!vars
  <2> QED BY <2>1, <2>2
<1> QED BY <1>1, <1>2, PTL DEF Spec, Table!Spec

LEMMA LiveLoopRuns == Spec => LiveLoop!Spec
<1>1. Init => LiveLoop!Init
  BY DEF Init
<1>2. [Next]_vars => [LiveLoop!Next]_(LiveLoop!liveVars)
  <2>1. ASSUME Next PROVE LiveLoop!Next \/ UNCHANGED liveVars
    BY <2>1 DEF Next, Rest
  <2>2. (UNCHANGED vars \/ UNCHANGED liveVars) => UNCHANGED LiveLoop!liveVars
    BY DEF vars, liveVars, LiveLoop!liveVars
  <2> QED BY <2>1, <2>2
<1> QED BY <1>1, <1>2, PTL DEF Spec, LiveLoop!Spec

LEMMA PlansRuns == Spec => Plans!Spec
<1>1. Init => Plans!Init
  BY DEF Init
<1>2. [Next]_vars => [Plans!Next]_(Plans!schVars)
  <2>1. ASSUME Next PROVE Plans!Next \/ UNCHANGED planVars
    BY <2>1 DEF Next, Rest
  <2>2. (UNCHANGED vars \/ UNCHANGED planVars) => UNCHANGED Plans!schVars
    BY DEF vars, planVars, Plans!schVars
  <2> QED BY <2>1, <2>2
<1> QED BY <1>1, <1>2, PTL DEF Spec, Plans!Spec

LEMMA WritersRuns == Spec => Writers!Init /\ [][Writers!Next]_(Writers!upsVars)
<1>1. Init => Writers!Init
  BY DEF Init
<1>2. [Next]_vars => [Writers!Next]_(Writers!upsVars)
  <2>1. ASSUME Next PROVE Writers!Next \/ UNCHANGED writerVars
    BY <2>1 DEF Next, Rest
  <2>2. (UNCHANGED vars \/ UNCHANGED writerVars) => UNCHANGED Writers!upsVars
    BY DEF vars, writerVars, Writers!upsVars, Writers!committed, Writers!resolver, Writers!adding
  <2> QED BY <2>1, <2>2
<1> QED BY <1>1, <1>2, PTL DEF Spec

LEMMA LakeRuns == Spec => Lake!Spec
<1>1. Init => Lake!Init
  BY DEF Init
<1>2. [Next]_vars => [Lake!Next]_(Lake!vars)
  <2>1. ASSUME Next PROVE Lake!Next \/ UNCHANGED lakeVars
    BY <2>1 DEF Next, Rest
  <2>2. (UNCHANGED vars \/ UNCHANGED lakeVars) => UNCHANGED Lake!vars
    BY DEF vars, lakeVars, Lake!vars
  <2> QED BY <2>1, <2>2
<1> QED BY <1>1, <1>2, PTL DEF Spec, Lake!Spec

LEMMA WalkRuns == Spec => Walk!Spec
<1>1. Init => Walk!Init
  BY DEF Init
<1>2. [Next]_vars => [Walk!Next]_(Walk!vars)
  <2>1. ASSUME Next PROVE Walk!Next \/ UNCHANGED pageVars
    BY <2>1 DEF Next, Rest
  <2>2. (UNCHANGED vars \/ UNCHANGED pageVars) => UNCHANGED Walk!vars
    BY DEF vars, pageVars, Walk!vars, Walk!answerVars
  <2> QED BY <2>1, <2>2
<1> QED BY <1>1, <1>2, PTL DEF Spec, Walk!Spec

----------------------------------------------------------------------------
(* The circuit breaker of the sync engine.                                   *)
(* The type invariant with the count that a tripped breaker keeps.         *)
BreakerInv == Breaker!TypeOK /\ Breaker!TrippedKeepsCount

(* The capped failure count stays within the threshold.                    *)
LEMMA AtMostBounded ==
  ASSUME NEW n \in Nat, NEW bound \in Nat
  PROVE  /\ Breaker!AtMost(n, bound) \in 0..bound
         /\ n >= bound => Breaker!AtMost(n, bound) = bound
BY DEF Breaker!AtMost

(* The breaker starts closed, with nothing counted.                        *)
LEMMA BreakerInit == ASSUME LimitsAreNat PROVE Breaker!Init => BreakerInv
<1> SUFFICES ASSUME Breaker!Init PROVE BreakerInv OBVIOUS
<1>1. failures \in 0..FailureThreshold /\ attempts \in 0..HalfOpenMaxCalls
  BY DEF LimitsAreNat, Breaker!Init
<1>2. waited \in BOOLEAN BY DEF Breaker!Init
<1> QED BY <1>1, <1>2 DEF Breaker!Init, BreakerInv, Breaker!TypeOK, Breaker!TrippedKeepsCount, Breaker!CircuitStates

(* A counted failure keeps the types, and trips only on a full count.      *)
LEMMA BreakerFailure ==
  ASSUME LimitsAreNat, BreakerInv, NEW j \in BreakerJobs, NEW counts \in Breaker!Counted,
         Breaker!OnFailure(j, counts)
  PROVE  BreakerInv'
<1>n. Breaker!AtMost(failures + 1, FailureThreshold) \in 0..FailureThreshold
  BY AtMostBounded DEF LimitsAreNat, BreakerInv, Breaker!TypeOK
<1>s. jobStage' \in [BreakerJobs -> {"idle", "fetching", "writing", "refused"}]
  BY DEF Breaker!OnFailure, BreakerInv, Breaker!TypeOK
<1>1. CASE counts
  <2>1. /\ failures' = Breaker!AtMost(failures + 1, FailureThreshold)
        /\ waited' = FALSE /\ attempts' = attempts
        /\ state' = IF state # "OPEN" /\ failures' >= FailureThreshold
                    THEN "OPEN" ELSE state
    BY <1>1 DEF Breaker!OnFailure
  <2>2. failures' >= FailureThreshold \/ failures' >= failures
    BY <2>1 DEF Breaker!AtMost, LimitsAreNat, BreakerInv, Breaker!TypeOK
  <2>3. Breaker!TypeOK'
    BY <1>n, <1>s, <2>1 DEF BreakerInv, Breaker!TypeOK, Breaker!CircuitStates
  <2>4. Breaker!TrippedKeepsCount'
    BY <2>1, <2>2, <2>3 DEF Breaker!TrippedKeepsCount, BreakerInv, Breaker!TypeOK, LimitsAreNat
  <2> QED BY <2>3, <2>4 DEF BreakerInv
<1>2. CASE ~counts
  BY <1>2, <1>s DEF Breaker!OnFailure, BreakerInv, Breaker!TypeOK, Breaker!TrippedKeepsCount
<1> QED BY <1>1, <1>2

(* Every step keeps the strengthened invariant.                            *)
LEMMA BreakerNext ==
  ASSUME LimitsAreNat, BreakerInv, [Breaker!Next]_(Breaker!brkVars) PROVE BreakerInv'
<1> USE DEF BreakerInv, Breaker!TypeOK, Breaker!TrippedKeepsCount, Breaker!CircuitStates, LimitsAreNat
<1>1. ASSUME NEW j \in BreakerJobs, Breaker!Admit(j) PROVE BreakerInv'
  BY <1>1 DEF Breaker!Admit
<1>2. ASSUME NEW j \in BreakerJobs, Breaker!AdmitFirstProbe(j) PROVE BreakerInv'
  BY <1>2 DEF Breaker!AdmitFirstProbe
<1>3. ASSUME NEW j \in BreakerJobs, Breaker!AdmitProbe(j) PROVE BreakerInv'
  BY <1>3 DEF Breaker!AdmitProbe
<1>4. ASSUME NEW j \in BreakerJobs, Breaker!Reject(j) PROVE BreakerInv'
  BY <1>4 DEF Breaker!Reject
<1>5. ASSUME NEW j \in BreakerJobs, Breaker!OnSuccess(j) PROVE BreakerInv'
  BY <1>5 DEF Breaker!OnSuccess
<1>6. ASSUME NEW j \in BreakerJobs, Breaker!Leave(j) PROVE BreakerInv'
  BY <1>6 DEF Breaker!Leave
<1>7. CASE Breaker!Wait
  BY <1>7 DEF Breaker!Wait
<1>8. CASE Breaker!Reset
  BY <1>8 DEF Breaker!Reset
<1>9. CASE UNCHANGED Breaker!brkVars
  BY <1>9 DEF Breaker!brkVars
<1> QED
  BY <1>1, <1>2, <1>3, <1>4, <1>5, <1>6, <1>7, <1>8, <1>9, BreakerFailure DEF Breaker!Next

(* The strengthened invariant holds in every reachable state.              *)
LEMMA BreakerInvariance == ASSUME LimitsAreNat PROVE Breaker!Spec => []BreakerInv
BY BreakerInit, BreakerNext, PTL DEF Breaker!Spec

(* The types of the breaker hold in every reachable state: in particular   *)
(* no more probes are counted than half_open_max_calls.                    *)
THEOREM BreakerTypes == ASSUME LimitsAreNat PROVE Breaker!Spec => []Breaker!TypeOK
<1>1. BreakerInv => Breaker!TypeOK BY DEF BreakerInv
<1> QED BY <1>1, BreakerInvariance, PTL

(* A breaker that left CLOSED keeps a full failure count, whichever late   *)
(* answers of earlier jobs reach it (failure.py:232-255).                  *)
THEOREM TrippedCount == ASSUME LimitsAreNat PROVE Breaker!Spec => []Breaker!TrippedKeepsCount
<1>1. BreakerInv => Breaker!TrippedKeepsCount BY DEF BreakerInv
<1> QED BY <1>1, BreakerInvariance, PTL

(* A counted failure in a half-open episode opens the breaker again, with  *)
(* any number of jobs in flight (failure.py:251).                          *)
THEOREM ProbeFailureReopens == ASSUME LimitsAreNat PROVE Spec => FailureReopens
<1> DEFINE Reopens ==
      \A j \in BreakerJobs : (state = "HALF_OPEN" /\ Breaker!OnFailure(j, TRUE)) => state' = "OPEN"
<1>1. ASSUME BreakerInv PROVE Reopens
  <2> SUFFICES ASSUME NEW j \in BreakerJobs, state = "HALF_OPEN", Breaker!OnFailure(j, TRUE)
               PROVE  state' = "OPEN"
    OBVIOUS
  <2>1. failures \in Nat /\ failures >= FailureThreshold
    BY <1>1 DEF BreakerInv, Breaker!TypeOK, Breaker!TrippedKeepsCount
  <2>2. Breaker!AtMost(failures + 1, FailureThreshold) = FailureThreshold
    BY <2>1 DEF LimitsAreNat, Breaker!AtMost
  <2> QED BY <2>2 DEF Breaker!OnFailure, LimitsAreNat
<1>2. BreakerInv => [Reopens]_(Breaker!brkVars) BY <1>1
<1> HIDE DEF Reopens
<1>3. Breaker!Spec => [][Reopens]_(Breaker!brkVars) BY <1>2, BreakerInvariance, PTL DEF Breaker!Spec
<1> QED BY <1>3, BreakerRuns, PTL DEF FailureReopens, Breaker!FailureReopens, Reopens

----------------------------------------------------------------------------
(* The preferences of a user.                                                *)
(* A body that is merged into a row gives a row.                             *)
LEMMA MergedRow ==
    ASSUME NEW b \in Lists!Bodies \cup {<<>>}, NEW row \in [Fields -> Choices]
    PROVE  /\ \A f \in Fields : f \in DOMAIN b => b[f] \in Choices
           /\ Lists!Merged(row, b) \in [Fields -> Choices]
<1>1. CASE b = <<>>
  BY <1>1 DEF Lists!Merged
<1>2. CASE b \in Lists!Bodies
  <2>1. PICK fs \in SUBSET Fields : b \in [fs -> Choices]
    BY <1>2 DEF Lists!Bodies
  <2> QED BY <2>1 DEF Lists!Merged
<1> QED BY <1>1, <1>2

(* Types alone are not enough: that a request writes fields of a row rests   *)
(* on the row being there, since no request removes it.                      *)
LoadedIsThere == \A r \in Requests : loaded[r] # NoRow => prefs # NoRow
ListsInv == Lists!TypeOK /\ LoadedIsThere

LEMMA ListsInit == Lists!Init => ListsInv
BY DEF Lists!Init, Lists!TypeOK, ListsInv, LoadedIsThere

(* A request without a row to change writes the defaults, and its own fields.*)
LEMMA ListsCreate ==
    ASSUME NoRowIsNoRow, ListsInv, NEW r \in Requests, Lists!CreatePreferences(r)
    PROVE  ListsInv'
<1> USE DEF ListsInv, LoadedIsThere, Lists!TypeOK, Lists!Go, Lists!Forget
<1>1. Lists!Defaults \in [Fields -> Choices]
  BY DEF Lists!Defaults, NoRowIsNoRow
<1>2. Lists!Merged(Lists!Defaults, body[r]) \in [Fields -> Choices]
  BY <1>1, MergedRow
<1>3. Lists!TypeOK'
  BY <1>2 DEF Lists!CreatePreferences
<1>4. prefs' # NoRow
  BY <1>2 DEF Lists!CreatePreferences, NoRowIsNoRow
<1> QED BY <1>3, <1>4

(* A request that read a row writes fields of the row that is there now.     *)
LEMMA ListsUpdate ==
    ASSUME NoRowIsNoRow, ListsInv, NEW r \in Requests, Lists!UpdatePreferences(r)
    PROVE  ListsInv' /\ prefs \in [Fields -> Choices] /\ prefs' # NoRow
<1> USE DEF ListsInv, LoadedIsThere, Lists!TypeOK, Lists!Go, Lists!Forget
<1>1. loaded[r] \in [Fields -> Choices] /\ prefs \in [Fields -> Choices]
  BY DEF Lists!UpdatePreferences
<1>2. \A f \in Fields : f \in DOMAIN body[r] => body[r][f] \in Choices
  BY <1>1, MergedRow
<1>3. prefs' \in [Fields -> Choices]
  BY <1>1, <1>2 DEF Lists!UpdatePreferences
<1>4. Lists!TypeOK'
  BY <1>3 DEF Lists!UpdatePreferences
<1> QED BY <1>1, <1>3, <1>4 DEF NoRowIsNoRow

LEMMA ListsNext == ASSUME NoRowIsNoRow, ListsInv, [Lists!Next]_(Lists!vars) PROVE ListsInv'
<1> USE DEF ListsInv, LoadedIsThere, Lists!TypeOK, Lists!Go, Lists!Forget
<1>1. ASSUME NEW r \in Requests,
             \/ Lists!FavoriteFighter(r) \/ Lists!AddFighterFavorite(r)
             \/ Lists!InsertFavorite(r) \/ Lists!RemoveFavorite(r)
      PROVE  ListsInv'
  BY <1>1 DEF Lists!FavoriteFighter, Lists!AddFighterFavorite, Lists!InsertFavorite,
              Lists!RemoveFavorite
<1>2. ASSUME NEW r \in Requests, NEW b \in Lists!Bodies, Lists!ReadPreferences(r, b)
      PROVE  ListsInv'
  BY <1>2 DEF Lists!ReadPreferences
<1>3. CASE UNCHANGED Lists!vars
  BY <1>3 DEF Lists!vars
<1> QED BY <1>1, <1>2, <1>3, ListsCreate, ListsUpdate DEF Lists!Next

(* Overlapping requests change only the preferences they name, to the value  *)
(* they ask for, and the row never goes: for any fields, values and number   *)
(* of requests.                                                              *)
THEOREM FieldsByName == ASSUME NoRowIsNoRow PROVE Lists!Spec => Lists!FieldsChangeByName
<1> DEFINE ByName ==
      prefs # NoRow =>
        /\ prefs' # NoRow
        /\ \A f \in Fields : prefs'[f] # prefs[f] =>
              \E r \in Requests :
                  /\ reqStage[r] = "patching" /\ reqStage'[r] = "stored"
                  /\ f \in DOMAIN body[r] /\ prefs'[f] = body[r][f]
<1>1. ASSUME ListsInv, [Lists!Next]_(Lists!vars) PROVE [ByName]_(Lists!vars)
  <2>1. ASSUME NEW r \in Requests, Lists!UpdatePreferences(r) PROVE ByName
    <3>1. reqStage[r] = "patching" /\ reqStage'[r] = "stored"
      BY <2>1, <1>1 DEF Lists!UpdatePreferences, Lists!Go, ListsInv, Lists!TypeOK
    <3>2. \A f \in Fields : prefs'[f] # prefs[f] =>
             f \in DOMAIN body[r] /\ prefs'[f] = body[r][f]
      BY <2>1 DEF Lists!UpdatePreferences
    <3>3. prefs' # NoRow
      BY <2>1, <1>1, ListsUpdate
    <3> QED BY <3>1, <3>2, <3>3
  <2>2. ASSUME prefs' = prefs PROVE ByName
    BY <2>2
  <2>3. ASSUME NEW r \in Requests, Lists!CreatePreferences(r) PROVE ByName
    BY <2>3 DEF Lists!CreatePreferences
  <2> QED
    BY <1>1, <2>1, <2>2, <2>3
    DEF Lists!Next, Lists!vars, Lists!FavoriteFighter, Lists!AddFighterFavorite,
        Lists!InsertFavorite, Lists!RemoveFavorite, Lists!ReadPreferences
<1> QED BY <1>1, ListsInit, ListsNext, PTL DEF Lists!Spec, Lists!FieldsChangeByName

----------------------------------------------------------------------------
(* A set of numbers that is not empty has a least one.                      *)
LEMMA LeastPlace ==
    ASSUME NEW S \in SUBSET Nat, S # {}
    PROVE  \E i \in S : \A k \in S : ~(k < i)
<1>1. PICK i \in S : \A k \in S : <<k, i>> \notin OpToRel(<, Nat)
  BY NatLessThanWellFounded, WFMin
<1> QED BY <1>1 DEF OpToRel

(* The rankings table.                                                      *)
(* All rows that a job may insert.                                          *)
Rows == UNION {{Table!Row(Listing[j][i], j) : i \in DOMAIN Listing[j]} : j \in RankingJobs}

TableTypes ==
    /\ rankings \subseteq Rows
    /\ jobAt \in [RankingJobs -> Int]
    /\ \A j \in RankingJobs : jobAt[j] \in 0..(Table!BatchCount(j) + 1)
    /\ left \in [RankingJobs -> SUBSET Table!Categories]
    /\ seen \in [RankingJobs -> (SUBSET Rows) \cup {Nothing}]
    /\ deleted \in [RankingJobs -> SUBSET Rows]
    /\ inserted \in [RankingJobs -> SUBSET Rows]
    /\ tableFaults \in 0..MaxTableFaults

(* A job that has not begun, or has ended, holds nothing.                   *)
IdleHoldsNothing(j) ==
    ~Table!Running(j) =>
        left[j] = {} /\ seen[j] = Nothing /\ deleted[j] = {} /\ inserted[j] = {}

LeftIsOfBatch(j) == left[j] \subseteq Table!Groups(j, jobAt[j])

(* What it has found to delete is of the group it is at.                    *)
SeenIsOfGroup(j) ==
    seen[j] # Nothing =>
        /\ left[j] # {} /\ Table!NextGroup(j) \in RankedIn
        /\ \A r \in seen[j] : r.entry.category = Table!NextGroup(j)

(* Of a category that it has replaced it holds the rows of one batch, the last *)
(* with that category but for the one it is at.                             *)
Stands(j, c, n) ==
    /\ c \in Table!Groups(j, n)
    /\ \A k \in 1..jobAt[j] :
          k > n /\ c \in Table!Groups(j, k) => k = jobAt[j] /\ c \in left[j]
    /\ Table!Of(inserted[j], c) = Table!RowsOf(Table!Batch(j, n), j, c)

Untouched(j, c) == Table!Of(deleted[j], c) = {} /\ Table!Of(inserted[j], c) = {}

Touched(j, c) ==
    Untouched(j, c) \/ (c \in RankedIn /\ \E n \in 1..jobAt[j] : Stands(j, c, n))

(* Each row it holds deleted is there, and nobody else holds it; each row it *)
(* inserted is its own, and none of its own is there before it ends.        *)
HeldAreThere(j) ==
    /\ deleted[j] \subseteq rankings
    /\ \A i \in RankingJobs \ {j} : deleted[i] \cap deleted[j] = {}

OwnAreNew(j) ==
    /\ \A r \in inserted[j] : r.job = j
    /\ \A r \in rankings : r.job = j => jobAt[j] = Table!BatchCount(j) + 1

JobInv(j) ==
    /\ IdleHoldsNothing(j) /\ LeftIsOfBatch(j) /\ SeenIsOfGroup(j)
    /\ HeldAreThere(j) /\ OwnAreNew(j)
    /\ \A c \in Table!Categories : Touched(j, c)

TableInv == TableTypes /\ \A j \in RankingJobs : JobInv(j)

LEMMA BatchesFit ==
    ASSUME ListingsFit, NEW j \in RankingJobs
    PROVE  /\ Table!BatchCount(j) \in Nat
           /\ DOMAIN Listing[j] \subseteq Nat
           /\ DOMAIN Listing[j] # {} => Table!BatchCount(j) >= 1
<1>1. Len(Listing[j]) \in Nat /\ DOMAIN Listing[j] = 1..Len(Listing[j])
  BY DEF ListingsFit
<1>2. ASSUME NEW n \in Nat, NEW b \in Nat \ {0}
      PROVE  (n + b - 1) \div b \in Nat /\ (n # 0 => (n + b - 1) \div b >= 1)
  BY <1>2
<1>3. Table!BatchCount(j) \in Nat /\ (Len(Listing[j]) # 0 => Table!BatchCount(j) >= 1)
  BY <1>1, <1>2 DEF Table!BatchCount, ListingsFit
<1>4. DOMAIN Listing[j] \subseteq Nat /\ (DOMAIN Listing[j] # {} => Len(Listing[j]) # 0)
  BY <1>1
<1> QED BY <1>3, <1>4

(* The group whose first entry comes first is one of those left.            *)
LEMMA NextIsLeft ==
    ASSUME ListingsFit, NEW j \in RankingJobs, NEW n, NEW cs,
           cs \subseteq Table!Groups(j, n), cs # {}
    PROVE  Table!FirstGroup(j, n, cs) \in cs
<1> DEFINE S == {i \in Table!Batch(j, n) : Listing[j][i].category \in cs}
<1>1. S # {}
  BY DEF Table!Groups
<1>2. S \subseteq Nat
  BY BatchesFit DEF Table!Batch
<1>3. PICK i \in S : \A k \in S : ~(k < i)
  BY <1>1, <1>2, LeastPlace
<1>4. Listing[j][i].category \in cs
  BY DEF S
<1>5. \E c \in cs : \E p \in Table!Batch(j, n) :
          /\ Listing[j][p].category = c
          /\ \A k \in Table!Batch(j, n) : k < p => Listing[j][k].category \notin cs
  BY <1>3, <1>4
<1> QED
  BY <1>5 DEF Table!FirstGroup

(* A job is at a batch when it has a group left.                            *)
LEMMA LeftIsRunning ==
    ASSUME ListingsFit, TableInv, NEW j \in RankingJobs, left[j] # {}
    PROVE  /\ jobAt[j] \in 1..Table!BatchCount(j) /\ Table!Running(j)
           /\ Table!NextGroup(j) \in left[j]
           /\ Table!NextGroup(j) \in Table!Groups(j, jobAt[j])
<1>1. Table!Running(j) /\ left[j] \subseteq Table!Groups(j, jobAt[j])
  BY DEF TableInv, JobInv, IdleHoldsNothing, LeftIsOfBatch
<1>2. Table!NextGroup(j) \in left[j]
  BY <1>1, NextIsLeft DEF Table!NextGroup
<1> QED BY <1>1, <1>2 DEF Table!Running

(* The rows of a batch are rows of the job, and those of a category of its   *)
(* listing have that category.                                              *)
LEMMA RowsOfBatch ==
    ASSUME NEW j \in RankingJobs, NEW n, NEW c
    PROVE  /\ Table!RowsOf(Table!Batch(j, n), j, c) \subseteq Rows
           /\ \A r \in Table!RowsOf(Table!Batch(j, n), j, c) :
                 r.job = j /\ r.entry.category = c
BY DEF Table!RowsOf, Table!Batch, Table!Row, Rows

LEMMA GroupsAreCategories ==
    ASSUME NEW j \in RankingJobs, NEW n PROVE Table!Groups(j, n) \subseteq Table!Categories
BY DEF Table!Groups, Table!Batch, Table!Categories, Table!Range

LEMMA TableInit == ASSUME ListingsFit PROVE Table!Init => TableInv
<1> SUFFICES ASSUME Table!Init PROVE TableInv OBVIOUS
<1>1. TableTypes
  <2>1. \A j \in RankingJobs : jobAt[j] \in 0..(Table!BatchCount(j) + 1)
    BY BatchesFit DEF Table!Init
  <2>2. jobAt \in [RankingJobs -> Int] /\ tableFaults \in 0..MaxTableFaults
    BY DEF Table!Init, ListingsFit
  <2>3. seen \in [RankingJobs -> (SUBSET Rows) \cup {Nothing}]
    BY DEF Table!Init
  <2> QED BY <2>1, <2>2, <2>3 DEF TableTypes, Table!Init
<1>2. ASSUME NEW j \in RankingJobs PROVE JobInv(j)
  BY DEF JobInv, IdleHoldsNothing, LeftIsOfBatch, SeenIsOfGroup, HeldAreThere, OwnAreNew,
         Touched, Untouched, Table!Of, Table!Init
<1> QED BY <1>1, <1>2 DEF TableInv

(* What an action that touches one job leaves to the others.                *)
LEMMA OthersKeep ==
    ASSUME TableInv, NEW j \in RankingJobs, NEW i \in RankingJobs, i # j,
           jobAt'[i] = jobAt[i], left'[i] = left[i], seen'[i] = seen[i],
           deleted'[i] = deleted[i], inserted'[i] = inserted[i],
           deleted[i] \subseteq rankings', deleted'[j] \cap deleted[i] = {},
           \A k \in RankingJobs \ {j} : deleted'[k] = deleted[k],
           \A r \in rankings' : r.job = i => r \in rankings
    PROVE  JobInv(i)'
<1>1. /\ Table!Running(i)' = Table!Running(i) /\ Table!NextGroup(i)' = Table!NextGroup(i)
  BY DEF Table!Running, Table!NextGroup
<1>2. JobInv(i) BY DEF TableInv
<1>3. IdleHoldsNothing(i)' /\ LeftIsOfBatch(i)' /\ SeenIsOfGroup(i)'
  BY <1>1, <1>2 DEF JobInv, IdleHoldsNothing, LeftIsOfBatch, SeenIsOfGroup
<1>4. HeldAreThere(i)'
  BY <1>2 DEF JobInv, HeldAreThere
<1>5. OwnAreNew(i)'
  BY <1>2 DEF JobInv, OwnAreNew
<1>6. ASSUME NEW c \in Table!Categories PROVE Touched(i, c)'
  BY <1>2 DEF JobInv, Touched, Untouched, Stands
<1> QED BY <1>3, <1>4, <1>5, <1>6 DEF JobInv

(* The start of a batch.                                                    *)
LEMMA EnterKeeps ==
    ASSUME ListingsFit, TableInv, NEW j \in RankingJobs,
           Table!Fetch(j) \/ Table!NextBatch(j)
    PROVE  TableInv'
<1> DEFINE n == jobAt[j] + 1
<1>1. /\ jobAt' = [jobAt EXCEPT ![j] = n] /\ left' = [left EXCEPT ![j] = Table!Groups(j, n)]
      /\ rankings' = rankings /\ seen' = seen /\ deleted' = deleted /\ inserted' = inserted
      /\ tableFaults' = tableFaults
      /\ left[j] = {} /\ n \in 1..(Table!BatchCount(j) + 1) /\ jobAt[j] # Table!BatchCount(j) + 1
  BY BatchesFit DEF Table!Fetch, Table!NextBatch, Table!EnterBatch, Table!BetweenBatches,
     TableInv, TableTypes, JobInv, IdleHoldsNothing, Table!Running
<1>2. TableTypes'
  BY <1>1, GroupsAreCategories DEF TableInv, TableTypes
<1>3. \A i \in RankingJobs \ {j} : JobInv(i)'
  BY <1>1, OthersKeep DEF TableInv, TableTypes, JobInv, HeldAreThere
<1>4. JobInv(j) /\ jobAt'[j] = n /\ left'[j] = Table!Groups(j, n) /\ seen[j] = Nothing
  BY <1>1 DEF TableInv, TableTypes, JobInv, SeenIsOfGroup
<1>5. ASSUME n = Table!BatchCount(j) + 1 PROVE JobInv(j)'
  <2>1. Table!BatchCount(j) = 0 /\ jobAt[j] = 0
    BY <1>5, <1>1, BatchesFit DEF Table!Fetch, Table!NextBatch, Table!BetweenBatches
  <2>2. Table!Groups(j, n) = {}
    BY <2>1, BatchesFit DEF Table!Groups, Table!Batch
  <2>3. deleted[j] = {} /\ inserted[j] = {}
    BY <2>1, <1>4 DEF JobInv, IdleHoldsNothing, Table!Running
  <2> QED
    BY <1>1, <1>4, <2>2, <2>3, <1>5 DEF JobInv, IdleHoldsNothing, LeftIsOfBatch, SeenIsOfGroup,
       HeldAreThere, OwnAreNew, Touched, Untouched, Table!Of
<1>6. ASSUME n \in 1..Table!BatchCount(j) PROVE JobInv(j)'
  <2>1. Table!Running(j)' BY <1>4, <1>6 DEF Table!Running
  <2>2. \A r \in rankings : r.job # j
    BY <1>4, <1>1 DEF JobInv, OwnAreNew
  <2>3. ASSUME NEW c \in Table!Categories PROVE Touched(j, c)'
    <3>1. jobAt[j] \in Nat /\ jobAt'[j] = jobAt[j] + 1
      BY <1>1, <1>4 DEF TableInv, TableTypes
    <3>2. Untouched(j, c) => Untouched(j, c)'
      BY <1>1 DEF Untouched
    <3>3. ASSUME NEW m \in 1..jobAt[j], Stands(j, c, m)
          PROVE  m \in 1..jobAt'[j] /\ Stands(j, c, m)'
      <4>1. \A k \in 1..jobAt[j] : k > m => c \notin Table!Groups(j, k)
        BY <1>1, <3>3 DEF Stands
      <4>2. \A k \in 1..jobAt'[j] : k \in 1..jobAt[j] \/ k = jobAt'[j]
        BY <3>1
      <4>3. c \in Table!Groups(j, jobAt'[j]) => c \in left'[j]
        BY <1>4
      <4>4. m \in 1..jobAt'[j]
        BY <3>1
      <4> QED
        BY <1>1, <3>3, <4>1, <4>2, <4>3, <4>4 DEF Stands
    <3> QED
      BY <1>4, <3>2, <3>3 DEF JobInv, Touched
  <2> QED
    BY <1>1, <1>4, <2>1, <2>2, <2>3 DEF JobInv, IdleHoldsNothing, LeftIsOfBatch, SeenIsOfGroup,
       HeldAreThere, OwnAreNew
<1> QED BY <1>1, <1>2, <1>3, <1>5, <1>6, BatchesFit DEF TableInv

(* A group is left out, or looked up before it is deleted.                  *)
LEMMA SkipKeeps ==
    ASSUME ListingsFit, TableInv, NEW j \in RankingJobs, Table!SkipGroup(j)
    PROVE  TableInv'
<1>1. /\ left' = [left EXCEPT ![j] = left[j] \ {Table!NextGroup(j)}]
      /\ UNCHANGED <<rankings, jobAt, seen, deleted, inserted, tableFaults>>
      /\ Table!NextGroup(j) \notin RankedIn /\ left[j] # {}
  BY DEF Table!SkipGroup, TableInv, TableTypes
<1>2. TableTypes'
  BY <1>1 DEF TableInv, TableTypes
<1>3. \A i \in RankingJobs \ {j} : JobInv(i)'
  BY <1>1, OthersKeep DEF TableInv, TableTypes, JobInv, HeldAreThere
<1>4. JobInv(j) /\ seen[j] = Nothing /\ left'[j] \subseteq left[j]
  BY <1>1 DEF TableInv, TableTypes, JobInv, SeenIsOfGroup
<1>5. Table!Running(j) /\ Table!Running(j)'
  BY <1>1, LeftIsRunning DEF Table!Running
<1>6. ASSUME NEW c \in Table!Categories PROVE Touched(j, c)'
  <2>1. Untouched(j, c) => Untouched(j, c)'
    BY <1>1 DEF Untouched
  <2>2. ASSUME c \in RankedIn, NEW m \in 1..jobAt[j], Stands(j, c, m)
        PROVE  Stands(j, c, m)'
    <3>1. c \in left[j] => c \in left'[j]
      BY <1>1, <2>2 DEF TableInv, TableTypes
    <3> QED BY <1>1, <2>2, <3>1 DEF Stands
  <2> QED BY <1>1, <1>4, <2>1, <2>2 DEF JobInv, Touched
<1>7. JobInv(j)'
  BY <1>1, <1>4, <1>5, <1>6 DEF JobInv, IdleHoldsNothing, LeftIsOfBatch, SeenIsOfGroup,
     HeldAreThere, OwnAreNew
<1> QED BY <1>2, <1>3, <1>7 DEF TableInv

LEMMA StartDeleteKeeps ==
    ASSUME ListingsFit, TableInv, NEW j \in RankingJobs, Table!StartDelete(j)
    PROVE  TableInv'
<1>1. /\ seen' = [seen EXCEPT ![j] = Table!Of(rankings, Table!NextGroup(j)) \ deleted[j]]
      /\ UNCHANGED <<rankings, jobAt, left, deleted, inserted, tableFaults>>
      /\ Table!NextGroup(j) \in RankedIn /\ left[j] # {}
  BY DEF Table!StartDelete
<1>2. TableTypes'
  BY <1>1 DEF TableInv, TableTypes, Table!Of
<1>3. \A i \in RankingJobs \ {j} : JobInv(i)'
  BY <1>1, OthersKeep DEF TableInv, TableTypes, JobInv, HeldAreThere
<1>4. /\ JobInv(j) /\ Table!NextGroup(j)' = Table!NextGroup(j)
      /\ \A r \in seen'[j] : r.entry.category = Table!NextGroup(j)
  BY <1>1 DEF TableInv, TableTypes, Table!NextGroup, Table!Of
<1>5. Table!Running(j) /\ Table!Running(j)'
  BY <1>1, LeftIsRunning DEF Table!Running
<1>6. \A c \in Table!Categories : Touched(j, c)'
  BY <1>1, <1>4 DEF JobInv, Touched, Untouched, Stands
<1>7. JobInv(j)'
  BY <1>1, <1>4, <1>5, <1>6 DEF JobInv, IdleHoldsNothing, LeftIsOfBatch, SeenIsOfGroup,
     HeldAreThere, OwnAreNew
<1> QED BY <1>2, <1>3, <1>7 DEF TableInv

(* A group is replaced: its rows are deleted, and the batch's inserted.     *)
LEMMA ReplaceKeeps ==
    ASSUME ListingsFit, TableInv, NEW j \in RankingJobs, Table!Replace(j)
    PROVE  TableInv'
<1> DEFINE g   == Table!NextGroup(j)
           new == Table!RowsOf(Table!Batch(j, jobAt[j]), j, g)
<1>1. /\ deleted' = [deleted EXCEPT ![j] = deleted[j] \cup (seen[j] \cap rankings)]
      /\ inserted' = [inserted EXCEPT ![j] = (inserted[j] \ Table!Of(inserted[j], g)) \cup new]
      /\ left' = [left EXCEPT ![j] = left[j] \ {g}]
      /\ seen' = [seen EXCEPT ![j] = Nothing]
      /\ UNCHANGED <<rankings, jobAt, tableFaults>>
      /\ seen[j] # Nothing
      /\ \A i \in RankingJobs \ {j} : deleted[i] \cap seen[j] = {}
  BY DEF Table!Replace, TableInv, TableTypes
<1>2. /\ JobInv(j) /\ left[j] # {} /\ \A r \in seen[j] : r.entry.category = g
      /\ seen[j] \subseteq Rows /\ g \in RankedIn
  <2>1. SeenIsOfGroup(j) /\ JobInv(j) BY DEF TableInv, JobInv
  <2>2. seen[j] \subseteq Rows BY <1>1 DEF TableInv, TableTypes
  <2> QED BY <1>1, <2>1, <2>2 DEF SeenIsOfGroup
<1>3. /\ jobAt[j] \in 1..Table!BatchCount(j) /\ Table!Running(j) /\ Table!Running(j)'
      /\ g \in Table!Groups(j, jobAt[j])
  BY <1>1, <1>2, LeftIsRunning DEF Table!Running
<1>4. new \subseteq Rows /\ \A r \in new : r.job = j /\ r.entry.category = g
  BY RowsOfBatch
<1> HIDE DEF g, new
<1>5. TableTypes'
  <2>1. deleted' \in [RankingJobs -> SUBSET Rows]
    BY <1>1, <1>2 DEF TableInv, TableTypes
  <2>2. inserted' \in [RankingJobs -> SUBSET Rows]
    <3>1. (inserted[j] \ Table!Of(inserted[j], g)) \cup new \in SUBSET Rows
      BY <1>4 DEF TableInv, TableTypes
    <3> QED BY <1>1, <3>1 DEF TableInv, TableTypes
  <2>3. left' \in [RankingJobs -> SUBSET Table!Categories]
    BY <1>1 DEF TableInv, TableTypes
  <2>4. seen' \in [RankingJobs -> (SUBSET Rows) \cup {Nothing}]
    BY <1>1 DEF TableInv, TableTypes
  <2> QED BY <1>1, <2>1, <2>2, <2>3, <2>4 DEF TableInv, TableTypes
<1>6. /\ deleted'[j] = deleted[j] \cup (seen[j] \cap rankings)
      /\ inserted'[j] = (inserted[j] \ Table!Of(inserted[j], g)) \cup new
      /\ left'[j] = left[j] \ {g} /\ seen'[j] = Nothing /\ jobAt'[j] = jobAt[j]
      /\ \A i \in RankingJobs \ {j} :
            /\ deleted'[i] = deleted[i] /\ inserted'[i] = inserted[i] /\ left'[i] = left[i]
            /\ seen'[i] = seen[i] /\ jobAt'[i] = jobAt[i]
  BY <1>1 DEF TableInv, TableTypes
<1>7. ASSUME NEW i \in RankingJobs \ {j} PROVE JobInv(i)'
  <2>1. deleted[i] \subseteq rankings' /\ deleted'[j] \cap deleted[i] = {}
    BY <1>1, <1>6 DEF TableInv, JobInv, HeldAreThere
  <2> QED BY <1>1, <1>6, <2>1, OthersKeep
<1>8. ASSUME NEW c \in Table!Categories PROVE Touched(j, c)'
  <2>1. CASE c = g
    <3>1. Table!Of(inserted'[j], c) = new
      BY <2>1, <1>4, <1>6 DEF Table!Of
    <3>2. Stands(j, c, jobAt[j])'
      BY <3>1, <2>1, <1>3, <1>6 DEF Stands, new
    <3>3. jobAt[j] \in 1..jobAt'[j]
      BY <1>3, <1>6
    <3> QED BY <1>2, <1>6, <2>1, <3>2, <3>3 DEF Touched
  <2>2. CASE c # g
    <3>1. /\ Table!Of(inserted'[j], c) = Table!Of(inserted[j], c)
          /\ Table!Of(deleted'[j], c) = Table!Of(deleted[j], c)
      BY <2>2, <1>2, <1>4, <1>6 DEF Table!Of
    <3>2. Untouched(j, c) => Untouched(j, c)'
      BY <3>1 DEF Untouched
    <3>3. ASSUME NEW m \in 1..jobAt[j], Stands(j, c, m)
          PROVE  m \in 1..jobAt'[j] /\ Stands(j, c, m)'
      BY <2>2, <3>1, <3>3, <1>6 DEF Stands
    <3> QED BY <1>2, <3>2, <3>3 DEF JobInv, Touched
  <2> QED BY <2>1, <2>2
<1>9. HeldAreThere(j)' /\ OwnAreNew(j)'
  BY <1>1, <1>2, <1>4, <1>6 DEF JobInv, HeldAreThere, OwnAreNew
<1>10. IdleHoldsNothing(j)' /\ LeftIsOfBatch(j)' /\ SeenIsOfGroup(j)'
  BY <1>2, <1>3, <1>6 DEF JobInv, IdleHoldsNothing, LeftIsOfBatch, SeenIsOfGroup
<1> QED BY <1>5, <1>7, <1>8, <1>9, <1>10 DEF TableInv, JobInv

(* The end of a job, which stores what it holds or drops it.                *)
LEMMA EndKeeps ==
    ASSUME ListingsFit, TableInv, NEW j \in RankingJobs, Table!End(j),
           rankings' = rankings \/ Table!Store(j), tableFaults' \in 0..MaxTableFaults
    PROVE  TableInv'
<1>1. /\ jobAt' = [jobAt EXCEPT ![j] = Table!BatchCount(j) + 1]
      /\ left' = [left EXCEPT ![j] = {}] /\ seen' = [seen EXCEPT ![j] = Nothing]
      /\ deleted' = [deleted EXCEPT ![j] = {}] /\ inserted' = [inserted EXCEPT ![j] = {}]
  BY DEF Table!End
<1>2. /\ deleted'[j] = {} /\ inserted'[j] = {} /\ left'[j] = {} /\ seen'[j] = Nothing
      /\ jobAt'[j] = Table!BatchCount(j) + 1
      /\ \A i \in RankingJobs \ {j} :
            /\ deleted'[i] = deleted[i] /\ inserted'[i] = inserted[i] /\ left'[i] = left[i]
            /\ seen'[i] = seen[i] /\ jobAt'[i] = jobAt[i]
  BY <1>1 DEF TableInv, TableTypes
<1>3. /\ rankings' \subseteq rankings \cup inserted[j]
      /\ rankings \ deleted[j] \subseteq rankings'
  BY DEF Table!Store
<1>4. JobInv(j) BY DEF TableInv
<1>5. TableTypes'
  <2>1. /\ jobAt' \in [RankingJobs -> Int]
        /\ \A i \in RankingJobs : jobAt'[i] \in 0..(Table!BatchCount(i) + 1)
    BY <1>1, <1>2, BatchesFit DEF TableInv, TableTypes
  <2>2. rankings' \subseteq Rows
    BY <1>3 DEF TableInv, TableTypes
  <2>3. seen' \in [RankingJobs -> (SUBSET Rows) \cup {Nothing}]
    BY <1>1 DEF TableInv, TableTypes
  <2> QED BY <1>1, <2>1, <2>2, <2>3 DEF TableInv, TableTypes
<1>6. ASSUME NEW i \in RankingJobs \ {j} PROVE JobInv(i)'
  <2>1. deleted[i] \subseteq rankings' /\ deleted'[j] \cap deleted[i] = {}
    BY <1>2, <1>3 DEF TableInv, JobInv, HeldAreThere
  <2>2. \A r \in rankings' : r.job = i => r \in rankings
    BY <1>3, <1>4 DEF JobInv, OwnAreNew
  <2> QED BY <1>2, <2>1, <2>2, OthersKeep
<1>7. ~Table!Running(j)'
  BY <1>2, BatchesFit DEF Table!Running
<1>8. JobInv(j)'
  BY <1>2, <1>7 DEF JobInv, IdleHoldsNothing, LeftIsOfBatch, SeenIsOfGroup,
     HeldAreThere, OwnAreNew, Touched, Untouched, Table!Of
<1> QED BY <1>5, <1>6, <1>8 DEF TableInv

LEMMA TableNext ==
    ASSUME ListingsFit, TableInv, [Table!Next]_(Table!vars) PROVE TableInv'
<1> tableFaults \in 0..MaxTableFaults /\ MaxTableFaults \in Nat
  BY DEF TableInv, TableTypes, ListingsFit
<1>1. Table!Fault => tableFaults' \in 0..MaxTableFaults
  BY DEF Table!Fault
<1>2. ASSUME NEW j \in RankingJobs, Table!FetchNothing(j) PROVE TableInv'
  BY <1>1, <1>2, EndKeeps DEF Table!FetchNothing
<1>3. ASSUME NEW j \in RankingJobs, Table!Commit(j) PROVE TableInv'
  BY <1>3, EndKeeps DEF Table!Commit
<1>4. ASSUME NEW j \in RankingJobs, Table!Cancel(j) \/ Table!Abort(j) PROVE TableInv'
  BY <1>1, <1>4, EndKeeps DEF Table!Cancel, Table!Abort
<1>5. CASE UNCHANGED Table!vars
  <2>1. TableTypes' BY <1>5 DEF TableInv, TableTypes, Table!vars
  <2>2. ASSUME NEW j \in RankingJobs PROVE JobInv(j)'
    <3>1. /\ Table!Running(j)' = Table!Running(j) /\ Table!NextGroup(j)' = Table!NextGroup(j)
          /\ JobInv(j)
      BY <1>5 DEF Table!vars, Table!Running, Table!NextGroup, TableInv
    <3> QED
      BY <1>5, <3>1 DEF Table!vars, JobInv, IdleHoldsNothing, LeftIsOfBatch, SeenIsOfGroup,
         HeldAreThere, OwnAreNew, Touched, Untouched, Stands
  <2> QED BY <2>1, <2>2 DEF TableInv
<1> QED
  BY <1>1, <1>2, <1>3, <1>4, <1>5, EnterKeeps, SkipKeeps, StartDeleteKeeps, ReplaceKeeps
  DEF Table!Next

(* What a category holds of a job that stores its transaction are the rows of *)
(* the last batch with that category.                                       *)
LEMMA StoreIsWhole ==
    ASSUME ListingsFit, TableInv, NEW j \in RankingJobs, Table!Running(j), left[j] = {},
           Table!Store(j),
           NEW c \in Table!Categories, Table!Of(rankings', c) # Table!Of(rankings, c)
    PROVE  \E n \in 1..jobAt[j] :
              /\ Table!IsLastFor(j, c, n)
              /\ {r \in Table!Of(rankings', c) : r.job = j}
                    = Table!RowsOf(Table!Batch(j, n), j, c)
<1>1. JobInv(j) /\ rankings' = (rankings \ deleted[j]) \cup inserted[j]
  BY DEF TableInv, Table!Store
<1>2. jobAt[j] # Table!BatchCount(j) + 1
  BY BatchesFit DEF Table!Running
<1>3. /\ \A r \in inserted[j] : r.job = j
      /\ \A r \in rankings : r.job # j
  BY <1>1, <1>2 DEF JobInv, OwnAreNew
<1>4. ~Untouched(j, c)
  BY <1>1 DEF Untouched, Table!Of
<1>5. PICK n \in 1..jobAt[j] : Stands(j, c, n)
  BY <1>1, <1>4 DEF JobInv, Touched
<1>6. Table!IsLastFor(j, c, n)
  BY <1>5 DEF Stands, Table!IsLastFor
<1>7. {r \in Table!Of(rankings', c) : r.job = j} = Table!Of(inserted[j], c)
  BY <1>1, <1>3 DEF Table!Of
<1> QED BY <1>5, <1>6, <1>7 DEF Stands

(* The committed rows of a category only change when a job ends that has    *)
(* replaced it, and then hold of this job exactly the rows of the last of    *)
(* its batches with that category, whatever fails, is cancelled or overlaps: *)
(* for any listings, batch size and number of jobs.                         *)
THEOREM TableLosesNothing == ASSUME ListingsFit PROVE Spec => Table!NoDataLoss
<1> DEFINE Whole ==
      \A c \in Table!Categories :
          Table!Of(rankings', c) # Table!Of(rankings, c) =>
             \E j \in RankingJobs :
                /\ Table!Running(j) /\ ~Table!Running(j)'
                /\ \E n \in 1..jobAt[j] :
                     /\ Table!IsLastFor(j, c, n)
                     /\ {r \in Table!Of(rankings', c) : r.job = j}
                           = Table!RowsOf(Table!Batch(j, n), j, c)
<1>1. ASSUME TableInv, [Table!Next]_(Table!vars) PROVE [Whole]_(Table!vars)
  <2>1. ASSUME NEW j \in RankingJobs, Table!Commit(j) \/ Table!Cancel(j) PROVE Whole
    <3>1. Table!Store(j)
      BY <2>1 DEF Table!Commit, Table!Cancel
    <3>2. ASSUME ~Table!Running(j) PROVE rankings' = rankings
      <4>1. deleted[j] = {} /\ inserted[j] = {}
        BY <1>1, <3>2 DEF TableInv, JobInv, IdleHoldsNothing
      <4> QED BY <3>1, <4>1 DEF Table!Store
    <3>3. left[j] = {} /\ Table!End(j)
      BY <2>1 DEF Table!Commit, Table!Cancel, Table!BetweenBatches
    <3>4. ~Table!Running(j)'
      BY <1>1, <3>3, BatchesFit DEF Table!End, Table!Running, TableInv, TableTypes
    <3> QED BY <1>1, <3>1, <3>2, <3>3, <3>4, StoreIsWhole
  <2>2. ASSUME rankings' = rankings PROVE Whole
    BY <2>2
  <2> QED
    BY <1>1, <2>1, <2>2
    DEF Table!Next, Table!vars, Table!Fetch, Table!FetchNothing, Table!SkipGroup,
        Table!StartDelete, Table!Replace, Table!NextBatch, Table!Abort
<1> HIDE DEF Whole
<1>2. Table!Spec => [][Whole]_(Table!vars)
  BY <1>1, TableInit, TableNext, PTL DEF Table!Spec
<1> QED BY <1>2, TableRuns, PTL DEF Table!NoDataLoss, Whole

----------------------------------------------------------------------------
(* The data lake: what is stored has its file, which nothing removes.        *)
StoredIsFiled == stored \subseteq files

(* A record whose store returned can be read ever after, whatever is         *)
(* archived and whenever the process dies, for any number of records.        *)
THEOREM RecordsStay == Lake!Spec => []Lake!RecordsSurvive
<1>1. Lake!Init => StoredIsFiled
  BY DEF Lake!Init, StoredIsFiled
<1>2. StoredIsFiled /\ [Lake!Next]_(Lake!vars) => StoredIsFiled'
  BY DEF StoredIsFiled, Lake!Next, Lake!vars, Lake!ArchiveOld, Lake!Crash, Lake!Store,
         Lake!StoreReturns, Lake!Age
<1>3. StoredIsFiled => Lake!RecordsSurvive
  BY DEF StoredIsFiled, Lake!RecordsSurvive, Lake!Get
<1> QED BY <1>1, <1>2, <1>3, PTL DEF Lake!Spec

(* Nothing stored is lost: the rankings table only changes by whole batches,*)
(* the preferences by the fields a request names, and a record of the lake  *)
(* stays readable, through faults, cancellations, crashes and overlapping   *)
(* writers.                                                                 *)
THEOREM StoresAreSafe ==
  ASSUME ListingsFit, NoRowIsNoRow PROVE Spec => StoresLoseNothing
<1> QED
  BY TableLosesNothing, FieldsByName, ListsRuns, RecordsStay, LakeRuns, PTL
  DEF StoresLoseNothing

----------------------------------------------------------------------------
(* Live mode.                                                               *)
(* In the first manager the flag is the detector's last answer but one until *)
(* the loop has compared them; nothing asks before the manager is up.       *)
FlagIsCompared ==
    /\ ~up => loop = "asleep"
    /\ restarts = 0 =>
          /\ ~up => live = FALSE /\ enabled = FALSE
          /\ loop = "asleep" => enabled = live
          /\ loop = "asking" => enabled = live /\ wasLive = live
          /\ loop = "answered" => enabled = wasLive

LiveInv ==
    /\ LiveLoop!TypeOK
    /\ live = TRUE <=> active # NoEvent
    /\ FlagIsCompared

LEMMA LiveInit == ASSUME NoEventIsNone PROVE LiveLoop!Init => LiveInv
<1> SUFFICES ASSUME LiveLoop!Init PROVE LiveInv OBVIOUS
<1>1. fight \in [Events -> {"none", "soon", "live"}] /\ restarts \in 0..MaxRestarts
  BY DEF LiveLoop!Init, NoEventIsNone
<1>2. /\ live = FALSE /\ wasLive = FALSE /\ enabled = FALSE /\ timer = FALSE /\ up = FALSE
      /\ active = NoEvent /\ loop = "asleep"
  BY DEF LiveLoop!Init
<1>3. LiveLoop!TypeOK
  BY <1>1, <1>2 DEF LiveLoop!TypeOK
<1> QED BY <1>2, <1>3 DEF LiveInv, FlagIsCompared

LEMMA LiveNext ==
    ASSUME NoEventIsNone, LiveInv, [LiveLoop!Next]_(LiveLoop!liveVars) PROVE LiveInv'
<1> USE DEF LiveInv, LiveLoop!TypeOK, FlagIsCompared, NoEventIsNone
<1>1. CASE LiveLoop!Start
  BY <1>1 DEF LiveLoop!Start, LiveLoop!loopVars
<1>2. CASE LiveLoop!Shutdown
  <2>1. restarts' \in 0..MaxRestarts /\ restarts' # 0
    BY <1>2 DEF LiveLoop!Shutdown
  <2> QED BY <1>2, <2>1 DEF LiveLoop!Shutdown, LiveLoop!detVars
<1>3. CASE LiveLoop!BeginCheck
  BY <1>3 DEF LiveLoop!BeginCheck, LiveLoop!detVars, LiveLoop!mgrVars
<1>4. CASE LiveLoop!Switch
  BY <1>4 DEF LiveLoop!Switch, LiveLoop!detVars, LiveLoop!mgrVars
<1>5. CASE LiveLoop!CheckFindsNone
  BY <1>5 DEF LiveLoop!CheckFindsNone, LiveLoop!Answer, LiveLoop!mgrVars
<1>6. CASE LiveLoop!CheckFails
  BY <1>6 DEF LiveLoop!CheckFails, LiveLoop!Answer, LiveLoop!detVars, LiveLoop!mgrVars
<1>7. ASSUME NEW e \in Events, LiveLoop!EventMoves(e) PROVE LiveInv'
  BY <1>7 DEF LiveLoop!EventMoves, LiveLoop!detVars, LiveLoop!loopVars, LiveLoop!mgrVars
<1>8. ASSUME NEW e \in Events, LiveLoop!CheckFinds(e) PROVE LiveInv'
  BY <1>8 DEF LiveLoop!CheckFinds, LiveLoop!Answer, LiveLoop!mgrVars
<1>9. CASE UNCHANGED LiveLoop!liveVars
  BY <1>9 DEF LiveLoop!liveVars
<1> QED
  BY <1>1, <1>2, <1>3, <1>4, <1>5, <1>6, <1>7, <1>8, <1>9 DEF LiveLoop!Next

(* Between two checks of the first manager the detector, its active event    *)
(* and the registry flag agree, for any events and number of restarts        *)
(* (scheduler/manager.py:268-298).                                          *)
THEOREM FlagFollows == ASSUME NoEventIsNone PROVE Spec => []FlagFollowsDetector
<1>1. LiveInv => FlagFollowsDetector
  BY DEF LiveInv, LiveLoop!TypeOK, FlagIsCompared, FlagFollowsDetector,
     LiveLoop!FlagFollowsDetector
<1> QED BY <1>1, LiveInit, LiveNext, LiveLoopRuns, PTL DEF LiveLoop!Spec

----------------------------------------------------------------------------
(* The plan scheduler.                                                      *)
Done == {c \in Calls : callPhase[c] = "recorded"}

(* Locks and running records tell which calls execute.                      *)
LocksTell ==
    /\ locked = {Plans!Key(c) : c \in Plans!Executing}
    /\ \A c, d \in Plans!Executing : Plans!Key(c) = Plans!Key(d) => c = d
    /\ \A d \in Definitions, c \in Calls :
          running[d] = c <=> (c \in Plans!Executing /\ defId[c] = d)

(* The history holds ended calls, each once, and as many as it has room for.*)
HistoryTells ==
    /\ \A i \in 1..Len(history) : history[i] \in Done
    /\ \A i, k \in 1..Len(history) : history[i] = history[k] => i = k
    /\ Len(history) = IF Cardinality(Done) < MaxHistory THEN Cardinality(Done) ELSE MaxHistory

PlansInv == Plans!TypeOK /\ LocksTell /\ HistoryTells

(* A sequence without duplicates has as many elements as its length.        *)
LEMMA DistinctCount ==
    ASSUME NEW S, NEW s \in Seq(S),
           \A i, k \in 1..Len(s) : s[i] = s[k] => i = k
    PROVE  Cardinality({s[i] : i \in 1..Len(s)}) = Len(s)
<1> DEFINE T == {s[i] : i \in 1..Len(s)}
           f == [i \in 1..Len(s) |-> s[i]]
<1>1. f \in Bijection(1..Len(s), T)
  BY DEF Bijection, Injection, Surjection, IsInjective
<1>2. ExistsBijection(1..Len(s), T)
  BY <1>1 DEF ExistsBijection
<1>3. Len(s) \in Nat OBVIOUS
<1> HIDE DEF T
<1>4. Cardinality(T) = Len(s)
  BY <1>2, <1>3, FS_CountingElements
<1> QED BY <1>4 DEF T

LEMMA PlansCardinality == ASSUME NEW S PROVE Plans!Cardinality(S) = Cardinality(S)
BY DEF Plans!Cardinality, Cardinality

LEMMA DoneIsFinite == ASSUME SchedulerFits PROVE IsFiniteSet(Done) /\ Cardinality(Done) \in Nat
<1>1. Done \in SUBSET Calls BY DEF Done
<1> QED BY <1>1, FS_Subset, FS_CardinalityType DEF SchedulerFits

LEMMA PlansInit == ASSUME SchedulerFits PROVE Plans!Init => PlansInv
<1> SUFFICES ASSUME Plans!Init PROVE PlansInv OBVIOUS
<1>1. Plans!Executing = {} /\ Done = {}
  BY DEF Plans!Init, Plans!Executing, Done
<1>2. Cardinality(Done) = 0
  BY <1>1, FS_EmptySet
<1>3. history = <<>> /\ Len(history) = 0 /\ history \in Seq(Calls)
  BY DEF Plans!Init
<1>4. Plans!TypeOK
  BY <1>3 DEF Plans!Init, Plans!TypeOK, Plans!Phases
<1>5. HistoryTells
  BY <1>1, <1>2, <1>3 DEF HistoryTells, SchedulerFits
<1>6. LocksTell
  BY <1>1 DEF LocksTell, Plans!Init, SchedulerFits
<1> QED BY <1>4, <1>5, <1>6 DEF PlansInv

(* The record of a call that ends joins the history.                        *)
LEMMA HistoryGrows ==
    ASSUME SchedulerFits, PlansInv, NEW c \in Calls, callPhase[c] = "executing",
           callPhase' = [callPhase EXCEPT ![c] = "recorded"],
           history' = Plans!AddToHistory(c)
    PROVE  history' \in Seq(Calls) /\ HistoryTells'
<1> DEFINE all == Append(history, c)
           n   == Len(history) + 1
           M   == MaxHistory
<1>1. /\ history \in Seq(Calls) /\ Len(history) \in Nat /\ n \in Nat /\ M \in Nat
      /\ callPhase \in [Calls -> Plans!Phases]
  BY DEF PlansInv, Plans!TypeOK, SchedulerFits
<1>2. /\ all \in Seq(Calls) /\ Len(all) = n
      /\ \A i \in 1..n : all[i] = IF i = n THEN c ELSE history[i]
  BY <1>1
<1>3. c \notin Done /\ Done' = Done \cup {c}
  BY <1>1 DEF Done
<1>4. Cardinality(Done') = Cardinality(Done) + 1 /\ Cardinality(Done) \in Nat
  BY <1>3, DoneIsFinite, FS_AddElement
<1>5. \A i \in 1..n : all[i] \in Done'
  BY <1>1, <1>2, <1>3 DEF PlansInv, HistoryTells
<1>6. \A i, k \in 1..n : all[i] = all[k] => i = k
  BY <1>1, <1>2, <1>3 DEF PlansInv, HistoryTells
<1>7. Len(history) = IF Cardinality(Done) < M THEN Cardinality(Done) ELSE M
  BY DEF PlansInv, HistoryTells
<1> HIDE DEF all
<1>8. history' = IF n > M THEN SubSeq(all, n - M + 1, n) ELSE all
  BY <1>2 DEF Plans!AddToHistory, all
<1>9. CASE n > M
  <2>1. n - M + 1 \in Int /\ n - M + 1 >= 1 /\ \A i \in (n - M + 1)..n : all[i] \in Calls
    BY <1>1, <1>2, <1>9
  <2>2. /\ history' \in Seq(Calls)
        /\ Len(history') = IF n - M + 1 <= n THEN n - (n - M + 1) + 1 ELSE 0
        /\ \A i \in 1..(n - (n - M + 1) + 1) : history'[i] = all[(n - M + 1) + i - 1]
    BY <1>1, <1>8, <1>9, <2>1, SubSeqProperties
  <2>3. Len(history') = M /\ \A i \in 1..M : history'[i] = all[i + (n - M)]
    BY <1>1, <2>2
  <2>4. M = IF Cardinality(Done') < M THEN Cardinality(Done') ELSE M
    BY <1>1, <1>4, <1>7, <1>9
  <2>5. \A i \in 1..M : i + (n - M) \in 1..n
    BY <1>1, <1>9
  <2>6. \A i \in 1..Len(history') : history'[i] \in Done'
    BY <1>5, <2>3, <2>5
  <2>7. \A i, k \in 1..Len(history') : history'[i] = history'[k] => i = k
    <3> SUFFICES ASSUME NEW i \in 1..M, NEW k \in 1..M, history'[i] = history'[k] PROVE i = k
      BY <2>3
    <3>1. all[i + (n - M)] = all[k + (n - M)]
      BY <2>3
    <3>2. i + (n - M) = k + (n - M)
      BY <1>6, <2>5, <3>1
    <3> QED BY <1>1, <3>2
  <2> QED BY <2>2, <2>3, <2>4, <2>6, <2>7 DEF HistoryTells
<1>10. CASE ~(n > M)
  <2>1. history' = all BY <1>8, <1>10
  <2>2. n = IF Cardinality(Done') < M THEN Cardinality(Done') ELSE M
    BY <1>1, <1>4, <1>7, <1>10
  <2> QED BY <1>2, <1>5, <1>6, <2>1, <2>2 DEF HistoryTells
<1> QED BY <1>9, <1>10

(* Without a new record, the history tells what it told.                    *)
LEMMA HistoryStays ==
    ASSUME PlansInv, NEW c \in Calls, callPhase[c] # "recorded", history' = history,
           NEW p, p # "recorded", callPhase' = [callPhase EXCEPT ![c] = p]
    PROVE  HistoryTells'
<1>1. Done' = Done
  BY DEF Done, PlansInv, Plans!TypeOK
<1> QED BY <1>1 DEF PlansInv, HistoryTells

(* A call that ends without executing leaves the locks alone.               *)
LEMMA IdleEnds ==
    ASSUME SchedulerFits, PlansInv, NEW c \in Calls, Plans!Skip(c) \/ Plans!Refuse(c)
    PROVE  PlansInv'
<1> USE DEF PlansInv
<1>1. Plans!Executing' = Plans!Executing /\ c \notin Plans!Executing
  BY DEF Plans!Skip, Plans!Refuse, Plans!Executing, Plans!TypeOK
<1>2. HistoryTells'
  BY HistoryStays DEF Plans!Skip, Plans!Refuse
<1>3. Plans!TypeOK'
  BY DEF Plans!Skip, Plans!Refuse, Plans!TypeOK, Plans!Phases
<1>4. locked' = locked /\ defId' = defId /\ \A d \in Calls : Plans!Key(d)' = Plans!Key(d)
  BY DEF Plans!Skip, Plans!Refuse, Plans!Key
<1>5. running' = running
  <2>1. ASSUME Plans!Refuse(c) PROVE running[defId[c]] = NoCall
    <3>1. \A d \in Plans!Executing : defId[d] # defId[c]
      BY <2>1 DEF LocksTell, Plans!Refuse, Plans!Key
    <3> QED BY <3>1 DEF LocksTell, Plans!TypeOK
  <2> QED BY <2>1 DEF Plans!Skip, Plans!Refuse, Plans!TypeOK
<1>6. LocksTell'
  <2>1. \A d \in Plans!Executing : d \in Calls BY DEF Plans!Executing
  <2> QED BY <1>1, <1>4, <1>5, <2>1 DEF LocksTell
<1> QED BY <1>2, <1>3, <1>6

LEMMA BeginKeeps ==
    ASSUME SchedulerFits, PlansInv, NEW c \in Calls, Plans!Begin(c) PROVE PlansInv'
<1> USE DEF PlansInv
<1>1. Plans!Executing' = Plans!Executing \cup {c} /\ c \notin Plans!Executing
  BY DEF Plans!Begin, Plans!Executing, Plans!TypeOK
<1>2. HistoryTells'
  BY HistoryStays DEF Plans!Begin
<1>3. Plans!TypeOK'
  BY DEF Plans!Begin, Plans!TypeOK, Plans!Phases, Plans!Key
<1>4. /\ locked' = locked \cup {Plans!Key(c)} /\ defId' = defId
      /\ \A d \in Calls : Plans!Key(d)' = Plans!Key(d)
      /\ running' = [running EXCEPT ![defId[c]] = c]
      /\ Plans!Key(c) \notin locked
  BY DEF Plans!Begin, Plans!Key
<1>5. \A d \in Plans!Executing : d \in Calls BY DEF Plans!Executing
<1>6. \A d \in Plans!Executing : Plans!Key(d) # Plans!Key(c) /\ defId[d] # defId[c]
  BY <1>4 DEF LocksTell, Plans!Key
<1>7. locked' = {Plans!Key(d)' : d \in Plans!Executing'}
  BY <1>1, <1>4, <1>5 DEF LocksTell
<1>8. \A d, e \in Plans!Executing' : Plans!Key(d)' = Plans!Key(e)' => d = e
  BY <1>1, <1>4, <1>5, <1>6 DEF LocksTell
<1>9. \A d \in Definitions, e \in Calls :
         running'[d] = e <=> (e \in Plans!Executing' /\ defId'[e] = d)
  BY <1>1, <1>4, <1>6 DEF LocksTell, Plans!TypeOK
<1> QED BY <1>2, <1>3, <1>7, <1>8, <1>9 DEF LocksTell

(* The finally block of a call that executes.                               *)
LEMMA ReleaseKeeps ==
    ASSUME SchedulerFits, PlansInv, NEW c \in Calls, callPhase[c] = "executing",
           NEW p \in {"recorded", "cancelled"}, callPhase' = [callPhase EXCEPT ![c] = p],
           Plans!Release(c), defId' = defId,
           history' \in Seq(Calls), HistoryTells'
    PROVE  PlansInv'
<1> USE DEF PlansInv
<1>1. Plans!Executing' = Plans!Executing \ {c} /\ c \in Plans!Executing
  BY DEF Plans!Executing, Plans!TypeOK
<1>2. Plans!TypeOK'
  BY DEF Plans!Release, Plans!TypeOK, Plans!Phases
<1>3. /\ locked' = locked \ {Plans!Key(c)}
      /\ \A d \in Calls : Plans!Key(d)' = Plans!Key(d)
      /\ running' = [running EXCEPT ![defId[c]] = NoCall]
  BY DEF Plans!Release, Plans!Key
<1>4. \A d \in Plans!Executing : d \in Calls BY DEF Plans!Executing
<1>5. \A d \in Plans!Executing \ {c} : Plans!Key(d) # Plans!Key(c) /\ defId[d] # defId[c]
  BY <1>1 DEF LocksTell, Plans!Key
<1>6. locked' = {Plans!Key(d)' : d \in Plans!Executing'}
  BY <1>1, <1>3, <1>4, <1>5 DEF LocksTell
<1>7. \A d, e \in Plans!Executing' : Plans!Key(d)' = Plans!Key(e)' => d = e
  BY <1>1, <1>3, <1>4 DEF LocksTell
<1>8. \A d \in Definitions, e \in Calls :
         running'[d] = e <=> (e \in Plans!Executing' /\ defId'[e] = d)
  BY <1>1, <1>3, <1>5 DEF LocksTell, Plans!TypeOK, SchedulerFits
<1> QED BY <1>2, <1>6, <1>7, <1>8 DEF LocksTell

LEMMA PlansNext ==
    ASSUME SchedulerFits, PlansInv, [Plans!Next]_(Plans!schVars) PROVE PlansInv'
<1>1. ASSUME NEW c \in Calls, Plans!Return(c) PROVE PlansInv'
  BY <1>1, HistoryGrows, ReleaseKeeps DEF Plans!Return
<1>2. ASSUME NEW c \in Calls, Plans!Raise(c) PROVE PlansInv'
  <2>1. c \in Plans!Executing BY <1>2 DEF Plans!Raise, Plans!Executing
  <2>2. running[defId[c]] = c
    BY <2>1 DEF PlansInv, LocksTell, Plans!TypeOK
  <2>3. history' = Plans!AddToHistory(c)
    BY <1>2, <2>2 DEF Plans!Raise, SchedulerFits
  <2> QED BY <1>2, <2>3, HistoryGrows, ReleaseKeeps DEF Plans!Raise
<1>3. ASSUME NEW c \in Calls, Plans!Cancel(c) PROVE PlansInv'
  BY <1>3, HistoryStays, ReleaseKeeps DEF Plans!Cancel, PlansInv, Plans!TypeOK
<1>4. CASE UNCHANGED Plans!schVars
  BY <1>4 DEF Plans!schVars, PlansInv, Plans!TypeOK, LocksTell, HistoryTells, Done,
     Plans!Executing, Plans!Key
<1> QED BY <1>1, <1>2, <1>3, <1>4, IdleEnds, BeginKeeps DEF Plans!Next

(* Locks, running records and history tell what happens, for any calls,     *)
(* definitions, lock keys and bound of the history (scheduler.py:350-453).  *)
THEOREM StatusTells == ASSUME SchedulerFits PROVE Spec => []StatusIsTrue
<1>1. ASSUME PlansInv PROVE Plans!StatusIsTrue
  <2> DEFINE done == {c \in Calls : callPhase[c] = "recorded"}
             kept == {history[i] : i \in 1..Len(history)}
  <2>1. history \in Seq(Calls) BY <1>1 DEF PlansInv, Plans!TypeOK
  <2>2. Cardinality(kept) = Len(history)
    BY <1>1, <2>1, DistinctCount DEF PlansInv, HistoryTells
  <2>3. kept \subseteq done /\ done = Done
    BY <1>1 DEF PlansInv, HistoryTells, Done
  <2>4. Len(history) = IF Cardinality(done) < MaxHistory THEN Cardinality(done) ELSE MaxHistory
    BY <1>1, <2>3 DEF PlansInv, HistoryTells
  <2>5. LocksTell BY <1>1 DEF PlansInv
  <2>6. Plans!Cardinality(kept) = Cardinality(kept) /\ Plans!Cardinality(done) = Cardinality(done)
    BY PlansCardinality
  <2> QED BY <2>2, <2>3, <2>4, <2>5, <2>6 DEF LocksTell, Plans!StatusIsTrue
<1>2. PlansInv => StatusIsTrue BY <1>1 DEF StatusIsTrue
<1> QED BY <1>2, PlansInit, PlansNext, PlansRuns, PTL DEF Plans!Spec

----------------------------------------------------------------------------
(* The upserts of competitions.                                             *)
(* A flushed bout has its competitors, or is one of the batch under way whose*)
(* competitors are still to be added.                                       *)
KidsFollow(w) ==
    \A b \in mine[w].bouts :
        \/ b \in mine[w].kids
        \/ /\ workerStage[w] \in {"retry", "children", "flush kids"}
           /\ Writers!InBatch(w, b) /\ known[w][b] = w
           /\ workerStage[w] = "flush kids" => <<b, w>> \in newKids[w]

(* A row to be inserted is of the batch, and its class is known and, unless  *)
(* a rollback took it, in the session.                                      *)
TodoIsKnown(w) ==
    workerStage[w] \in {"flush", "retry"} =>
        /\ todo[w] # {}
        /\ \A b \in todo[w] :
              /\ Writers!InBatch(w, b) /\ knownWc[w][ClassOf[b]] # Nobody
              /\ workerStage[w] = "flush" =>
                    ClassOf[b] \in fresh[w] \/ Writers!ClassSeen(w, ClassOf[b]) # Nobody

(* Flushed bouts have their class, flushed competitors their bout.          *)
FlushedFit(w) ==
    /\ \A b \in mine[w].bouts :
          Writers!ClassSeen(w, ClassOf[b]) # Nobody /\ bouts[b] = Nobody
    /\ \A b \in mine[w].kids : Writers!BoutSeen(w, b) # Nobody
    /\ \A k \in newKids[w] : k[2] # Nobody

WorkerInv(w) == KidsFollow(w) /\ TodoIsKnown(w) /\ FlushedFit(w)

(* Two sessions never hold the same new bout.                               *)
SessionsApart ==
    \A w, x \in Workers : w # x => mine[w].bouts \cap mine[x].bouts = {}

CommittedFit ==
    /\ \A b \in Bouts : bouts[b] \in Workers => b \in kids
    /\ \A b \in Bouts : bouts[b] # Nobody => classes[ClassOf[b]] # Nobody
    /\ \A b \in kids : bouts[b] # Nobody

WritersInv ==
    Writers!TypeOK /\ SessionsApart /\ CommittedFit /\ \A w \in Workers : WorkerInv(w)

LEMMA BatchFits ==
    ASSUME WritersFit, NEW w \in Workers, NEW n \in DOMAIN Batches[w]
    PROVE  /\ Batches[w][n] \in Seq(Bouts) /\ DOMAIN Batches[w][n] \subseteq Nat
           /\ \A i \in DOMAIN Batches[w][n] : Batches[w][n][i] \in Bouts
BY DEF WritersFit

LEMMA BatchNumbers ==
    ASSUME WritersFit, NEW w \in Workers
    PROVE  /\ 1 \in DOMAIN Batches[w]
           /\ \A n \in DOMAIN Batches[w] : n < Len(Batches[w]) => n + 1 \in DOMAIN Batches[w]
<1>1. Batches[w] \in Seq(Seq(Bouts)) /\ Batches[w] # <<>> BY DEF WritersFit
<1>2. DOMAIN Batches[w] = 1..Len(Batches[w]) /\ Len(Batches[w]) \in Nat /\ Len(Batches[w]) # 0
  BY <1>1
<1> QED BY <1>2

(* The next row to insert is one of those to insert.                        *)
LEMMA NextRowIsTodo ==
    ASSUME WritersFit, WritersInv, NEW w \in Workers, workerStage[w] \in {"flush", "retry"}
    PROVE  Writers!NextRow(w) \in todo[w]
<1> DEFINE B == Writers!Batch(w)
           S == {i \in DOMAIN B : B[i] \in todo[w]}
<1>1. batch[w] \in DOMAIN Batches[w] BY DEF WritersInv, Writers!TypeOK
<1>2. S \subseteq Nat BY <1>1, BatchFits DEF Writers!Batch
<1>3. S # {}
  BY DEF WritersInv, WorkerInv, TodoIsKnown, Writers!InBatch
<1>4. PICK i \in S : \A k \in S : ~(k < i)
  BY <1>2, <1>3, LeastPlace
<1>5. \E b \in todo[w] : \E p \in DOMAIN B :
         B[p] = b /\ \A k \in DOMAIN B : k < p => B[k] \notin todo[w]
  BY <1>4
<1> HIDE DEF B
<1> QED BY <1>5 DEF Writers!NextRow, B

(* What a step of one process leaves to another.                            *)
Unmoved(x) ==
    /\ mine'[x] = mine[x] /\ workerStage'[x] = workerStage[x] /\ batch'[x] = batch[x]
    /\ known'[x] = known[x] /\ knownWc'[x] = knownWc[x]
    /\ todo'[x] = todo[x] /\ fresh'[x] = fresh[x] /\ newKids'[x] = newKids[x]

LEMMA UnmovedKeeps ==
    ASSUME WritersFit, WritersInv, NEW x \in Workers, Unmoved(x),
           \A b \in Bouts : bouts[b] # Nobody => bouts'[b] # Nobody,
           \A b \in mine[x].bouts : bouts'[b] = bouts[b],
           \A c \in Classes : classes[c] # Nobody => classes'[c] # Nobody
    PROVE  WorkerInv(x)'
<1>1. /\ WorkerInv(x) /\ mine[x].bouts \subseteq Bouts /\ mine[x].kids \subseteq Bouts
      /\ todo[x] \subseteq Bouts /\ \A b \in Bouts : ClassOf[b] \in Classes
  BY DEF WritersInv, WritersFit, Writers!TypeOK, Writers!Rows
<1>2. /\ \A b : Writers!InBatch(x, b)' = Writers!InBatch(x, b)
      /\ \A b \in Bouts : Writers!BoutSeen(x, b) # Nobody => Writers!BoutSeen(x, b)' # Nobody
      /\ \A c \in Classes : Writers!ClassSeen(x, c) # Nobody => Writers!ClassSeen(x, c)' # Nobody
  BY DEF Unmoved, Writers!InBatch, Writers!Batch, Writers!BoutSeen, Writers!ClassSeen
<1>3. KidsFollow(x)'
  BY <1>1, <1>2 DEF WorkerInv, KidsFollow, Unmoved
<1>4. TodoIsKnown(x)'
  BY <1>1, <1>2 DEF WorkerInv, TodoIsKnown, Unmoved
<1>5. FlushedFit(x)'
  BY <1>1, <1>2 DEF WorkerInv, FlushedFit, Unmoved
<1> QED BY <1>3, <1>4, <1>5 DEF WorkerInv

LEMMA WritersInit == ASSUME WritersFit PROVE Writers!Init => WritersInv
<1> SUFFICES ASSUME Writers!Init PROVE WritersInv OBVIOUS
<1>1. /\ bouts \in [Bouts -> {Earlier, Nobody}] /\ classes \in [Classes -> {Earlier, Nobody}]
      /\ kids = {} /\ mine = [w \in Workers |-> Writers!NoRows]
      /\ workerStage = [w \in Workers |-> "idle"]
      /\ \A w \in Workers : newKids[w] = {}
  BY DEF Writers!Init
<1>2. Writers!TypeOK
  <2>1. \A w \in Workers : batch[w] \in DOMAIN Batches[w]
    BY BatchNumbers DEF Writers!Init
  <2>2. /\ bouts \in [Bouts -> Writers!Uuids] /\ classes \in [Classes -> Writers!Uuids]
        /\ mine \in [Workers -> Writers!Rows]
    BY <1>1 DEF Writers!Uuids, Writers!Rows, Writers!NoRows
  <2>3. /\ known \in [Workers -> [Bouts -> Writers!Uuids]]
        /\ knownWc \in [Workers -> [Classes -> Writers!Uuids]]
    BY DEF Writers!Init, Writers!Uuids
  <2> QED BY <2>1, <2>2, <2>3 DEF Writers!Init, Writers!TypeOK
<1>3. SessionsApart
  BY <1>1 DEF SessionsApart, Writers!NoRows
<1>4. CommittedFit
  <2>1. \A b \in Bouts : bouts[b] \notin Workers /\ (bouts[b] # Nobody => bouts[b] = Earlier)
    BY <1>1 DEF WritersFit
  <2>2. \A b \in Bouts : bouts[b] = Earlier => classes[ClassOf[b]] # Nobody
    BY DEF Writers!Init, WritersFit
  <2> QED BY <1>1, <2>1, <2>2 DEF CommittedFit
<1>5. ASSUME NEW w \in Workers PROVE WorkerInv(w)
  BY <1>1 DEF WorkerInv, KidsFollow, TodoIsKnown, FlushedFit, Writers!NoRows
<1> QED BY <1>2, <1>3, <1>4, <1>5 DEF WritersInv

(* What one process flushes, and what it knows, has its type.               *)
LEMMA FlushedTypes ==
    ASSUME WritersFit, WritersInv, NEW w \in Workers
    PROVE  /\ Writers!FlushRows(w) \in Writers!Rows /\ Writers!Flushed(w) \in Writers!Rows
           /\ Writers!NoRows \in Writers!Rows
<1>1. /\ todo[w] \subseteq Bouts /\ fresh[w] \subseteq Classes /\ mine[w] \in Writers!Rows
      /\ newKids[w] \subseteq Bouts \X (Workers \cup {Earlier})
  BY DEF WritersInv, Writers!TypeOK
<1>2. Writers!NoRows \in Writers!Rows BY DEF Writers!NoRows, Writers!Rows
<1>3. workerStage[w] = "retry" => Writers!NextRow(w) \in todo[w]
  BY NextRowIsTodo
<1>4. Writers!FlushRows(w) \in Writers!Rows
  BY <1>1, <1>2, <1>3 DEF Writers!FlushRows, Writers!Rows
<1> QED BY <1>1, <1>2, <1>4 DEF Writers!Flushed, Writers!Rows

LEMMA WritersStartTypes ==
    ASSUME WritersFit, WritersInv, NEW w \in Workers,
           \/ Writers!StartJob(w) \/ Writers!Resolve(w) \/ Writers!AddChildren(w)
           \/ Writers!Commit(w)
    PROVE  Writers!TypeOK'
<1>t. Writers!TypeOK BY DEF WritersInv
<1>k. /\ known \in [Workers -> [Bouts -> Writers!Uuids]]
      /\ knownWc \in [Workers -> [Classes -> Writers!Uuids]]
  BY <1>t DEF Writers!TypeOK
<1>b. batch \in [Workers -> Nat] /\ \A x \in Workers : batch[x] \in DOMAIN Batches[x]
  BY <1>t DEF Writers!TypeOK
<1> USE DEF Writers!Goto
<1>1. CASE Writers!StartJob(w)
  <2>2. 1 \in DOMAIN Batches[w] BY BatchNumbers
  <2>3. batch' = [batch EXCEPT ![w] = 1] BY <1>1 DEF Writers!StartJob
  <2>4. \A x \in Workers : batch'[x] \in DOMAIN Batches[x] BY <1>b, <2>2, <2>3
  <2>5. lost' \in [Workers -> SUBSET Bouts] BY <1>1, <1>t DEF Writers!StartJob, Writers!TypeOK
  <2>6. workerStage' \in [Workers -> {"idle", "resolve", "flush", "retry", "children",
                                      "flush kids", "commit"}] /\ batch' \in [Workers -> Nat]
    BY <1>1, <1>t DEF Writers!StartJob, Writers!TypeOK
  <2> QED BY <1>1, <1>t, <2>4, <2>5, <2>6 DEF Writers!TypeOK, Writers!StartJob, Writers!committed, Writers!resolver, Writers!adding
<1>2. CASE Writers!Resolve(w)
  <2> DEFINE absent  == {b \in Bouts : Writers!InBatch(w, b) /\ Writers!BoutSeen(w, b) = Nobody}
             wanted   == {ClassOf[b] : b \in absent}
             created == {c \in wanted : Writers!ClassSeen(w, c) = Nobody}
  <2>1. /\ \A b \in Bouts : Writers!BoutSeen(w, b) \in Writers!Uuids
        /\ \A c \in Classes : Writers!ClassSeen(w, c) \in Writers!Uuids
    BY <1>t DEF Writers!BoutSeen, Writers!ClassSeen, Writers!Uuids, Writers!TypeOK
  <2>2. Nobody \in Writers!Uuids /\ w \in Writers!Uuids BY DEF Writers!Uuids
  <2>3. absent \subseteq Bouts /\ created \subseteq Classes
    <3>1. absent \subseteq Bouts OBVIOUS
    <3>2. \A b \in absent : ClassOf[b] \in Classes BY <3>1 DEF WritersFit
    <3> HIDE DEF absent
    <3> QED BY <3>1, <3>2
  <2>4. known' \in [Workers -> [Bouts -> Writers!Uuids]]
    BY <1>2, <1>k, <2>1, <2>2 DEF Writers!Resolve
  <2>5. knownWc' \in [Workers -> [Classes -> Writers!Uuids]]
    BY <1>2, <1>k, <2>1, <2>2 DEF Writers!Resolve
  <2>6. todo' \in [Workers -> SUBSET Bouts] /\ fresh' \in [Workers -> SUBSET Classes]
    <3>1. todo' = [todo EXCEPT ![w] = absent] /\ fresh' = [fresh EXCEPT ![w] = created]
      BY <1>2 DEF Writers!Resolve
    <3> HIDE DEF absent, created
    <3> QED BY <1>t, <2>3, <3>1 DEF Writers!TypeOK
  <2>7. workerStage' \in [Workers -> {"idle", "resolve", "flush", "retry", "children",
                                      "flush kids", "commit"}]
    BY <1>2, <1>t DEF Writers!Resolve, Writers!TypeOK
  <2>8. UNCHANGED <<bouts, classes, kids, mine, batch, newKids, lost>>
    BY <1>2 DEF Writers!Resolve, Writers!committed
  <2> QED BY <1>t, <2>4, <2>5, <2>6, <2>7, <2>8 DEF Writers!TypeOK
<1>3. CASE Writers!AddChildren(w)
  <2> DEFINE ks == {<<b, known[w][b]>> : b \in {x \in Bouts :
                     Writers!InBatch(w, x) /\ known[w][x] # Nobody /\ ~Writers!HasKids(w, x)}}
  <2>1. ks \subseteq Bouts \X (Workers \cup {Earlier})
    <3>1. ASSUME NEW b \in Bouts, known[w][b] # Nobody
          PROVE  known[w][b] \in Workers \cup {Earlier}
      BY <1>k, <3>1 DEF Writers!Uuids
    <3> QED BY <3>1
  <2>2. newKids' = [newKids EXCEPT ![w] = ks]
    BY <1>3 DEF Writers!AddChildren
  <2> HIDE DEF ks
  <2>3. newKids' \in [Workers -> SUBSET (Bouts \X (Workers \cup {Earlier}))]
    BY <1>t, <2>1, <2>2 DEF Writers!TypeOK
  <2> QED BY <1>3, <1>t, <2>3 DEF Writers!TypeOK, Writers!AddChildren, Writers!committed, Writers!resolver
<1>4. CASE Writers!Commit(w)
  <2>1. bouts' \in [Bouts -> Writers!Uuids] /\ classes' \in [Classes -> Writers!Uuids]
    BY <1>4, <1>t DEF Writers!Commit, Writers!Uuids, Writers!TypeOK
  <2>2. mine' \in [Workers -> Writers!Rows] /\ kids' \subseteq Bouts
    BY <1>4, <1>t, FlushedTypes DEF Writers!Commit, Writers!Rows, Writers!TypeOK
  <2> QED BY <1>4, <1>t, <2>1, <2>2 DEF Writers!TypeOK, Writers!Commit, Writers!resolver, Writers!adding
<1> QED BY <1>1, <1>2, <1>3, <1>4

LEMMA WritersWriteTypes ==
    ASSUME WritersFit, WritersInv, NEW w \in Workers, Writers!Write(w) \/ Writers!Deadlocked(w)
    PROVE  Writers!TypeOK'
<1>t. Writers!TypeOK BY DEF WritersInv
<1>k. /\ known \in [Workers -> [Bouts -> Writers!Uuids]]
      /\ knownWc \in [Workers -> [Classes -> Writers!Uuids]]
  BY <1>t DEF Writers!TypeOK
<1>b. batch \in [Workers -> Nat] /\ \A x \in Workers : batch[x] \in DOMAIN Batches[x]
  BY <1>t DEF Writers!TypeOK
<1> USE DEF Writers!Goto
<1>1. CASE Writers!Flush(w)
  <2>1. known' \in [Workers -> [Bouts -> Writers!Uuids]]
    BY <1>1, <1>k DEF Writers!Flush, Writers!Uuids
  <2> QED BY <1>1, <1>t, <2>1, FlushedTypes DEF Writers!TypeOK, Writers!Flush, Writers!committed
<1>2. CASE Writers!FlushConflict(w)
  BY <1>2, <1>t, FlushedTypes DEF Writers!TypeOK, Writers!FlushConflict, Writers!Rollback, Writers!committed,
     Writers!resolver
<1>3. CASE Writers!RetryRow(w)
  <2>0. Writers!NextRow(w) \in Bouts
    BY <1>3, <1>t, NextRowIsTodo DEF Writers!RetryRow, Writers!TypeOK
  <2>1. known' \in [Workers -> [Bouts -> Writers!Uuids]]
    <3>1. known' = [known EXCEPT ![w][Writers!NextRow(w)] = w] /\ w \in Writers!Uuids
      BY <1>3 DEF Writers!RetryRow, Writers!Uuids
    <3>2. known[w] \in [Bouts -> Writers!Uuids] BY <1>k
    <3>3. [known[w] EXCEPT ![Writers!NextRow(w)] = w] \in [Bouts -> Writers!Uuids]
      BY <3>1, <3>2
    <3> QED BY <1>k, <3>1, <3>3
  <2> QED
    BY <1>3, <1>t, <2>1, FlushedTypes DEF Writers!TypeOK, Writers!RetryRow, Writers!Retried, Writers!committed
<1>4. CASE Writers!RetryConflict(w)
  <2>1. Writers!NextRow(w) \in Bouts
    BY <1>4, <1>t, NextRowIsTodo DEF Writers!RetryConflict, Writers!TypeOK
  <2>2. known' \in [Workers -> [Bouts -> Writers!Uuids]]
    <3>1. /\ known' = [known EXCEPT ![w][Writers!NextRow(w)] = bouts[Writers!NextRow(w)]]
          /\ bouts[Writers!NextRow(w)] \in Writers!Uuids
      BY <1>4, <1>t, <2>1 DEF Writers!RetryConflict, Writers!TypeOK
    <3> QED BY <1>k, <2>1, <3>1
  <2>3. lost' \in [Workers -> SUBSET Bouts]
    BY <1>4, <1>t, <2>1 DEF Writers!RetryConflict, Writers!TypeOK
  <2> QED
    BY <1>4, <1>t, <2>2, <2>3, FlushedTypes
    DEF Writers!TypeOK, Writers!RetryConflict, Writers!Rollback, Writers!Retried, Writers!committed
<1>5. CASE Writers!FlushChildren(w)
  <2>1. batch' \in [Workers -> Nat] /\ \A x \in Workers : batch'[x] \in DOMAIN Batches[x]
    <3>2. batch[w] < Len(Batches[w]) => batch[w] + 1 \in DOMAIN Batches[w]
      BY <1>b, BatchNumbers
    <3>3. /\ batch' = batch \/ batch' = [batch EXCEPT ![w] = batch[w] + 1]
          /\ batch' = batch \/ batch[w] < Len(Batches[w])
      BY <1>5 DEF Writers!FlushChildren, Writers!BatchDone
    <3> QED BY <1>b, <3>2, <3>3
  <2> QED
    <3>1. /\ mine' = [mine EXCEPT ![w] = Writers!Flushed(w)]
          /\ newKids' = [newKids EXCEPT ![w] = {}]
          /\ \E s \in {"resolve", "commit"} : workerStage' = [workerStage EXCEPT ![w] = s]
          /\ UNCHANGED <<bouts, classes, kids, known, knownWc, todo, fresh, lost>>
      BY <1>5 DEF Writers!FlushChildren, Writers!BatchDone, Writers!committed, Writers!resolver
    <3> QED BY <1>t, <2>1, <3>1, FlushedTypes DEF Writers!TypeOK
<1>6. ASSUME Writers!Fail(w) PROVE Writers!TypeOK'
  BY <1>6, <1>t, FlushedTypes DEF Writers!TypeOK, Writers!Fail, Writers!committed, Writers!resolver
<1> QED
  BY <1>1, <1>2, <1>3, <1>4, <1>5, <1>6
  DEF Writers!Write, Writers!ChildrenFail, Writers!Deadlocked

LEMMA OthersUnmoved ==
    ASSUME WritersInv, NEW w \in Workers, Writers!Work(w), NEW x \in Workers, x # w
    PROVE  Unmoved(x)
<1>t. Writers!TypeOK BY DEF WritersInv
<1> USE <1>t DEF Unmoved, Writers!TypeOK, Writers!Goto, Writers!committed, Writers!resolver,
                 Writers!adding
<1>1. Writers!StartJob(w) \/ Writers!Commit(w) => Unmoved(x)
  BY DEF Writers!StartJob, Writers!Commit
<1>2. Writers!Resolve(w) => Unmoved(x)
  BY DEF Writers!Resolve
<1>3. Writers!Flush(w) => Unmoved(x)
  BY DEF Writers!Flush
<1>4. Writers!FlushConflict(w) => Unmoved(x)
  BY DEF Writers!FlushConflict, Writers!Rollback
<1>5. Writers!RetryRow(w) => Unmoved(x)
  BY DEF Writers!RetryRow, Writers!Retried
<1>6. Writers!RetryConflict(w) => Unmoved(x)
  BY DEF Writers!RetryConflict, Writers!Retried, Writers!Rollback
<1>7. Writers!AddChildren(w) => Unmoved(x)
  BY DEF Writers!AddChildren
<1>8. Writers!FlushChildren(w) => Unmoved(x)
  BY DEF Writers!FlushChildren, Writers!BatchDone
<1>9. Writers!Fail(w) => Unmoved(x)
  BY DEF Writers!Fail
<1> QED
  BY <1>1, <1>2, <1>3, <1>4, <1>5, <1>6, <1>7, <1>8, <1>9
  DEF Writers!Work, Writers!Write, Writers!ChildrenFail, Writers!Deadlocked

(* A step that commits nothing, seen from the process that takes it.        *)
LEMMA UncommittedKeeps ==
    ASSUME WritersFit, WritersInv, NEW w \in Workers, Writers!Work(w),
           UNCHANGED Writers!committed, Writers!TypeOK', WorkerInv(w)',
           \A x \in Workers \ {w} : mine'[w].bouts \cap mine[x].bouts = {}
    PROVE  WritersInv'
<1>1. \A x \in Workers \ {w} : Unmoved(x)
  BY OthersUnmoved
<1>2. bouts' = bouts /\ classes' = classes /\ kids' = kids
  BY DEF Writers!committed
<1>3. ASSUME NEW x \in Workers \ {w} PROVE WorkerInv(x)'
  BY <1>1, <1>2, UnmovedKeeps
<1>4. SessionsApart'
  BY <1>1 DEF WritersInv, SessionsApart, Unmoved
<1>5. CommittedFit'
  BY <1>2 DEF WritersInv, CommittedFit
<1> QED BY <1>3, <1>4, <1>5 DEF WritersInv

(* Before a batch and after it, every flushed bout has its competitors.     *)
LEMMA StartJobKeeps ==
    ASSUME WritersFit, WritersInv, NEW w \in Workers, Writers!StartJob(w) PROVE WritersInv'
<1>1. /\ mine'[w] = mine[w] /\ workerStage'[w] = "resolve" /\ workerStage[w] = "idle"
      /\ newKids'[w] = newKids[w] /\ UNCHANGED <<bouts, classes, kids, mine>>
  BY DEF WritersInv, Writers!TypeOK, Writers!StartJob, Writers!Goto, Writers!committed,
     Writers!adding
<1>2. WorkerInv(w)
  BY DEF WritersInv
<1>3. WorkerInv(w)'
  BY <1>1, <1>2 DEF WorkerInv, KidsFollow, TodoIsKnown, FlushedFit, Writers!ClassSeen,
     Writers!BoutSeen
<1>4. \A x \in Workers \ {w} : mine'[w].bouts \cap mine[x].bouts = {}
  BY <1>1 DEF WritersInv, SessionsApart
<1> QED
  BY <1>1, <1>3, <1>4, UncommittedKeeps, WritersStartTypes DEF Writers!Work, Writers!committed

LEMMA ResolveKeeps ==
    ASSUME WritersFit, WritersInv, NEW w \in Workers, Writers!Resolve(w) PROVE WritersInv'
<1> DEFINE absent  == {b \in Bouts : Writers!InBatch(w, b) /\ Writers!BoutSeen(w, b) = Nobody}
           wanted   == {ClassOf[b] : b \in absent}
           created == {c \in wanted : Writers!ClassSeen(w, c) = Nobody}
<1>t. Writers!TypeOK /\ WorkerInv(w) BY DEF WritersInv
<1>1. /\ workerStage[w] = "resolve" /\ UNCHANGED <<bouts, classes, kids, mine, batch, newKids>>
      /\ todo'[w] = absent /\ fresh'[w] = created
      /\ workerStage'[w] = IF absent = {} THEN "children" ELSE "flush"
  BY <1>t DEF Writers!TypeOK, Writers!Resolve, Writers!Goto, Writers!committed
<1>2. \A c \in wanted : knownWc'[w][c] # Nobody
  <2>1. knownWc'[w] = [c \in Classes |-> IF c \in created THEN w
                          ELSE IF c \in wanted THEN Writers!ClassSeen(w, c) ELSE Nobody]
    BY <1>t DEF Writers!TypeOK, Writers!Resolve
  <2>2. wanted \subseteq Classes BY DEF WritersFit
  <2>3. w # Nobody BY DEF WritersFit
  <2> HIDE DEF wanted, absent
  <2> QED BY <2>1, <2>2, <2>3
<1>3. /\ \A b : Writers!InBatch(w, b)' = Writers!InBatch(w, b)
      /\ \A c : Writers!ClassSeen(w, c)' = Writers!ClassSeen(w, c)
  BY <1>1 DEF Writers!InBatch, Writers!Batch, Writers!ClassSeen
<1>4. TodoIsKnown(w)'
  <2>1. \A b \in absent : Writers!InBatch(w, b) /\ ClassOf[b] \in wanted
    OBVIOUS
  <2>2. \A c \in wanted : c \in created \/ Writers!ClassSeen(w, c) # Nobody
    OBVIOUS
  <2> HIDE DEF absent, wanted, created
  <2> QED BY <1>1, <1>2, <1>3, <2>1, <2>2 DEF TodoIsKnown
<1>5. KidsFollow(w)' /\ FlushedFit(w)'
  BY <1>t, <1>1 DEF WorkerInv, KidsFollow, FlushedFit, Writers!ClassSeen, Writers!BoutSeen
<1>6. \A x \in Workers \ {w} : mine'[w].bouts \cap mine[x].bouts = {}
  BY <1>1 DEF WritersInv, SessionsApart
<1> QED
  BY <1>1, <1>4, <1>5, <1>6, UncommittedKeeps, WritersStartTypes
  DEF Writers!Work, Writers!committed, WorkerInv

(* Nobody else holds what a flush that goes through inserts.                *)
LEMMA KeysAreFree ==
    ASSUME NEW w \in Workers, Writers!Holders(w) = {}, NEW x \in Workers \ {w}
    PROVE  Writers!FlushRows(w).bouts \cap mine[x].bouts = {}
BY DEF Writers!Holders, Writers!Collide

(* What a flush that goes through adds to the session.                      *)
LEMMA FlushAdds ==
    ASSUME NEW w \in Workers, mine'[w] = Writers!Flushed(w)
    PROVE  /\ mine'[w].bouts = mine[w].bouts \cup Writers!FlushRows(w).bouts
           /\ mine'[w].classes = mine[w].classes \cup Writers!FlushRows(w).classes
           /\ mine'[w].kids = mine[w].kids \cup Writers!FlushRows(w).kids
BY DEF Writers!Flushed

(* The batch goes in.                                                       *)
LEMMA FlushKeeps ==
    ASSUME WritersFit, WritersInv, NEW w \in Workers, Writers!Flush(w) PROVE WritersInv'
<1>t. Writers!TypeOK /\ WorkerInv(w) BY DEF WritersInv
<1>1. /\ workerStage[w] = "flush" /\ workerStage'[w] = "children"
      /\ Writers!Holders(w) = {} /\ ~Writers!Duplicate(w)
      /\ UNCHANGED <<bouts, classes, kids, batch, newKids>>
      /\ \A b \in Bouts : known'[w][b] = IF b \in todo[w] THEN w ELSE known[w][b]
      /\ mine'[w] = Writers!Flushed(w)
  BY <1>t DEF Writers!TypeOK, Writers!Flush, Writers!Goto, Writers!committed
<1>2. Writers!FlushRows(w) = [bouts |-> todo[w], classes |-> fresh[w], kids |-> {}]
  BY <1>1 DEF Writers!FlushRows
<1>3. /\ mine'[w].bouts = mine[w].bouts \cup todo[w]
      /\ mine'[w].classes = mine[w].classes \cup fresh[w]
      /\ mine'[w].kids = mine[w].kids
  <2>1. /\ Writers!FlushRows(w).bouts = todo[w] /\ Writers!FlushRows(w).classes = fresh[w]
        /\ Writers!FlushRows(w).kids = {}
    BY <1>2
  <2> QED BY <1>1, <2>1, FlushAdds
<1>4. /\ \A b \in todo[w] : b \in Bouts /\ bouts[b] = Nobody /\ Writers!InBatch(w, b)
      /\ \A b \in todo[w] : ClassOf[b] \in fresh[w] \/ Writers!ClassSeen(w, ClassOf[b]) # Nobody
  <2>1. \A b \in todo[w] : bouts[b] = Nobody
    BY <1>1, <1>2 DEF Writers!Duplicate
  <2> QED BY <1>1, <1>t, <2>1 DEF WorkerInv, TodoIsKnown, Writers!TypeOK
<1>5. w # Nobody BY DEF WritersFit
<1>6. KidsFollow(w)'
  <2>1. \A b : Writers!InBatch(w, b)' = Writers!InBatch(w, b)
    BY <1>1 DEF Writers!InBatch, Writers!Batch
  <2> QED BY <1>1, <1>3, <1>4, <1>t, <2>1 DEF WorkerInv, KidsFollow
<1>7. FlushedFit(w)'
  <2>1. \A b \in mine'[w].bouts : Writers!ClassSeen(w, ClassOf[b])' # Nobody
    BY <1>1, <1>3, <1>4, <1>5, <1>t DEF WorkerInv, FlushedFit, Writers!ClassSeen
  <2>2. \A b \in mine'[w].bouts : bouts'[b] = Nobody
    BY <1>1, <1>3, <1>4, <1>t DEF WorkerInv, FlushedFit
  <2>3. \A b \in mine'[w].kids : Writers!BoutSeen(w, b)' # Nobody
    BY <1>1, <1>3, <1>5, <1>t DEF WorkerInv, FlushedFit, Writers!BoutSeen
  <2> QED BY <1>1, <1>t, <2>1, <2>2, <2>3 DEF WorkerInv, FlushedFit
<1>8. TodoIsKnown(w)' BY <1>1 DEF TodoIsKnown
<1>9. \A x \in Workers \ {w} : mine'[w].bouts \cap mine[x].bouts = {}
  BY <1>1, <1>2, <1>3, KeysAreFree DEF WritersInv, SessionsApart
<1> QED
  BY <1>1, <1>6, <1>7, <1>8, <1>9, UncommittedKeeps, WritersWriteTypes
  DEF Writers!Work, Writers!Write, Writers!committed, WorkerInv

(* A session that is rolled back holds nothing.                             *)
LEMMA EmptiedKeeps ==
    ASSUME WritersFit, WritersInv, NEW w \in Workers, Writers!Write(w) \/ Writers!Deadlocked(w),
           UNCHANGED Writers!committed, mine'[w] = Writers!NoRows, TodoIsKnown(w)',
           newKids'[w] = newKids[w] \/ newKids'[w] = {}
    PROVE  WritersInv'
<1>1. KidsFollow(w)'
  <2>1. mine'[w].bouts = {} BY DEF Writers!NoRows
  <2> QED BY <2>1 DEF KidsFollow
<1>2. FlushedFit(w)'
  BY DEF WritersInv, WorkerInv, FlushedFit, Writers!NoRows
<1>3. \A x \in Workers \ {w} : mine'[w].bouts \cap mine[x].bouts = {}
  BY DEF Writers!NoRows
<1> QED BY <1>1, <1>2, <1>3, UncommittedKeeps, WritersWriteTypes DEF Writers!Work, WorkerInv

LEMMA ConflictKeeps ==
    ASSUME WritersFit, WritersInv, NEW w \in Workers,
           Writers!FlushConflict(w) \/ Writers!RetryConflict(w) \/ Writers!Fail(w),
           Writers!Write(w) \/ Writers!Deadlocked(w)
    PROVE  WritersInv'
<1>t. Writers!TypeOK /\ WorkerInv(w) BY DEF WritersInv
<1> USE DEF Writers!Goto, Writers!committed, Writers!resolver
<1>1. CASE Writers!FlushConflict(w)
  <2>1. /\ mine'[w] = Writers!NoRows /\ workerStage[w] = "flush" /\ workerStage'[w] = "retry"
        /\ UNCHANGED <<bouts, classes, kids, batch, known, knownWc, todo, newKids>>
    BY <1>1, <1>t DEF Writers!TypeOK, Writers!FlushConflict, Writers!Rollback
  <2>2. \A b : Writers!InBatch(w, b)' = Writers!InBatch(w, b)
    BY <2>1 DEF Writers!InBatch, Writers!Batch
  <2>3. TodoIsKnown(w)'
    BY <1>t, <2>1, <2>2 DEF WorkerInv, TodoIsKnown
  <2> QED BY <2>1, <2>3, EmptiedKeeps
<1>2. CASE Writers!RetryConflict(w)
  <2>1. /\ mine'[w] = Writers!NoRows /\ workerStage[w] = "retry"
        /\ workerStage'[w] = IF todo'[w] = {} THEN "children" ELSE "retry"
        /\ todo'[w] \subseteq todo[w]
        /\ UNCHANGED <<bouts, classes, kids, batch, knownWc, newKids>>
    BY <1>2, <1>t DEF Writers!TypeOK, Writers!RetryConflict, Writers!Rollback, Writers!Retried
  <2>2. \A b : Writers!InBatch(w, b)' = Writers!InBatch(w, b)
    BY <2>1 DEF Writers!InBatch, Writers!Batch
  <2>3. TodoIsKnown(w)'
    BY <1>t, <2>1, <2>2 DEF WorkerInv, TodoIsKnown
  <2> QED BY <2>1, <2>3, EmptiedKeeps
<1>3. CASE Writers!Fail(w)
  <2>1. /\ mine'[w] = Writers!NoRows /\ workerStage'[w] = "idle" /\ newKids'[w] = {}
        /\ UNCHANGED <<bouts, classes, kids>>
    BY <1>3, <1>t DEF Writers!TypeOK, Writers!Fail
  <2>2. TodoIsKnown(w)' BY <2>1 DEF TodoIsKnown
  <2> QED BY <2>1, <2>2, EmptiedKeeps
<1> QED BY <1>1, <1>2, <1>3

LEMMA RetryRowKeeps ==
    ASSUME WritersFit, WritersInv, NEW w \in Workers, Writers!RetryRow(w) PROVE WritersInv'
<1> DEFINE r == Writers!NextRow(w)
<1>t. Writers!TypeOK /\ WorkerInv(w) BY DEF WritersInv
<1>1. /\ workerStage[w] = "retry" /\ Writers!Holders(w) = {} /\ ~Writers!Duplicate(w)
      /\ Writers!ClassExists(w, ClassOf[r])
      /\ UNCHANGED <<bouts, classes, kids, batch, knownWc, newKids>>
      /\ mine'[w] = Writers!Flushed(w) /\ known' = [known EXCEPT ![w][r] = w]
      /\ todo'[w] = todo[w] \ {r}
      /\ workerStage'[w] = IF todo'[w] = {} THEN "children" ELSE "retry"
  BY <1>t DEF Writers!TypeOK, Writers!RetryRow, Writers!Retried, Writers!Goto, Writers!committed
<1>2. r \in todo[w] /\ r \in Bouts /\ todo[w] \subseteq Bouts
  BY <1>1, <1>t, NextRowIsTodo DEF Writers!TypeOK
<1>3. Writers!FlushRows(w) = [bouts |-> {r}, classes |-> {}, kids |-> {}]
  BY <1>1 DEF Writers!FlushRows
<1> HIDE DEF r
<1>4. /\ mine'[w].bouts = mine[w].bouts \cup {r} /\ mine'[w].classes = mine[w].classes
      /\ mine'[w].kids = mine[w].kids
  <2>1. /\ Writers!FlushRows(w).bouts = {r} /\ Writers!FlushRows(w).classes = {}
        /\ Writers!FlushRows(w).kids = {}
    BY <1>3
  <2> QED BY <1>1, <2>1, FlushAdds
<1>5. /\ known'[w][r] = w /\ \A b \in Bouts : b # r => known'[w][b] = known[w][b]
  BY <1>1, <1>2, <1>t DEF Writers!TypeOK
<1>6. bouts[r] = Nobody /\ Writers!InBatch(w, r) /\ Writers!ClassSeen(w, ClassOf[r]) # Nobody
  BY <1>1, <1>2, <1>3, <1>t DEF Writers!Duplicate, WorkerInv, TodoIsKnown, Writers!ClassExists
<1>7. /\ \A b : Writers!InBatch(w, b)' = Writers!InBatch(w, b)
      /\ \A c : Writers!ClassSeen(w, c)' = Writers!ClassSeen(w, c)
  BY <1>1, <1>4 DEF Writers!InBatch, Writers!Batch, Writers!ClassSeen
<1>8. mine[w].bouts \subseteq Bouts
  BY <1>t DEF Writers!TypeOK, Writers!Rows
<1>9. KidsFollow(w)'
  BY <1>1, <1>4, <1>5, <1>6, <1>7, <1>8, <1>t DEF WorkerInv, KidsFollow
<1>10. FlushedFit(w)'
  <2>1. \A b : Writers!BoutSeen(w, b) # Nobody => Writers!BoutSeen(w, b)' # Nobody
    BY <1>1, <1>4 DEF Writers!BoutSeen, WritersFit
  <2> QED BY <1>1, <1>4, <1>6, <1>7, <1>t, <2>1 DEF WorkerInv, FlushedFit
<1>11. TodoIsKnown(w)'
  BY <1>1, <1>7, <1>t DEF WorkerInv, TodoIsKnown
<1>12. \A x \in Workers \ {w} : mine'[w].bouts \cap mine[x].bouts = {}
  BY <1>1, <1>3, <1>4, KeysAreFree DEF WritersInv, SessionsApart
<1> QED
  BY <1>1, <1>9, <1>10, <1>11, <1>12, UncommittedKeeps, WritersWriteTypes
  DEF Writers!Work, Writers!Write, Writers!committed, WorkerInv

LEMMA AddChildrenKeeps ==
    ASSUME WritersFit, WritersInv, NEW w \in Workers, Writers!AddChildren(w) PROVE WritersInv'
<1>t. Writers!TypeOK /\ WorkerInv(w) /\ CommittedFit BY DEF WritersInv
<1>1. /\ workerStage[w] = "children" /\ workerStage'[w] = "flush kids"
      /\ UNCHANGED <<bouts, classes, kids, mine, batch, known>>
      /\ newKids'[w] = {<<b, known[w][b]>> : b \in {x \in Bouts :
            Writers!InBatch(w, x) /\ known[w][x] # Nobody /\ ~Writers!HasKids(w, x)}}
  BY <1>t DEF Writers!TypeOK, Writers!AddChildren, Writers!Goto, Writers!committed,
     Writers!resolver
<1>2. ASSUME NEW b \in mine[w].bouts, b \notin mine[w].kids
      PROVE  Writers!InBatch(w, b) /\ known[w][b] = w /\ <<b, w>> \in newKids'[w]
  <2>1. Writers!InBatch(w, b) /\ known[w][b] = w /\ bouts[b] = Nobody /\ b \in Bouts
    BY <1>1, <1>2, <1>t DEF WorkerInv, KidsFollow, FlushedFit, Writers!TypeOK, Writers!Rows
  <2>2. ~Writers!HasKids(w, b)
    BY <1>2, <1>t, <2>1 DEF CommittedFit, Writers!HasKids
  <2>3. w # Nobody BY DEF WritersFit
  <2> QED BY <1>1, <2>1, <2>2, <2>3
<1>3. KidsFollow(w)'
  <2>1. \A b : Writers!InBatch(w, b)' = Writers!InBatch(w, b)
    BY <1>1 DEF Writers!InBatch, Writers!Batch
  <2> QED BY <1>1, <1>2, <2>1 DEF KidsFollow
<1>4. FlushedFit(w)'
  <2>1. ASSUME NEW k \in newKids'[w] PROVE k[2] # Nobody
    <3>1. PICK b \in Bouts : known[w][b] # Nobody /\ k = <<b, known[w][b]>> BY <1>1
    <3> QED BY <3>1
  <2> QED
    BY <1>1, <1>t, <2>1 DEF WorkerInv, FlushedFit, Writers!ClassSeen, Writers!BoutSeen
<1>5. TodoIsKnown(w)' BY <1>1 DEF TodoIsKnown
<1>6. \A x \in Workers \ {w} : mine'[w].bouts \cap mine[x].bouts = {}
  BY <1>1 DEF WritersInv, SessionsApart
<1> QED
  BY <1>1, <1>3, <1>4, <1>5, <1>6, UncommittedKeeps, WritersStartTypes
  DEF Writers!Work, Writers!committed, WorkerInv

LEMMA FlushChildrenKeeps ==
    ASSUME WritersFit, WritersInv, NEW w \in Workers, Writers!FlushChildren(w)
    PROVE  WritersInv'
<1>t. Writers!TypeOK /\ WorkerInv(w) BY DEF WritersInv
<1>1. /\ workerStage[w] = "flush kids" /\ workerStage'[w] \in {"resolve", "commit"}
      /\ \A k \in newKids[w] : k[2] = Writers!BoutSeen(w, k[1])
      /\ UNCHANGED <<bouts, classes, kids>> /\ newKids'[w] = {}
      /\ mine'[w] = Writers!Flushed(w)
  BY <1>t DEF Writers!TypeOK, Writers!FlushChildren, Writers!BatchDone, Writers!Goto,
     Writers!committed
<1>2. Writers!FlushRows(w) = [bouts |-> {}, classes |-> {}, kids |-> {k[1] : k \in newKids[w]}]
  BY <1>1 DEF Writers!FlushRows
<1>3. /\ mine'[w].bouts = mine[w].bouts /\ mine'[w].classes = mine[w].classes
      /\ mine'[w].kids = mine[w].kids \cup {k[1] : k \in newKids[w]}
  <2>1. /\ Writers!FlushRows(w).bouts = {} /\ Writers!FlushRows(w).classes = {}
        /\ Writers!FlushRows(w).kids = {k[1] : k \in newKids[w]}
    BY <1>2
  <2> QED BY <1>1, <2>1, FlushAdds
<1>4. \A b \in mine[w].bouts : b \in mine'[w].kids
  <2> SUFFICES ASSUME NEW b \in mine[w].bouts, b \notin mine[w].kids
               PROVE  b \in {k[1] : k \in newKids[w]}
    BY <1>3
  <2>1. <<b, w>> \in newKids[w] BY <1>1, <1>t DEF WorkerInv, KidsFollow
  <2> QED BY <2>1
<1>5. KidsFollow(w)' BY <1>3, <1>4 DEF KidsFollow
<1>6. FlushedFit(w)'
  <2>1. \A b : Writers!BoutSeen(w, b)' = Writers!BoutSeen(w, b)
    BY <1>1, <1>3 DEF Writers!BoutSeen
  <2>2. \A c : Writers!ClassSeen(w, c)' = Writers!ClassSeen(w, c)
    BY <1>1, <1>3 DEF Writers!ClassSeen
  <2>3. \A b \in mine'[w].kids : Writers!BoutSeen(w, b)' # Nobody
    BY <1>1, <1>3, <1>t, <2>1 DEF WorkerInv, FlushedFit
  <2> QED BY <1>1, <1>3, <1>t, <2>2, <2>3 DEF WorkerInv, FlushedFit
<1>7. TodoIsKnown(w)' BY <1>1 DEF TodoIsKnown
<1>8. \A x \in Workers \ {w} : mine'[w].bouts \cap mine[x].bouts = {}
  BY <1>3 DEF WritersInv, SessionsApart
<1> QED
  BY <1>1, <1>5, <1>6, <1>7, <1>8, UncommittedKeeps, WritersWriteTypes
  DEF Writers!Work, Writers!Write, Writers!committed, WorkerInv

LEMMA CommitKeeps ==
    ASSUME WritersFit, WritersInv, NEW w \in Workers, Writers!Commit(w) PROVE WritersInv'
<1>t. Writers!TypeOK /\ WorkerInv(w) /\ CommittedFit BY DEF WritersInv
<1>1. /\ workerStage[w] = "commit" /\ workerStage'[w] = "idle"
      /\ bouts' = [b \in Bouts |-> IF b \in mine[w].bouts THEN w ELSE bouts[b]]
      /\ classes' = [c \in Classes |-> IF c \in mine[w].classes THEN w ELSE classes[c]]
      /\ kids' = kids \cup mine[w].kids /\ mine'[w] = Writers!NoRows /\ newKids' = newKids
  BY <1>t DEF Writers!TypeOK, Writers!Commit, Writers!Goto, Writers!adding
<1>2. /\ mine[w].bouts \subseteq Bouts /\ mine[w].kids \subseteq Bouts /\ w # Nobody
      /\ \A b \in Bouts : ClassOf[b] \in Classes
  BY <1>t DEF Writers!TypeOK, Writers!Rows, WritersFit
<1>3. \A b \in mine[w].bouts : b \in mine[w].kids
  BY <1>1, <1>t DEF WorkerInv, KidsFollow
<1>4. CommittedFit'
  <2>1. \A b \in Bouts : bouts'[b] \in Workers => b \in kids'
    BY <1>1, <1>3, <1>t DEF CommittedFit
  <2>2. \A b \in Bouts : bouts'[b] # Nobody => classes'[ClassOf[b]] # Nobody
    BY <1>1, <1>2, <1>t DEF CommittedFit, WorkerInv, FlushedFit, Writers!ClassSeen
  <2>3. \A b \in kids' : bouts'[b] # Nobody
    BY <1>1, <1>2, <1>t DEF CommittedFit, WorkerInv, FlushedFit, Writers!BoutSeen,
       Writers!TypeOK
  <2> QED BY <2>1, <2>2, <2>3 DEF CommittedFit
<1>5. ASSUME NEW x \in Workers \ {w} PROVE WorkerInv(x)'
  <2>1. /\ \A b \in Bouts : bouts[b] # Nobody => bouts'[b] # Nobody
        /\ \A c \in Classes : classes[c] # Nobody => classes'[c] # Nobody
    BY <1>1, <1>2
  <2>2. \A b \in mine[x].bouts : bouts'[b] = bouts[b]
    <3>1. mine[x].bouts \subseteq Bouts /\ mine[x].bouts \cap mine[w].bouts = {}
      BY <1>t DEF WritersInv, SessionsApart, Writers!TypeOK, Writers!Rows
    <3> QED BY <1>1, <3>1
  <2>3. Unmoved(x) BY OthersUnmoved DEF Writers!Work
  <2> QED BY <2>1, <2>2, <2>3, UnmovedKeeps
<1>6. WorkerInv(w)'
  BY <1>1, <1>t DEF WorkerInv, KidsFollow, TodoIsKnown, FlushedFit, Writers!NoRows
<1>7. SessionsApart'
  <2>1. \A x \in Workers \ {w} : mine'[x] = mine[x]
    BY OthersUnmoved DEF Writers!Work, Unmoved
  <2> QED BY <1>1, <2>1 DEF WritersInv, SessionsApart, Writers!NoRows
<1> QED BY <1>4, <1>5, <1>6, <1>7, WritersStartTypes DEF WritersInv

LEMMA WritersNext ==
    ASSUME WritersFit, WritersInv, [Writers!Next]_(Writers!upsVars) PROVE WritersInv'
<1>1. ASSUME NEW w \in Workers, Writers!Work(w) PROVE WritersInv'
  BY <1>1, StartJobKeeps, ResolveKeeps, FlushKeeps, ConflictKeeps, RetryRowKeeps,
     AddChildrenKeeps, FlushChildrenKeeps, CommitKeeps
  DEF Writers!Work, Writers!Write, Writers!ChildrenFail, Writers!Deadlocked
<1>2. CASE UNCHANGED Writers!upsVars
  <2> USE <1>2 DEF Writers!upsVars, Writers!committed, Writers!resolver, Writers!adding
  <2>1. Writers!TypeOK' BY DEF WritersInv, Writers!TypeOK
  <2>2. SessionsApart' /\ CommittedFit' BY DEF WritersInv, SessionsApart, CommittedFit
  <2>3. ASSUME NEW x \in Workers PROVE WorkerInv(x)'
    <3>1. Unmoved(x) BY DEF Unmoved
    <3> QED BY <3>1, UnmovedKeeps
  <2> QED BY <2>1, <2>2, <2>3 DEF WritersInv
<1> QED BY <1>1, <1>2 DEF Writers!Next

(* Every new bout is committed with its weight class and its competitors,   *)
(* and two processes never hold the same external id, for any processes,    *)
(* batches, bouts and classes (competition.py:68-113).                      *)
THEOREM BoutsStayComplete == ASSUME WritersFit PROVE Spec => []BoutsAreComplete
<1>1. WritersInv => BoutsAreComplete
  BY DEF WritersInv, CommittedFit, WorkerInv, FlushedFit, BoutsAreComplete,
     Writers!BoutsAreComplete
<1> QED BY <1>1, WritersInit, WritersNext, WritersRuns, PTL

----------------------------------------------------------------------------
(* The walks through paginated endpoints.                                   *)
Listed == Walk!Range(Items) \cup {Newcomer}

(* The items of a list up to a place.                                       *)
UpTo(n) == {Items[i] : i \in {k \in DOMAIN Items : k <= n}}

(* The walk over a list that rests: it has the pages before the one it asks *)
(* for and knows no others.                                                 *)
PagesGoUp ==
    server \in {"paged", "bare"} /\ changes = 0 =>
        /\ listing = Items
        /\ UpTo((page - 1) * PageSize) \subseteq got
        /\ walk \in {"walking", "failed"} => seenIds \subseteq UpTo((page - 1) * PageSize)
        /\ walk \in {"last", "stalled"} => Walk!Whole

(* A server that repeats its first page: the number gives it away, ...      *)
StuckStops ==
    server = "stuck" =>
        /\ page \in {1, 2} /\ yielded <= 2
        /\ walk = "walking" => yielded <= page - 1

(* ... or the ids, unless the page changes.                                 *)
EchoStops ==
    server = "echoing" /\ named =>
        /\ yielded <= 2 + changes
        /\ walk = "walking" =>
              /\ yielded <= 1 + changes
              /\ yielded = 1 + changes => Walk!Slice(1) \subseteq seenIds

PageTypes == Walk!TypeOK /\ (walk \in {"walking", "failed"} => yielded < MaxPages)

WalkInv == PageTypes /\ PagesGoUp /\ StuckStops /\ EchoStops

(* One more page is one page size more.                                     *)
LEMMA OnePage ==
    ASSUME NEW n \in Nat \ {0}, NEW s \in Nat
    PROVE  n * s \in Nat /\ (n - 1) * s \in Nat /\ n * s = (n - 1) * s + s
OBVIOUS

(* As many pages as the server counts hold the list.                        *)
LEMMA PagesHold ==
    ASSUME NEW s \in Nat \ {0}, NEW l \in Nat, NEW n \in Nat, n >= (l + s - 1) \div s
    PROVE  n * s >= l
<1> DEFINE q == (l + s - 1) \div s
           r == (l + s - 1) % s
<1>1. l + s - 1 \in Nat OBVIOUS
<1>2. q \in Nat /\ r \in 0..(s - 1) /\ l + s - 1 = s * q + r
  BY <1>1
<1> HIDE DEF q, r
<1>3. s * q >= l
  <2>1. s * q \in Nat BY <1>2
  <2> QED BY <1>2, <2>1
<1>4. n * s >= s * q
  <2>1. n >= q BY DEF q
  <2>2. PICK d \in Nat : n = q + d BY <1>2, <2>1
  <2>3. n * s = s * q + d * s /\ d * s \in Nat /\ s * q \in Nat BY <1>2, <2>2
  <2> QED BY <2>3
<1> QED BY <1>2, <1>3, <1>4

(* The items of a page, of a list that rests.                               *)
LEMMA SliceUpTo ==
    ASSUME PagesFit, PageTypes, listing = Items
    PROVE  /\ UpTo(page * PageSize) = UpTo((page - 1) * PageSize) \cup Walk!Slice(page)
           /\ Walk!Slice(page) \cap UpTo((page - 1) * PageSize) = {}
<1> DEFINE a == (page - 1) * PageSize
           b == page * PageSize
<1>1. a \in Nat /\ b \in Nat /\ b = a + PageSize
  BY OnePage DEF PagesFit, PageTypes, Walk!TypeOK
<1>2. Walk!Slice(page) = {Items[i] : i \in {i \in DOMAIN Items : i > a /\ i <= b}}
  BY DEF Walk!Slice
<1> HIDE DEF a, b
<1>3. UpTo(b) = UpTo(a) \cup Walk!Slice(page) /\ Walk!Slice(page) \cap UpTo(a) = {}
  BY <1>1, <1>2 DEF UpTo, PagesFit
<1> QED BY <1>3 DEF a, b

(* Behind the last place there is nothing.                                  *)
LEMMA UpToWhole ==
    ASSUME PagesFit, listing = Items, NEW n \in Nat, n >= Len(Items)
    PROVE  Walk!Range(listing) = UpTo(n)
<1>1. DOMAIN Items = 1..Len(Items) /\ Len(Items) \in Nat BY DEF PagesFit
<1> QED BY <1>1 DEF UpTo, Walk!Range

LEMMA SlicesAreListed ==
    ASSUME PageTypes, NEW n PROVE Walk!Slice(n) \subseteq Listed
BY DEF PageTypes, Walk!TypeOK, Walk!Slice, Listed

LEMMA WalkInit == ASSUME PagesFit PROVE Walk!Init => WalkInv
<1> SUFFICES ASSUME Walk!Init PROVE WalkInv OBVIOUS
<1>1. UpTo((page - 1) * PageSize) = {}
  <2>1. page = 1 /\ (page - 1) * PageSize = 0 BY DEF Walk!Init, PagesFit
  <2> QED BY <2>1 DEF UpTo, PagesFit
<1>2. Walk!TypeOK
  <2>1. listing \in Seq(Walk!Range(Items) \cup {Newcomer})
    BY DEF Walk!Init, PagesFit
  <2> QED BY <2>1 DEF Walk!Init, Walk!TypeOK, PagesFit
<1> QED
  BY <1>1, <1>2
  DEF Walk!Init, WalkInv, PageTypes, PagesGoUp, StuckStops, EchoStops, PagesFit

(* What a page that is yielded changes.                                     *)
LEMMA YieldTypes ==
    ASSUME PagesFit, PageTypes, Walk!YieldPage
    PROVE  PageTypes'
<1> DEFINE a == Walk!Answer
<1>1. a.items \subseteq Listed /\ a.index \in Nat /\ Walk!IdsOf(a) \subseteq a.items
  <2>1. a.items \subseteq Listed BY SlicesAreListed DEF Walk!Answer
  <2>2. a.index \in Nat BY DEF Walk!Answer, PageTypes, Walk!TypeOK
  <2>3. Walk!IdsOf(a) \subseteq a.items BY DEF Walk!IdsOf
  <2> QED BY <2>1, <2>2, <2>3
<1> HIDE DEF a
<1>2. /\ walk = "walking" /\ yielded' = yielded + 1 /\ got' = got \cup a.items
      /\ walk' = Walk!Verdict(a)
      /\ seenIds' = seenIds \/ seenIds' = seenIds \cup Walk!IdsOf(a)
      /\ page' = a.index + 1 \/ page' = page
      /\ UNCHANGED <<server, named, listing, changes, pageFailures>>
  BY DEF a, Walk!YieldPage, Walk!answerVars
<1>3. /\ walk' \in {"walking", "last", "stalled", "capped"}
      /\ walk' = "walking" => yielded' < MaxPages
      /\ yielded' \in 0..MaxPages
  BY <1>2 DEF Walk!Verdict, Walk!CapReached, PageTypes, Walk!TypeOK, PagesFit
<1> QED
  BY <1>1, <1>2, <1>3 DEF PageTypes, Walk!TypeOK, Listed

LEMMA YieldGoesUp ==
    ASSUME PagesFit, WalkInv, Walk!YieldPage
    PROVE  PagesGoUp'
<1> DEFINE a == Walk!Answer
<1> SUFFICES ASSUME server \in {"paged", "bare"}, changes = 0
             PROVE  /\ listing' = Items
                    /\ UpTo((page' - 1) * PageSize) \subseteq got'
                    /\ walk' \in {"walking", "failed"} =>
                          seenIds' \subseteq UpTo((page' - 1) * PageSize)
                    /\ walk' \in {"last", "stalled"} => Walk!Whole'
  BY DEF PagesGoUp, Walk!YieldPage, Walk!answerVars
<1>1. /\ PageTypes /\ page \in Nat \ {0}
      /\ listing = Items
      /\ UpTo((page - 1) * PageSize) \subseteq got
      /\ seenIds \subseteq UpTo((page - 1) * PageSize)
  BY DEF WalkInv, PagesGoUp, PageTypes, Walk!TypeOK, Walk!YieldPage, Walk!Answer
<1>2. /\ a.items = Walk!Slice(page) /\ a.index = page
      /\ a.count = IF server = "paged" THEN Walk!PageCount ELSE 0
  BY DEF Walk!Answer
<1> HIDE DEF a
<1>3. /\ walk = "walking" /\ a.items # {} /\ got' = got \cup a.items /\ listing' = listing
      /\ walk' = Walk!Verdict(a)
      /\ IF Walk!CapReached \/ Walk!Duplicate(a) THEN seenIds' = seenIds
         ELSE seenIds' = seenIds \cup Walk!IdsOf(a)
      /\ page' = IF walk' = "walking" THEN page + 1 ELSE page
  BY <1>2 DEF a, Walk!YieldPage, Walk!answerVars
<1>4. /\ UpTo(page * PageSize) = UpTo((page - 1) * PageSize) \cup a.items
      /\ a.items \cap UpTo((page - 1) * PageSize) = {}
  BY <1>1, <1>2, SliceUpTo
<1>5. ~Walk!Duplicate(a)
  BY <1>1, <1>3, <1>4 DEF Walk!Duplicate, Walk!IdsOf
<1>6. Walk!Advances(a) BY <1>1, <1>2 DEF Walk!Advances
<1>7. seenIds' \subseteq UpTo(page * PageSize) /\ UpTo(page * PageSize) \subseteq got'
  BY <1>1, <1>3, <1>4 DEF Walk!IdsOf
<1>8. CASE walk' = "walking"
  <2>1. page' = page + 1 /\ page' - 1 = page BY <1>1, <1>3, <1>8
  <2> QED BY <1>1, <1>3, <1>7, <1>8, <2>1
<1>9. CASE walk' # "walking"
  <2>1. page' = page /\ walk' # "failed" /\ walk' # "stalled"
    BY <1>3, <1>5, <1>6, <1>9 DEF Walk!Verdict
  <2>2. ASSUME walk' = "last" PROVE Walk!Whole'
    <3>1. Walk!LastPage(a) BY <1>3, <2>2 DEF Walk!Verdict
    <3>2. page >= Walk!PageCount BY <1>2, <3>1 DEF Walk!LastPage
    <3>3. Len(Items) \in Nat BY DEF PagesFit
    <3>4. page * PageSize >= Len(Items)
      BY <1>1, <3>2, <3>3, PagesHold DEF Walk!PageCount, PagesFit
    <3>5. page * PageSize \in Nat BY <1>1, OnePage DEF PagesFit
    <3>6. Walk!Range(listing) = UpTo(page * PageSize)
      BY <1>1, <3>4, <3>5, UpToWhole
    <3> QED BY <1>3, <1>7, <3>6 DEF Walk!Whole, Walk!Range
  <2> QED BY <1>1, <1>3, <1>9, <2>1, <2>2
<1> QED BY <1>8, <1>9

(* The repeating servers are noticed.                                       *)
LEMMA YieldNotices ==
    ASSUME PagesFit, WalkInv, Walk!YieldPage
    PROVE  StuckStops' /\ EchoStops'
<1> DEFINE a == Walk!Answer
<1>1. /\ PageTypes /\ page \in Nat \ {0} /\ yielded \in Nat /\ changes \in Nat
      /\ walk = "walking" /\ yielded' = yielded + 1
      /\ UNCHANGED <<server, named, listing, changes>>
      /\ walk' = Walk!Verdict(a)
      /\ IF Walk!CapReached \/ Walk!Duplicate(a) THEN seenIds' = seenIds
         ELSE seenIds' = seenIds \cup Walk!IdsOf(a)
      /\ page' = IF walk' = "walking" THEN a.index + 1 ELSE page
      /\ a.items # {}
  BY DEF WalkInv, PageTypes, Walk!TypeOK, Walk!YieldPage, Walk!answerVars
<1>2. ASSUME server = "stuck" PROVE StuckStops'
  <2>1. a.index = 1 BY <1>2 DEF Walk!Answer
  <2> HIDE DEF a
  <2>2. page \in {1, 2} /\ yielded <= page - 1
    BY <1>1, <1>2 DEF WalkInv, StuckStops
  <2>3. walk' = "walking" => page = 1 /\ page' = 2
    BY <1>1, <2>1, <2>2 DEF Walk!Verdict, Walk!Advances
  <2> QED BY <1>1, <2>1, <2>2, <2>3 DEF StuckStops
<1>3. ASSUME server = "echoing", named PROVE EchoStops'
  <2>1. a.items = Walk!Slice(1) BY <1>3 DEF Walk!Answer
  <2> HIDE DEF a
  <2>2. Walk!IdsOf(a) = Walk!Slice(1) BY <1>3, <2>1 DEF Walk!IdsOf
  <2>3. yielded <= 1 + changes /\ (yielded = 1 + changes => Walk!Slice(1) \subseteq seenIds)
    BY <1>1, <1>3 DEF WalkInv, EchoStops
  <2>4. ASSUME walk' = "walking"
        PROVE  yielded' <= 1 + changes /\ Walk!Slice(1) \subseteq seenIds'
    <3>1. ~Walk!CapReached /\ ~Walk!Duplicate(a) BY <1>1, <2>4 DEF Walk!Verdict
    <3>2. ~(Walk!Slice(1) \subseteq seenIds)
      BY <1>1, <2>1, <2>2, <3>1 DEF Walk!Duplicate
    <3> QED BY <1>1, <2>2, <2>3, <3>1, <3>2
  <2>5. Walk!Slice(1)' = Walk!Slice(1) BY <1>1 DEF Walk!Slice
  <2> QED BY <1>1, <2>3, <2>4, <2>5 DEF EchoStops
<1> QED BY <1>1, <1>2, <1>3 DEF StuckStops, EchoStops

LEMMA WalkNext == ASSUME PagesFit, WalkInv, [Walk!Next]_(Walk!vars) PROVE WalkInv'
<1>t. PageTypes /\ Walk!TypeOK BY DEF WalkInv, PageTypes
<1>1. CASE Walk!YieldPage
  BY <1>1, <1>t, YieldTypes, YieldGoesUp, YieldNotices DEF WalkInv
<1>2. ASSUME UNCHANGED listing PROVE Walk!Slice(1)' = Walk!Slice(1)
  BY <1>2 DEF Walk!Slice
<1>3. CASE Walk!EmptyPage
  <2>1. /\ walk = "walking" /\ walk' = "last" /\ Walk!Answer.items = {}
        /\ UNCHANGED <<server, named, listing, changes, page, yielded, seenIds, got, pageFailures>>
    BY <1>3 DEF Walk!EmptyPage, Walk!answerVars
  <2>2. PageTypes' BY <1>t, <2>1 DEF PageTypes, Walk!TypeOK
  <2>3. ASSUME server \in {"paged", "bare"}, changes = 0 PROVE Walk!Whole
    <3>1. Walk!Slice(page) = {} /\ listing = Items
      BY <2>1, <2>3 DEF Walk!Answer, WalkInv, PagesGoUp
    <3> DEFINE n == (page - 1) * PageSize
               m == page * PageSize
    <3>2. n \in Nat /\ m = n + PageSize /\ PageSize > 0
      BY <1>t, OnePage DEF PagesFit, Walk!TypeOK
    <3>3. \A i \in DOMAIN Items : ~(i > n /\ i <= m)
      BY <3>1 DEF Walk!Slice
    <3> HIDE DEF n, m
    <3>4. Len(Items) \in Nat /\ DOMAIN Items = 1..Len(Items) BY DEF PagesFit
    <3>5. n >= Len(Items)
      <4>1. SUFFICES ASSUME n < Len(Items) PROVE FALSE BY <3>2, <3>4
      <4>2. n + 1 \in DOMAIN Items /\ n + 1 <= m BY <3>2, <3>4, <4>1 DEF PagesFit
      <4> QED BY <3>2, <3>3, <4>2
    <3>6. UpTo(n) \subseteq got BY <2>3 DEF WalkInv, PagesGoUp, n
    <3> QED BY <3>1, <3>2, <3>5, <3>6, UpToWhole DEF Walk!Whole
  <2>4. PagesGoUp'
    BY <2>1, <2>3 DEF WalkInv, PagesGoUp, Walk!Whole, Walk!Range
  <2>5. StuckStops' /\ EchoStops' BY <1>2, <2>1 DEF WalkInv, StuckStops, EchoStops
  <2> QED BY <2>2, <2>4, <2>5 DEF WalkInv
<1>4. CASE Walk!FailPage
  <2>1. /\ walk = "walking" /\ walk' = "failed"
        /\ UNCHANGED <<server, named, listing, changes, page, yielded, seenIds, got>>
        /\ pageFailures' = pageFailures + 1 /\ pageFailures < MaxFailures
    BY <1>4 DEF Walk!FailPage, Walk!answerVars
  <2>2. PageTypes' BY <1>t, <2>1 DEF PageTypes, Walk!TypeOK, PagesFit
  <2>3. PagesGoUp' BY <2>1 DEF WalkInv, PagesGoUp
  <2>4. StuckStops' /\ EchoStops' BY <1>2, <2>1 DEF WalkInv, StuckStops, EchoStops
  <2> QED BY <2>2, <2>3, <2>4 DEF WalkInv
<1>5. CASE Walk!Resume
  <2>1. /\ walk = "failed" /\ walk' = "walking" /\ yielded' = 0 /\ seenIds' = {}
        /\ UNCHANGED <<server, named, listing, changes, page, got, pageFailures>>
    BY <1>5 DEF Walk!Resume, Walk!answerVars
  <2>2. PageTypes' BY <1>t, <2>1 DEF PageTypes, Walk!TypeOK, PagesFit
  <2>3. PagesGoUp' BY <2>1 DEF WalkInv, PagesGoUp
  <2>4. StuckStops' BY <1>t, <2>1 DEF WalkInv, StuckStops, Walk!TypeOK
  <2>5. EchoStops' BY <1>t, <2>1 DEF WalkInv, EchoStops, Walk!TypeOK
  <2> QED BY <2>2, <2>3, <2>4, <2>5 DEF WalkInv
<1>6. CASE Walk!Change
  <2>1. /\ changes' = changes + 1 /\ changes < MaxChanges
        /\ listing' = <<Newcomer>> \o listing \/ (listing # <<>> /\ listing' = Tail(listing))
        /\ UNCHANGED <<server, named, page, yielded, seenIds, got, walk, pageFailures>>
    BY <1>6 DEF Walk!Change
  <2>2. listing' \in Seq(Listed)
    <3>1. listing \in Seq(Listed) /\ Newcomer \in Listed
      BY <1>t DEF Walk!TypeOK, Listed
    <3>2. <<Newcomer>> \in Seq(Listed) BY <3>1
    <3>3. <<Newcomer>> \o listing \in Seq(Listed) BY <3>1, <3>2
    <3>4. ASSUME listing # <<>> PROVE Tail(listing) \in Seq(Listed) BY <3>1, <3>4
    <3> QED BY <2>1, <3>3, <3>4
  <2>3. PageTypes' BY <1>t, <2>1, <2>2 DEF PageTypes, Walk!TypeOK, Listed, PagesFit
  <2>4. changes' # 0 /\ changes \in Nat /\ yielded \in Nat
    BY <1>t, <2>1 DEF Walk!TypeOK
  <2>5. PagesGoUp' BY <2>4 DEF PagesGoUp
  <2>6. StuckStops' BY <2>1 DEF WalkInv, StuckStops
  <2>7. EchoStops' BY <2>1, <2>4 DEF WalkInv, EchoStops
  <2> QED BY <2>3, <2>5, <2>6, <2>7 DEF WalkInv
<1>7. CASE UNCHANGED Walk!vars
  BY <1>7, <1>t
  DEF Walk!vars, Walk!answerVars, WalkInv, PageTypes, Walk!TypeOK, PagesGoUp, StuckStops,
      EchoStops, Walk!Whole, Walk!Range, Walk!Slice
<1> QED BY <1>1, <1>3, <1>4, <1>5, <1>6, <1>7 DEF Walk!Next

(* A walk over a resting list ends with the whole of it, through failures   *)
(* and resumptions, and a server that repeats itself is noticed at its      *)
(* second page, for any list of distinct items and any page size            *)
(* (client.py paginate).                                                    *)
THEOREM WalksAreWhole == ASSUME PagesFit PROVE Spec => []WalksEndWhole
<1>1. WalkInv => WalksEndWhole
  BY DEF WalkInv, PageTypes, Walk!TypeOK, PagesGoUp, StuckStops, EchoStops, WalksEndWhole,
         Walk!WalksEndWhole
<1> QED BY <1>1, WalkInit, WalkNext, WalkRuns, PTL DEF Walk!Spec
=============================================================================
