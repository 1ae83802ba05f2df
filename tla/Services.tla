------------------------------ MODULE Services -----------------------------
(***************************************************************************)
(* The components that share no state with one another, side by side: part *)
(* is the one that moves in a behaviour, and the others rest in an initial *)
(* state.  The constant Parts names the ones a run explores.               *)
(***************************************************************************)
EXTENDS Integers, Sequences, FiniteSets

CONSTANTS
  Parts,
  BreakerJobs, FailureThreshold, HalfOpenMaxCalls,               \* SyncBreaker
  Calls, Definitions, LockKey, Runnable, MaxHistory, NoCall,     \* PlanScheduler
  Events, NoEvent, MaxRestarts,                                  \* LiveMode
  Clients, Keys, MaxVersion, MaxRedisFaults, Nothing,            \* APICache
  Entities, MaxEdges,                                            \* DependencyGraph
  Canonicals, Sources, Overlap(_, _), NoId, MaxMerges,           \* IdentityGraph
  Workers, Bouts, Classes, ClassOf, Batches, Earlier, Nobody,    \* Upserts
  Fighters, Limit, RecordBatch, Budget, MaxRunFaults,            \* RecordsBackfill
  RankingJobs, Listing, RankedIn, Ranked, RankingBatch,
  MaxTableFaults,                                                \* Rankings
  Fetches, TokenTicks, Burst, TripAfter, ResetTicks, MaxClock,   \* Connector
  Connectors, Loops, AlertAfter, Kept, MaxMisses, NoTask,        \* HealthPoll
  Requests, Fields, Choices, Usual, NoRow,                       \* UserLists
  Records, MaxCrashes,                                           \* DataLake
  Leagues, RefsOf, Promoted, MaxEvents, MaxMissed, NoLeague,     \* HistoricalEvents
  Items, Newcomer, PageSize, MaxPages, MaxChanges, MaxFailures   \* Pages

VARIABLES part,
  state, failures, attempts, waited, jobStage,
  callPhase, defId, locked, running, history,
  fight, live, active, wasLive, loop, enabled, timer, up, restarts,
  version, store, step, key, payload, copy, sync, doomed, redisFaults,
  adjacency, inDegree, work, sortQueue, result, path, visited, cycles,
  sourcesOf, canonicalOf, merges,
  bouts, classes, kids, mine, workerStage, batch, known, knownWc, todo, fresh,
  newKids, lost,
  published, records, status, emptied, runPhase, fetched, answer, newRecords,
  newStatus, runFaults,
  rankings, jobAt, left, seen, deleted, inserted, tableFaults,
  clock, tokens, lastRefill, circuit, openSince, failed, asking, requests,
  registered, connected, polling, task, pollStage, checking, polls, misses,
  favorite, prefs, reqStage, loaded, body,
  memory, files, torn, archive, old, storing, stored, crashes,
  storedUnder, askedLeagues, hooks, gathered, asked, missed,
  server, named, listing, page, yielded, seenIds, got, walk, changes, pageFailures

Breaker == INSTANCE SyncBreaker WITH Jobs <- BreakerJobs, stage <- jobStage

Plans == INSTANCE PlanScheduler WITH phase <- callPhase

LiveLoop == INSTANCE LiveMode

Cache == INSTANCE APICache WITH MaxFaults <- MaxRedisFaults, faults <- redisFaults

Graph == INSTANCE DependencyGraph WITH queue <- sortQueue

Identity == INSTANCE IdentityGraph

Writers == INSTANCE Upserts WITH stage <- workerStage

Backfill == INSTANCE RecordsBackfill WITH
  BatchSize <- RecordBatch, MaxFaults <- MaxRunFaults,
  phase <- runPhase, queue <- fetched, faults <- runFaults

Table == INSTANCE Rankings WITH
  Jobs <- RankingJobs, Promoted <- RankedIn, BatchSize <- RankingBatch,
  MaxFaults <- MaxTableFaults

Source == INSTANCE Connector

Poller == INSTANCE HealthPoll WITH running <- polling

Lists == INSTANCE UserLists

Lake == INSTANCE DataLake

Past == INSTANCE HistoricalEvents

Walk == INSTANCE Pages WITH failures <- pageFailures

----------------------------------------------------------------------------
(* What the constants of each component are.                               *)
\* the components that move
PartsAreKnown ==
    Parts \subseteq {"breaker", "plans", "live", "cache", "graph", "identity", "writers",
                     "backfill", "rankings", "source", "poll", "lists", "lake", "past", "pages"}

\* SyncBreaker
LimitsAreNat == FailureThreshold \in Nat /\ HalfOpenMaxCalls \in Nat

\* PlanScheduler
SchedulerFits ==
    /\ IsFiniteSet(Calls) /\ NoCall \notin Calls /\ MaxHistory \in Nat

\* LiveMode
NoEventIsNone == NoEvent \notin Events /\ MaxRestarts \in Nat

\* APICache
CacheFits == MaxVersion \in Nat /\ MaxRedisFaults \in Nat

\* DependencyGraph
GraphFits == IsFiniteSet(Entities)

\* Upserts: every job has a batch
WritersFit ==
    /\ Batches \in [Workers -> Seq(Seq(Bouts))] /\ \A w \in Workers : Batches[w] # <<>>
    /\ ClassOf \in [Bouts -> Classes]
    /\ Nobody \notin Workers \cup {Earlier} /\ Earlier \notin Workers

\* RecordsBackfill: a job tries at least once
BackfillFits ==
    /\ IsFiniteSet(Fighters) /\ Limit \in Nat /\ RecordBatch \in Nat
    /\ Budget \in Nat \ {0} /\ MaxRunFaults \in Nat

\* Rankings
ListingsFit ==
    /\ RankingBatch \in Nat \ {0} /\ MaxTableFaults \in Nat
    /\ \A j \in RankingJobs : Listing[j] \in Seq(Table!Range(Listing[j]))

\* Connector
RatesAreNat == TokenTicks \in Nat \ {0} /\ Burst \in Nat \ {0} /\ MaxClock \in Nat

\* HealthPoll
PollsFit == AlertAfter \in Nat /\ Kept \in Nat /\ MaxMisses \in Nat

\* UserLists
NoRowIsNoRow == NoRow \notin [Fields -> Choices] /\ Usual \in Choices

\* DataLake
LakeFits == MaxCrashes \in Nat

\* HistoricalEvents
PastFits ==
    /\ Leagues \in Seq(DOMAIN RefsOf) /\ \A l \in DOMAIN RefsOf : IsFiniteSet(DOMAIN RefsOf[l])
    /\ MaxEvents \in Nat /\ MaxMissed \in Nat

\* Pages: a list holds an item once
PagesFit ==
    /\ PageSize \in Nat \ {0} /\ MaxPages \in Nat \ {0}
    /\ MaxChanges \in Nat /\ MaxFailures \in Nat
    /\ Items \in Seq(Walk!Range(Items))
    /\ \A i, k \in DOMAIN Items : Items[i] = Items[k] => i = k

ASSUME ServicesAssumption ==
    /\ PartsAreKnown /\ LimitsAreNat /\ SchedulerFits /\ NoEventIsNone /\ CacheFits
    /\ GraphFits /\ WritersFit /\ BackfillFits /\ ListingsFit /\ RatesAreNat
    /\ PollsFit /\ NoRowIsNoRow /\ LakeFits /\ PastFits /\ PagesFit

----------------------------------------------------------------------------
breakerVars  == <<state, failures, attempts, waited, jobStage>>
planVars     == <<callPhase, defId, locked, running, history>>
liveVars     == <<fight, live, active, wasLive, loop, enabled, timer, up, restarts>>
cacheVars    == <<version, store, step, key, payload, copy, sync, doomed, redisFaults>>
graphVars    == <<adjacency, inDegree, work, sortQueue, result, path, visited, cycles>>
identityVars == <<sourcesOf, canonicalOf, merges>>
writerVars   == <<bouts, classes, kids, mine, workerStage, batch, known, knownWc,
                  todo, fresh, newKids, lost>>
backfillVars == <<published, records, status, emptied, runPhase, fetched, answer,
                  newRecords, newStatus, runFaults>>
rankingVars  == <<rankings, jobAt, left, seen, deleted, inserted, tableFaults>>
sourceVars   == <<clock, tokens, lastRefill, circuit, openSince, failed, asking, requests>>
pollVars     == <<registered, connected, polling, task, pollStage, checking, polls, misses>>
listVars     == <<favorite, prefs, reqStage, loaded, body>>
lakeVars     == <<memory, files, torn, archive, old, storing, stored, crashes>>
pastVars     == <<storedUnder, askedLeagues, hooks, gathered, asked, missed>>
pageVars     == <<server, named, listing, page, yielded, seenIds, got, walk, changes,
                  pageFailures>>
vars == <<part, breakerVars, planVars, liveVars, cacheVars, graphVars,
          identityVars, writerVars, backfillVars, rankingVars, sourceVars, pollVars,
          listVars, lakeVars, pastVars, pageVars>>

Init ==
  /\ part \in Parts
  /\ Breaker!Init /\ Plans!Init /\ LiveLoop!Init /\ Cache!Init
  /\ Graph!Init /\ Identity!Init /\ Writers!Init /\ Backfill!Init
  /\ Table!Init /\ Source!Init /\ Poller!Init /\ Lists!Init /\ Lake!Init
  /\ Past!Init /\ Walk!Init
  /\ part # "plans" => defId = [c \in Calls |-> CHOOSE d \in Definitions : TRUE]
  /\ part # "writers" => \A c \in Classes : classes[c] = Nobody
  /\ part # "backfill" => published = {}
  /\ part # "pages" => server = "paged" /\ named

\* Every part but p rests.
Rest(p) ==
  /\ part = p /\ UNCHANGED part
  /\ IF p = "breaker"  THEN TRUE ELSE UNCHANGED breakerVars
  /\ IF p = "plans"    THEN TRUE ELSE UNCHANGED planVars
  /\ IF p = "live"     THEN TRUE ELSE UNCHANGED liveVars
  /\ IF p = "cache"    THEN TRUE ELSE UNCHANGED cacheVars
  /\ IF p = "graph"    THEN TRUE ELSE UNCHANGED graphVars
  /\ IF p = "identity" THEN TRUE ELSE UNCHANGED identityVars
  /\ IF p = "writers"  THEN TRUE ELSE UNCHANGED writerVars
  /\ IF p = "backfill" THEN TRUE ELSE UNCHANGED backfillVars
  /\ IF p = "rankings" THEN TRUE ELSE UNCHANGED rankingVars
  /\ IF p = "source"   THEN TRUE ELSE UNCHANGED sourceVars
  /\ IF p = "poll"     THEN TRUE ELSE UNCHANGED pollVars
  /\ IF p = "lists"    THEN TRUE ELSE UNCHANGED listVars
  /\ IF p = "lake"     THEN TRUE ELSE UNCHANGED lakeVars
  /\ IF p = "past"     THEN TRUE ELSE UNCHANGED pastVars
  /\ IF p = "pages"    THEN TRUE ELSE UNCHANGED pageVars

Next ==
  \/ part = "breaker"  /\ Breaker!Next  /\ Rest("breaker")
  \/ part = "plans"    /\ Plans!Next    /\ Rest("plans")
  \/ part = "live"     /\ LiveLoop!Next /\ Rest("live")
  \/ part = "cache"    /\ Cache!Next    /\ Rest("cache")
  \/ part = "graph"    /\ Graph!Next    /\ Rest("graph")
  \/ part = "identity" /\ Identity!Next /\ Rest("identity")
  \/ part = "writers"  /\ Writers!Next  /\ Rest("writers")
  \/ part = "backfill" /\ Backfill!Next /\ Rest("backfill")
  \/ part = "rankings" /\ Table!Next /\ Rest("rankings")
  \/ part = "source" /\ Source!Next /\ Rest("source")
  \/ part = "poll" /\ Poller!Next /\ Rest("poll")
  \/ part = "lists" /\ Lists!Next /\ Rest("lists")
  \/ part = "lake" /\ Lake!Next /\ Rest("lake")
  \/ part = "past" /\ Past!Next /\ Rest("past")
  \/ part = "pages" /\ Walk!Next /\ Rest("pages")

\* The fairness of each component, for the part that moves.
CacheFair(c) == WF_cacheVars(part = "cache" /\ Cache!Serve(c))
WriterFair(w) ==
  /\ WF_writerVars(part = "writers" /\ Writers!Work(w))
  /\ \A n \in DOMAIN Batches[w] : SF_writerVars(part = "writers" /\ batch[w] = n /\ Writers!Write(w))

Spec ==
  /\ Init /\ [][Next]_vars
  /\ \A c \in Clients : CacheFair(c)
  /\ \A k \in Keys : WF_cacheVars(part = "cache" /\ Cache!Expire(k))
  /\ \A w \in Workers : WriterFair(w)
  /\ WF_backfillVars(part = "backfill" /\ Backfill!Run)
  /\ WF_pastVars(part = "past" /\ Past!Step)

----------------------------------------------------------------------------
(* A component that rests is in an initial state, where its own run begins: *)
(* invariants are checked for the part that moves.                         *)
(* Every component keeps its types.                                        *)
TypeOK ==
  CASE part = "breaker"  -> Breaker!TypeOK
    [] part = "plans"    -> Plans!TypeOK
    [] part = "live"     -> LiveLoop!TypeOK
    [] part = "cache"    -> Cache!TypeOK
    [] part = "graph"    -> Graph!TypeOK
    [] part = "identity" -> Identity!TypeOK
    [] part = "writers"  -> Writers!TypeOK
    [] part = "backfill" -> Backfill!TypeOK
    [] part = "rankings" -> Table!TypeOK
    [] part = "source"   -> Source!TypeOK
    [] part = "poll"     -> Poller!TypeOK
    [] part = "lists"    -> Lists!TypeOK
    [] part = "lake"     -> Lake!TypeOK
    [] part = "past"     -> Past!TypeOK
    [] part = "pages"    -> Walk!TypeOK

(* The safety properties of the components, under their names there.       *)
(* SyncBreaker: a counted failure in a half-open episode opens the breaker.*)
FailureReopens == Breaker!FailureReopens

(* PlanScheduler: locks, running records and history tell what happens.    *)
StatusIsTrue == part = "plans" => Plans!StatusIsTrue

(* LiveMode: the registry flag follows the detector.                       *)
FlagFollowsDetector == part = "live" => LiveLoop!FlagFollowsDetector

(* DependencyGraph: the sort and the cycle search are right.               *)
AnswersAreRight == part = "graph" => Graph!AnswersAreRight

(* IdentityGraph: the two maps stay inverse to each other.                 *)
MapsAgree == part = "identity" => Identity!MapsAgree

(* Upserts: no bout is committed without its class and competitors.        *)
BoutsAreComplete == part = "writers" => Writers!BoutsAreComplete

(* Connector and HealthPoll: requests keep to a bound of the rate, and an   *)
(* alert follows misses in a row.                                          *)
SourcesAreWatched ==
  /\ part = "source" => Source!RateIsBounded
  /\ part = "poll" => Poller!AlertsAreEarned

(* Pages: a walk ends with the whole list, and notices a repeating server. *)
WalksEndWhole == part = "pages" => Walk!WalksEndWhole

(* Rankings, UserLists and DataLake: faults, crashes and overlapping       *)
(* writers lose nothing that is stored.                                    *)
StoresLoseNothing ==
  Table!NoDataLoss /\ Lists!FieldsChangeByName /\ []Lake!RecordsSurvive

(* Rankings: a job that ends has stored the whole listing of a category.   *)
CategoriesAreWhole == Table!CategoriesAreWhole

(* The liveness properties, in the behaviours where the component moves.   *)
(* APICache: clients end with the newest rows.                             *)
StaleEnds == part = "cache" => Cache!StaleEnds

(* Upserts: repeated jobs store every bout; HistoricalEvents: repeated runs *)
(* store every event the cap reaches.                                      *)
EventuallyStored ==
  /\ part = "writers" => Writers!EventuallyStored
  /\ part = "past" => Past!HooksAreStored

(* RecordsBackfill: repeated runs settle every fighter.                    *)
BackfillSettles == part = "backfill" => Backfill!BackfillSettles

(* RecordsBackfill: no absence or failure row survives beside a record.    *)
NoStatusBesideRecord == Backfill!NoStatusBesideRecord
=============================================================================
