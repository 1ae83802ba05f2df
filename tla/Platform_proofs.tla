-------------------------- MODULE Platform_proofs --------------------------
(***************************************************************************)
(* Proofs about the components of the data platform that Services composes: *)
(* the identity maps, the request rate of a connector and the alerts of the *)
(* health service; and, at the end, the types of every component.           *)
(***************************************************************************)
EXTENDS DependencyGraph_proofs

(* A behaviour of the composition is one of each component.                 *)
LEMMA IdentityRuns == Spec => Identity!Spec
<1>1. Init => Identity!Init
  BY DEF Init
<1>2. [Next]_vars => [Identity!Next]_(Identity!idVars)
  <2>1. ASSUME Next PROVE Identity!Next \/ UNCHANGED identityVars
    BY <2>1 DEF Next, Rest
  <2>2. (UNCHANGED vars \/ UNCHANGED identityVars) => UNCHANGED Identity!idVars
    BY DEF vars, identityVars, Identity!idVars
  <2> QED BY <2>1, <2>2
<1> QED BY <1>1, <1>2, PTL DEF Spec, Identity!Spec

LEMMA SourceRuns == Spec => Source!Spec
<1>1. Init => Source!Init
  BY DEF Init
<1>2. [Next]_vars => [Source!Next]_(Source!vars)
  <2>1. ASSUME Next PROVE Source!Next \/ UNCHANGED sourceVars
    BY <2>1 DEF Next, Rest
  <2>2. (UNCHANGED vars \/ UNCHANGED sourceVars) => UNCHANGED Source!vars
    BY DEF vars, sourceVars, Source!vars, Source!bucketVars, Source!circuitVars
  <2> QED BY <2>1, <2>2
<1> QED BY <1>1, <1>2, PTL DEF Spec, Source!Spec

LEMMA PollerRuns == Spec => Poller!Spec
<1>1. Init => Poller!Init
  BY DEF Init
<1>2. [Next]_vars => [Poller!Next]_(Poller!vars)
  <2>1. ASSUME Next PROVE Poller!Next \/ UNCHANGED pollVars
    BY <2>1 DEF Next, Rest
  <2>2. (UNCHANGED vars \/ UNCHANGED pollVars) => UNCHANGED Poller!vars
    BY DEF vars, pollVars, Poller!vars
  <2> QED BY <2>1, <2>2
<1> QED BY <1>1, <1>2, PTL DEF Spec, Poller!Spec

----------------------------------------------------------------------------
(* The identity maps.                                                        *)
(* The two halves of MapsAgree, which each step re-establishes in turn.    *)
PointersHold ==
  \A s \in DOMAIN canonicalOf :
     canonicalOf[s] \in DOMAIN sourcesOf /\ s \in sourcesOf[canonicalOf[s]]

MembersPoint ==
  \A c \in DOMAIN sourcesOf : \A s \in sourcesOf[c] :
     s \in DOMAIN canonicalOf /\ canonicalOf[s] = c

(* MapsAgree is the conjunction of its halves.                             *)
LEMMA IdentityHalves == Identity!MapsAgree <=> PointersHold /\ MembersPoint
BY DEF Identity!MapsAgree, PointersHold, MembersPoint

(* The maps are functions with the domains that Python's dicts have.       *)
MapsAreMaps == /\ sourcesOf = [c \in DOMAIN sourcesOf |-> sourcesOf[c]]
         /\ canonicalOf = [s \in DOMAIN canonicalOf |-> canonicalOf[s]]

IdentityInv == Identity!MapsAgree /\ MapsAreMaps

(* Both maps start empty.                                                  *)
LEMMA IdentityInit == Identity!Init => IdentityInv
BY DEF Identity!Init, IdentityInv, MapsAreMaps, Identity!MapsAgree

(* Linking a source id that is not linked adds the two pointers.           *)
LEMMA LinkKeeps ==
  ASSUME IdentityInv, NEW s \in Sources, NEW c \in Canonicals, Identity!AddSource(s, c)
  PROVE  IdentityInv'
<1>1. s \notin DOMAIN canonicalOf BY DEF Identity!AddSource
<1>2. /\ canonicalOf' = [t \in DOMAIN canonicalOf \cup {s} |->
                           IF t = s THEN c ELSE canonicalOf[t]]
      /\ sourcesOf' = [k \in DOMAIN sourcesOf \cup {c} |->
                         (IF k \in DOMAIN sourcesOf THEN sourcesOf[k] ELSE {})
                         \cup (IF k = c THEN {s} ELSE {})]
  BY DEF Identity!AddSource, Identity!Update, Identity!Remap
<1>3. PointersHold' BY <1>1, <1>2 DEF PointersHold, IdentityInv, Identity!MapsAgree
<1>4. MembersPoint' BY <1>1, <1>2 DEF MembersPoint, IdentityInv, Identity!MapsAgree
<1>5. MapsAreMaps' BY <1>2 DEF MapsAreMaps
<1> QED BY <1>3, <1>4, <1>5, IdentityHalves DEF IdentityInv, Identity!MapsAgree, PointersHold, MembersPoint

(* A merge moves every source id of b to a and drops b's key.              *)
LEMMA MergeKeeps ==
  ASSUME IdentityInv, NEW a \in Canonicals, NEW b \in Canonicals, Identity!Merge(a, b)
  PROVE  IdentityInv'
<1> DEFINE moved == Identity!SourcesOf(b)
<1>1. a # b BY DEF Identity!Merge
<1>2. /\ canonicalOf' = [t \in DOMAIN canonicalOf \cup moved |->
                           IF t \in moved THEN a ELSE canonicalOf[t]]
      /\ sourcesOf' = [k \in (DOMAIN sourcesOf \ {b}) \cup {a} |->
                         (IF k \in DOMAIN sourcesOf \ {b} THEN sourcesOf[k] ELSE {})
                         \cup (IF k = a THEN moved ELSE {})]
  BY DEF Identity!Merge, Identity!Update, Identity!Remap, Identity!Without
<1>3. \A t : t \in moved <=> (t \in DOMAIN canonicalOf /\ canonicalOf[t] = b)
  BY DEF Identity!SourcesOf, IdentityInv, Identity!MapsAgree
<1> HIDE DEF moved
<1>4. PointersHold' BY <1>1, <1>2, <1>3 DEF PointersHold, IdentityInv, Identity!MapsAgree
<1>5. MembersPoint' BY <1>1, <1>2, <1>3 DEF MembersPoint, IdentityInv, Identity!MapsAgree
<1>6. MapsAreMaps' BY <1>2 DEF MapsAreMaps
<1> QED BY <1>4, <1>5, <1>6 DEF IdentityInv, Identity!MapsAgree, PointersHold, MembersPoint

(* Unmerging moves some source ids of c to b, whatever c and b are: an     *)
(* unknown c, a b that has ids of its own, or c = b.                       *)
LEMMA UnmergeKeeps ==
  ASSUME IdentityInv, NEW c, NEW b, Identity!Unmerge(c, b)
  PROVE  IdentityInv'
<1> DEFINE moved == {s \in Identity!SourcesOf(c) : Overlap(s, b)}
<1>1. /\ canonicalOf' = [t \in DOMAIN canonicalOf \cup moved |->
                           IF t \in moved THEN b ELSE canonicalOf[t]]
      /\ sourcesOf' = [k \in DOMAIN sourcesOf \cup {b} |->
                         (IF k \in DOMAIN sourcesOf
                          THEN IF k = c THEN sourcesOf[k] \ moved ELSE sourcesOf[k]
                          ELSE {})
                         \cup (IF k = b THEN moved ELSE {})]
  BY DEF Identity!Unmerge, Identity!Update, Identity!Remap
<1>2. \A t \in moved : t \in DOMAIN canonicalOf /\ canonicalOf[t] = c
  BY DEF Identity!SourcesOf, IdentityInv, Identity!MapsAgree
<1> HIDE DEF moved
<1>3. PointersHold' BY <1>1, <1>2 DEF PointersHold, IdentityInv, Identity!MapsAgree
<1>4. MembersPoint' BY <1>1, <1>2 DEF MembersPoint, IdentityInv, Identity!MapsAgree
<1>5. MapsAreMaps' BY <1>1 DEF MapsAreMaps
<1> QED BY <1>3, <1>4, <1>5 DEF IdentityInv, Identity!MapsAgree, PointersHold, MembersPoint

(* Every step keeps the invariant.                                         *)
LEMMA IdentityNext == ASSUME IdentityInv, [Identity!Next]_(Identity!idVars) PROVE IdentityInv'
<1>1. ASSUME NEW i \in DOMAIN merges, Identity!UndoMatch(i) PROVE IdentityInv'
  BY <1>1, UnmergeKeeps DEF Identity!UndoMatch
<1>2. ASSUME NEW i \in DOMAIN merges, Identity!ReverseMerge(i) PROVE IdentityInv'
  BY <1>2, UnmergeKeeps DEF Identity!ReverseMerge
<1>3. CASE UNCHANGED Identity!idVars
  BY <1>3 DEF Identity!idVars, IdentityInv, MapsAreMaps, Identity!MapsAgree
<1> QED BY <1>1, <1>2, <1>3, LinkKeeps, MergeKeeps DEF Identity!Next

(* The two maps are inverse to each other in every reachable state: a link,*)
(* a merge and a reversal in any order lose no source id and give none to  *)
(* two entities, for every set of ids, every overlap between them and every*)
(* number of merges (identity/__init__.py:113-160).                        *)
THEOREM MapsStayInverse == Spec => []MapsAgree
<1>1. IdentityInv => MapsAgree BY DEF IdentityInv, MapsAgree
<1> QED BY <1>1, IdentityInit, IdentityNext, IdentityRuns, PTL DEF Identity!Spec

----------------------------------------------------------------------------
(* The rate of a connector.  A request costs TokenTicks; what a bucket has   *)
(* given and still holds is the burst, the time up to the last refill and    *)
(* the time up to now: a sleep counts in both.                               *)
RateTypes ==
    /\ clock \in Nat /\ tokens \in Nat /\ requests \in Nat
    /\ lastRefill \in Nat /\ lastRefill <= clock

Spent == requests * TokenTicks + tokens <= Burst * TokenTicks + lastRefill + clock

RateInv == RateTypes /\ Spent

(* One more request costs TokenTicks more.                                   *)
LEMMA OneMore ==
    ASSUME NEW n \in Nat, NEW t \in Nat
    PROVE  n * t \in Nat /\ (n + 1) * t = n * t + t
OBVIOUS

LEMMA RateInit == ASSUME RatesAreNat PROVE Source!Init => RateInv
<1> SUFFICES ASSUME Source!Init PROVE RateInv OBVIOUS
<1>1. Burst * TokenTicks \in Nat /\ 0 * TokenTicks = 0
  BY OneMore DEF RatesAreNat
<1> QED
  BY <1>1 DEF RatesAreNat, Source!Init, RateInv, RateTypes, Spent

(* A fetch takes a token, or sleeps for the rest of one.                     *)
LEMMA RateFetch ==
    ASSUME RatesAreNat, RateInv, Source!Acquire, requests' = requests + 1 PROVE RateInv'
<1> DEFINE cost == requests * TokenTicks
           full == Burst * TokenTicks
           refilled == Source!Refilled
<1>1. cost \in Nat /\ full \in Nat /\ requests' * TokenTicks = cost + TokenTicks
  BY OneMore DEF RatesAreNat, RateInv, RateTypes
<1>2. /\ refilled \in Nat
      /\ refilled <= tokens + (clock - lastRefill)
  BY <1>1 DEF RateInv, RateTypes, Source!Refilled, Source!Lesser
<1>3. cost + tokens <= full + lastRefill + clock
  BY DEF RateInv, Spent
<1>4. CASE refilled >= TokenTicks
  <2>1. tokens' = refilled - TokenTicks /\ clock' = clock /\ lastRefill' = clock
    BY <1>4 DEF Source!Acquire
  <2>2. requests' * TokenTicks + tokens' <= full + lastRefill' + clock'
    <3> HIDE DEF cost, full, refilled
    <3> QED BY <1>1, <1>2, <1>3, <2>1 DEF RatesAreNat, RateInv, RateTypes
  <2> QED
    BY <1>2, <1>4, <2>1, <2>2 DEF RatesAreNat, RateInv, RateTypes, Spent
<1>5. CASE ~(refilled >= TokenTicks)
  <2>1. tokens' = 0 /\ clock' = clock + (TokenTicks - refilled) /\ lastRefill' = clock
    BY <1>5 DEF Source!Acquire
  <2>2. requests' * TokenTicks + tokens' <= full + lastRefill' + clock'
    <3> HIDE DEF cost, full, refilled
    <3> QED BY <1>1, <1>2, <1>3, <2>1 DEF RatesAreNat, RateInv, RateTypes
  <2> QED
    BY <1>2, <1>5, <2>1, <2>2 DEF RatesAreNat, RateInv, RateTypes, Spent
<1> QED BY <1>4, <1>5

LEMMA RateNext == ASSUME RatesAreNat, RateInv, [Source!Next]_(Source!vars) PROVE RateInv'
<1>1. CASE Source!Tick
  <2>1. requests * TokenTicks \in Nat /\ Burst * TokenTicks \in Nat
    BY OneMore DEF RatesAreNat, RateInv, RateTypes
  <2> QED
    BY <1>1, <2>1 DEF RateInv, RateTypes, Spent, Source!Tick, Source!bucketVars
<1>2. ASSUME NEW f \in Fetches, Source!Fetch(f) PROVE RateInv'
  BY <1>2, RateFetch DEF Source!Fetch
<1>3. ASSUME NEW f \in Fetches, Source!Succeed(f) \/ Source!Fail(f) PROVE RateInv'
  BY <1>3 DEF RateInv, RateTypes, Spent, Source!Succeed, Source!Fail, Source!bucketVars
<1>4. CASE UNCHANGED Source!vars
  BY <1>4 DEF RateInv, RateTypes, Spent, Source!vars, Source!bucketVars
<1> QED BY <1>1, <1>2, <1>3, <1>4 DEF Source!Next

(* Requests stay within the burst and twice the rate, for every rate, burst, *)
(* breaker and number of fetches: the bucket never gives more than that.     *)
THEOREM RateBounded == ASSUME RatesAreNat PROVE Source!Spec => []Source!RateIsBounded
<1>1. RateInv => Source!RateIsBounded
  <2> SUFFICES ASSUME RateInv PROVE Source!RateIsBounded OBVIOUS
  <2>1. requests * TokenTicks \in Nat /\ Burst * TokenTicks \in Nat
    BY OneMore DEF RatesAreNat, RateInv, RateTypes
  <2> QED BY <2>1 DEF RateInv, RateTypes, Spent, Source!RateIsBounded
<1> QED BY <1>1, RateInit, RateNext, PTL DEF Source!Spec

----------------------------------------------------------------------------
(* The alerts of the health service.                                        *)
(* The polls of a history, after the i-th, that checked a connector.        *)
After(q, i, n) == {k \in DOMAIN q : k > i /\ n \in DOMAIN q[k]}

(* A connector has not been missed more often than the history shows.       *)
MissesAreKept ==
    \A n \in Connectors, i \in DOMAIN polls :
        n \in DOMAIN polls[i] /\ polls[i][n] =>
            misses[n] <= Cardinality(After(polls, i, n))

PollInv == Poller!TypeOK /\ MissesAreKept

History == UNION {[names -> BOOLEAN] : names \in SUBSET Connectors}

LEMMA PollCardinality == ASSUME NEW S PROVE Poller!Cardinality(S) = Cardinality(S)
BY DEF Poller!Cardinality, Cardinality

LEMMA AfterIsFinite ==
    ASSUME NEW q \in Seq(History), NEW i, NEW n
    PROVE  IsFiniteSet(After(q, i, n)) /\ Cardinality(After(q, i, n)) \in Nat
<1>1. Len(q) \in Nat /\ DOMAIN q = 1..Len(q) OBVIOUS
<1>2. After(q, i, n) \in SUBSET (1..Len(q)) BY <1>1 DEF After
<1>3. IsFiniteSet(1..Len(q)) BY <1>1, FS_Interval
<1> QED BY <1>2, <1>3, FS_Subset, FS_CardinalityType

(* One more poll counts once if it checks the connector.                    *)
LEMMA AppendAfter ==
    ASSUME NEW q \in Seq(History), NEW p \in History, NEW i \in 1..Len(q), NEW n
    PROVE  Cardinality(After(Append(q, p), i, n)) =
             Cardinality(After(q, i, n)) + (IF n \in DOMAIN p THEN 1 ELSE 0)
<1> DEFINE a == Append(q, p)
           last == Len(q) + 1
<1>1. /\ Len(q) \in Nat /\ DOMAIN q = 1..Len(q) /\ DOMAIN a = 1..last
      /\ \A k \in 1..Len(q) : a[k] = q[k]
      /\ a[last] = p
  OBVIOUS
<1>2. last \notin After(q, i, n) /\ last > i
  BY <1>1 DEF After
<1> HIDE DEF a
<1>3. CASE n \in DOMAIN p
  <2>1. After(a, i, n) = After(q, i, n) \cup {last}
    BY <1>1, <1>2, <1>3 DEF After
  <2>2. Cardinality(After(q, i, n) \cup {last}) = Cardinality(After(q, i, n)) + 1
    BY <1>2, AfterIsFinite, FS_AddElement
  <2> QED BY <1>3, <2>1, <2>2 DEF a
<1>4. CASE n \notin DOMAIN p
  <2>1. After(a, i, n) = After(q, i, n)
    BY <1>1, <1>2, <1>4 DEF After
  <2>2. Cardinality(After(q, i, n)) \in Nat BY AfterIsFinite
  <2> QED BY <1>4, <2>1, <2>2 DEF a
<1> QED BY <1>3, <1>4

(* When the oldest poll goes the others move down.                          *)
LEMMA TailAfter ==
    ASSUME NEW q \in Seq(History), q # <<>>, NEW i \in 1..Len(Tail(q)), NEW n
    PROVE  Cardinality(After(Tail(q), i, n)) = Cardinality(After(q, i + 1, n))
<1> DEFINE t == Tail(q)
           S == After(t, i, n)
           T == After(q, i + 1, n)
           f == [k \in S |-> k + 1]
<1>1. /\ Len(q) \in Nat /\ Len(q) > 0 /\ DOMAIN q = 1..Len(q)
      /\ t \in Seq(History) /\ Len(t) = Len(q) - 1 /\ DOMAIN t = 1..Len(t)
      /\ \A k \in 1..Len(t) : t[k] = q[k + 1]
  OBVIOUS
<1> HIDE DEF t
<1>2. /\ \A k \in S : k \in 1..Len(t) /\ k + 1 \in T
      /\ \A k \in T : k - 1 \in S /\ (k - 1) + 1 = k
  BY <1>1 DEF After
<1>3. IsFiniteSet(S) BY <1>1, AfterIsFinite
<1> HIDE DEF S, T
<1>4. f \in Bijection(S, T)
  <2>1. f \in [S -> T] BY <1>2
  <2>2. \A k, m \in S : f[k] = f[m] => k = m BY <1>1, <1>2
  <2>3. \A k \in T : \E m \in S : f[m] = k BY <1>2
  <2> QED BY <2>1, <2>2, <2>3 DEF Bijection, Injection, Surjection, IsInjective
<1>5. Cardinality(T) = Cardinality(S)
  BY <1>3, <1>4, FS_Bijection DEF ExistsBijection
<1> QED BY <1>5 DEF S, T, t

LEMMA PollInit == ASSUME PollsFit PROVE Poller!Init => PollInv
<1> SUFFICES ASSUME Poller!Init PROVE PollInv OBVIOUS
<1>1. polls = <<>> /\ polls \in Seq(History) /\ Len(polls) = 0 /\ DOMAIN polls = {}
  BY DEF Poller!Init
<1>2. misses \in [Connectors -> 0..MaxMisses]
  BY DEF Poller!Init, PollsFit
<1>3. Poller!TypeOK
  <2>1. /\ connected \subseteq registered /\ registered \subseteq Connectors
        /\ polling \in BOOLEAN /\ task \in Loops \cup {NoTask}
    BY DEF Poller!Init
  <2>2. /\ pollStage \in [Loops -> {"gone", "waiting", "checking"}]
        /\ checking \in [Loops -> SUBSET Connectors]
        /\ \A l \in Loops : checking[l] = {}
    BY DEF Poller!Init
  <2>3. polls \in Seq(UNION {[names -> BOOLEAN] : names \in SUBSET Connectors})
    BY <1>1 DEF History
  <2>4. Len(polls) <= Kept BY <1>1 DEF PollsFit
  <2> QED BY <1>2, <2>1, <2>2, <2>3, <2>4 DEF Poller!TypeOK
<1> QED BY <1>1, <1>3 DEF PollInv, MissesAreKept

(* An answered poll keeps the history and the counts together.              *)
LEMMA RecordKeeps ==
    ASSUME PollsFit, PollInv, NEW l \in Loops, Poller!Record(l) PROVE PollInv'
<1>t. Poller!TypeOK BY DEF PollInv
<1>1. PICK poll \in [checking[l] -> BOOLEAN] :
        /\ polls' = LET all == Append(polls, poll) IN
                    IF Len(all) > Kept THEN Tail(all) ELSE all
        /\ Poller!Count(poll)
        /\ \A n \in Connectors : misses'[n] <= MaxMisses
  BY DEF Poller!Record
<1> DEFINE all == Append(polls, poll)
<1>2. /\ polls \in Seq(History) /\ poll \in History /\ Len(polls) <= Kept
      /\ misses \in [Connectors -> Nat]
  BY <1>t DEF Poller!TypeOK, History
<1>3. /\ all \in Seq(History) /\ Len(all) = Len(polls) + 1 /\ DOMAIN all = 1..Len(all)
      /\ \A k \in 1..Len(polls) : all[k] = polls[k]
      /\ all[Len(all)] = poll /\ all # <<>> /\ Len(polls) \in Nat
  BY <1>2
<1>4. /\ misses' \in [Connectors -> Nat]
      /\ \A n \in Connectors : misses'[n] = IF n \notin DOMAIN poll THEN misses[n]
                                            ELSE IF poll[n] THEN 0 ELSE misses[n] + 1
  BY <1>1, <1>2 DEF Poller!Count
<1>5. ASSUME NEW n \in Connectors, NEW i \in DOMAIN all, n \in DOMAIN all[i], all[i][n]
      PROVE  misses'[n] <= Cardinality(After(all, i, n))
  <2>1. CASE i = Len(all)
    <3>1. misses'[n] = 0 BY <1>3, <1>4, <1>5, <2>1
    <3>2. Cardinality(After(all, i, n)) \in Nat BY <1>3, AfterIsFinite
    <3> QED BY <3>1, <3>2
  <2>2. CASE i # Len(all)
    <3>1. i \in 1..Len(polls) /\ DOMAIN polls = 1..Len(polls) /\ all[i] = polls[i]
      BY <1>2, <1>3, <2>2
    <3>2. misses[n] <= Cardinality(After(polls, i, n))
      BY <1>5, <3>1 DEF PollInv, MissesAreKept
    <3>3. Cardinality(After(all, i, n)) =
            Cardinality(After(polls, i, n)) + (IF n \in DOMAIN poll THEN 1 ELSE 0)
      BY <1>2, <3>1, AppendAfter
    <3>4. Cardinality(After(polls, i, n)) \in Nat BY <1>2, AfterIsFinite
    <3> HIDE DEF all
    <3> QED BY <1>2, <1>4, <3>2, <3>3, <3>4
  <2> QED BY <2>1, <2>2
<1>6. MissesAreKept'
  <2>1. CASE Len(all) > Kept
    <3>1. polls' = Tail(all) BY <1>1, <2>1
    <3> HIDE DEF all
    <3>2. /\ Len(Tail(all)) = Len(all) - 1 /\ DOMAIN Tail(all) = 1..Len(Tail(all))
          /\ \A k \in 1..Len(Tail(all)) : k + 1 \in DOMAIN all /\ Tail(all)[k] = all[k + 1]
      BY <1>3
    <3>3. ASSUME NEW n \in Connectors, NEW i \in DOMAIN Tail(all),
                 n \in DOMAIN Tail(all)[i], Tail(all)[i][n]
          PROVE  misses'[n] <= Cardinality(After(Tail(all), i, n))
      <4>1. misses'[n] <= Cardinality(After(all, i + 1, n))
        BY <1>5, <3>2, <3>3
      <4>2. Cardinality(After(Tail(all), i, n)) = Cardinality(After(all, i + 1, n))
        BY <1>3, <3>2, TailAfter
      <4> QED BY <4>1, <4>2
    <3> QED BY <3>1, <3>3 DEF MissesAreKept
  <2>2. CASE ~(Len(all) > Kept)
    <3>1. polls' = all BY <1>1, <2>2
    <3> HIDE DEF all
    <3> QED BY <1>5, <3>1 DEF MissesAreKept
  <2> QED BY <2>1, <2>2
<1>7. polls' \in Seq(History) /\ Len(polls') <= Kept
  <2>1. CASE Len(all) > Kept
    <3>1. polls' = Tail(all) BY <1>1, <2>1
    <3> HIDE DEF all
    <3> QED BY <1>2, <1>3, <3>1 DEF PollsFit
  <2>2. CASE ~(Len(all) > Kept)
    <3>1. polls' = all BY <1>1, <2>2
    <3> HIDE DEF all
    <3> QED BY <1>2, <1>3, <2>2, <3>1 DEF PollsFit
  <2> QED BY <2>1, <2>2
<1>8. misses' \in [Connectors -> 0..MaxMisses]
  <2>1. \A n \in Connectors : misses'[n] \in 0..MaxMisses
    BY <1>1, <1>4, <1>t DEF Poller!TypeOK
  <2> QED BY <1>4, <2>1
<1>9. /\ pollStage' = [pollStage EXCEPT ![l] = "waiting"]
      /\ checking' = [checking EXCEPT ![l] = {}]
      /\ UNCHANGED <<registered, connected, polling, task>>
  BY DEF Poller!Record
<1>10. Poller!TypeOK'
  BY <1>7, <1>8, <1>9, <1>t DEF Poller!TypeOK, History
<1> QED BY <1>6, <1>10 DEF PollInv

LEMMA PollNext == ASSUME PollsFit, PollInv, [Poller!Next]_(Poller!vars) PROVE PollInv'
<1>t. Poller!TypeOK BY DEF PollInv
<1>1. ASSUME NEW l \in Loops, Poller!Record(l) PROVE PollInv'
  BY <1>1, RecordKeeps
<1>2. ASSUME UNCHANGED <<polls, misses>> PROVE MissesAreKept'
  BY <1>2 DEF PollInv, MissesAreKept
<1>3. CASE Poller!StartAll \/ Poller!ShutdownAll
  BY <1>2, <1>3, <1>t
  DEF PollInv, Poller!TypeOK, Poller!StartAll, Poller!ShutdownAll, Poller!serviceVars
<1>4. CASE Poller!Start
  BY <1>2, <1>4, <1>t DEF PollInv, Poller!TypeOK, Poller!Start
<1>5. CASE Poller!Stop
  <2>1. CASE task = NoTask /\ task \notin Loops
    BY <1>2, <1>5, <1>t, <2>1 DEF PollInv, Poller!TypeOK, Poller!Stop
  <2>2. CASE task \in Loops
    BY <1>2, <1>5, <1>t, <2>2 DEF PollInv, Poller!TypeOK, Poller!Stop
  <2> QED BY <1>t, <2>1, <2>2 DEF Poller!TypeOK
<1>6. ASSUME NEW n \in Connectors, Poller!Register(n) \/ Poller!Unregister(n) PROVE PollInv'
  BY <1>2, <1>6, <1>t
  DEF PollInv, Poller!TypeOK, Poller!Register, Poller!Unregister, Poller!serviceVars
<1>7. ASSUME NEW l \in Loops, Poller!Poll(l) PROVE PollInv'
  BY <1>2, <1>7, <1>t DEF PollInv, Poller!TypeOK, Poller!Poll
<1>8. CASE UNCHANGED Poller!vars
  BY <1>2, <1>8, <1>t DEF PollInv, Poller!TypeOK, Poller!vars
<1> QED
  BY <1>1, <1>3, <1>4, <1>5, <1>6, <1>7, <1>8 DEF Poller!Next

(* Requests keep to their bound and alerts are earned, for any number of    *)
(* connectors and loops, any threshold and any length of the history        *)
(* (connectors/registry.py:182-240).                                        *)
THEOREM WatchIsSound ==
    ASSUME RatesAreNat, PollsFit PROVE Spec => []SourcesAreWatched
<1>1. PollInv => Poller!AlertsAreEarned
  <2> SUFFICES ASSUME PollInv, NEW n \in Connectors, Poller!Alerting(n),
                      NEW i \in DOMAIN polls, n \in DOMAIN polls[i], polls[i][n]
               PROVE  Poller!Cardinality(Poller!ChecksAfter(i, n)) >= AlertAfter
    BY DEF Poller!AlertsAreEarned
  <2>1. polls \in Seq(History) /\ misses[n] \in Nat
    BY DEF PollInv, Poller!TypeOK, History
  <2>2. Poller!ChecksAfter(i, n) = After(polls, i, n)
    BY DEF Poller!ChecksAfter, After
  <2>3. misses[n] <= Cardinality(After(polls, i, n)) BY DEF PollInv, MissesAreKept
  <2>4. Cardinality(After(polls, i, n)) \in Nat BY <2>1, AfterIsFinite
  <2>5. misses[n] >= AlertAfter BY DEF Poller!Alerting
  <2> QED BY <2>1, <2>2, <2>3, <2>4, <2>5, PollCardinality DEF PollsFit
<1>2. Spec => []PollInv
  BY PollInit, PollNext, PollerRuns, PTL DEF Poller!Spec
<1>3. PollInv /\ Source!RateIsBounded => SourcesAreWatched
  BY <1>1 DEF SourcesAreWatched
<1> QED BY <1>2, <1>3, RateBounded, SourceRuns, PTL

----------------------------------------------------------------------------
(* The types of the components.                                              *)
LEMMA CacheRuns == Spec => Cache!Init /\ [][Cache!Next]_(Cache!cacheVars)
<1>1. Init => Cache!Init
  BY DEF Init
<1>2. [Next]_vars => [Cache!Next]_(Cache!cacheVars)
  <2>1. ASSUME Next PROVE Cache!Next \/ UNCHANGED cacheVars
    BY <2>1 DEF Next, Rest
  <2>2. (UNCHANGED vars \/ UNCHANGED cacheVars) => UNCHANGED Cache!cacheVars
    BY DEF vars, cacheVars, Cache!cacheVars
  <2> QED BY <2>1, <2>2
<1> QED BY <1>1, <1>2, PTL DEF Spec

LEMMA BackfillRuns == Spec => Backfill!Init /\ [][Backfill!Next]_(Backfill!backVars)
<1>1. Init => Backfill!Init
  BY DEF Init
<1>2. [Next]_vars => [Backfill!Next]_(Backfill!backVars)
  <2>1. ASSUME Next PROVE Backfill!Next \/ UNCHANGED backfillVars
    BY <2>1 DEF Next, Rest
  <2>2. (UNCHANGED vars \/ UNCHANGED backfillVars) => UNCHANGED Backfill!backVars
    BY DEF vars, backfillVars, Backfill!backVars
  <2> QED BY <2>1, <2>2
<1> QED BY <1>1, <1>2, PTL DEF Spec

LEMMA PastRuns == Spec => Past!Init /\ [][Past!Next]_(Past!vars)
<1>1. Init => Past!Init
  BY DEF Init
<1>2. [Next]_vars => [Past!Next]_(Past!vars)
  <2>1. ASSUME Next PROVE Past!Next \/ UNCHANGED pastVars
    BY <2>1 DEF Next, Rest
  <2>2. (UNCHANGED vars \/ UNCHANGED pastVars) => UNCHANGED Past!vars
    BY DEF vars, pastVars, Past!vars
  <2> QED BY <2>1, <2>2
<1> QED BY <1>1, <1>2, PTL DEF Spec

(* The API response cache.                                                  *)
LEMMA CacheTypes == ASSUME CacheFits PROVE Spec => []Cache!TypeOK
<1> USE DEF Cache!TypeOK, Cache!Payloads, CacheFits
<1>1. Cache!Init => Cache!TypeOK
  BY DEF Cache!Init
<1>2. ASSUME Cache!TypeOK, [Cache!Next]_(Cache!cacheVars) PROVE Cache!TypeOK'
  <2>1. ASSUME NEW c \in Clients, Cache!Hit(c) PROVE Cache!TypeOK'
    BY <1>2, <2>1 DEF Cache!Hit, Cache!syncVars
  <2>2. ASSUME NEW c \in Clients, Cache!Miss(c) PROVE Cache!TypeOK'
    BY <1>2, <2>2 DEF Cache!Miss, Cache!Fault, Cache!syncVars
  <2>3. ASSUME NEW c \in Clients, Cache!Load(c) PROVE Cache!TypeOK'
    BY <1>2, <2>3 DEF Cache!Load, Cache!syncVars
  <2>4. ASSUME NEW c \in Clients, Cache!Set(c) PROVE Cache!TypeOK'
    BY <1>2, <2>4 DEF Cache!Set, Cache!Fault, Cache!syncVars
  <2>5. ASSUME NEW c \in Clients, Cache!Answer(c) PROVE Cache!TypeOK'
    BY <1>2, <2>5 DEF Cache!Answer, Cache!syncVars
  <2>6. ASSUME NEW k \in Keys, Cache!Expire(k) PROVE Cache!TypeOK'
    BY <1>2, <2>6 DEF Cache!Expire, Cache!syncVars, Cache!requestVars
  <2>7. ASSUME Cache!Commit PROVE Cache!TypeOK'
    BY <1>2, <2>7 DEF Cache!Commit, Cache!requestVars
  <2>8. ASSUME Cache!Scan PROVE Cache!TypeOK'
    BY <1>2, <2>8 DEF Cache!Scan, Cache!requestVars
  <2>9. ASSUME Cache!Delete PROVE Cache!TypeOK'
    BY <1>2, <2>9 DEF Cache!Delete, Cache!requestVars
  <2>10. ASSUME Cache!InvalidateFails PROVE Cache!TypeOK'
    BY <1>2, <2>10 DEF Cache!InvalidateFails, Cache!Fault, Cache!requestVars
  <2>11. ASSUME UNCHANGED Cache!cacheVars PROVE Cache!TypeOK'
    BY <1>2, <2>11 DEF Cache!cacheVars
  <2> QED
    BY <1>2, <2>1, <2>2, <2>3, <2>4, <2>5, <2>6, <2>7, <2>8, <2>9, <2>10, <2>11
    DEF Cache!Next, Cache!Serve
<1>3. Cache!TypeOK /\ [Cache!Next]_(Cache!cacheVars) => Cache!TypeOK' BY <1>2
<1> HIDE DEF Cache!TypeOK
<1> QED BY <1>1, <1>3, CacheRuns, PTL

(* The rankings table.                                                      *)
LEMMA TableTypesKept == ASSUME ListingsFit PROVE Spec => []Table!TypeOK
<1>1. ASSUME TableInv PROVE Table!TypeOK
  <2>1. ASSUME NEW j \in RankingJobs
        PROVE  \A r \in inserted[j] : r.job = j /\ r \notin rankings
    BY <1>1, BatchesFit
    DEF TableInv, TableTypes, JobInv, OwnAreNew, IdleHoldsNothing, Table!Running
  <2>2. ASSUME NEW r \in rankings
        PROVE  r.job \in RankingJobs /\ r.entry \in Table!Range(Listing[r.job])
    <3>1. r \in Rows BY <1>1 DEF TableInv, TableTypes
    <3>2. PICK j \in RankingJobs : r \in {Table!Row(Listing[j][i], j) : i \in DOMAIN Listing[j]}
      BY <3>1 DEF Rows
    <3>3. PICK i \in DOMAIN Listing[j] : r = [entry |-> Listing[j][i], job |-> j]
      BY <3>2 DEF Table!Row
    <3>4. r.job = j /\ r.entry = Listing[j][i] BY <3>3
    <3> QED BY <3>4 DEF Table!Range
  <2> QED
    BY <1>1, <2>1, <2>2 DEF TableInv, TableTypes, JobInv, HeldAreThere, Table!TypeOK
<1>2. TableInv => Table!TypeOK BY <1>1
<1>3. TableInv /\ [Table!Next]_(Table!vars) => TableInv' BY TableNext
<1> QED BY <1>2, <1>3, TableInit, TableRuns, PTL DEF Table!Spec

(* The records backfill: what a run has selected may fail once more, because*)
(* a job that writes beside it only clears failures.                        *)
StatusRows == [status : Backfill!Statuses, retries : 0..Budget]

QueueIsWithinBudget == \A i \in 1..Len(fetched) : status[fetched[i]].retries < Budget

BackfillInv ==
    /\ published \subseteq Fighters /\ records \subseteq Fighters /\ emptied \subseteq Fighters
    /\ status \in [Fighters -> StatusRows]
    /\ runPhase \in {"idle", "batches", "flush"} /\ fetched \in Seq(Fighters)
    /\ answer \in [Fighters -> {"AVAILABLE", "EMPTY", "FAILED"}]
    /\ newRecords \subseteq Fighters /\ DOMAIN newStatus \subseteq Fighters
    /\ \A f \in DOMAIN newStatus : newStatus[f] \in StatusRows
    /\ runFaults \in 0..MaxRunFaults
    /\ QueueIsWithinBudget

LEMMA NewRows ==
    ASSUME BackfillFits
    PROVE  Backfill!NotChecked \in StatusRows /\ Backfill!Absent \in StatusRows
           /\ Backfill!NotChecked.retries = 0
BY DEF BackfillFits, StatusRows, Backfill!NotChecked, Backfill!Absent, Backfill!Statuses

\* The elements of a part of a sequence are elements of it.
LEMMA PartOfSeq ==
    ASSUME NEW S, NEW s \in Seq(S), NEW m \in Nat \ {0}, NEW n \in 0..Len(s)
    PROVE  /\ SubSeq(s, m, n) \in Seq(S)
           /\ \A i \in 1..Len(SubSeq(s, m, n)) : \E k \in 1..Len(s) : SubSeq(s, m, n)[i] = s[k]
<1>1. Len(s) \in Nat OBVIOUS
<1>2. \A i \in m..n : s[i] \in S
  <2>1. \A i \in m..n : i \in 1..Len(s) BY <1>1
  <2> QED BY <2>1, ElementOfSeq
<1>3. m \in Int /\ n \in Int BY <1>1
<1>4. /\ SubSeq(s, m, n) \in Seq(S)
      /\ Len(SubSeq(s, m, n)) = IF m <= n THEN n - m + 1 ELSE 0
      /\ \A i \in 1..(n - m + 1) : SubSeq(s, m, n)[i] = s[m + i - 1]
  BY <1>2, <1>3, SubSeqProperties
<1>5. ASSUME NEW i \in 1..Len(SubSeq(s, m, n))
      PROVE  \E k \in 1..Len(s) : SubSeq(s, m, n)[i] = s[k]
  <2>1. i \in 1..(n - m + 1) /\ m + i - 1 \in 1..Len(s) BY <1>1, <1>3, <1>4
  <2> QED BY <1>4, <2>1
<1> QED BY <1>4, <1>5

LEMMA BackfillInit == ASSUME BackfillFits PROVE Backfill!Init => BackfillInv
<1> SUFFICES ASSUME Backfill!Init PROVE BackfillInv OBVIOUS
<1>1. fetched = <<>> /\ fetched \in Seq(Fighters) /\ Len(fetched) = 0
  BY DEF Backfill!Init
<1>2. DOMAIN newStatus = {} BY DEF Backfill!Init
<1> QED
  BY <1>1, <1>2, NewRows
  DEF Backfill!Init, BackfillInv, BackfillFits, QueueIsWithinBudget

LEMMA FetchFits ==
    ASSUME BackfillFits, BackfillInv, NEW failing \in SUBSET Fighters, Backfill!Fetch(failing)
    PROVE  BackfillInv'
<1> DEFINE M == Backfill!Missing
<1>1. PICK all \in Backfill!SetToSeqs(M) :
         /\ fetched' = Backfill!Selected(all) /\ runPhase' = "batches"
         /\ answer' = [f \in Fighters |->
                IF f \in Backfill!ToSet(Backfill!Selected(all))
                THEN Backfill!Outcome(f, failing) ELSE answer[f]]
         /\ emptied' = emptied \cup {f \in Backfill!ToSet(Backfill!Selected(all)) :
                                        Backfill!Outcome(f, failing) = "EMPTY"}
         /\ \/ UNCHANGED runFaults
            \/ Backfill!Fault
         /\ UNCHANGED <<published, records, status, newRecords, newStatus>>
  BY DEF Backfill!Fetch, Backfill!tables, Backfill!work
<1>2. /\ M \in SUBSET Fighters
      /\ \A f \in M : status[f].retries < Budget
  BY NewRows DEF Backfill!Missing, BackfillFits
<1> HIDE DEF M
<1>3. all \in Seq(M) /\ Len(all) \in Nat
  <2>1. IsFiniteSet(M) BY <1>2, FS_Subset DEF BackfillFits
  <2>2. Cardinality(M) \in Nat BY <2>1, FS_CardinalityType
  <2>3. all \in [1..Cardinality(M) -> M]
    <3>1. Backfill!Cardinality(M) = Cardinality(M) BY DEF Backfill!Cardinality, Cardinality
    <3> QED BY <3>1 DEF Backfill!SetToSeqs
  <2> QED BY <2>2, <2>3, FunctionIsSeq
<1>4. Backfill!Selected(all) \in Seq(M)
  <2>1. CASE Limit = 0 \/ Len(all) <= Limit BY <1>3, <2>1 DEF Backfill!Selected
  <2>2. CASE ~(Limit = 0 \/ Len(all) <= Limit)
    <3>1. Limit \in 0..Len(all) /\ 1 \in Nat \ {0} BY <1>3, <2>2 DEF BackfillFits
    <3>2. SubSeq(all, 1, Limit) \in Seq(M) BY <1>3, <3>1, PartOfSeq
    <3> QED BY <2>2, <3>2 DEF Backfill!Selected
  <2> QED BY <2>1, <2>2
<1> DEFINE s == Backfill!Selected(all)
<1> HIDE DEF s
<1>5. \A i \in 1..Len(s) : s[i] \in M BY <1>4, ElementOfSeq DEF s
<1>6. s \in Seq(Fighters) /\ Backfill!ToSet(s) \subseteq Fighters
  <2>1. s \in Seq(M) BY <1>4 DEF s
  <2>2. DOMAIN s = 1..Len(s) BY <2>1
  <2>3. Backfill!ToSet(s) \subseteq M BY <1>5, <2>2 DEF Backfill!ToSet
  <2>4. s \in Seq(Fighters) BY <1>2, <2>1
  <2> QED BY <1>2, <2>3, <2>4
<1>7. QueueIsWithinBudget' BY <1>1, <1>2, <1>5 DEF QueueIsWithinBudget, s
<1>8. answer' \in [Fighters -> {"AVAILABLE", "EMPTY", "FAILED"}]
  BY <1>1 DEF BackfillInv, Backfill!Outcome
<1>9. runFaults' \in 0..MaxRunFaults
  BY <1>1 DEF BackfillInv, BackfillFits, Backfill!Fault
<1>10. emptied' \subseteq Fighters /\ fetched' \in Seq(Fighters)
  BY <1>1, <1>6 DEF BackfillInv, s
<1> QED BY <1>1, <1>7, <1>8, <1>9, <1>10 DEF BackfillInv

\* The batch of a run.
LEMMA BatchOfQueue ==
    ASSUME BackfillFits, BackfillInv
    PROVE  /\ Backfill!ToSet(Backfill!BatchOf) \subseteq Fighters
           /\ \A f \in Backfill!ToSet(Backfill!BatchOf) : status[f].retries < Budget
           /\ Len(Backfill!BatchOf) \in Nat
<1> DEFINE n == IF Len(fetched) < RecordBatch THEN Len(fetched) ELSE RecordBatch
           b == Backfill!BatchOf
<1>1. fetched \in Seq(Fighters) /\ Len(fetched) \in Nat BY DEF BackfillInv
<1>2. n \in 0..Len(fetched) /\ 1 \in Nat \ {0} BY <1>1 DEF BackfillFits
<1>3. b = SubSeq(fetched, 1, n) BY DEF Backfill!BatchOf
<1> HIDE DEF n, b
<1>4. /\ b \in Seq(Fighters)
      /\ \A i \in 1..Len(b) : \E k \in 1..Len(fetched) : b[i] = fetched[k]
  BY <1>1, <1>2, <1>3, PartOfSeq
<1>5. DOMAIN b = 1..Len(b) /\ Len(b) \in Nat BY <1>4
<1>6. \A f \in Backfill!ToSet(b) : \E k \in 1..Len(fetched) : f = fetched[k]
  BY <1>4, <1>5 DEF Backfill!ToSet
<1>7. Backfill!ToSet(b) \subseteq Fighters BY <1>1, <1>6, ElementOfSeq
<1> QED BY <1>5, <1>6, <1>7 DEF b, BackfillInv, QueueIsWithinBudget

LEMMA UpsertFits ==
    ASSUME BackfillFits, BackfillInv, Backfill!Upsert PROVE BackfillInv'
<1> DEFINE b == Backfill!ToSet(Backfill!BatchOf)
<1>1. /\ newRecords' = newRecords \cup {f \in b \ records : answer[f] = "AVAILABLE"}
      /\ newStatus' = [f \in DOMAIN newStatus \cup b |->
                         IF f \in b THEN Backfill!StatusAfter(f) ELSE newStatus[f]]
      /\ runPhase' = "flush"
      /\ UNCHANGED <<published, records, status, emptied, fetched, answer, runFaults>>
  BY DEF Backfill!Upsert, Backfill!tables
<1>2. b \subseteq Fighters /\ \A f \in b : status[f].retries < Budget
  BY BatchOfQueue
<1> HIDE DEF b
<1>3. ASSUME NEW f \in b PROVE Backfill!StatusAfter(f) \in StatusRows
  <2>1. status[f] \in StatusRows /\ status[f].retries < Budget /\ status[f].retries \in Nat
    BY <1>2 DEF BackfillInv, StatusRows
  <2>2. Backfill!FailedAgain(status[f]) \in StatusRows
    BY <2>1 DEF Backfill!FailedAgain, StatusRows, Backfill!Statuses, BackfillFits
  <2>3. answer[f] \in {"AVAILABLE", "EMPTY", "FAILED"} BY <1>2 DEF BackfillInv
  <2> QED BY <2>2, <2>3, NewRows DEF Backfill!StatusAfter
<1>4. DOMAIN newStatus' \subseteq Fighters /\ \A f \in DOMAIN newStatus' : newStatus'[f] \in StatusRows
  BY <1>1, <1>2, <1>3 DEF BackfillInv
<1>5. newRecords' \subseteq Fighters BY <1>1, <1>2 DEF BackfillInv
<1>6. QueueIsWithinBudget' BY <1>1 DEF BackfillInv, QueueIsWithinBudget
<1> QED BY <1>1, <1>4, <1>5, <1>6 DEF BackfillInv

LEMMA FlushFits ==
    ASSUME BackfillFits, BackfillInv, Backfill!Flush PROVE BackfillInv'
<1>1. /\ fetched' = SubSeq(fetched, Len(Backfill!BatchOf) + 1, Len(fetched))
      /\ runPhase' = "batches"
      /\ UNCHANGED <<published, records, status, emptied, answer, newRecords, newStatus, runFaults>>
  BY DEF Backfill!Flush, Backfill!tables, Backfill!work
<1>2. fetched \in Seq(Fighters) /\ Len(fetched) \in 0..Len(fetched) BY DEF BackfillInv
<1>3. Len(Backfill!BatchOf) + 1 \in Nat \ {0} BY BatchOfQueue
<1>4. /\ fetched' \in Seq(Fighters)
      /\ \A i \in 1..Len(fetched') : \E k \in 1..Len(fetched) : fetched'[i] = fetched[k]
  BY <1>1, <1>2, <1>3, PartOfSeq
<1>5. QueueIsWithinBudget' BY <1>1, <1>4 DEF BackfillInv, QueueIsWithinBudget
<1> QED BY <1>1, <1>4, <1>5 DEF BackfillInv

LEMMA AbandonFits ==
    ASSUME BackfillFits, BackfillInv, Backfill!Abandon,
           UNCHANGED runFaults \/ Backfill!Fault
    PROVE  BackfillInv'
<1>1. /\ runPhase' = "idle" /\ fetched' = <<>> /\ newRecords' = {}
      /\ newStatus' = [f \in {} |-> Backfill!NotChecked]
      /\ UNCHANGED <<published, records, status, emptied, answer>>
  BY DEF Backfill!Abandon, Backfill!tables
<1>2. fetched' \in Seq(Fighters) /\ Len(fetched') = 0 /\ DOMAIN newStatus' = {} BY <1>1
<1>3. runFaults' \in 0..MaxRunFaults BY DEF BackfillInv, BackfillFits, Backfill!Fault
<1> QED BY <1>1, <1>2, <1>3 DEF BackfillInv, QueueIsWithinBudget

LEMMA RecordFits ==
    ASSUME BackfillFits, BackfillInv, Backfill!RecordJob,
           UNCHANGED runFaults \/ Backfill!Fault
    PROVE  BackfillInv'
<1>1. /\ fetched' = <<>> /\ records' = records \cup newRecords
      /\ status' = [f \in Fighters |-> IF f \in DOMAIN newStatus THEN newStatus[f] ELSE status[f]]
      /\ runPhase' = "idle" /\ newRecords' = {}
      /\ newStatus' = [f \in {} |-> Backfill!NotChecked]
      /\ UNCHANGED <<published, emptied, answer>>
  BY DEF Backfill!RecordJob
<1>2. fetched' \in Seq(Fighters) /\ Len(fetched') = 0 /\ DOMAIN newStatus' = {} BY <1>1
<1>3. status' \in [Fighters -> StatusRows] BY <1>1 DEF BackfillInv
<1>4. runFaults' \in 0..MaxRunFaults BY DEF BackfillInv, BackfillFits, Backfill!Fault
<1> QED BY <1>1, <1>2, <1>3, <1>4 DEF BackfillInv, QueueIsWithinBudget

LEMMA OtherJobFits ==
    ASSUME BackfillFits, BackfillInv, NEW f \in Fighters, Backfill!OtherJobWrites(f)
    PROVE  BackfillInv'
<1>1. /\ records' = records \cup {f} /\ status' = [status EXCEPT ![f] = Backfill!NotChecked]
      /\ UNCHANGED <<published, emptied, runPhase, fetched, answer, newRecords, newStatus, runFaults>>
  BY DEF Backfill!OtherJobWrites, Backfill!work
<1>2. /\ status' \in [Fighters -> StatusRows]
      /\ \A g \in Fighters : status'[g] = IF g = f THEN Backfill!NotChecked ELSE status[g]
  BY <1>1, NewRows DEF BackfillInv
<1>3. QueueIsWithinBudget'
  <2>1. \A i \in 1..Len(fetched) : fetched[i] \in Fighters
    BY ElementOfSeq DEF BackfillInv
  <2>2. 0 < Budget BY DEF BackfillFits
  <2> QED BY <1>1, <1>2, <2>1, <2>2, NewRows DEF BackfillInv, QueueIsWithinBudget
<1> QED BY <1>1, <1>2, <1>3 DEF BackfillInv

LEMMA BackfillNext ==
    ASSUME BackfillFits, BackfillInv, [Backfill!Next]_(Backfill!backVars) PROVE BackfillInv'
<1>1. ASSUME Backfill!FlushFails PROVE BackfillInv'
  BY <1>1, AbandonFits DEF Backfill!FlushFails
<1>2. ASSUME Backfill!Die PROVE BackfillInv'
  BY <1>2, AbandonFits DEF Backfill!Die
<1>3. ASSUME NEW f \in Fighters, Backfill!Publish(f) PROVE BackfillInv'
  BY <1>3 DEF Backfill!Publish, Backfill!tables, Backfill!work, BackfillInv, QueueIsWithinBudget
<1>4. ASSUME UNCHANGED Backfill!backVars PROVE BackfillInv'
  BY <1>4 DEF Backfill!backVars, BackfillInv, QueueIsWithinBudget
<1>5. ASSUME Backfill!Commit \/ Backfill!Cancel PROVE BackfillInv'
  BY <1>5, RecordFits DEF Backfill!Commit, Backfill!Cancel
<1> QED
  BY <1>1, <1>2, <1>3, <1>4, <1>5, FetchFits, UpsertFits, FlushFits, OtherJobFits
  DEF Backfill!Next, Backfill!Run

LEMMA BackfillTypes == ASSUME BackfillFits PROVE Spec => []Backfill!TypeOK
<1>1. BackfillInv => Backfill!TypeOK BY DEF BackfillInv, StatusRows, Backfill!TypeOK
<1>2. BackfillInv /\ [Backfill!Next]_(Backfill!backVars) => BackfillInv' BY BackfillNext
<1> QED BY <1>1, <1>2, BackfillInit, BackfillRuns, PTL

(* The historical events: a run keeps hooks that its leagues reference, and *)
(* asks for events only once it has asked every league.                     *)
PastHooks == {h \in [event : Past!RefEvents, league : Past!Scopes] :
                 \E l \in Past!Range(Leagues) :
                    h.event \in DOMAIN RefsOf[l] /\ h.league = RefsOf[l][h.event]}

PastInv ==
    /\ storedUnder \in [Past!RefEvents -> Past!Scopes \cup {NoLeague}]
    /\ askedLeagues \in -1..Len(Leagues)
    /\ hooks \in Seq(PastHooks)
    /\ gathered \subseteq asked /\ asked \subseteq Past!Capped
    /\ askedLeagues # Len(Leagues) => asked = {}
    /\ missed \in 0..MaxMissed

LEMMA PastInit == ASSUME PastFits PROVE Past!Init => PastInv
<1> SUFFICES ASSUME Past!Init PROVE PastInv OBVIOUS
<1>1. Len(Leagues) \in Nat BY DEF PastFits
<1> QED BY <1>1 DEF Past!Init, PastInv, PastFits

LEMMA CappedAreHooks ==
    ASSUME PastFits, hooks \in Seq(PastHooks) PROVE Past!Capped \subseteq PastHooks
<1>1. Len(hooks) \in Nat /\ MaxEvents \in Nat BY DEF PastFits
<1> SUFFICES ASSUME NEW i \in 1..(IF Len(hooks) < MaxEvents THEN Len(hooks) ELSE MaxEvents)
             PROVE  hooks[i] \in PastHooks
  BY DEF Past!Capped
<1>2. i \in 1..Len(hooks)
  <2>1. CASE Len(hooks) < MaxEvents BY <1>1, <2>1
  <2>2. CASE ~(Len(hooks) < MaxEvents)
    BY <1>1, <2>2
  <2> QED BY <2>1, <2>2
<1> QED BY <1>2, ElementOfSeq

LEMMA LeagueKeeps == ASSUME PastFits, PastInv, Past!AskLeague PROVE PastInv'
<1> DEFINE l == Leagues[askedLeagues + 1]
<1>1. /\ askedLeagues \in 0..(Len(Leagues) - 1) /\ askedLeagues' = askedLeagues + 1
      /\ UNCHANGED <<storedUnder, gathered, asked>>
  BY DEF Past!AskLeague
<1>2. /\ Len(Leagues) \in Nat /\ DOMAIN Leagues = 1..Len(Leagues)
      /\ askedLeagues + 1 \in 1..Len(Leagues)
  BY <1>1 DEF PastFits
<1>3. l \in DOMAIN RefsOf /\ l \in Past!Range(Leagues)
  <2>1. l \in DOMAIN RefsOf BY <1>2, ElementOfSeq DEF PastFits
  <2> QED BY <1>2, <2>1 DEF Past!Range
<1>4. askedLeagues # Len(Leagues)
  <2>1. \A n \in Nat : \A a \in 0..(n - 1) : a # n OBVIOUS
  <2> QED BY <1>1, <1>2, <2>1
<1>5. asked' = {} /\ gathered' = {} BY <1>1, <1>4 DEF PastInv
<1>6. hooks' \in Seq(PastHooks) /\ missed' \in 0..MaxMissed
  <2>1. CASE Past!Miss /\ UNCHANGED hooks
    BY <2>1 DEF PastInv, PastFits, Past!Miss
  <2>2. CASE ~(Past!Miss /\ UNCHANGED hooks)
    <3>1. PICK refs \in Past!SetToSeqs(Past!NewEvents(l)) :
             hooks' = Past!HooksWith(l, refs) /\ UNCHANGED missed
      BY <2>2 DEF Past!AskLeague
    <3> DEFINE E == Past!NewEvents(l)
    <3>2. E \in SUBSET DOMAIN RefsOf[l] BY DEF Past!NewEvents
    <3> HIDE DEF E, l
    <3>3. IsFiniteSet(E) /\ Cardinality(E) \in Nat
      BY <1>3, <3>2, FS_Subset, FS_CardinalityType DEF PastFits
    <3>4. refs \in [1..Cardinality(E) -> E]
      <4>1. Past!Cardinality(E) = Cardinality(E) BY DEF Past!Cardinality, Cardinality
      <4> QED BY <3>1, <4>1 DEF Past!SetToSeqs, E
    <3> DEFINE new == [i \in DOMAIN refs |-> Past!Hook(refs[i], RefsOf[l][refs[i]])]
    <3>5. \A e \in E : Past!Hook(e, RefsOf[l][e]) \in PastHooks
      <4>1. \A e \in E : e \in Past!RefEvents /\ RefsOf[l][e] \in Past!Scopes
        BY <1>3, <3>2 DEF Past!RefEvents, Past!Scopes, Past!Range
      <4> QED BY <1>3, <3>2, <4>1 DEF PastHooks, Past!Hook
    <3>6. new \in [1..Cardinality(E) -> PastHooks] BY <3>4, <3>5
    <3> HIDE DEF new
    <3>7. new \in Seq(PastHooks) BY <3>3, <3>6, FunctionIsSeq
    <3>8. hooks' = hooks \o new BY <3>1 DEF Past!HooksWith, new
    <3>9. hooks' \in Seq(PastHooks) BY <3>7, <3>8, ConcatProperties DEF PastInv
    <3> QED BY <3>1, <3>9 DEF PastInv
  <2> QED BY <2>1, <2>2
<1>7. askedLeagues' \in -1..Len(Leagues) BY <1>1, <1>2
<1> QED BY <1>1, <1>5, <1>6, <1>7 DEF PastInv

LEMMA StoreKeeps == ASSUME PastFits, PastInv, Past!StoreEvents PROVE PastInv'
<1>1. /\ askedLeagues' = -1 /\ hooks' = <<>> /\ gathered' = {} /\ asked' = {}
      /\ UNCHANGED missed
      /\ storedUnder' = [e \in Past!RefEvents |->
            IF storedUnder[e] = NoLeague
               /\ {h \in gathered : h.event = e /\ h.league \in Promoted} # {}
            THEN (CHOOSE h \in {h \in gathered : h.event = e /\ h.league \in Promoted} : TRUE).league
            ELSE storedUnder[e]]
  BY DEF Past!StoreEvents
<1>2. gathered \subseteq PastHooks BY CappedAreHooks DEF PastInv
<1>3. ASSUME NEW e \in Past!RefEvents, {h \in gathered : h.event = e /\ h.league \in Promoted} # {}
      PROVE  (CHOOSE h \in {h \in gathered : h.event = e /\ h.league \in Promoted} : TRUE).league
                \in Past!Scopes
  <2> DEFINE m == {h \in gathered : h.event = e /\ h.league \in Promoted}
  <2>1. m \subseteq PastHooks /\ m # {} BY <1>2, <1>3
  <2> HIDE DEF m
  <2>2. (CHOOSE h \in m : TRUE) \in PastHooks BY <2>1
  <2>3. (CHOOSE h \in m : TRUE).league \in Past!Scopes BY <2>2 DEF PastHooks
  <2> QED BY <2>3 DEF m
<1>4. storedUnder' \in [Past!RefEvents -> Past!Scopes \cup {NoLeague}]
  BY <1>1, <1>3 DEF PastInv
<1>5. -1 \in -1..Len(Leagues)
  <2>1. Len(Leagues) \in Nat BY DEF PastFits
  <2> QED BY <2>1
<1> QED BY <1>1, <1>4, <1>5 DEF PastInv

LEMMA PastNext == ASSUME PastFits, PastInv, [Past!Next]_(Past!vars) PROVE PastInv'
<1>0. Len(Leagues) \in Nat BY DEF PastFits
<1>1. ASSUME Past!Start PROVE PastInv'
  <2>1. /\ askedLeagues = -1 /\ askedLeagues' = 0 /\ Past!Capped' = Past!Capped
        /\ UNCHANGED <<storedUnder, hooks, gathered, asked, missed>>
    BY <1>1 DEF Past!Start, Past!Capped
  <2>2. -1 # Len(Leagues) /\ 0 \in -1..Len(Leagues) BY <1>0
  <2>3. asked = {} /\ gathered = {} BY <2>1, <2>2 DEF PastInv
  <2> QED BY <2>1, <2>2, <2>3 DEF PastInv
<1>2. ASSUME NEW h \in Past!Capped, Past!FetchHook(h) PROVE PastInv'
  BY <1>2 DEF PastInv, PastFits, Past!FetchHook, Past!Miss, Past!Capped
<1>3. ASSUME UNCHANGED Past!vars PROVE PastInv'
  BY <1>3 DEF PastInv, Past!vars, Past!Capped
<1> QED
  BY <1>1, <1>2, <1>3, LeagueKeeps, StoreKeeps DEF Past!Next, Past!Step, Past!FetchAny

LEMMA PastTypes == ASSUME PastFits PROVE Spec => []Past!TypeOK
<1>1. ASSUME PastInv PROVE Past!TypeOK
  <2>1. \A h \in Past!Range(hooks) : \E l \in Past!Range(Leagues) :
           h.event \in DOMAIN RefsOf[l] /\ h.league = RefsOf[l][h.event]
    <3>1. hooks \in Seq(PastHooks) /\ DOMAIN hooks = 1..Len(hooks) BY <1>1 DEF PastInv
    <3>2. \A i \in DOMAIN hooks : hooks[i] \in PastHooks BY <3>1, ElementOfSeq
    <3> QED BY <3>2 DEF Past!Range, PastHooks
  <2> QED BY <1>1, <2>1 DEF PastInv, Past!TypeOK
<1>2. PastInv => Past!TypeOK BY <1>1
<1>3. PastInv /\ [Past!Next]_(Past!vars) => PastInv' BY PastNext
<1> QED BY <1>2, <1>3, PastInit, PastRuns, PTL

(* The data lake: one store at a time, and the file of a record is whole or *)
(* cut off.                                                                 *)
LakeInv ==
    /\ memory \subseteq Records /\ files \subseteq Records /\ torn \subseteq Records
    /\ archive \subseteq Records /\ old \subseteq stored /\ stored \subseteq Records
    /\ storing \subseteq memory /\ (storing = {} \/ \E r \in Records : storing = {r})
    /\ storing \cap (files \cup torn) = {} /\ files \cap torn = {}
    /\ crashes \in 0..MaxCrashes

LEMMA LakeTypes == ASSUME LakeFits PROVE Spec => []Lake!TypeOK
<1>1. Lake!Init => LakeInv BY DEF Lake!Init, LakeInv, LakeFits
<1>2. ASSUME LakeInv, [Lake!Next]_(Lake!vars) PROVE LakeInv'
  <2> USE <1>2 DEF LakeInv
  <2>1. ASSUME NEW r \in Records, Lake!Store(r) PROVE LakeInv'
    BY <2>1 DEF Lake!Store
  <2>2. ASSUME NEW r \in Records, Lake!StoreReturns(r) PROVE LakeInv'
    BY <2>2 DEF Lake!StoreReturns
  <2>3. ASSUME NEW r \in Records, Lake!Age(r) PROVE LakeInv'
    BY <2>3 DEF Lake!Age
  <2>4. ASSUME Lake!ArchiveOld PROVE LakeInv'
    BY <2>4 DEF Lake!ArchiveOld
  <2>5. ASSUME Lake!Crash PROVE LakeInv'
    BY <2>5 DEF Lake!Crash, LakeFits
  <2>6. ASSUME UNCHANGED Lake!vars PROVE LakeInv'
    BY <2>6 DEF Lake!vars
  <2> QED BY <2>1, <2>2, <2>3, <2>4, <2>5, <2>6 DEF Lake!Next
<1>3. ASSUME LakeInv PROVE Lake!TypeOK
  <2>1. Lake!Cardinality(storing) = Cardinality(storing)
    BY DEF Lake!Cardinality, Cardinality
  <2>2. Cardinality(storing) <= 1
    <3>1. CASE storing = {} BY <3>1, FS_EmptySet
    <3>2. CASE storing # {}
      <4>1. PICK r \in Records : storing = {r} BY <1>3, <3>2 DEF LakeInv
      <4>2. Cardinality({r}) = 1 BY FS_Singleton
      <4> QED BY <4>1, <4>2
    <3> QED BY <3>1, <3>2
  <2> QED BY <1>3, <2>1, <2>2 DEF LakeInv, Lake!TypeOK
<1>4. LakeInv /\ [Lake!Next]_(Lake!vars) => LakeInv' BY <1>2
<1>5. LakeInv => Lake!TypeOK BY <1>3
<1> QED BY <1>1, <1>4, <1>5, LakeRuns, PTL DEF Lake!Spec

(* The identity maps and the audit of the merges.                           *)
IdentityTypes ==
    /\ Identity!TypeOK
    /\ merges \in Seq([survivor : Canonicals, absorbed : Canonicals,
                       moved : SUBSET Sources, merged : BOOLEAN])

LEMMA UnmergeTypes ==
    ASSUME IdentityTypes, NEW c, NEW b \in Canonicals, Identity!Unmerge(c, b)
    PROVE  /\ DOMAIN sourcesOf' \subseteq Identity!Ids
           /\ \A k \in DOMAIN sourcesOf' : sourcesOf'[k] \subseteq Sources
           /\ DOMAIN canonicalOf' \subseteq Sources
           /\ \A s \in DOMAIN canonicalOf' : canonicalOf'[s] \in Canonicals
<1> DEFINE moved == {s \in Identity!SourcesOf(c) : Overlap(s, b)}
<1>1. /\ canonicalOf' = [t \in DOMAIN canonicalOf \cup moved |->
                           IF t \in moved THEN b ELSE canonicalOf[t]]
      /\ sourcesOf' = [k \in DOMAIN sourcesOf \cup {b} |->
                         (IF k \in DOMAIN sourcesOf
                          THEN IF k = c THEN sourcesOf[k] \ moved ELSE sourcesOf[k]
                          ELSE {})
                         \cup (IF k = b THEN moved ELSE {})]
  BY DEF Identity!Unmerge, Identity!Update, Identity!Remap
<1>2. moved \subseteq Sources
  BY DEF Identity!SourcesOf, IdentityTypes, Identity!TypeOK
<1> HIDE DEF moved
<1> QED BY <1>1, <1>2 DEF IdentityTypes, Identity!TypeOK, Identity!Ids

LEMMA IdentityTypesKept == Spec => []Identity!TypeOK
<1>1. Identity!Init => IdentityTypes
  BY DEF Identity!Init, IdentityTypes, Identity!TypeOK
<1>2. ASSUME IdentityTypes, [Identity!Next]_(Identity!idVars) PROVE IdentityTypes'
  <2> DEFINE Audits == [survivor : Canonicals, absorbed : Canonicals,
                         moved : SUBSET Sources, merged : BOOLEAN]
  <2>0. merges \in Seq(Audits) /\ \A i \in DOMAIN merges : merges[i] \in Audits
    <3>1. merges \in Seq(Audits) BY <1>2 DEF IdentityTypes
    <3> HIDE DEF Audits
    <3>2. DOMAIN merges = 1..Len(merges) BY <3>1
    <3> QED BY <3>1, <3>2, ElementOfSeq
  <2>1. ASSUME NEW s \in Sources, NEW c \in Canonicals, Identity!AddSource(s, c)
        PROVE  IdentityTypes'
    BY <1>2, <2>1
    DEF IdentityTypes, Identity!TypeOK, Identity!Ids, Identity!AddSource, Identity!Update,
        Identity!Remap
  <2>2. ASSUME NEW a \in Canonicals, NEW b \in Canonicals, Identity!Merge(a, b)
        PROVE  IdentityTypes'
    <3> DEFINE record == [survivor |-> a, absorbed |-> b,
                          moved |-> Identity!SourcesOf(b), merged |-> TRUE]
    <3>1. Identity!SourcesOf(b) \subseteq Sources
      BY <1>2 DEF IdentityTypes, Identity!TypeOK, Identity!SourcesOf
    <3>2. record \in Audits BY <3>1
    <3>3. merges' = Append(merges, record) BY <2>2 DEF Identity!Merge
    <3> HIDE DEF record, Audits
    <3>4. merges' \in Seq(Audits) BY <2>0, <3>2, <3>3
    <3>5. \A i \in DOMAIN merges' : merges'[i] \in Audits BY <3>4, ElementOfSeq
    <3>6. /\ DOMAIN sourcesOf' \subseteq Identity!Ids
          /\ \A k \in DOMAIN sourcesOf' : sourcesOf'[k] \subseteq Sources
          /\ DOMAIN canonicalOf' \subseteq Sources
          /\ \A s \in DOMAIN canonicalOf' : canonicalOf'[s] \in Canonicals
      BY <1>2, <2>2, <3>1
      DEF IdentityTypes, Identity!TypeOK, Identity!Ids, Identity!Merge, Identity!Update,
          Identity!Remap, Identity!Without
    <3> QED BY <3>4, <3>5, <3>6 DEF IdentityTypes, Identity!TypeOK, Audits
  <2>3. ASSUME NEW i \in DOMAIN merges, Identity!UndoMatch(i) PROVE IdentityTypes'
    <3>1. merges[i] \in Audits BY <2>0
    <3>2. merges' = [merges EXCEPT ![i].merged = FALSE] BY <2>3 DEF Identity!UndoMatch
    <3>3. merges' = [merges EXCEPT ![i] = [merges[i] EXCEPT !.merged = FALSE]] BY <3>2
    <3>4. [merges[i] EXCEPT !.merged = FALSE] \in Audits BY <3>1
    <3> HIDE DEF Audits
    <3>5. merges' \in Seq(Audits) BY <2>0, <3>3, <3>4
    <3>6. \A k \in DOMAIN merges' : merges'[k] \in Audits BY <3>5, ElementOfSeq
    <3>7. merges[i].absorbed \in Canonicals BY <3>1 DEF Audits
    <3> QED
      BY <1>2, <2>3, <3>5, <3>6, <3>7, UnmergeTypes
      DEF IdentityTypes, Identity!TypeOK, Identity!UndoMatch, Audits
  <2>4. ASSUME NEW i \in DOMAIN merges, Identity!ReverseMerge(i) PROVE IdentityTypes'
    <3>1. merges[i].absorbed \in Canonicals BY <2>0
    <3> QED
      BY <1>2, <2>4, <3>1, UnmergeTypes
      DEF IdentityTypes, Identity!TypeOK, Identity!ReverseMerge
  <2>5. CASE UNCHANGED Identity!idVars
    BY <1>2, <2>5 DEF Identity!idVars, IdentityTypes, Identity!TypeOK
  <2> QED BY <1>2, <2>1, <2>2, <2>3, <2>4, <2>5 DEF Identity!Next
<1>3. IdentityTypes => Identity!TypeOK BY DEF IdentityTypes
<1>4. IdentityTypes /\ [Identity!Next]_(Identity!idVars) => IdentityTypes' BY <1>2
<1> QED BY <1>1, <1>3, <1>4, IdentityRuns, PTL DEF Identity!Spec

(* The bucket and the circuit of a connector.                               *)
LEMMA SourceTypes == ASSUME RatesAreNat PROVE Spec => []Source!TypeOK
<1> DEFINE full == Burst * TokenTicks
<1>0. full \in Nat /\ full >= TokenTicks
  <2>1. ASSUME NEW b \in Nat \ {0}, NEW t \in Nat \ {0} PROVE b * t \in Nat /\ b * t >= t
    <3>1. PICK n \in Nat : b = n + 1
      <4>1. b - 1 \in Nat /\ b = (b - 1) + 1 OBVIOUS
      <4> QED BY <4>1
    <3>2. n * t \in Nat /\ b * t = n * t + t BY <3>1, OneMore
    <3> QED BY <3>2
  <2> QED BY <2>1 DEF RatesAreNat
<1>1. Source!Init => Source!TypeOK
  BY <1>0 DEF Source!Init, Source!TypeOK, RatesAreNat
<1>2. ASSUME Source!TypeOK, [Source!Next]_(Source!vars) PROVE Source!TypeOK'
  <2> HIDE DEF full
  <2>1. /\ clock \in 0..MaxClock /\ tokens \in 0..full
        /\ lastRefill \in 0..clock /\ openSince \in 0..clock
        /\ circuit \in {"CLOSED", "OPEN", "HALF_OPEN"}
        /\ failed \in Nat /\ requests \in Nat /\ asking \subseteq Fetches
    BY <1>2 DEF Source!TypeOK, full
  <2>2. ASSUME Source!Tick PROVE Source!TypeOK'
    BY <2>1, <2>2 DEF Source!Tick, Source!bucketVars, Source!circuitVars, Source!TypeOK,
       RatesAreNat, full
  <2>3. ASSUME NEW f \in Fetches, Source!Fetch(f) PROVE Source!TypeOK'
    <3>1. Source!Refilled \in 0..full
      BY <1>0, <2>1 DEF Source!Refilled, Source!Lesser, full
    <3> DEFINE r == Source!Refilled
    <3> HIDE DEF r
    <3>2. /\ clock' \in 0..MaxClock /\ tokens' \in 0..full
          /\ clock <= clock' /\ lastRefill' = clock
      <4>1. CASE r >= TokenTicks
        <5>1. tokens' = r - TokenTicks /\ clock' = clock /\ lastRefill' = clock
          BY <2>3, <4>1 DEF Source!Fetch, Source!Acquire, r
        <5> QED BY <1>0, <2>1, <3>1, <4>1, <5>1 DEF r, RatesAreNat
      <4>2. CASE ~(r >= TokenTicks)
        <5>1. /\ tokens' = 0 /\ clock' = clock + (TokenTicks - r) /\ lastRefill' = clock
              /\ clock' <= MaxClock
          BY <2>3, <4>2 DEF Source!Fetch, Source!Acquire, r
        <5> QED BY <1>0, <2>1, <3>1, <4>2, <5>1 DEF r, RatesAreNat
      <4> QED BY <4>1, <4>2
    <3>3. /\ circuit' \in {"CLOSED", "OPEN", "HALF_OPEN"} /\ failed' \in Nat
          /\ openSince' = openSince /\ requests' \in Nat /\ asking' \subseteq Fetches
      BY <2>1, <2>3 DEF Source!Fetch, Source!CheckCircuit
    <3>4. lastRefill' \in 0..clock' /\ openSince' \in 0..clock'
      BY <2>1, <3>2, <3>3 DEF RatesAreNat
    <3> QED BY <3>2, <3>3, <3>4 DEF Source!TypeOK, full
  <2>4. ASSUME NEW f \in Fetches, Source!Succeed(f) PROVE Source!TypeOK'
    BY <2>1, <2>4 DEF Source!Succeed, Source!bucketVars, Source!TypeOK, full
  <2>5. ASSUME NEW f \in Fetches, Source!Fail(f) PROVE Source!TypeOK'
    BY <2>1, <2>5 DEF Source!Fail, Source!bucketVars, Source!TypeOK, RatesAreNat, full
  <2>6. CASE UNCHANGED Source!vars
    BY <2>1, <2>6 DEF Source!vars, Source!bucketVars, Source!circuitVars, Source!TypeOK, full
  <2> QED BY <1>2, <2>2, <2>3, <2>4, <2>5, <2>6 DEF Source!Next
<1>3. Source!TypeOK /\ [Source!Next]_(Source!vars) => Source!TypeOK' BY <1>2
<1> HIDE DEF Source!TypeOK
<1> QED BY <1>1, <1>3, SourceRuns, PTL DEF Source!Spec

(* Every component keeps its types in every state of the composition, for   *)
(* any sizes and bounds that are numbers and any inputs of the right kind.  *)
THEOREM TypesAreKept == Spec => []TypeOK
<1> USE ServicesAssumption
<1>1. Spec => [](part \in Parts)
  <2>1. Init => part \in Parts BY DEF Init
  <2>2. part \in Parts /\ [Next]_vars => (part \in Parts)'
    <3>1. [Next]_vars => UNCHANGED part BY DEF Next, Rest, vars
    <3> QED BY <3>1
  <2> QED BY <2>1, <2>2, PTL DEF Spec
<1>2. Spec => []Breaker!TypeOK BY BreakerRuns, BreakerTypes, PTL
<1>3. Spec => []Plans!TypeOK
  <2>1. PlansInv => Plans!TypeOK BY DEF PlansInv
  <2>2. PlansInv /\ [Plans!Next]_(Plans!schVars) => PlansInv' BY PlansNext
  <2> QED BY <2>1, <2>2, PlansInit, PlansRuns, PTL DEF Plans!Spec
<1>4. Spec => []LiveLoop!TypeOK
  <2>1. LiveInv => LiveLoop!TypeOK BY DEF LiveInv
  <2>2. LiveInv /\ [LiveLoop!Next]_(LiveLoop!liveVars) => LiveInv' BY LiveNext
  <2> QED BY <2>1, <2>2, LiveInit, LiveLoopRuns, PTL DEF LiveLoop!Spec
<1>5. Spec => []Writers!TypeOK
  <2>1. WritersInv => Writers!TypeOK BY DEF WritersInv
  <2> QED BY <2>1, WritersInit, WritersNext, WritersRuns, PTL
<1>6. Spec => []Poller!TypeOK
  <2>1. PollInv => Poller!TypeOK BY DEF PollInv
  <2> QED BY <2>1, PollInit, PollNext, PollerRuns, PTL DEF Poller!Spec
<1>7. Spec => []Lists!TypeOK
  <2>1. ListsInv => Lists!TypeOK BY DEF ListsInv
  <2> QED BY <2>1, ListsInit, ListsNext, ListsRuns, PTL DEF Lists!Spec
<1>8. Spec => []Walk!TypeOK
  <2>1. WalkInv => Walk!TypeOK BY DEF WalkInv, PageTypes
  <2> QED BY <2>1, WalkInit, WalkNext, WalkRuns, PTL DEF Walk!Spec
<1>9. /\ part \in Parts
      /\ Breaker!TypeOK /\ Plans!TypeOK /\ LiveLoop!TypeOK /\ Cache!TypeOK /\ Graph!TypeOK
      /\ Identity!TypeOK /\ Writers!TypeOK /\ Backfill!TypeOK /\ Table!TypeOK
      /\ Source!TypeOK /\ Poller!TypeOK /\ Lists!TypeOK /\ Lake!TypeOK /\ Past!TypeOK
      /\ Walk!TypeOK
      => TypeOK
  BY DEF TypeOK, PartsAreKnown
<1> QED
  BY <1>1, <1>2, <1>3, <1>4, <1>5, <1>6, <1>7, <1>8, <1>9, CacheTypes, GraphTypesKept,
     IdentityTypesKept, BackfillTypes, TableTypesKept, SourceTypes, LakeTypes, PastTypes, PTL
=============================================================================
