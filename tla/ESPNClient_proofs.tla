-------------------------- MODULE ESPNClient_proofs --------------------------
(***************************************************************************)
(* Proofs about ESPNClient for any number of callers, URLs and fetches and  *)
(* any bound: type correctness, the semaphore, the register of fetches in   *)
(* flight, the breaker and the response cache.                              *)
(***************************************************************************)
EXTENDS ESPNClient, FiniteSetTheorems, SequenceTheorems, TLAPS

------------------------------------------------------------------------------
\* The response cache

CacheInv ==
    /\ cached \in Seq(Keys)
    /\ expired \subseteq Range(cached)
    /\ CacheBounded

\* What is left of a sequence when the element at i is taken out.
LEMMA RemoveAtProperties ==
    ASSUME NEW S, NEW s \in Seq(S), NEW i \in 1..Len(s)
    PROVE  /\ RemoveAt(s, i) \in Seq(S)
           /\ Len(RemoveAt(s, i)) = Len(s) - 1
           /\ \A j \in 1..(Len(s) - 1) :
                  RemoveAt(s, i)[j] = IF j < i THEN s[j] ELSE s[j + 1]
<1> DEFINE l == SubSeq(s, 1, i - 1)
           r == SubSeq(s, i + 1, Len(s))
<1>1. Len(s) \in Nat /\ i \in Nat /\ \A j \in 1..Len(s) : s[j] \in S
  BY LenProperties, ElementOfSeq
<1>2. /\ l \in Seq(S) /\ Len(l) = i - 1
      /\ \A j \in 1..(i - 1) : l[j] = s[j]
  <2>1. \A j \in 1..(i - 1) : s[j] \in S
    BY <1>1
  <2>2. /\ l \in Seq(S)
        /\ Len(l) = IF 1 <= i - 1 THEN (i - 1) - 1 + 1 ELSE 0
        /\ \A j \in 1..((i - 1) - 1 + 1) : l[j] = s[1 + j - 1]
    BY <1>1, <2>1, SubSeqProperties
  <2> HIDE DEF l
  <2> QED BY <1>1, <2>2
<1>3. /\ r \in Seq(S) /\ Len(r) = Len(s) - i
      /\ \A j \in 1..(Len(s) - i) : r[j] = s[i + j]
  <2>1. \A j \in (i + 1)..Len(s) : s[j] \in S
    BY <1>1
  <2>2. /\ r \in Seq(S)
        /\ Len(r) = IF i + 1 <= Len(s) THEN Len(s) - (i + 1) + 1 ELSE 0
        /\ \A j \in 1..(Len(s) - (i + 1) + 1) : r[j] = s[i + 1 + j - 1]
    BY <1>1, <2>1, SubSeqProperties
  <2> HIDE DEF r
  <2> QED BY <1>1, <2>2
<1>4. RemoveAt(s, i) = l \o r
  BY DEF RemoveAt
<1> HIDE DEF l, r
<1>5. /\ l \o r \in Seq(S)
      /\ Len(l \o r) = Len(l) + Len(r)
      /\ \A j \in 1..(Len(l) + Len(r)) :
             (l \o r)[j] = IF j <= Len(l) THEN l[j] ELSE r[j - Len(l)]
  BY <1>2, <1>3, ConcatProperties
<1>6. \A j \in 1..(Len(s) - 1) : (l \o r)[j] = IF j < i THEN s[j] ELSE s[j + 1]
  <2> SUFFICES ASSUME NEW j \in 1..(Len(s) - 1)
               PROVE  (l \o r)[j] = IF j < i THEN s[j] ELSE s[j + 1]
    OBVIOUS
  <2>1. CASE j < i
    BY <1>1, <1>2, <1>3, <1>5, <2>1
  <2>2. CASE ~(j < i)
    <3>1. j - Len(l) \in 1..(Len(s) - i) /\ i + (j - Len(l)) = j + 1
      BY <1>1, <1>2, <2>2
    <3>2. ~(j <= Len(l)) /\ j \in 1..(Len(l) + Len(r))
      BY <1>1, <1>2, <1>3, <2>2
    <3> QED BY <1>3, <1>5, <2>2, <3>1, <3>2
  <2> QED BY <2>1, <2>2
<1> QED BY <1>1, <1>2, <1>3, <1>4, <1>5, <1>6

\* An expired entry is dropped by the call that misses it.
LEMMA CacheMissKeeps ==
    ASSUME CacheInv, NEW k \in Keys, CacheMiss(k)
    PROVE  CacheInv'
<1>1. /\ cached \in Seq(Keys) /\ Len(cached) \in Nat
      /\ DOMAIN cached = 1..Len(cached)
      /\ Len(cached) <= MaxEntries /\ MaxEntries \in Nat
      /\ \A a, b \in 1..Len(cached) : cached[a] = cached[b] => a = b
  BY ClientAssumption, LenProperties DEF CacheInv, CacheBounded, IsInjective
<1>2. CASE k \notin expired /\ UNCHANGED cached
  <2>1. expired' \subseteq Range(cached')
    BY <1>2 DEF CacheInv, CacheMiss
  <2> QED BY <1>2, <2>1 DEF CacheInv, CacheBounded
<1>3. ASSUME NEW i \in DOMAIN cached, cached[i] = k, cached' = RemoveAt(cached, i)
      PROVE  CacheInv'
  <2>1. /\ cached' \in Seq(Keys) /\ Len(cached') = Len(cached) - 1
        /\ \A j \in 1..(Len(cached) - 1) :
               cached'[j] = IF j < i THEN cached[j] ELSE cached[j + 1]
    <3>1. i \in 1..Len(cached)
      BY <1>1, <1>3
    <3>2. /\ RemoveAt(cached, i) \in Seq(Keys)
          /\ Len(RemoveAt(cached, i)) = Len(cached) - 1
          /\ \A j \in 1..(Len(cached) - 1) :
                 RemoveAt(cached, i)[j] = IF j < i THEN cached[j] ELSE cached[j + 1]
      BY <1>1, <3>1, RemoveAtProperties, Zenon
    <3> QED BY <1>3, <3>2, Zenon
  <2>2. DOMAIN cached' = 1..(Len(cached) - 1)
    BY <2>1, LenProperties
  <2>3. ASSUME NEW e \in expired, e # k PROVE e \in Range(cached')
    <3>1. PICK j \in 1..Len(cached) : cached[j] = e
      BY <1>1, <2>3 DEF CacheInv, Range
    <3>2. j # i
      BY <1>3, <2>3, <3>1
    <3>3. PICK h \in 1..(Len(cached) - 1) : (h < i /\ h = j) \/ (~(h < i) /\ h + 1 = j)
      <4>1. CASE j < i
        BY <1>1, <3>1, <4>1
      <4>2. CASE i < j
        <5>1. j - 1 \in 1..(Len(cached) - 1) /\ ~(j - 1 < i) /\ (j - 1) + 1 = j
          BY <1>1, <4>2
        <5> QED BY <5>1
      <4> QED BY <1>1, <3>2, <4>1, <4>2
    <3>4. cached'[h] = e
      BY <2>1, <3>1, <3>3
    <3> QED BY <2>2, <3>4 DEF Range
  <2>4. expired' \subseteq Range(cached')
    BY <2>3 DEF CacheMiss
  <2>5. Len(cached') <= MaxEntries
    BY <1>1, <2>1
  <2>6. ASSUME NEW a \in 1..(Len(cached) - 1), NEW b \in 1..(Len(cached) - 1),
               cached'[a] = cached'[b]
        PROVE  a = b
    <3>1. /\ a \in 1..Len(cached) /\ a + 1 \in 1..Len(cached)
          /\ b \in 1..Len(cached) /\ b + 1 \in 1..Len(cached)
          /\ i \in 1..Len(cached)
      BY <1>1
    <3>2. CASE a < i /\ b < i
      BY <1>1, <2>1, <2>6, <3>1, <3>2
    <3>3. CASE a < i /\ ~(b < i)
      BY <1>1, <2>1, <2>6, <3>1, <3>3
    <3>4. CASE ~(a < i) /\ b < i
      BY <1>1, <2>1, <2>6, <3>1, <3>4
    <3>5. CASE ~(a < i) /\ ~(b < i)
      <4>1. a + 1 = b + 1
        BY <1>1, <2>1, <2>6, <3>1, <3>5
      <4> QED BY <4>1
    <3> QED BY <3>2, <3>3, <3>4, <3>5
  <2>7. IsInjective(cached')
    BY <2>2, <2>6 DEF IsInjective
  <2> QED BY <2>1, <2>4, <2>5, <2>7 DEF CacheInv, CacheBounded
<1> QED BY <1>2, <1>3 DEF CacheMiss

\* The oldest entry makes room for the answer.
LEMMA CacheSetKeeps ==
    ASSUME CacheInv, NEW k \in Keys, CacheSet(k)
    PROVE  CacheInv'
<1> DEFINE full == Len(cached) >= MaxEntries
           kept == IF full THEN Tail(cached) ELSE cached
<1>1. /\ cached \in Seq(Keys) /\ Len(cached) \in Nat
      /\ DOMAIN cached = 1..Len(cached)
      /\ Len(cached) <= MaxEntries /\ MaxEntries \in Nat \ {0}
      /\ \A a, b \in 1..Len(cached) : cached[a] = cached[b] => a = b
  BY ClientAssumption, LenProperties DEF CacheInv, CacheBounded, IsInjective
<1>2. /\ kept \in Seq(Keys) /\ Len(kept) \in Nat /\ Len(kept) < MaxEntries
      /\ \A a, b \in 1..Len(kept) : kept[a] = kept[b] => a = b
  <2>1. CASE full
    <3>1. cached # <<>>
      BY <1>1, <2>1
    <3>2. /\ Tail(cached) \in Seq(Keys) /\ Len(Tail(cached)) = Len(cached) - 1
          /\ \A i \in 1..Len(Tail(cached)) : Tail(cached)[i] = cached[i + 1]
      BY <1>1, <3>1, HeadTailProperties
    <3>3. ASSUME NEW a \in 1..Len(Tail(cached)), NEW b \in 1..Len(Tail(cached)),
                 Tail(cached)[a] = Tail(cached)[b]
          PROVE  a = b
      <4>1. a + 1 \in 1..Len(cached) /\ b + 1 \in 1..Len(cached)
        BY <1>1, <3>2
      <4>2. a + 1 = b + 1
        BY <1>1, <3>2, <3>3, <4>1
      <4> QED BY <4>2
    <3> QED BY <1>1, <2>1, <3>1, <3>2, <3>3
  <2>2. CASE ~full
    BY <1>1, <2>2
  <2> QED BY <2>1, <2>2
<1>3. /\ cached' = IF k \in Range(kept) THEN kept ELSE Append(kept, k)
      /\ expired' = (expired \cap Range(kept)) \ {k}
  BY DEF CacheSet
<1> HIDE DEF kept, full
<1>4. DOMAIN kept = 1..Len(kept)
  BY <1>2, LenProperties
<1>5. CASE k \in Range(kept)
  <2>1. cached' = kept /\ expired' \subseteq Range(cached')
    BY <1>3, <1>5
  <2>2. IsInjective(cached')
    BY <1>2, <1>4, <2>1 DEF IsInjective
  <2>3. Len(cached') <= MaxEntries
    BY <1>1, <1>2, <2>1
  <2> QED BY <1>2, <2>1, <2>2, <2>3 DEF CacheInv, CacheBounded
<1>6. CASE k \notin Range(kept)
  <2>1. /\ cached' \in Seq(Keys) /\ Len(cached') = Len(kept) + 1
        /\ \A i \in 1..Len(kept) : cached'[i] = kept[i]
        /\ cached'[Len(kept) + 1] = k
    BY <1>2, <1>3, <1>6, AppendProperties
  <2>2. DOMAIN cached' = 1..(Len(kept) + 1)
    BY <2>1, LenProperties
  <2>3. Range(kept) \subseteq Range(cached')
    BY <1>2, <1>4, <2>1, <2>2 DEF Range
  <2>4. ASSUME NEW a \in 1..(Len(kept) + 1), NEW b \in 1..(Len(kept) + 1),
               cached'[a] = cached'[b]
        PROVE  a = b
    <3>1. \A i \in 1..Len(kept) : kept[i] # k
      BY <1>4, <1>6 DEF Range
    <3>2. \A i \in 1..(Len(kept) + 1) : i \in 1..Len(kept) \/ i = Len(kept) + 1
      BY <1>2
    <3> QED BY <1>2, <2>1, <2>4, <3>1, <3>2
  <2>5. IsInjective(cached')
    BY <2>2, <2>4 DEF IsInjective
  <2>6. Len(cached') <= MaxEntries
    BY <1>1, <1>2, <2>1
  <2>7. expired' \subseteq Range(cached')
    BY <1>3, <2>3
  <2> QED BY <2>1, <2>5, <2>6, <2>7 DEF CacheInv, CacheBounded
<1> QED BY <1>5, <1>6

------------------------------------------------------------------------------
\* The fetch tasks

TaskTypes ==
    /\ waits \in [Callers -> Fetches \cup {NoFetch}]
    /\ phase \in [Fetches -> Phases]
    /\ key \in [Fetches -> Keys \cup {NoKey}]
    /\ attempt \in [Fetches -> 0..MaxRetries]
    /\ queue \in Seq(Fetches)
    /\ permits \in Nat
    /\ pending \in [Keys -> Fetches \cup {NoFetch}]
    /\ probes \subseteq Fetches

BreakerInv ==
    /\ breaker \in {"CLOSED", "OPEN", "HALF_OPEN"}
    /\ failures \in Nat
    /\ cooled \in BOOLEAN
    /\ ClosedBelowThreshold

\* Only tasks that wait for the semaphore stand in its queue, each once.
QueueInv ==
    /\ \A i \in 1..Len(queue) : phase[queue[i]] = "queued"
    /\ \A i, j \in 1..Len(queue) : queue[i] = queue[j] => i = j

\* A task in existence fetches some URL.
KeyKnown == \A f \in Fetches : phase[f] # "free" => key[f] \in Keys

TaskInv == TaskTypes /\ QueueInv /\ KeyKnown /\ PermitsConserved /\ PendingIsDue

ClientInv == TaskInv /\ BreakerInv /\ CacheInv /\ faults \in 0..MaxFaults

LEMMA FlyingFinite == IsFiniteSet(Flying) /\ Cardinality(Flying) \in Nat
<1>1. Flying \in SUBSET Fetches
  BY DEF Flying
<1>2. IsFiniteSet(Flying)
  BY <1>1, ClientAssumption, FS_Subset
<1> QED BY <1>2, FS_CardinalityType

LEMMA ClientFaultBound ==
    ASSUME faults \in 0..MaxFaults, Fault \/ UNCHANGED faults
    PROVE  faults' \in 0..MaxFaults
BY ClientAssumption DEF Fault

LEMMA ClientInit == Init => ClientInv
<1> SUFFICES ASSUME Init PROVE ClientInv
  OBVIOUS
<1>1. Flying = {}
  BY DEF Init, Flying
<1>2. PermitsConserved
  BY <1>1, FS_EmptySet, ClientAssumption DEF Init, PermitsConserved
<1>3. TaskTypes
  BY ClientAssumption DEF Init, TaskTypes, Phases
<1>4. QueueInv /\ KeyKnown /\ PendingIsDue
  BY DEF Init, QueueInv, KeyKnown, PendingIsDue
<1>5. BreakerInv
  BY ClientAssumption DEF Init, BreakerInv, ClosedBelowThreshold
<1>6. CacheInv
  <2>1. cached \in Seq(Keys) /\ Len(cached) = 0 /\ DOMAIN cached = {}
    BY DEF Init
  <2> QED BY <2>1, ClientAssumption DEF Init, CacheInv, CacheBounded, IsInjective, Range
<1> QED BY <1>2, <1>3, <1>4, <1>5, <1>6, ClientAssumption DEF Init, ClientInv, TaskInv

\* A task leaves the head of the queue.
LEMMA Dequeue ==
    ASSUME TaskTypes, QueueInv, NEW f \in Fetches, Admissible(f),
           queue' = Tail(queue), NEW p \in Phases, phase' = [phase EXCEPT ![f] = p]
    PROVE  /\ phase[f] = "queued"
           /\ queue' \in Seq(Fetches)
           /\ QueueInv'
<1>1. queue \in Seq(Fetches) /\ queue # <<>> /\ Head(queue) = f /\ Len(queue) \in Nat \ {0}
  BY EmptySeq DEF TaskTypes, Admissible
<1>2. queue[1] = f /\ phase[f] = "queued"
  BY <1>1 DEF QueueInv
<1>3. /\ queue' \in Seq(Fetches) /\ Len(queue') = Len(queue) - 1
      /\ \A i \in 1..Len(queue') : queue'[i] = queue[i + 1]
  BY <1>1, HeadTailProperties
<1>4. ASSUME NEW i \in 1..Len(queue')
      PROVE  i + 1 \in 1..Len(queue) /\ queue[i + 1] \in Fetches /\ queue[i + 1] # f
  <2>1. i + 1 \in 1..Len(queue) /\ 1 \in 1..Len(queue) /\ i + 1 # 1
    BY <1>1, <1>3
  <2>2. queue[i + 1] \in Fetches
    BY <1>1, <2>1, ElementOfSeq
  <2>3. queue[i + 1] # queue[1]
    BY <2>1 DEF QueueInv
  <2> QED BY <1>2, <2>1, <2>2, <2>3
<1>5. \A i \in 1..Len(queue') : phase'[queue'[i]] = "queued"
  <2> SUFFICES ASSUME NEW i \in 1..Len(queue') PROVE phase'[queue'[i]] = "queued"
    OBVIOUS
  <2>1. /\ queue'[i] = queue[i + 1] /\ queue[i + 1] \in Fetches /\ queue[i + 1] # f
        /\ phase[queue[i + 1]] = "queued"
    BY <1>3, <1>4 DEF QueueInv
  <2> QED BY <2>1 DEF TaskTypes
<1>6. \A i, j \in 1..Len(queue') : queue'[i] = queue'[j] => i = j
  <2> SUFFICES ASSUME NEW i \in 1..Len(queue'), NEW j \in 1..Len(queue'),
                      queue'[i] = queue'[j]
               PROVE  i = j
    OBVIOUS
  <2>1. i + 1 = j + 1
    BY <1>3, <1>4 DEF QueueInv
  <2> QED BY <2>1, <1>1, <1>3
<1> QED BY <1>2, <1>3, <1>5, <1>6 DEF QueueInv

\* A permit is taken as the task starts flying.
LEMMA AdmitKeeps ==
    ASSUME ClientInv, NEW f \in Fetches, Admit(f)
    PROVE  ClientInv'
<1>1. /\ TaskInv /\ Admissible(f) /\ queue' = Tail(queue) /\ permits' = permits - 1
      /\ phase' = [phase EXCEPT ![f] = "flying"] /\ "flying" \in Phases
      /\ permits \in Nat /\ permits > 0
      /\ waits' = waits /\ key' = key /\ attempt' = attempt /\ pending' = pending
      /\ probes' \subseteq probes \cup {f}
  BY DEF Admit, sharedVars, ClientInv, TaskInv, TaskTypes, Admissible, Phases
<1>2. phase[f] = "queued" /\ queue' \in Seq(Fetches) /\ QueueInv'
  BY <1>1, Dequeue DEF TaskInv
<1>3. TaskTypes'
  BY <1>1, <1>2 DEF TaskInv, TaskTypes
<1>4. KeyKnown' /\ PendingIsDue'
  BY <1>1, <1>2 DEF TaskInv, TaskTypes, KeyKnown, PendingIsDue
<1>5. PermitsConserved'
  <2>1. Flying' = Flying \cup {f} /\ f \notin Flying
    BY <1>1, <1>2 DEF Flying, TaskInv, TaskTypes
  <2>2. Cardinality(Flying') = Cardinality(Flying) + 1
    BY <2>1, FlyingFinite, FS_AddElement
  <2>3. permits + Cardinality(Flying) = MaxConcurrency
    BY <1>1 DEF TaskInv, PermitsConserved
  <2>4. permits' + Cardinality(Flying') = MaxConcurrency
    BY <1>1, <2>2, <2>3, FlyingFinite
  <2> QED BY <2>4 DEF PermitsConserved
<1>6. BreakerInv'
  BY DEF Admit, ClientInv, BreakerInv, ClosedBelowThreshold
<1>7. CacheInv' /\ faults' \in 0..MaxFaults
  BY DEF Admit, sharedVars, ClientInv, CacheInv, CacheBounded
<1> QED BY <1>2, <1>3, <1>4, <1>5, <1>6, <1>7 DEF ClientInv, TaskInv

\* A task refused by the breaker never held a permit of its own.
LEMMA RejectKeeps ==
    ASSUME ClientInv, NEW f \in Fetches, RejectOpen(f)
    PROVE  ClientInv'
<1>1. /\ TaskInv /\ Admissible(f) /\ queue' = Tail(queue) /\ permits' = permits
      /\ phase' = [phase EXCEPT ![f] = "failed"] /\ "failed" \in Phases
      /\ waits' = waits /\ key' = key /\ attempt' = attempt /\ pending' = pending
      /\ probes' = probes
  BY DEF RejectOpen, sharedVars, ClientInv, Phases
<1>2. phase[f] = "queued" /\ queue' \in Seq(Fetches) /\ QueueInv'
  BY <1>1, Dequeue DEF TaskInv
<1>3. TaskTypes'
  BY <1>1, <1>2 DEF TaskInv, TaskTypes
<1>4. KeyKnown' /\ PendingIsDue'
  BY <1>1, <1>2 DEF TaskInv, TaskTypes, KeyKnown, PendingIsDue
<1>5. Flying' = Flying
  BY <1>1, <1>2 DEF Flying, TaskInv, TaskTypes
<1>6. PermitsConserved'
  BY <1>1, <1>5 DEF TaskInv, PermitsConserved
<1>7. BreakerInv' /\ CacheInv' /\ faults' \in 0..MaxFaults
  BY DEF RejectOpen, sharedVars, breakerVars, ClientInv, BreakerInv, ClosedBelowThreshold,
         CacheInv, CacheBounded
<1> QED BY <1>2, <1>3, <1>4, <1>6, <1>7 DEF ClientInv, TaskInv

\* A task that ends gives its permit back.
LEMMA LeaveKeeps ==
    ASSUME ClientInv, NEW f \in Fetches, NEW outcome \in {"fetched", "failed"},
           Leave(f, outcome)
    PROVE  TaskInv' /\ CacheInv'
<1>1. /\ TaskInv /\ phase[f] = "flying" /\ queue' = queue /\ permits' = permits + 1
      /\ phase' = [phase EXCEPT ![f] = outcome] /\ outcome \in Phases
      /\ attempt' = [attempt EXCEPT ![f] = 0] /\ 0 \in 0..MaxRetries
      /\ waits' = waits /\ key' = key /\ pending' = pending /\ probes' \subseteq probes
  BY ClientAssumption DEF Leave, sharedVars, ClientInv, Phases
<1>2. TaskTypes'
  BY <1>1 DEF TaskInv, TaskTypes
<1>3. QueueInv'
  <2>1. \A i \in 1..Len(queue) : queue[i] \in Fetches /\ queue[i] # f
    BY <1>1, ElementOfSeq DEF TaskInv, TaskTypes, QueueInv
  <2> QED BY <1>1, <2>1 DEF TaskInv, TaskTypes, QueueInv
<1>4. KeyKnown' /\ PendingIsDue'
  BY <1>1 DEF TaskInv, TaskTypes, KeyKnown, PendingIsDue
<1>5. PermitsConserved'
  <2>1. Flying' = Flying \ {f} /\ f \in Flying
    BY <1>1 DEF Flying, TaskInv, TaskTypes
  <2>2. Cardinality(Flying') = Cardinality(Flying) - 1
    BY <2>1, FlyingFinite, FS_RemoveElement
  <2>3. permits + Cardinality(Flying) = MaxConcurrency /\ permits \in Nat
    BY <1>1 DEF TaskInv, TaskTypes, PermitsConserved
  <2>4. permits' + Cardinality(Flying') = MaxConcurrency
    BY <1>1, <2>2, <2>3, FlyingFinite
  <2> QED BY <2>4 DEF PermitsConserved
<1>6. CacheInv'
  BY DEF Leave, sharedVars, ClientInv, CacheInv, CacheBounded
<1> QED BY <1>2, <1>3, <1>4, <1>5, <1>6 DEF TaskInv

\* The breaker counts up to the threshold and opens there.
LEMMA BreakerKeeps ==
    ASSUME BreakerInv, OnSuccess \/ OnFailure \/ UNCHANGED breakerVars
    PROVE  BreakerInv'
<1>1. CASE OnSuccess
  BY <1>1, ClientAssumption DEF OnSuccess, BreakerInv, ClosedBelowThreshold
<1>2. CASE OnFailure
  <2>1. /\ failures \in Nat /\ Threshold \in Nat /\ failures' = failures + 1
        /\ breaker' \in {breaker, "OPEN"}
    BY <1>2, ClientAssumption DEF OnFailure, BreakerInv
  <2>2. breaker' = "CLOSED" => ~(failures + 1 >= Threshold)
    BY <1>2 DEF OnFailure
  <2>3. breaker' = "CLOSED" => failures' < Threshold
    BY <2>1, <2>2
  <2>4. failures' \in Nat /\ cooled' \in BOOLEAN
    <3>1. failures' \in Nat
      BY <2>1
    <3>2. cooled' \in BOOLEAN
      BY <1>2, Zenon DEF OnFailure
    <3> QED BY <3>1, <3>2
  <2>5. breaker' \in {"CLOSED", "OPEN", "HALF_OPEN"}
    BY <2>1 DEF BreakerInv
  <2>6. ClosedBelowThreshold'
    BY <2>3 DEF ClosedBelowThreshold
  <2> QED BY <2>4, <2>5, <2>6 DEF BreakerInv
<1>3. CASE UNCHANGED breakerVars
  BY <1>3 DEF breakerVars, BreakerInv, ClosedBelowThreshold
<1> QED BY <1>1, <1>2, <1>3

LEMMA AttemptEndsKeeps ==
    ASSUME ClientInv, NEW f \in Fetches, Succeed(f) \/ GiveUp(f) \/ Refuse(f)
    PROVE  ClientInv'
<1>1. /\ \E outcome \in {"fetched", "failed"} : Leave(f, outcome)
      /\ Fault \/ UNCHANGED faults
      /\ OnSuccess \/ OnFailure \/ UNCHANGED breakerVars
  BY DEF Succeed, GiveUp, Refuse
<1>2. TaskInv' /\ CacheInv'
  BY <1>1, LeaveKeeps
<1>3. BreakerInv' /\ faults' \in 0..MaxFaults
  BY <1>1, BreakerKeeps, ClientFaultBound DEF ClientInv
<1> QED BY <1>2, <1>3 DEF ClientInv

LEMMA RetryKeeps ==
    ASSUME ClientInv, NEW f \in Fetches, Retry(f)
    PROVE  ClientInv'
<1>1. attempt' \in [Fetches -> 0..MaxRetries]
  BY ClientAssumption DEF Retry, ClientInv, TaskInv, TaskTypes
<1>2. /\ waits' = waits /\ phase' = phase /\ key' = key /\ queue' = queue
      /\ permits' = permits /\ pending' = pending /\ probes' = probes
  BY DEF Retry, sharedVars
<1>3. TaskInv'
  BY <1>1, <1>2 DEF ClientInv, TaskInv, TaskTypes, QueueInv, KeyKnown, PermitsConserved,
                    PendingIsDue, Flying
<1>4. BreakerInv' /\ CacheInv' /\ faults' \in 0..MaxFaults
  BY ClientFaultBound
     DEF Retry, sharedVars, breakerVars, ClientInv, BreakerInv, ClosedBelowThreshold,
         CacheInv, CacheBounded
<1> QED BY <1>3, <1>4 DEF ClientInv

\* A new task stands last in the queue and is registered for its URL.
LEMMA StartFetchKeeps ==
    ASSUME ClientInv, NEW c \in Callers, NEW k \in Keys, NEW f \in Fetches,
           StartFetch(c, k, f)
    PROVE  ClientInv'
<1>1. /\ TaskInv /\ phase[f] = "free" /\ CacheMiss(k)
      /\ phase' = [phase EXCEPT ![f] = "queued"] /\ "queued" \in Phases
      /\ key' = [key EXCEPT ![f] = k]
      /\ queue' = Append(queue, f)
      /\ pending' = [pending EXCEPT ![k] = f]
      /\ waits' = [waits EXCEPT ![c] = f]
      /\ attempt' = attempt /\ permits' = permits /\ probes' = probes
  BY DEF StartFetch, ClientInv, Phases
<1>2. /\ queue \in Seq(Fetches) /\ Len(queue) \in Nat
      /\ queue' \in Seq(Fetches) /\ Len(queue') = Len(queue) + 1
      /\ \A i \in 1..Len(queue) : queue'[i] = queue[i] /\ queue[i] \in Fetches
      /\ queue'[Len(queue) + 1] = f
  BY <1>1, AppendProperties, LenProperties, ElementOfSeq DEF TaskInv, TaskTypes
<1>3. TaskTypes'
  BY <1>1, <1>2 DEF TaskInv, TaskTypes
<1>4. QueueInv'
  <2>1. \A i \in 1..(Len(queue) + 1) : i \in 1..Len(queue) \/ i = Len(queue) + 1
    BY <1>2
  <2>2. \A i \in 1..Len(queue) : queue[i] # f /\ phase[queue[i]] = "queued"
    BY <1>1 DEF TaskInv, QueueInv
  <2>3. \A i \in 1..Len(queue') : phase'[queue'[i]] = "queued"
    BY <1>1, <1>2, <2>1, <2>2 DEF TaskInv, TaskTypes
  <2>4. \A i, j \in 1..Len(queue') : queue'[i] = queue'[j] => i = j
    BY <1>1, <1>2, <2>1, <2>2 DEF TaskInv, QueueInv
  <2> QED BY <2>3, <2>4 DEF QueueInv
<1>5. KeyKnown'
  BY <1>1 DEF TaskInv, TaskTypes, KeyKnown
<1>6. PendingIsDue'
  BY <1>1 DEF TaskInv, TaskTypes, PendingIsDue
<1>7. Flying' = Flying
  BY <1>1 DEF Flying, TaskInv, TaskTypes
<1>8. PermitsConserved'
  BY <1>1, <1>7 DEF TaskInv, PermitsConserved
<1>9. BreakerInv' /\ faults' \in 0..MaxFaults
  BY DEF StartFetch, breakerVars, ClientInv, BreakerInv, ClosedBelowThreshold
<1>10. CacheInv'
  BY <1>1, CacheMissKeeps DEF ClientInv
<1> QED BY <1>3, <1>4, <1>5, <1>6, <1>8, <1>9, <1>10 DEF ClientInv, TaskInv

\* Steps of callers that leave the tasks alone.
LEMMA JoinKeeps ==
    ASSUME ClientInv, NEW c \in Callers, NEW k \in Keys, Join(c, k)
    PROVE  ClientInv'
<1>1. waits' \in [Callers -> Fetches \cup {NoFetch}]
  BY DEF Join, ClientInv, TaskInv, TaskTypes
<1>2. /\ phase' = phase /\ key' = key /\ queue' = queue /\ attempt' = attempt
      /\ permits' = permits /\ pending' = pending /\ probes' = probes
  BY DEF Join, taskVars
<1>3. TaskInv'
  BY <1>1, <1>2 DEF ClientInv, TaskInv, TaskTypes, QueueInv, KeyKnown, PermitsConserved,
                    PendingIsDue, Flying
<1>4. BreakerInv' /\ faults' \in 0..MaxFaults
  BY DEF Join, breakerVars, ClientInv, BreakerInv, ClosedBelowThreshold
<1>5. CacheInv'
  BY CacheMissKeeps DEF ClientInv, Join
<1> QED BY <1>3, <1>4, <1>5 DEF ClientInv

LEMMA CancelKeeps ==
    ASSUME ClientInv, NEW c \in Callers, CancelCaller(c)
    PROVE  ClientInv'
<1>1. waits' \in [Callers -> Fetches \cup {NoFetch}]
  BY DEF CancelCaller, ClientInv, TaskInv, TaskTypes
<1>2. /\ phase' = phase /\ key' = key /\ queue' = queue /\ attempt' = attempt
      /\ permits' = permits /\ pending' = pending /\ probes' = probes
  BY DEF CancelCaller, taskVars, sharedVars
<1>3. TaskInv'
  BY <1>1, <1>2 DEF ClientInv, TaskInv, TaskTypes, QueueInv, KeyKnown, PermitsConserved,
                    PendingIsDue, Flying
<1>4. BreakerInv' /\ CacheInv' /\ faults' \in 0..MaxFaults
  BY ClientFaultBound
     DEF CancelCaller, sharedVars, breakerVars, ClientInv, BreakerInv,
         ClosedBelowThreshold, CacheInv, CacheBounded
<1> QED BY <1>3, <1>4 DEF ClientInv

\* The callback unregisters the URL; whoever was registered for another URL is
\* still due, since a task is registered only for the URL it fetches.
LEMMA OnFetchDoneKeeps ==
    ASSUME ClientInv, NEW f \in Fetches, OnFetchDone(f)
    PROVE  ClientInv'
<1>1. /\ TaskInv /\ phase[f] \in {"fetched", "failed"} /\ key[f] \in Keys
      /\ pending' = [pending EXCEPT ![key[f]] = NoFetch]
      /\ waits' = [c \in Callers |-> IF waits[c] = f THEN NoFetch ELSE waits[c]]
      /\ phase' = [phase EXCEPT ![f] = "free"] /\ "free" \in Phases
      /\ key' = [key EXCEPT ![f] = NoKey]
      /\ attempt' = attempt /\ queue' = queue /\ permits' = permits /\ probes' = probes
  BY DEF OnFetchDone, Done, ClientInv, TaskInv, KeyKnown, Phases
<1>2. TaskTypes'
  BY <1>1 DEF TaskInv, TaskTypes
<1>3. QueueInv'
  <2>1. \A i \in 1..Len(queue) : queue[i] \in Fetches /\ queue[i] # f
    BY <1>1, ElementOfSeq DEF TaskInv, TaskTypes, QueueInv
  <2> QED BY <1>1, <2>1 DEF TaskInv, TaskTypes, QueueInv
<1>4. KeyKnown'
  BY <1>1 DEF TaskInv, TaskTypes, KeyKnown
<1>5. PendingIsDue'
  <2> SUFFICES ASSUME NEW k \in Keys, pending'[k] # NoFetch
               PROVE  phase'[pending'[k]] # "free" /\ key'[pending'[k]] = k
    BY DEF PendingIsDue
  <2>1. k # key[f] /\ pending'[k] = pending[k] /\ pending[k] \in Fetches
    BY <1>1 DEF TaskInv, TaskTypes
  <2>2. pending[k] # f
    BY <1>1, <2>1 DEF TaskInv, PendingIsDue
  <2> QED BY <1>1, <2>1, <2>2 DEF TaskInv, TaskTypes, PendingIsDue
<1>6. Flying' = Flying
  BY <1>1 DEF Flying, TaskInv, TaskTypes
<1>7. PermitsConserved'
  BY <1>1, <1>6 DEF TaskInv, PermitsConserved
<1>8. BreakerInv' /\ faults' \in 0..MaxFaults
  BY DEF OnFetchDone, breakerVars, ClientInv, BreakerInv, ClosedBelowThreshold
<1>9. CacheInv'
  <2>1. CASE phase[f] = "fetched"
    BY <1>1, <2>1, CacheSetKeeps DEF OnFetchDone, ClientInv
  <2>2. CASE phase[f] # "fetched"
    BY <2>2 DEF OnFetchDone, ClientInv, CacheInv, CacheBounded
  <2> QED BY <2>1, <2>2
<1> QED BY <1>2, <1>3, <1>4, <1>5, <1>7, <1>8, <1>9 DEF ClientInv, TaskInv

\* Time passes.
LEMMA TimeKeeps ==
    ASSUME ClientInv, CoolDown \/ (\E k \in Keys : Expire(k)) \/ UNCHANGED vars
    PROVE  ClientInv'
<1>1. /\ waits' = waits /\ phase' = phase /\ key' = key /\ queue' = queue
      /\ attempt' = attempt /\ permits' = permits /\ pending' = pending
      /\ probes' = probes /\ faults' = faults /\ cached' = cached
      /\ breaker' = breaker /\ failures' = failures /\ cooled' \in {cooled, TRUE}
  BY DEF CoolDown, Expire, vars, taskVars, sharedVars, breakerVars
<1>2. TaskInv'
  BY <1>1 DEF ClientInv, TaskInv, TaskTypes, QueueInv, KeyKnown, PermitsConserved,
              PendingIsDue, Flying
<1>3. BreakerInv' /\ faults' \in 0..MaxFaults
  BY <1>1 DEF ClientInv, BreakerInv, ClosedBelowThreshold
<1>4. expired' \subseteq Range(cached)
  BY DEF CoolDown, Expire, Fresh, vars, sharedVars, ClientInv, CacheInv
<1>5. CacheInv'
  BY <1>1, <1>4 DEF ClientInv, CacheInv, CacheBounded
<1> QED BY <1>2, <1>3, <1>5 DEF ClientInv

LEMMA ClientStep == ClientInv /\ [Next]_vars => ClientInv'
BY AdmitKeeps, RejectKeeps, AttemptEndsKeeps, RetryKeeps, StartFetchKeeps, JoinKeeps,
   CancelKeeps, OnFetchDoneKeeps, TimeKeeps
DEF Next, Call, Progress

LEMMA ClientInvariant == Spec => []ClientInv
BY ClientInit, ClientStep, PTL DEF Spec

------------------------------------------------------------------------------
\* Theorems

\* Every variable keeps to the values the code can give it, for any number of
\* callers, URLs and fetches.
THEOREM ClientTypeCorrect == Spec => []TypeOK
<1>1. ClientInv => TypeOK
  <2> SUFFICES ASSUME ClientInv PROVE TypeOK
    OBVIOUS
  <2>1. permits \in 0..MaxConcurrency
    BY FlyingFinite, ClientAssumption DEF ClientInv, TaskInv, TaskTypes, PermitsConserved
  <2> QED BY <2>1 DEF ClientInv, TaskInv, TaskTypes, BreakerInv, CacheInv, TypeOK
<1> QED BY <1>1, ClientInvariant, PTL

\* No path through request() leaks or doubles a permit of the semaphore
\* (client.py:216).
THEOREM PermitsAreConserved == Spec => []PermitsConserved
<1>1. ClientInv => PermitsConserved
  BY DEF ClientInv, TaskInv
<1> QED BY <1>1, ClientInvariant, PTL

\* Nobody joins a fetch that will never answer, whatever callbacks of older
\* fetches of the same URL run in between (client.py:436-464).
THEOREM PendingStaysDue == Spec => []PendingIsDue
<1>1. ClientInv => PendingIsDue
  BY DEF ClientInv, TaskInv
<1> QED BY <1>1, ClientInvariant, PTL

\* The breaker is never closed with as many failures on the count as open it.
THEOREM BreakerOpensInTime == Spec => []ClosedBelowThreshold
<1>1. ClientInv => ClosedBelowThreshold
  BY DEF ClientInv, BreakerInv
<1> QED BY <1>1, ClientInvariant, PTL

\* The response cache holds each URL once and stays within max_entries.
THEOREM CacheStaysBounded == Spec => []CacheBounded
<1>1. ClientInv => CacheBounded
  BY DEF ClientInv, CacheInv
<1> QED BY <1>1, ClientInvariant, PTL

\* An open breaker stays open for recovery_timeout after the latest failure,
\* whatever late answers arrive.
THEOREM BreakerStaysOpen == Spec => OpenUntilCooled
<1>1. [Next]_vars => (breaker = "OPEN" /\ breaker' # "OPEN" => cooled) \/ UNCHANGED vars
  <2> SUFFICES ASSUME Next, breaker = "OPEN", breaker' # "OPEN" PROVE cooled
    OBVIOUS
  <2>1. PICK f \in Fetches : Progress(f) \/ GiveUp(f)
    BY DEF Next, Call, Join, StartFetch, CancelCaller, Retry, Refuse, Expire, CoolDown,
           breakerVars
  <2>2. ~OnSuccess /\ ~OnFailure
    BY DEF OnSuccess, OnFailure
  <2>3. Admit(f)
    BY <2>1, <2>2 DEF Progress, RejectOpen, Succeed, GiveUp, OnFetchDone, breakerVars
  <2> QED BY <2>3 DEF Admit
<1> QED BY <1>1, PTL DEF Spec, OpenUntilCooled
==============================================================================
