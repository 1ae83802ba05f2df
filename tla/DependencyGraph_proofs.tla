----------------------- MODULE DependencyGraph_proofs -----------------------
(***************************************************************************)
(* Proofs about the dependency graph of the sync jobs, for every graph: the  *)
(* sort by counts of open dependencies, and the search for cycles.           *)
(***************************************************************************)
EXTENDS Services_proofs

(* The edges lead from a node to its dependents.                            *)
LEMMA EdgesAre ==
    \A d, e : <<d, e>> \in Graph!Edges <=>
        d \in Entities /\ e \in Entities /\ e \in Graph!Dependents(d)
BY DEF Graph!Edges

LEMMA GraphCardinality == ASSUME NEW S PROVE Graph!Cardinality(S) = Cardinality(S)
BY DEF Graph!Cardinality, Cardinality

(* Every node of S depends on one of S.                                     *)
Waiting(S) == S # {} /\ \A e \in S : \E d \in S : <<d, e>> \in Graph!Edges

(* The nodes of a cycle wait for one another.                               *)
LEMMA CycleWaits ==
    ASSUME NEW n \in Nat \ {0}, NEW c \in [1..n -> Entities], Len(c) = n, Graph!IsCycle(c)
    PROVE  Waiting({c[i] : i \in 1..n})
<1> DEFINE S == {c[i] : i \in 1..n}
<1>1. \A i \in 1..n : <<c[i], c[IF i = n THEN 1 ELSE i + 1]>> \in Graph!Edges
  BY DEF Graph!IsCycle
<1>2. ASSUME NEW e \in S PROVE \E d \in S : <<d, e>> \in Graph!Edges
  <2>1. PICK i \in 1..n : e = c[i] OBVIOUS
  <2>2. CASE i = 1
    <3>0. n \in 1..n OBVIOUS
    <3>1. <<c[n], c[1]>> \in Graph!Edges /\ c[n] \in S BY <1>1, <3>0
    <3> QED BY <2>1, <2>2, <3>1
  <2>3. CASE i # 1
    <3>1. i - 1 \in 1..n /\ i - 1 # n /\ (i - 1) + 1 = i BY <2>3
    <3>2. <<c[i - 1], e>> \in Graph!Edges /\ c[i - 1] \in S BY <1>1, <2>1, <3>1
    <3> QED BY <3>2
  <2> QED BY <2>2, <2>3
<1>3. c[1] \in S OBVIOUS
<1> HIDE DEF S
<1> QED BY <1>2, <1>3 DEF Waiting, S

(* Nodes that wait for one another are on a cycle, or lead to one: going    *)
(* back from one of them must return to a node.                             *)
LEMMA WaitingIsCyclic ==
    ASSUME GraphFits, NEW S \in SUBSET Entities, Waiting(S)
    PROVE  Graph!Cyclic
<1> DEFINE pred == [e \in S |-> CHOOSE d \in S : <<d, e>> \in Graph!Edges]
           Back(m, w) == \A k \in 1..(m - 1) : w[k + 1] = pred[w[k]]
           Short == {m \in Nat \ {0} : ~(\E w \in [1..m -> S] : Back(m, w))}
           N == Cardinality(Entities)
<1>1. pred \in [S -> S] /\ \A e \in S : <<pred[e], e>> \in Graph!Edges
  BY DEF Waiting
<1> HIDE DEF pred
<1>2. Short = {}
  <2> SUFFICES ASSUME Short # {} PROVE FALSE OBVIOUS
  <2>0. Short \in SUBSET Nat OBVIOUS
  <2>1. PICK m \in Short : \A k \in Short : ~(k < m)
    <3> HIDE DEF Short
    <3> QED BY <2>0, LeastPlace
  <2>2. CASE m = 1
    <3>1. PICK e \in S : TRUE BY DEF Waiting
    <3>2. [k \in 1..1 |-> e] \in [1..1 -> S] /\ Back(1, [k \in 1..1 |-> e])
      OBVIOUS
    <3> QED BY <2>1, <2>2, <3>2
  <2>3. CASE m # 1
    <3>0. m \in Nat /\ m # 0 BY <2>1
    <3>1. m - 1 \in Nat \ {0} /\ m - 1 \notin Short /\ m \in Nat
      <4> HIDE DEF Short
      <4>1. m - 1 \in Nat \ {0} /\ m - 1 < m BY <2>3, <3>0
      <4> QED BY <2>1, <3>0, <4>1
    <3>2. PICK w \in [1..(m - 1) -> S] : Back(m - 1, w) BY <3>1
    <3> DEFINE v == [k \in 1..m |-> IF k = m THEN pred[w[m - 1]] ELSE w[k]]
    <3>3. v \in [1..m -> S] BY <1>1, <3>1
    <3>4. Back(m, v) BY <3>1, <3>2
    <3> HIDE DEF v
    <3> QED BY <2>1, <3>3, <3>4
  <2> QED BY <2>2, <2>3
<1>3. N \in Nat BY FS_CardinalityType DEF GraphFits
<1> HIDE DEF N
<1>4. PICK w \in [1..(N + 1) -> S] : Back(N + 1, w)
  <2>1. N + 1 \in Nat \ {0} BY <1>3
  <2>2. \A m \in Nat \ {0} : \E w \in [1..m -> S] : Back(m, w) BY <1>2
  <2> HIDE DEF Back, Short
  <2> QED BY <2>1, <2>2
<1>5. PICK i, j \in 1..(N + 1) : i < j /\ w[i] = w[j]
  <2>1. w \in [1..(N + 1) -> Entities] BY <1>4
  <2>2. IsFiniteSet(1..(N + 1)) /\ Cardinality(1..(N + 1)) = N + 1
    BY <1>3, FS_Interval
  <2>3. Cardinality(Entities) < Cardinality(1..(N + 1))
    BY <1>3, <2>2 DEF N
  <2>4. \E x, y \in 1..(N + 1) : x # y /\ w[x] = w[y]
    BY <2>1, <2>2, <2>3, FS_PigeonHole DEF GraphFits
  <2> QED BY <1>3, <2>4
<1> DEFINE n == j - i
           c == [k \in 1..n |-> w[j - k]]
<1>6. n \in 1..N BY <1>3, <1>5
<1>7. \A k \in 1..n : j - k \in 1..(N + 1) /\ j - k <= N BY <1>3, <1>5
<1>8. c \in [1..n -> Entities] /\ c \in Seq(Entities) /\ Len(c) = n
  BY <1>4, <1>6, <1>7
<1>9. Graph!IsCycle(c)
  <2> SUFFICES ASSUME NEW k \in 1..n
               PROVE  <<c[k], c[IF k = n THEN 1 ELSE k + 1]>> \in Graph!Edges
    BY <1>8 DEF Graph!IsCycle
  <2>1. \A m \in 1..N : <<w[m + 1], w[m]>> \in Graph!Edges
    BY <1>1, <1>3, <1>4
  <2>2. CASE k = n
    <3>1. c[k] = w[i] /\ c[1] = w[j - 1] /\ j - 1 \in 1..N BY <1>3, <1>5, <1>6, <2>2
    <3>2. <<w[(j - 1) + 1], w[j - 1]>> \in Graph!Edges BY <2>1, <3>1
    <3> QED BY <1>3, <1>5, <2>2, <3>1, <3>2
  <2>3. CASE k # n
    <3>1. c[k] = w[j - k] /\ c[k + 1] = w[j - (k + 1)] /\ j - (k + 1) \in 1..N
      BY <1>3, <1>5, <1>6, <2>3
    <3>2. <<w[(j - (k + 1)) + 1], w[j - (k + 1)]>> \in Graph!Edges BY <2>1, <3>1
    <3>3. (j - (k + 1)) + 1 = j - k BY <1>3, <1>6
    <3> QED BY <2>3, <3>1, <3>2, <3>3
  <2> QED BY <2>2, <2>3
<1> HIDE DEF c, n
<1> QED BY <1>6, <1>8, <1>9, GraphCardinality DEF Graph!Cyclic, N

(* A graph has a cycle exactly when some of its nodes wait for one another. *)
LEMMA CyclicIsWaiting ==
    ASSUME GraphFits
    PROVE  Graph!Cyclic <=> \E S \in SUBSET Entities : Waiting(S)
<1>1. ASSUME Graph!Cyclic PROVE \E S \in SUBSET Entities : Waiting(S)
  <2>1. Cardinality(Entities) \in Nat BY FS_CardinalityType DEF GraphFits
  <2>2. PICK n \in 1..Cardinality(Entities) : \E c \in [1..n -> Entities] : Graph!IsCycle(c)
    BY <1>1, GraphCardinality DEF Graph!Cyclic
  <2>3. PICK c \in [1..n -> Entities] : Graph!IsCycle(c) BY <2>2
  <2>4. n \in Nat \ {0} BY <2>1
  <2>5. Len(c) = n BY <2>4
  <2>6. Waiting({c[i] : i \in 1..n}) BY <2>3, <2>4, <2>5, CycleWaits
  <2> QED BY <2>6
<1> QED BY <1>1, WaitingIsCyclic

(* What the services do to the graph are steps of the graph.                *)
LEMMA GraphRuns == Spec => Graph!Spec
<1>1. Init => Graph!Init
  BY DEF Init
<1>2. [Next]_vars => [Graph!Next]_(Graph!graphVars)
  <2>1. ASSUME Next PROVE Graph!Next \/ UNCHANGED graphVars
    BY <2>1 DEF Next, Rest
  <2>2. (UNCHANGED vars \/ UNCHANGED graphVars) => UNCHANGED Graph!graphVars
    BY DEF vars, graphVars, Graph!graphVars
  <2> QED BY <2>1, <2>2
<1> QED BY <1>1, <1>2, PTL DEF Spec, Graph!Spec

(* What the sort knows: how many of the nodes that a node depends on are not*)
(* in the result.                                                           *)
Preds(n) == {d \in Entities : n \in Graph!Dependents(d)}
Taken    == {result[i] : i \in DOMAIN result}
Waits(n) == Preds(n) \ Taken

NoRepeat(s) == \A i, k \in 1..Len(s) : s[i] = s[k] => i = k

GraphTypes ==
    /\ adjacency \in [Entities -> Seq(Entities)]
    /\ \A e \in Entities : NoRepeat(adjacency[e])
    /\ inDegree \in [Entities -> Nat]
    /\ work \in {"building", "sorting", "searching", "sorted", "cyclic", "searched"}
    /\ sortQueue \in Seq(Entities) /\ result \in Seq(Entities)

(* The counts are right, the queue holds the nodes that are free, and each  *)
(* node of the result comes after the nodes it depends on.                  *)
CountsAreRight == \A n \in Entities : inDegree[n] = Cardinality(Waits(n))

QueueIsFree ==
    work = "sorting" =>
        /\ NoRepeat(sortQueue)
        /\ \A n \in Entities :
              (\E k \in DOMAIN sortQueue : sortQueue[k] = n) <=>
                 (inDegree[n] = 0 /\ n \notin Taken)

ResultIsSorted ==
    /\ NoRepeat(result)
    /\ \A i \in DOMAIN result, d \in Entities :
          result[i] \in Graph!Dependents(d) => \E j \in DOMAIN result : j < i /\ result[j] = d

SortInv ==
    /\ work = "building" => result = <<>>
    /\ CountsAreRight /\ QueueIsFree /\ ResultIsSorted
    /\ work = "sorted" => Len(result) = Cardinality(Entities)
    /\ work = "cyclic" => Graph!Cyclic

LEMMA WaitsAreFinite ==
    ASSUME GraphFits, NEW n
    PROVE  IsFiniteSet(Waits(n)) /\ Cardinality(Waits(n)) \in 0..Cardinality(Entities)
<1>1. Waits(n) \in SUBSET Entities BY DEF Waits, Preds
<1> QED BY <1>1, FS_Subset, FS_CardinalityType DEF GraphFits

(* The graph only changes with its adjacency.                               *)
LEMMA GraphStays ==
    ASSUME UNCHANGED adjacency
    PROVE  /\ \A d : Graph!Dependents(d)' = Graph!Dependents(d)
           /\ \A n : Preds(n)' = Preds(n)
           /\ Graph!Edges' = Graph!Edges
           /\ \A c : Graph!IsCycle(c)' <=> Graph!IsCycle(c)
           /\ Graph!Cyclic' <=> Graph!Cyclic
<1>1. \A d : Graph!Dependents(d)' = Graph!Dependents(d)
  BY DEF Graph!Dependents
<1>2. \A n : Preds(n)' = Preds(n) BY <1>1 DEF Preds
<1>3. Graph!Edges' = Graph!Edges BY <1>1 DEF Graph!Edges
<1>4. \A c : Graph!IsCycle(c)' <=> Graph!IsCycle(c) BY <1>3 DEF Graph!IsCycle
<1>5. Graph!Cyclic' <=> Graph!Cyclic BY <1>3 DEF Graph!Cyclic, Graph!IsCycle
<1> QED BY <1>1, <1>2, <1>3, <1>4, <1>5

(* Steps that leave the graph, the counts and the result alone.             *)
LEMMA ResultStays ==
    ASSUME SortInv, UNCHANGED <<adjacency, inDegree, result>>
    PROVE  CountsAreRight' /\ ResultIsSorted'
<1>1. Taken' = Taken BY DEF Taken
<1>2. \A n : Waits(n)' = Waits(n) BY <1>1, GraphStays DEF Waits
<1>3. CountsAreRight' BY <1>2 DEF SortInv, CountsAreRight
<1>4. NoRepeat(result)' BY DEF SortInv, ResultIsSorted, NoRepeat
<1>5. ResultIsSorted' BY <1>4, GraphStays DEF SortInv, ResultIsSorted
<1> QED BY <1>3, <1>5

LEMMA SortInit == ASSUME GraphFits PROVE Graph!Init => GraphTypes /\ SortInv
<1> SUFFICES ASSUME Graph!Init PROVE GraphTypes /\ SortInv OBVIOUS
<1>1. \A n : Waits(n) = {}
  BY DEF Waits, Preds, Graph!Init, Graph!Dependents, Graph!ToSet
<1>2. CountsAreRight BY <1>1, FS_EmptySet DEF CountsAreRight, Graph!Init
<1>3. GraphTypes BY DEF GraphTypes, Graph!Init, NoRepeat
<1> QED
  BY <1>2, <1>3 DEF SortInv, QueueIsFree, ResultIsSorted, NoRepeat, Graph!Init

(* A new edge is one more node to wait for.                                 *)
LEMMA AddEdgeSorts ==
    ASSUME GraphFits, GraphTypes, SortInv, NEW a \in Entities, NEW b \in Entities,
           Graph!AddEdge(a, b)
    PROVE  GraphTypes' /\ SortInv'
<1>1. /\ work = "building" /\ result = <<>>
      /\ UNCHANGED <<work, sortQueue, result>>
  BY DEF Graph!AddEdge, Graph!sortVars, SortInv
<1>2. CASE b \in Graph!Dependents(a)
  <2>1. UNCHANGED <<adjacency, inDegree>> BY <1>2 DEF Graph!AddEdge
  <2>2. GraphTypes' BY <1>1, <2>1 DEF GraphTypes, NoRepeat
  <2> QED BY <1>1, <2>1, <2>2, ResultStays DEF SortInv, QueueIsFree
<1>3. CASE b \notin Graph!Dependents(a)
  <2>1. /\ adjacency' = [adjacency EXCEPT ![a] = Append(@, b)]
        /\ inDegree' = [inDegree EXCEPT ![b] = @ + 1]
    BY <1>3 DEF Graph!AddEdge
  <2>2. /\ adjacency' \in [Entities -> Seq(Entities)] /\ inDegree' \in [Entities -> Nat]
        /\ \A e \in Entities : adjacency'[e] = IF e = a THEN Append(adjacency[a], b)
                                               ELSE adjacency[e]
        /\ \A n \in Entities : inDegree'[n] = IF n = b THEN inDegree[n] + 1 ELSE inDegree[n]
    BY <2>1 DEF GraphTypes
  <2>3. adjacency[a] \in Seq(Entities) /\ \A i \in 1..Len(adjacency[a]) : adjacency[a][i] # b
    BY <1>3 DEF GraphTypes, Graph!Dependents, Graph!ToSet
  <2>4. \A e \in Entities : NoRepeat(adjacency[e])'
    <3>1. NoRepeat(adjacency[a]) BY DEF GraphTypes
    <3>2. NoRepeat(Append(adjacency[a], b)) BY <2>3, <3>1 DEF NoRepeat
    <3> QED BY <2>2, <3>2 DEF GraphTypes, NoRepeat
  <2>5. \A e \in Entities : Graph!Dependents(e)' =
          IF e = a THEN Graph!Dependents(e) \cup {b} ELSE Graph!Dependents(e)
    <3>1. {Append(adjacency[a], b)[i] : i \in DOMAIN Append(adjacency[a], b)} =
             {adjacency[a][i] : i \in DOMAIN adjacency[a]} \cup {b}
      <4>1. /\ Len(adjacency[a]) \in Nat /\ DOMAIN adjacency[a] = 1..Len(adjacency[a])
            /\ DOMAIN Append(adjacency[a], b) = 1..(Len(adjacency[a]) + 1)
            /\ \A i \in 1..Len(adjacency[a]) : Append(adjacency[a], b)[i] = adjacency[a][i]
            /\ Append(adjacency[a], b)[Len(adjacency[a]) + 1] = b
        BY <2>3
      <4> QED BY <4>1
    <3>2. Graph!Dependents(a)' = Graph!Dependents(a) \cup {b}
      BY <2>2, <3>1 DEF Graph!Dependents, Graph!ToSet
    <3>3. ASSUME NEW e \in Entities, e # a PROVE Graph!Dependents(e)' = Graph!Dependents(e)
      BY <2>2, <3>3 DEF Graph!Dependents
    <3> QED BY <3>2, <3>3
  <2>6. Taken = {} /\ Taken' = {} BY <1>1 DEF Taken
  <2>7. ASSUME NEW n \in Entities PROVE inDegree'[n] = Cardinality(Waits(n)')
    <3>1. CASE n = b
      <4>1. Waits(n)' = Waits(n) \cup {a} /\ a \notin Waits(n)
        BY <1>3, <2>5, <2>6, <3>1 DEF Waits, Preds
      <4>2. Cardinality(Waits(n) \cup {a}) = Cardinality(Waits(n)) + 1
        BY <4>1, WaitsAreFinite, FS_AddElement
      <4> QED BY <2>2, <3>1, <4>1, <4>2 DEF SortInv, CountsAreRight
    <3>2. CASE n # b
      <4>1. Waits(n)' = Waits(n) BY <2>5, <2>6, <3>2 DEF Waits, Preds
      <4> QED BY <2>2, <3>2, <4>1 DEF SortInv, CountsAreRight
    <3> QED BY <3>1, <3>2
  <2>8. GraphTypes' BY <1>1, <2>2, <2>4 DEF GraphTypes
  <2>9. CountsAreRight' BY <2>7 DEF CountsAreRight
  <2>10. QueueIsFree' /\ ResultIsSorted'
    BY <1>1 DEF QueueIsFree, ResultIsSorted, NoRepeat
  <2> QED BY <1>1, <2>8, <2>9, <2>10 DEF SortInv
<1> QED BY <1>2, <1>3

(* The elements of a set, each once.                                        *)
LEMMA OnceEach ==
    ASSUME GraphFits, NEW S \in SUBSET Entities, NEW s \in Graph!SetToSeqs(S)
    PROVE  s \in Seq(Entities) /\ NoRepeat(s) /\ {s[i] : i \in 1..Len(s)} = S
<1> DEFINE N == Cardinality(S)
<1>1. IsFiniteSet(S) /\ N \in Nat BY FS_Subset, FS_CardinalityType DEF GraphFits
<1>2. s \in [1..N -> S] /\ \A i, j \in 1..N : i # j => s[i] # s[j]
  BY GraphCardinality DEF Graph!SetToSeqs
<1> HIDE DEF N
<1>3. s \in Seq(Entities) /\ Len(s) = N BY <1>1, <1>2
<1>4. NoRepeat(s) BY <1>2, <1>3 DEF NoRepeat
<1>5. Cardinality({s[i] : i \in 1..Len(s)}) = Len(s)
  BY <1>3, <1>4, DistinctCount DEF NoRepeat
<1>6. {s[i] : i \in 1..Len(s)} \in SUBSET S BY <1>2, <1>3
<1>7. {s[i] : i \in 1..Len(s)} = S BY <1>1, <1>3, <1>5, <1>6, FS_Subset DEF N
<1> QED BY <1>3, <1>4, <1>7

LEMMA StartSortSorts ==
    ASSUME GraphFits, GraphTypes, SortInv, Graph!StartSort
    PROVE  GraphTypes' /\ SortInv'
<1> DEFINE S == {e \in Entities : inDegree[e] = 0}
<1>1. /\ work = "building" /\ work' = "sorting" /\ result = <<>>
      /\ sortQueue' \in Graph!SetToSeqs(S)
      /\ UNCHANGED <<adjacency, inDegree, result>>
  BY DEF Graph!StartSort, SortInv
<1>2. S \in SUBSET Entities OBVIOUS
<1> HIDE DEF S
<1>3. /\ sortQueue' \in Seq(Entities) /\ NoRepeat(sortQueue')
      /\ {sortQueue'[i] : i \in 1..Len(sortQueue')} = S
  BY <1>1, <1>2, OnceEach
<1>4. Taken = {} /\ Taken' = {} BY <1>1 DEF Taken
<1>5. QueueIsFree'
  <2>1. \A n \in Entities : (\E k \in DOMAIN sortQueue' : sortQueue'[k] = n) <=> inDegree'[n] = 0
    <3>1. DOMAIN sortQueue' = 1..Len(sortQueue') BY <1>3
    <3> QED BY <1>1, <1>3, <3>1 DEF S
  <2>2. NoRepeat(sortQueue)' BY <1>3 DEF NoRepeat
  <2> QED BY <1>4, <2>1, <2>2 DEF QueueIsFree
<1>6. CountsAreRight' /\ ResultIsSorted'
  BY <1>1, ResultStays
<1>7. GraphTypes' BY <1>1, <1>3 DEF GraphTypes, NoRepeat
<1> QED BY <1>1, <1>5, <1>6, <1>7 DEF SortInv

(* The head of the queue waits for nobody; its dependents wait for one less.*)
LEMMA TakeNodeSorts ==
    ASSUME GraphFits, GraphTypes, SortInv, Graph!TakeNode
    PROVE  GraphTypes' /\ SortInv'
<1> DEFINE e == Head(sortQueue)
           rest == Tail(sortQueue)
           F == Graph!Freed(e)
<1>1. /\ work = "sorting" /\ sortQueue # <<>> /\ UNCHANGED <<adjacency, work>>
      /\ inDegree' = [n \in Entities |-> IF n \in Graph!Dependents(e) THEN inDegree[n] - 1
                                         ELSE inDegree[n]]
      /\ result' = Append(result, e)
  BY DEF Graph!TakeNode, Graph!Consume
<1>2. PICK freed \in Graph!SetToSeqs(F) : sortQueue' = rest \o freed
  BY DEF Graph!TakeNode
<1>3. /\ sortQueue \in Seq(Entities) /\ result \in Seq(Entities)
      /\ adjacency \in [Entities -> Seq(Entities)] /\ inDegree \in [Entities -> Nat]
  BY DEF GraphTypes
<1>4. /\ e = sortQueue[1] /\ e \in Entities /\ 1 \in DOMAIN sortQueue
      /\ rest \in Seq(Entities) /\ Len(rest) = Len(sortQueue) - 1 /\ Len(sortQueue) \in Nat
      /\ \A k \in 1..Len(rest) : rest[k] = sortQueue[k + 1]
  BY <1>1, <1>3
<1>5. /\ F \subseteq Entities
      /\ \A n \in Entities : n \in F <=> n \in Graph!Dependents(e) /\ inDegree[n] = 1
  BY <1>3, <1>4 DEF Graph!Freed, Graph!Dependents, Graph!ToSet
<1> HIDE DEF e, rest, F
<1>6. inDegree[e] = 0 /\ e \notin Taken
  BY <1>1, <1>4 DEF SortInv, QueueIsFree
<1>7. Waits(e) = {}
  <2>1. Cardinality(Waits(e)) = 0 BY <1>4, <1>6 DEF SortInv, CountsAreRight
  <2> QED BY <2>1, WaitsAreFinite, FS_EmptySet
<1>8. Taken' = Taken \cup {e}
  <2>1. /\ Len(result) \in Nat /\ DOMAIN result = 1..Len(result)
        /\ DOMAIN result' = 1..(Len(result) + 1)
        /\ \A i \in 1..Len(result) : result'[i] = result[i]
        /\ result'[Len(result) + 1] = e
    BY <1>1, <1>3, <1>4
  <2> QED BY <2>1 DEF Taken
<1>9. \A n : Preds(n)' = Preds(n)
  BY <1>1 DEF Preds, Graph!Dependents, Graph!ToSet
<1>10. ASSUME NEW n \in Entities
       PROVE  inDegree'[n] \in Nat /\ inDegree'[n] = Cardinality(Waits(n)')
  <2>1. Waits(n)' = Waits(n) \ {e} BY <1>8, <1>9 DEF Waits
  <2>2. e \in Waits(n) <=> n \in Graph!Dependents(e)
    BY <1>4, <1>6 DEF Waits, Preds
  <2>3. Cardinality(Waits(n) \ {e}) =
          IF e \in Waits(n) THEN Cardinality(Waits(n)) - 1 ELSE Cardinality(Waits(n))
    BY WaitsAreFinite, FS_RemoveElement
  <2>4. inDegree'[n] = Cardinality(Waits(n)')
    BY <1>1, <2>1, <2>2, <2>3 DEF SortInv, CountsAreRight
  <2> QED BY <2>4, WaitsAreFinite, <2>1, FS_RemoveElement, FS_CardinalityType
<1>11. CountsAreRight' BY <1>10 DEF CountsAreRight
<1>12. /\ freed \in Seq(Entities) /\ NoRepeat(freed)
       /\ {freed[i] : i \in 1..Len(freed)} = F
  BY <1>2, <1>5, OnceEach
<1>13. /\ sortQueue' \in Seq(Entities) /\ Len(sortQueue') = Len(rest) + Len(freed)
       /\ \A k \in 1..Len(rest) : sortQueue'[k] = sortQueue[k + 1]
       /\ \A k \in 1..Len(freed) : sortQueue'[Len(rest) + k] = freed[k]
       /\ Len(rest) \in Nat /\ Len(freed) \in Nat
       /\ DOMAIN sortQueue' = 1..(Len(rest) + Len(freed))
  <2>1. Len(rest) \in Nat /\ Len(freed) \in Nat BY <1>4, <1>12
  <2>2. /\ rest \o freed \in Seq(Entities) /\ Len(rest \o freed) = Len(rest) + Len(freed)
        /\ \A k \in 1..(Len(rest) + Len(freed)) :
              (rest \o freed)[k] = IF k <= Len(rest) THEN rest[k] ELSE freed[k - Len(rest)]
    BY <1>4, <1>12, ConcatProperties
  <2>3. DOMAIN sortQueue' = 1..(Len(rest) + Len(freed)) BY <1>2, <2>1, <2>2
  <2>4. \A k \in 1..Len(rest) : sortQueue'[k] = sortQueue[k + 1]
    BY <1>2, <1>4, <2>1, <2>2
  <2>5. \A k \in 1..Len(freed) : sortQueue'[Len(rest) + k] = freed[k]
    <3> SUFFICES ASSUME NEW k \in 1..Len(freed) PROVE sortQueue'[Len(rest) + k] = freed[k]
      OBVIOUS
    <3>1. /\ Len(rest) + k \in 1..(Len(rest) + Len(freed)) /\ ~(Len(rest) + k <= Len(rest))
          /\ (Len(rest) + k) - Len(rest) = k
      BY <2>1
    <3> QED BY <1>2, <2>2, <3>1
  <2> QED BY <1>2, <2>1, <2>2, <2>3, <2>4, <2>5
<1>14. \A k \in 1..(Len(rest) + Len(freed)) :
          k \in 1..Len(rest) \/ (k - Len(rest) \in 1..Len(freed) /\ k = Len(rest) + (k - Len(rest)))
  BY <1>13
<1>15. \A k \in 1..Len(rest) : sortQueue[k + 1] # e /\ inDegree[sortQueue[k + 1]] = 0
                               /\ sortQueue[k + 1] \in Entities
  <2> SUFFICES ASSUME NEW k \in 1..Len(rest)
               PROVE  sortQueue[k + 1] # e /\ inDegree[sortQueue[k + 1]] = 0
                      /\ sortQueue[k + 1] \in Entities
    OBVIOUS
  <2>1. NoRepeat(sortQueue) BY <1>1 DEF SortInv, QueueIsFree
  <2>2. DOMAIN sortQueue = 1..Len(sortQueue) BY <1>3
  <2>3. k + 1 \in 1..Len(sortQueue) /\ 1 \in 1..Len(sortQueue) /\ k + 1 # 1 BY <1>4
  <2>4. sortQueue[k + 1] # e BY <1>4, <2>1, <2>3 DEF NoRepeat
  <2>5. sortQueue[k + 1] \in Entities BY <1>3, <2>3
  <2>6. inDegree[sortQueue[k + 1]] = 0
    BY <1>1, <2>2, <2>3, <2>5 DEF SortInv, QueueIsFree
  <2> QED BY <2>4, <2>5, <2>6
<1>16. \A k \in 1..Len(freed) : freed[k] \in F /\ freed[k] \in Entities /\ inDegree[freed[k]] = 1
  BY <1>5, <1>12
<1>17. NoRepeat(sortQueue')
  <2> SUFFICES ASSUME NEW i \in 1..(Len(rest) + Len(freed)),
                      NEW k \in 1..(Len(rest) + Len(freed)), sortQueue'[i] = sortQueue'[k]
               PROVE  i = k
    BY <1>13 DEF NoRepeat
  <2>1. NoRepeat(sortQueue) BY <1>1 DEF SortInv, QueueIsFree
  <2>2. CASE i \in 1..Len(rest) /\ k \in 1..Len(rest)
    BY <1>4, <1>13, <2>1, <2>2 DEF NoRepeat
  <2>3. CASE i \notin 1..Len(rest) /\ k \notin 1..Len(rest)
    <3>1. freed[i - Len(rest)] = freed[k - Len(rest)] BY <1>13, <1>14, <2>3
    <3> QED BY <1>12, <1>13, <1>14, <2>3, <3>1 DEF NoRepeat
  <2>4. CASE i \in 1..Len(rest) /\ k \notin 1..Len(rest)
    <3>1. inDegree[sortQueue'[i]] = 0 BY <1>13, <1>15, <2>4
    <3>2. k - Len(rest) \in 1..Len(freed) /\ k = Len(rest) + (k - Len(rest))
      BY <1>14, <2>4
    <3>3. sortQueue'[k] = freed[k - Len(rest)] BY <1>13, <3>2
    <3>4. inDegree[sortQueue'[k]] = 1 BY <1>16, <3>2, <3>3
    <3> QED BY <3>1, <3>4
  <2>5. CASE i \notin 1..Len(rest) /\ k \in 1..Len(rest)
    <3>1. inDegree[sortQueue'[k]] = 0 BY <1>13, <1>15, <2>5
    <3>2. i - Len(rest) \in 1..Len(freed) /\ i = Len(rest) + (i - Len(rest))
      BY <1>14, <2>5
    <3>3. sortQueue'[i] = freed[i - Len(rest)] BY <1>13, <3>2
    <3>4. inDegree[sortQueue'[i]] = 1 BY <1>16, <3>2, <3>3
    <3> QED BY <3>1, <3>4
  <2> QED BY <2>2, <2>3, <2>4, <2>5
<1>18. ASSUME NEW n \in Entities
       PROVE  (\E k \in DOMAIN sortQueue' : sortQueue'[k] = n) <=>
                 (inDegree'[n] = 0 /\ n \notin Taken')
  <2>1. (\E k \in DOMAIN sortQueue' : sortQueue'[k] = n) <=>
           (\E k \in 1..Len(rest) : sortQueue[k + 1] = n) \/ n \in F
    <3>1. n \in F <=> \E k \in 1..Len(freed) : freed[k] = n BY <1>12
    <3>2. ASSUME NEW k \in 1..Len(freed) PROVE Len(rest) + k \in DOMAIN sortQueue'
      BY <1>13
    <3>3. ASSUME NEW k \in 1..Len(rest) PROVE k \in DOMAIN sortQueue'
      BY <1>13
    <3>4. ASSUME NEW k \in DOMAIN sortQueue', sortQueue'[k] = n
          PROVE  (\E m \in 1..Len(rest) : sortQueue[m + 1] = n) \/ n \in F
      <4>1. CASE k \in 1..Len(rest) BY <1>13, <3>4, <4>1
      <4>2. CASE k \notin 1..Len(rest)
        <5>1. k - Len(rest) \in 1..Len(freed) /\ k = Len(rest) + (k - Len(rest))
          BY <1>13, <1>14, <4>2
        <5>2. sortQueue'[k] = freed[k - Len(rest)] BY <1>13, <5>1
        <5> QED BY <3>1, <3>4, <5>1, <5>2
      <4> QED BY <4>1, <4>2
    <3>5. ASSUME n \in F PROVE \E k \in DOMAIN sortQueue' : sortQueue'[k] = n
      BY <1>13, <3>1, <3>2, <3>5
    <3>6. ASSUME NEW k \in 1..Len(rest), sortQueue[k + 1] = n
          PROVE  \E m \in DOMAIN sortQueue' : sortQueue'[m] = n
      BY <1>13, <3>3, <3>6
    <3> QED BY <3>4, <3>5, <3>6
  <2>2. (\E k \in 1..Len(rest) : sortQueue[k + 1] = n) <=>
           (n # e /\ inDegree[n] = 0 /\ n \notin Taken)
    <3>1. (\E k \in DOMAIN sortQueue : sortQueue[k] = n) <=> (inDegree[n] = 0 /\ n \notin Taken)
      BY <1>1 DEF SortInv, QueueIsFree
    <3>2. \A k \in DOMAIN sortQueue : k = 1 \/ (k - 1 \in 1..Len(rest) /\ (k - 1) + 1 = k)
      <4>1. DOMAIN sortQueue = 1..Len(sortQueue) BY <1>3
      <4> QED BY <1>4, <4>1
    <3>3. \A k \in 1..Len(rest) : k + 1 \in DOMAIN sortQueue BY <1>3, <1>4
    <3> QED BY <1>4, <1>15, <3>1, <3>2, <3>3
  <2>3. n \in F => n \notin Taken /\ n # e
    <3>1. ASSUME n \in F, n \in Taken PROVE FALSE
      <4>1. PICK i \in DOMAIN result : result[i] = n BY <3>1 DEF Taken
      <4>2. n \in Graph!Dependents(e) BY <1>5, <3>1
      <4>3. PICK j \in DOMAIN result : result[j] = e
        BY <1>4, <4>1, <4>2 DEF SortInv, ResultIsSorted
      <4> QED BY <1>6, <4>3 DEF Taken
    <3> QED BY <1>5, <1>6, <3>1
  <2>4. inDegree'[n] = 0 <=> (n \in F \/ (inDegree[n] = 0 /\ n \notin Graph!Dependents(e)))
    <3>1. inDegree'[n] \in Nat /\ inDegree[n] \in Nat BY <1>3, <1>10
    <3> QED BY <1>1, <1>5, <3>1
  <2>5. inDegree[n] = 0 => n \notin Graph!Dependents(e)
    <3>1. inDegree'[n] \in Nat BY <1>10
    <3> QED BY <1>1, <3>1
  <2> QED BY <1>5, <1>8, <2>1, <2>2, <2>3, <2>4, <2>5
<1>19. QueueIsFree'
  <2>1. NoRepeat(sortQueue)' BY <1>17 DEF NoRepeat
  <2> QED BY <1>18, <2>1 DEF QueueIsFree
<1>20. ResultIsSorted'
  <2>1. /\ Len(result) \in Nat /\ DOMAIN result = 1..Len(result)
        /\ DOMAIN result' = 1..(Len(result) + 1) /\ Len(result') = Len(result) + 1
        /\ \A i \in 1..Len(result) : result'[i] = result[i]
        /\ result'[Len(result) + 1] = e
    BY <1>1, <1>3, <1>4
  <2>2. NoRepeat(result)'
    <3>1. \A i \in 1..Len(result) : result[i] # e BY <1>6, <2>1 DEF Taken
    <3> QED BY <2>1, <3>1 DEF SortInv, ResultIsSorted, NoRepeat
  <2>3. \A d : Graph!Dependents(d)' = Graph!Dependents(d)
    BY <1>1 DEF Graph!Dependents, Graph!ToSet
  <2>4. ASSUME NEW i \in DOMAIN result', NEW d \in Entities, result'[i] \in Graph!Dependents(d)
        PROVE  \E j \in DOMAIN result' : j < i /\ result'[j] = d
    <3>1. CASE i = Len(result) + 1
      <4>1. d \in Taken BY <1>7, <2>1, <2>4, <3>1 DEF Waits, Preds
      <4>2. PICK j \in DOMAIN result : result[j] = d BY <4>1 DEF Taken
      <4> QED BY <2>1, <3>1, <4>2
    <3>2. CASE i # Len(result) + 1
      <4>1. i \in DOMAIN result /\ result[i] = result'[i] BY <2>1, <3>2
      <4>2. PICK j \in DOMAIN result : j < i /\ result[j] = d
        BY <2>4, <4>1 DEF SortInv, ResultIsSorted
      <4> QED BY <2>1, <4>2
    <3> QED BY <3>1, <3>2
  <2> QED BY <2>2, <2>3, <2>4 DEF ResultIsSorted
<1>21. GraphTypes'
  <2>1. inDegree' \in [Entities -> Nat] BY <1>1, <1>10
  <2>2. result' \in Seq(Entities) BY <1>1, <1>3, <1>4
  <2> QED BY <1>1, <1>13, <2>1, <2>2 DEF GraphTypes, NoRepeat
<1> QED BY <1>1, <1>11, <1>19, <1>20, <1>21 DEF SortInv

(* The sort ends with every node, or the rest of them wait for one another. *)
LEMMA EndSortSorts ==
    ASSUME GraphFits, GraphTypes, SortInv, Graph!EndSort
    PROVE  GraphTypes' /\ SortInv'
<1>1. /\ work = "sorting" /\ sortQueue = <<>>
      /\ work' = IF Len(result) # Cardinality(Entities) THEN "cyclic" ELSE "sorted"
      /\ UNCHANGED <<adjacency, inDegree, sortQueue, result>>
  BY GraphCardinality DEF Graph!EndSort, Graph!sortVars
<1>2. ASSUME Len(result) # Cardinality(Entities) PROVE Graph!Cyclic
  <2> DEFINE S == Entities \ Taken
  <2>1. S # {}
    <3>1. Cardinality({result[i] : i \in 1..Len(result)}) = Len(result)
      BY DistinctCount DEF GraphTypes, SortInv, ResultIsSorted, NoRepeat
    <3>2. Taken = {result[i] : i \in 1..Len(result)} /\ Taken \subseteq Entities
      BY DEF Taken, GraphTypes
    <3> QED BY <1>2, <3>1, <3>2
  <2>2. ASSUME NEW e \in S PROVE \E d \in S : <<d, e>> \in Graph!Edges
    <3>1. inDegree[e] # 0 BY <1>1 DEF SortInv, QueueIsFree
    <3>2. Waits(e) # {}
      BY <3>1, FS_EmptySet DEF SortInv, CountsAreRight
    <3>3. PICK d \in Waits(e) : TRUE BY <3>2
    <3>4. d \in S /\ e \in Graph!Dependents(d) BY <3>3 DEF Waits, Preds
    <3> QED BY <3>4, EdgesAre
  <2> HIDE DEF S
  <2>3. Waiting(S) /\ S \in SUBSET Entities BY <2>1, <2>2 DEF Waiting, S
  <2> QED BY <2>3, WaitingIsCyclic
<1>3. Graph!Cyclic' <=> Graph!Cyclic BY <1>1, GraphStays
<1>4. GraphTypes' BY <1>1 DEF GraphTypes, NoRepeat
<1> QED BY <1>1, <1>2, <1>3, <1>4, ResultStays DEF SortInv, QueueIsFree

(* What the search knows: the nodes it is done with, which lead to nodes it *)
(* is done with, and of which none wait for one another while it has found  *)
(* no cycle.                                                                *)
PathNodes == {path[i].node : i \in DOMAIN path}
Finished  == visited \ PathNodes

SearchTypes ==
    /\ path \in Seq([node : Entities, next : Nat \ {0}])
    /\ visited \subseteq Entities /\ PathNodes \subseteq visited
    /\ work \notin {"searching", "searched"} => path = <<>> /\ visited = {} /\ cycles = {}
    /\ work = "searched" => path = <<>> /\ visited = Entities

\* A path leads from each node over its latest neighbour to the next one.
PathLeads ==
    /\ \A i, k \in DOMAIN path : path[i].node = path[k].node => i = k
    /\ \A i \in DOMAIN path : path[i].next <= Len(adjacency[path[i].node]) + 1
    /\ \A i \in DOMAIN path : i + 1 \in DOMAIN path =>
          /\ path[i].next > 1
          /\ adjacency[path[i].node][path[i].next - 1] = path[i + 1].node

NeighboursFinished ==
    \A i \in DOMAIN path : \A k \in 1..(path[i].next - 1) :
        k < path[i].next - 1 \/ i = Len(path) => adjacency[path[i].node][k] \in Finished

NoCycleYet ==
    cycles = {} =>
        /\ NeighboursFinished
        /\ \A e \in Finished : Graph!Dependents(e) \subseteq Finished
        /\ \A S \in SUBSET Finished : ~Waiting(S)

CyclesAreReal ==
    \A c \in cycles : c \in Seq(Entities) /\ c # <<>> /\ Graph!IsCycle(c)

SearchInv == SearchTypes /\ PathLeads /\ NoCycleYet /\ CyclesAreReal

LEMMA SearchInit == ASSUME GraphFits PROVE Graph!Init => SearchInv
<1> SUFFICES ASSUME Graph!Init PROVE SearchInv OBVIOUS
<1>1. path = <<>> /\ DOMAIN path = {} /\ visited = {} /\ cycles = {} /\ work = "building"
  BY DEF Graph!Init
<1>2. PathNodes = {} /\ Finished = {} BY <1>1 DEF PathNodes, Finished
<1> QED
  BY <1>1, <1>2
  DEF SearchInv, SearchTypes, PathLeads, NoCycleYet, NeighboursFinished, CyclesAreReal, Waiting

LEMMA SortingSearches ==
    ASSUME SearchInv, work \notin {"searching", "searched"}, UNCHANGED <<path, visited, cycles>>,
           work' \in {"building", "sorting", "sorted", "cyclic"}
    PROVE  SearchInv'
<1>1. path' = <<>> /\ visited' = {} /\ cycles' = {} BY DEF SearchInv, SearchTypes
<1>2. DOMAIN path' = {} BY <1>1
<1>3. PathNodes' = {} /\ Finished' = {} BY <1>1, <1>2 DEF PathNodes, Finished
<1> QED
  BY <1>1, <1>2, <1>3
  DEF SearchInv, SearchTypes, PathLeads, NoCycleYet, NeighboursFinished, CyclesAreReal, Waiting

(* A new root.                                                              *)
LEMMA StartSearchKeeps ==
    ASSUME GraphTypes, SearchInv, NEW e \in Entities, Graph!StartSearch(e)
    PROVE  SearchInv'
<1> DEFINE first == [node |-> e, next |-> 1]
<1>1. /\ path = <<>> /\ e \notin visited /\ work' = "searching"
      /\ path' = <<first>> /\ visited' = visited \cup {e}
      /\ UNCHANGED <<adjacency, cycles>>
  BY DEF Graph!StartSearch
<1>2. /\ DOMAIN path = {} /\ DOMAIN path' = {1} /\ path'[1] = first /\ Len(path') = 1
      /\ path' \in Seq([node : Entities, next : Nat \ {0}])
  BY <1>1
<1>3. first.node = e /\ first.next = 1 OBVIOUS
<1> HIDE DEF first
<1>4. PathNodes = {} /\ PathNodes' = {e} /\ Finished' = Finished
  BY <1>1, <1>2, <1>3 DEF PathNodes, Finished
<1>5. SearchTypes'
  BY <1>1, <1>2, <1>4 DEF SearchInv, SearchTypes
<1>6. PathLeads'
  <2>1. Len(adjacency'[e]) \in Nat BY <1>1 DEF GraphTypes
  <2> QED BY <1>2, <1>3, <2>1 DEF PathLeads
<1>7. NeighboursFinished'
  BY <1>2, <1>3 DEF NeighboursFinished
<1>8. NoCycleYet'
  BY <1>1, <1>4, <1>7, GraphStays DEF SearchInv, NoCycleYet, Waiting
<1>9. CyclesAreReal' BY <1>1, GraphStays DEF SearchInv, CyclesAreReal
<1> QED BY <1>5, <1>6, <1>8, <1>9 DEF SearchInv

(* The next neighbour of the last node.                                     *)
AtNeighbour ==
    /\ path # <<>> /\ Len(path) \in Nat \ {0} /\ DOMAIN path = 1..Len(path)
    /\ path[Len(path)].node \in Entities
    /\ path[Len(path)].next \in 1..Len(adjacency[path[Len(path)].node])

\* The last node has seen one neighbour more.
Moved(p) ==
    /\ p \in Seq([node : Entities, next : Nat \ {0}]) /\ Len(p) = Len(path)
    /\ DOMAIN p = 1..Len(path)
    /\ \A i \in 1..Len(path) : p[i].node = path[i].node
    /\ \A i \in 1..(Len(path) - 1) : p[i].next = path[i].next
    /\ p[Len(path)].next = path[Len(path)].next + 1

LEMMA AdvancedMoves ==
    ASSUME GraphTypes, SearchInv, path # <<>>,
           Graph!Top.next <= Len(adjacency[Graph!Top.node])
    PROVE  AtNeighbour /\ Moved(Graph!Advanced)
<1>1. path \in Seq([node : Entities, next : Nat \ {0}]) BY DEF SearchInv, SearchTypes
<1>2. Len(path) \in Nat \ {0} /\ DOMAIN path = 1..Len(path) BY <1>1
<1>3. path[Len(path)] \in [node : Entities, next : Nat \ {0}]
  <2>1. Len(path) \in 1..Len(path) BY <1>2
  <2> QED BY <1>1, <2>1, ElementOfSeq
<1>4. AtNeighbour
  <2>1. Len(adjacency[path[Len(path)].node]) \in Nat BY <1>3 DEF GraphTypes
  <2> QED BY <1>2, <1>3, <2>1 DEF AtNeighbour, Graph!Top
<1> DEFINE p == Graph!Advanced
<1>5. /\ p \in Seq([node : Entities, next : Nat \ {0}]) /\ Len(p) = Len(path)
      /\ DOMAIN p = 1..Len(path)
      /\ \A i \in 1..Len(path) : i # Len(path) => p[i] = path[i]
      /\ p[Len(path)] = [path[Len(path)] EXCEPT !.next = @ + 1]
  BY <1>1, <1>2, <1>3 DEF Graph!Advanced
<1> HIDE DEF p
<1>6. p[Len(path)].node = path[Len(path)].node /\ p[Len(path)].next = path[Len(path)].next + 1
  BY <1>3, <1>5
<1>7. \A i \in 1..(Len(path) - 1) : i \in 1..Len(path) /\ i # Len(path)
  <2> SUFFICES ASSUME NEW n \in Nat PROVE \A i \in 1..(n - 1) : i \in 1..n /\ i # n
    BY <1>2
  <2> QED OBVIOUS
<1>8. Moved(p) BY <1>5, <1>6, <1>7 DEF Moved
<1> QED BY <1>4, <1>8 DEF p

LEMMA FunctionIsSeq ==
    ASSUME NEW S, NEW m \in Nat, NEW c \in [1..m -> S]
    PROVE  c \in Seq(S) /\ Len(c) = m
OBVIOUS

(* A neighbour on the path closes a cycle.                                  *)
LEMMA PathIsCycle ==
    ASSUME GraphTypes, SearchInv, AtNeighbour, NEW n \in DOMAIN path,
           path[n].node = adjacency[path[Len(path)].node][path[Len(path)].next],
           NEW c, c = [i \in 1..(Len(path) - n + 1) |-> path[n + i - 1].node]
    PROVE  c \in Seq(Entities) /\ c # <<>> /\ Graph!IsCycle(c)
<1> DEFINE L == Len(path)
<1>1. /\ L \in Nat \ {0} /\ n \in 1..L /\ DOMAIN path = 1..L
      /\ \A i \in 1..L : path[i].node \in Entities /\ path[i].next \in Nat \ {0}
  <2>1. path \in Seq([node : Entities, next : Nat \ {0}]) BY DEF SearchInv, SearchTypes
  <2>2. L \in Nat \ {0} /\ DOMAIN path = 1..L BY DEF AtNeighbour
  <2>3. \A i \in 1..L : path[i] \in [node : Entities, next : Nat \ {0}]
    BY <2>1, ElementOfSeq
  <2> QED BY <2>2, <2>3
<1>2. /\ \A i \in 1..(L - 1) : path[i].next > 1
                               /\ adjacency[path[i].node][path[i].next - 1] = path[i + 1].node
      /\ \A i \in 1..L : path[i].next <= Len(adjacency[path[i].node]) + 1
  <2>1. \A i \in 1..(L - 1) : i \in DOMAIN path /\ i + 1 \in DOMAIN path BY <1>1
  <2> QED BY <1>1, <2>1 DEF SearchInv, PathLeads
<1>3. \A e \in Entities : \A k : k \in 1..Len(adjacency[e]) =>
         adjacency[e][k] \in Graph!Dependents(e) /\ adjacency[e][k] \in Entities
  <2> SUFFICES ASSUME NEW e \in Entities, NEW k \in 1..Len(adjacency[e])
               PROVE  adjacency[e][k] \in Graph!Dependents(e) /\ adjacency[e][k] \in Entities
    OBVIOUS
  <2>1. adjacency[e] \in Seq(Entities) BY DEF GraphTypes
  <2> QED BY <2>1 DEF Graph!Dependents, Graph!ToSet
<1>4. \A i \in 1..(L - 1) : <<path[i].node, path[i + 1].node>> \in Graph!Edges
  <2> SUFFICES ASSUME NEW i \in 1..(L - 1)
               PROVE  <<path[i].node, path[i + 1].node>> \in Graph!Edges
    OBVIOUS
  <2>1. i \in 1..L /\ path[i].node \in Entities BY <1>1
  <2>2. Len(adjacency[path[i].node]) \in Nat BY <2>1 DEF GraphTypes
  <2>3. path[i].next - 1 \in 1..Len(adjacency[path[i].node])
    BY <1>1, <1>2, <2>1, <2>2
  <2> QED BY <1>2, <1>3, <2>1, <2>3, EdgesAre
<1>5. <<path[L].node, path[n].node>> \in Graph!Edges
  BY <1>1, <1>3, EdgesAre DEF AtNeighbour
<1> DEFINE m == L - n + 1
<1>6. m \in Nat \ {0} BY <1>1
<1>7. \A i \in 1..m : n + i - 1 \in 1..L BY <1>1
<1>8. c \in [1..m -> Entities] /\ c \in Seq(Entities) /\ Len(c) = m /\ c # <<>>
      /\ \A i \in 1..m : c[i] = path[n + i - 1].node
  <2>1. c = [i \in 1..m |-> path[n + i - 1].node] OBVIOUS
  <2> HIDE DEF m, L
  <2>2. \A i \in 1..m : path[n + i - 1].node \in Entities BY <1>1, <1>7
  <2>3. c \in [1..m -> Entities] /\ \A i \in 1..m : c[i] = path[n + i - 1].node
    BY <2>1, <2>2
  <2>4. c \in Seq(Entities) /\ Len(c) = m BY <1>6, <2>3, FunctionIsSeq
  <2> QED BY <1>6, <2>3, <2>4
<1>9. Graph!IsCycle(c)
  <2> SUFFICES ASSUME NEW i \in 1..m
               PROVE  <<c[i], c[IF i = m THEN 1 ELSE i + 1]>> \in Graph!Edges
    BY <1>8 DEF Graph!IsCycle
  <2>1. CASE i = m
    <3>1. 1 \in 1..m /\ n + 1 - 1 = n /\ n + m - 1 = L BY <1>1, <1>6
    <3>2. c[1] = path[n].node /\ c[m] = path[L].node BY <1>6, <1>8, <3>1
    <3> QED BY <1>5, <2>1, <3>2
  <2>2. CASE i # m
    <3>1. i + 1 \in 1..m /\ n + i - 1 \in 1..(L - 1) /\ n + (i + 1) - 1 = (n + i - 1) + 1
      BY <1>1, <1>6, <2>2
    <3>2. c[i] = path[n + i - 1].node /\ c[i + 1] = path[(n + i - 1) + 1].node
      BY <1>8, <3>1
    <3> QED BY <1>4, <2>2, <3>1, <3>2
  <2> QED BY <2>1, <2>2
<1> QED BY <1>8, <1>9

(* The neighbour that dfs looks at.                                         *)
Neighbour == adjacency[path[Len(path)].node][path[Len(path)].next]

LEMMA MovedKeeps ==
    ASSUME GraphTypes, SearchInv, AtNeighbour, Moved(path'), work = "searching",
           UNCHANGED <<adjacency, work, visited>>
    PROVE  SearchTypes' /\ PathLeads' /\ PathNodes' = PathNodes /\ Finished' = Finished
<1> DEFINE L == Len(path)
<1>1. /\ L \in Nat \ {0} /\ Len(path') = L /\ DOMAIN path = 1..L /\ DOMAIN path' = 1..L
      /\ \A i \in 1..L : path'[i].node = path[i].node
      /\ \A i \in 1..(L - 1) : path'[i].next = path[i].next
      /\ path'[L].next = path[L].next + 1
  BY DEF AtNeighbour, Moved
<1>2. /\ path[L].node \in Entities
      /\ path[L].next \in 1..Len(adjacency[path[L].node])
  BY DEF AtNeighbour
<1>3. path' \in Seq([node : Entities, next : Nat \ {0}]) BY DEF Moved
<1> HIDE DEF L
<1>4. PathNodes' = PathNodes /\ Finished' = Finished
  BY <1>1 DEF PathNodes, Finished
<1>5. SearchTypes' BY <1>3, <1>4 DEF SearchInv, SearchTypes
<1>6. \A i \in 1..L : i = L \/ i \in 1..(L - 1) BY <1>1
<1>7. PathLeads'
  <2>1. \A i, k \in DOMAIN path' : path'[i].node = path'[k].node => i = k
    BY <1>1 DEF SearchInv, PathLeads
  <2>2. \A i \in DOMAIN path' : path'[i].next <= Len(adjacency'[path'[i].node]) + 1
    <3>1. Len(adjacency[path[L].node]) \in Nat BY <1>2 DEF GraphTypes
    <3>2. path'[L].next <= Len(adjacency[path'[L].node]) + 1
      <4>1. L \in 1..L BY <1>1
      <4> QED BY <1>1, <1>2, <3>1, <4>1
    <3>3. \A i \in 1..(L - 1) : i \in 1..L BY <1>1
    <3>4. \A i \in 1..(L - 1) : path'[i].next <= Len(adjacency[path'[i].node]) + 1
      BY <1>1, <3>3 DEF SearchInv, PathLeads
    <3> QED BY <1>1, <1>6, <3>2, <3>4
  <2>3. \A i \in DOMAIN path' : i + 1 \in DOMAIN path' =>
           /\ path'[i].next > 1
           /\ adjacency'[path'[i].node][path'[i].next - 1] = path'[i + 1].node
    <3>1. \A i \in 1..L : i + 1 \in 1..L => i \in 1..(L - 1) BY <1>1
    <3> QED BY <1>1, <3>1 DEF SearchInv, PathLeads
  <2> QED BY <2>1, <2>2, <2>3 DEF PathLeads
<1> QED BY <1>4, <1>5, <1>7

(* Three outcomes: a cycle, a node that is done with, a new node.           *)
LEMMA CycleFoundKeeps ==
    ASSUME GraphTypes, SearchInv, Graph!SearchNeighbour, Graph!OnPath(Neighbour) # {}
    PROVE  SearchInv'
<1>1. /\ work = "searching" /\ UNCHANGED <<adjacency, work, visited>>
      /\ cycles' = cycles \cup
            {[i \in 1..(Len(path) - n + 1) |-> path[n + i - 1].node] : n \in Graph!OnPath(Neighbour)}
      /\ path' = Graph!Advanced
  BY DEF Graph!SearchNeighbour, Graph!Top, Neighbour
<1>2. AtNeighbour /\ Moved(path')
  BY <1>1, AdvancedMoves DEF Graph!SearchNeighbour
<1>3. SearchTypes' /\ PathLeads' BY <1>1, <1>2, MovedKeeps
<1>4. cycles' # {} BY <1>1
<1>5. CyclesAreReal'
  <2> SUFFICES ASSUME NEW c \in cycles'
               PROVE  c \in Seq(Entities) /\ c # <<>> /\ Graph!IsCycle(c)
    BY <1>1, GraphStays DEF CyclesAreReal
  <2>1. CASE c \in cycles BY <2>1 DEF SearchInv, CyclesAreReal
  <2>2. CASE c \notin cycles
    <3>1. PICK n \in Graph!OnPath(Neighbour) :
             c = [i \in 1..(Len(path) - n + 1) |-> path[n + i - 1].node]
      BY <1>1, <2>2
    <3>2. n \in DOMAIN path /\ path[n].node = Neighbour BY <3>1 DEF Graph!OnPath
    <3> QED BY <1>2, <3>1, <3>2, PathIsCycle DEF Neighbour
  <2> QED BY <2>1, <2>2
<1> QED BY <1>3, <1>4, <1>5 DEF SearchInv, NoCycleYet

LEMMA KnownNodeKeeps ==
    ASSUME GraphTypes, SearchInv, Graph!SearchNeighbour, Graph!OnPath(Neighbour) = {},
           Neighbour \in visited
    PROVE  SearchInv'
<1>1. /\ work = "searching" /\ UNCHANGED <<adjacency, work, cycles>>
      /\ path' = Graph!Advanced /\ visited' = visited
  BY DEF Graph!SearchNeighbour, Graph!Top, Neighbour
<1>2. AtNeighbour /\ Moved(path')
  BY <1>1, AdvancedMoves DEF Graph!SearchNeighbour
<1>3. SearchTypes' /\ PathLeads' /\ Finished' = Finished BY <1>1, <1>2, MovedKeeps
<1>4. Neighbour \in Finished BY DEF Finished, PathNodes, Graph!OnPath
<1>5. CyclesAreReal' BY <1>1, GraphStays DEF SearchInv, CyclesAreReal
<1>6. ASSUME NeighboursFinished PROVE NeighboursFinished'
  <2> DEFINE L == Len(path)
  <2>1. /\ L \in Nat \ {0} /\ Len(path') = L /\ DOMAIN path = 1..L /\ DOMAIN path' = 1..L
        /\ \A i \in 1..L : path'[i].node = path[i].node
        /\ \A i \in 1..(L - 1) : path'[i].next = path[i].next
        /\ path'[L].next = path[L].next + 1 /\ path[L].next \in Nat
    BY <1>2 DEF AtNeighbour, Moved
  <2>2. adjacency[path[L].node][path[L].next] \in Finished BY <1>4 DEF Neighbour
  <2>3. \A i \in 1..L : \A k \in 1..(path[i].next - 1) :
           k < path[i].next - 1 \/ i = L => adjacency[path[i].node][k] \in Finished
    BY <1>6, <2>1 DEF NeighboursFinished
  <2> HIDE DEF L
  <2> SUFFICES ASSUME NEW i \in 1..L, NEW k \in 1..(path'[i].next - 1),
                      k < path'[i].next - 1 \/ i = L
               PROVE  adjacency[path[i].node][k] \in Finished
    BY <1>1, <1>3, <2>1 DEF NeighboursFinished
  <2>4. CASE i = L
    <3>1. k = path[L].next \/ k \in 1..(path[L].next - 1) BY <2>1, <2>4
    <3> QED BY <2>2, <2>3, <2>4, <3>1
  <2>5. CASE i # L
    <3>1. i \in 1..(L - 1) BY <2>1, <2>5
    <3> QED BY <2>1, <2>3, <2>5, <3>1
  <2> QED BY <2>4, <2>5
<1>7. NoCycleYet'
  BY <1>1, <1>3, <1>6, GraphStays DEF SearchInv, NoCycleYet, Waiting
<1> QED BY <1>3, <1>5, <1>7 DEF SearchInv

LEMMA NewNodeKeeps ==
    ASSUME GraphTypes, SearchInv, Graph!SearchNeighbour, Graph!OnPath(Neighbour) = {},
           Neighbour \notin visited
    PROVE  SearchInv'
<1> DEFINE p == Graph!Advanced
           e == Neighbour
           first == [node |-> e, next |-> 1]
           L == Len(path)
<1>1. /\ work = "searching" /\ UNCHANGED <<adjacency, work, cycles>>
      /\ path' = Append(p, first) /\ visited' = visited \cup {e}
  BY DEF Graph!SearchNeighbour, Graph!Top, Neighbour
<1>2. AtNeighbour /\ Moved(p)
  BY AdvancedMoves DEF Graph!SearchNeighbour
<1>3. /\ L \in Nat \ {0} /\ Len(p) = L /\ DOMAIN path = 1..L
      /\ p \in Seq([node : Entities, next : Nat \ {0}])
      /\ \A i \in 1..L : p[i].node = path[i].node
      /\ \A i \in 1..(L - 1) : p[i].next = path[i].next
      /\ p[L].next = path[L].next + 1
      /\ path[L].node \in Entities
      /\ path[L].next \in 1..Len(adjacency[path[L].node])
  BY <1>2 DEF AtNeighbour, Moved
<1>4. Len(adjacency[path[L].node]) \in Nat /\ e \in Entities
  <2>1. adjacency[path[L].node] \in Seq(Entities) BY <1>3 DEF GraphTypes
  <2> QED BY <1>3, <2>1, ElementOfSeq DEF Neighbour
<1>5. first \in [node : Entities, next : Nat \ {0}] /\ first.node = e /\ first.next = 1
  BY <1>4
<1>6. e = adjacency[path[L].node][path[L].next] BY DEF Neighbour
<1> HIDE DEF p, e, first, L
<1>7. /\ path' \in Seq([node : Entities, next : Nat \ {0}]) /\ Len(path') = L + 1
      /\ DOMAIN path' = 1..(L + 1) /\ path'[L + 1] = first
      /\ \A i \in 1..L : path'[i] = p[i]
  BY <1>1, <1>3, <1>5
<1>8. /\ \A i \in 1..L : path'[i].node = path[i].node
      /\ \A i \in 1..(L - 1) : path'[i].next = path[i].next
      /\ path'[L].next = path[L].next + 1
      /\ path'[L + 1].node = e /\ path'[L + 1].next = 1
  <2>1. L \in 1..L /\ \A i \in 1..(L - 1) : i \in 1..L BY <1>3
  <2> QED BY <1>3, <1>5, <1>7, <2>1
<1>9. \A i \in 1..(L + 1) : i = L + 1 \/ i \in 1..L BY <1>3
<1>10. \A i \in 1..L : i = L \/ i \in 1..(L - 1) BY <1>3
<1>11. \A i \in 1..L : i \in 1..(L + 1) /\ i # L + 1 BY <1>3
<1>12. L + 1 \in 1..(L + 1) BY <1>3
<1>13. PathNodes' = PathNodes \cup {e}
  <2>1. /\ PathNodes = {path[i].node : i \in 1..L}
        /\ PathNodes' = {path'[i].node : i \in 1..(L + 1)}
    BY <1>3, <1>7 DEF PathNodes
  <2>2. /\ \A i \in 1..L : path'[i].node = path[i].node
        /\ path'[L + 1].node = e
    BY <1>8
  <2> QED BY <1>9, <1>11, <1>12, <2>1, <2>2
<1>14. e \notin visited /\ e \notin PathNodes
  BY DEF PathNodes, Graph!OnPath, e
<1>15. Finished' = Finished BY <1>1, <1>13, <1>14 DEF Finished
<1>16. SearchTypes' BY <1>1, <1>4, <1>7, <1>13 DEF SearchInv, SearchTypes
<1>17. PathLeads'
  <2>1. ASSUME NEW i \in 1..(L + 1), NEW k \in 1..(L + 1), path'[i].node = path'[k].node
        PROVE  i = k
    <3>1. \A j \in 1..L : path'[j].node # e
      <4>1. DOMAIN path = 1..L /\ \A j \in 1..L : path'[j].node = path[j].node
        BY <1>3, <1>8
      <4>2. \A j \in 1..L : path[j].node \in PathNodes BY <4>1 DEF PathNodes
      <4> QED BY <1>14, <4>1, <4>2
    <3>2. CASE i \in 1..L /\ k \in 1..L BY <1>3, <1>8, <2>1, <3>2 DEF SearchInv, PathLeads
    <3>3. CASE i \notin 1..L \/ k \notin 1..L BY <1>8, <1>9, <2>1, <3>1, <3>3
    <3> QED BY <3>2, <3>3
  <2>2. ASSUME NEW i \in 1..(L + 1)
        PROVE  path'[i].next <= Len(adjacency[path'[i].node]) + 1
    <3>1. CASE i = L + 1
      <4>1. Len(adjacency[e]) \in Nat BY <1>4 DEF GraphTypes
      <4> QED BY <1>8, <3>1, <4>1
    <3>2. CASE i = L
      <4>1. L \in 1..L BY <1>3
      <4> QED BY <1>3, <1>4, <1>8, <3>2, <4>1
    <3>3. CASE i \in 1..(L - 1)
      <4>1. i \in 1..L BY <1>3, <3>3
      <4> QED BY <1>3, <1>8, <3>3, <4>1 DEF SearchInv, PathLeads
    <3> QED BY <1>9, <1>10, <3>1, <3>2, <3>3
  <2>3. ASSUME NEW i \in 1..(L + 1), i + 1 \in 1..(L + 1)
        PROVE  /\ path'[i].next > 1
               /\ adjacency[path'[i].node][path'[i].next - 1] = path'[i + 1].node
    <3>1. i \in 1..L BY <1>3, <2>3
    <3>2. CASE i = L
      <4>1. path[L].next \in Nat \ {0} BY <1>3, <1>4
      <4>2. (path[L].next + 1) - 1 = path[L].next /\ path[L].next + 1 > 1 BY <4>1
      <4> QED BY <1>6, <1>8, <3>1, <3>2, <4>2
    <3>3. CASE i \in 1..(L - 1)
      <4>1. i + 1 \in 1..L BY <1>3, <3>3
      <4> QED BY <1>3, <1>8, <3>1, <3>3, <4>1 DEF SearchInv, PathLeads
    <3> QED BY <1>10, <3>1, <3>2, <3>3
  <2> QED BY <1>1, <1>7, <2>1, <2>2, <2>3 DEF PathLeads
<1>18. ASSUME NeighboursFinished PROVE NeighboursFinished'
  <2>1. \A i \in 1..L : \A k \in 1..(path[i].next - 1) :
           k < path[i].next - 1 \/ i = L => adjacency[path[i].node][k] \in Finished
    BY <1>3, <1>18 DEF NeighboursFinished, L
  <2> SUFFICES ASSUME NEW i \in 1..(L + 1), NEW k \in 1..(path'[i].next - 1),
                      k < path'[i].next - 1 \/ i = L + 1
               PROVE  adjacency[path'[i].node][k] \in Finished
    BY <1>1, <1>7, <1>15 DEF NeighboursFinished
  <2>2. CASE i = L + 1 BY <1>8, <2>2
  <2>3. CASE i = L
    <3>1. path[L].next \in Nat /\ L \in 1..L BY <1>3, <1>4
    <3>2. L # L + 1 BY <1>3
    <3>3. k \in 1..(path[L].next - 1) BY <1>8, <2>3, <3>1, <3>2
    <3> QED BY <1>8, <2>1, <2>3, <3>1, <3>3
  <2>4. CASE i \in 1..(L - 1)
    <3>1. i \in 1..L /\ i # L + 1 BY <1>3, <2>4
    <3> QED BY <1>8, <2>1, <2>4, <3>1
  <2> QED BY <1>9, <1>10, <2>2, <2>3, <2>4
<1>19. NoCycleYet'
  BY <1>1, <1>15, <1>18, GraphStays DEF SearchInv, NoCycleYet, Waiting
<1>20. CyclesAreReal' BY <1>1, GraphStays DEF SearchInv, CyclesAreReal
<1> QED BY <1>16, <1>17, <1>19, <1>20 DEF SearchInv

(* Back from a node whose neighbours are all done with.                     *)
LEMMA BacktrackKeeps ==
    ASSUME GraphTypes, SearchInv, Graph!Backtrack
    PROVE  SearchInv'
<1> DEFINE L == Len(path)
           top == path[L].node
<1>1. /\ work = "searching" /\ path # <<>> /\ UNCHANGED <<adjacency, visited, cycles>>
      /\ path[L].next > Len(adjacency[top]) /\ path' = SubSeq(path, 1, L - 1)
      /\ work' = IF path' = <<>> /\ visited = Entities THEN "searched" ELSE work
  BY DEF Graph!Backtrack, Graph!Top, Graph!Front
<1>2. path \in Seq([node : Entities, next : Nat \ {0}]) BY DEF SearchInv, SearchTypes
<1>3. L \in Nat \ {0} /\ DOMAIN path = 1..L BY <1>1, <1>2
<1>4. /\ path' \in Seq([node : Entities, next : Nat \ {0}]) /\ Len(path') = L - 1
      /\ DOMAIN path' = 1..(L - 1) /\ \A i \in 1..(L - 1) : path'[i] = path[i]
  <2>1. L - 1 \in Nat /\ L - 1 <= L /\ \A i \in 1..(L - 1) : i \in 1..L BY <1>3
  <2> HIDE DEF L
  <2>2. \A i \in 1..(L - 1) : path[i] \in [node : Entities, next : Nat \ {0}]
    <3>1. \A i \in 1..Len(path) : path[i] \in [node : Entities, next : Nat \ {0}]
      BY <1>2, ElementOfSeq
    <3> QED BY <2>1, <3>1 DEF L
  <2>3. 1 \in Int /\ L - 1 \in Int BY <2>1
  <2>4. /\ SubSeq(path, 1, L - 1) \in Seq([node : Entities, next : Nat \ {0}])
        /\ Len(SubSeq(path, 1, L - 1)) = IF 1 <= L - 1 THEN (L - 1) - 1 + 1 ELSE 0
        /\ \A i \in 1..((L - 1) - 1 + 1) : SubSeq(path, 1, L - 1)[i] = path[1 + i - 1]
    BY <2>2, <2>3, SubSeqProperties
  <2>5. /\ (L - 1) - 1 + 1 = L - 1 /\ (~(1 <= L - 1) => L - 1 = 0)
        /\ \A i \in 1..(L - 1) : 1 + i - 1 = i
    BY <1>3
  <2>6. Len(path') = L - 1 BY <1>1, <2>4, <2>5
  <2>7. path' \in Seq([node : Entities, next : Nat \ {0}]) BY <1>1, <2>4
  <2>8. DOMAIN path' = 1..(L - 1) BY <2>6, <2>7
  <2> QED BY <1>1, <2>4, <2>5, <2>6, <2>7, <2>8
<1>5. \A i \in 1..L : path[i].node \in Entities /\ path[i].next \in Nat \ {0}
  <2>1. \A i \in 1..L : path[i] \in [node : Entities, next : Nat \ {0}]
    BY <1>2, ElementOfSeq
  <2> QED BY <2>1
<1>6. /\ L \in 1..L /\ top \in PathNodes /\ top \in Entities /\ top \in visited
      /\ \A i \in 1..(L - 1) : i \in 1..L /\ i # L
  <2>1. L \in 1..L /\ \A i \in 1..(L - 1) : i \in 1..L /\ i # L
    <3> SUFFICES ASSUME NEW n \in Nat \ {0}
                 PROVE  n \in 1..n /\ \A i \in 1..(n - 1) : i \in 1..n /\ i # n
      BY <1>3
    <3> QED OBVIOUS
  <2> QED BY <1>3, <1>5, <2>1 DEF PathNodes, SearchInv, SearchTypes
<1>7. /\ \A i, k \in 1..L : path[i].node = path[k].node => i = k
      /\ \A i \in 1..L : path[i].next <= Len(adjacency[path[i].node]) + 1
      /\ \A i \in 1..L : i + 1 \in 1..L =>
            path[i].next > 1 /\ adjacency[path[i].node][path[i].next - 1] = path[i + 1].node
  BY <1>3 DEF SearchInv, PathLeads
<1>8. adjacency[top] \in Seq(Entities) BY <1>6 DEF GraphTypes
<1>9. path[L].next = Len(adjacency[top]) + 1
  <2>1. Len(adjacency[top]) \in Nat /\ path[L].next \in Nat BY <1>5, <1>6, <1>8
  <2>2. path[L].next <= Len(adjacency[top]) + 1 BY <1>6, <1>7
  <2> QED BY <1>1, <2>1, <2>2
<1> HIDE DEF top, L
<1>10. top = path[L].node BY DEF top
<1>11. \A i \in 1..L : i = L \/ i \in 1..(L - 1) BY <1>3
<1>12. PathNodes' = PathNodes \ {top}
  <2>1. /\ PathNodes = {path[i].node : i \in 1..L}
        /\ PathNodes' = {path[i].node : i \in 1..(L - 1)}
    BY <1>3, <1>4 DEF PathNodes
  <2>2. \A i \in 1..(L - 1) : path[i].node # top BY <1>6, <1>7, <1>10
  <2> QED BY <1>6, <1>10, <1>11, <2>1, <2>2
<1>13. Finished' = Finished \cup {top} /\ top \notin Finished
  BY <1>1, <1>6, <1>12 DEF Finished
<1>14. SearchTypes'
  BY <1>1, <1>4, <1>12 DEF SearchInv, SearchTypes
<1>15. PathLeads'
  <2>1. \A i \in 1..(L - 1) : i + 1 \in 1..(L - 1) => i + 1 \in 1..L BY <1>3
  <2>2. \A i, k \in DOMAIN path' : path'[i].node = path'[k].node => i = k
    BY <1>4, <1>6, <1>7
  <2>3. \A i \in DOMAIN path' : path'[i].next <= Len(adjacency'[path'[i].node]) + 1
    BY <1>1, <1>4, <1>6, <1>7
  <2>4. \A i \in DOMAIN path' : i + 1 \in DOMAIN path' =>
           /\ path'[i].next > 1
           /\ adjacency'[path'[i].node][path'[i].next - 1] = path'[i + 1].node
    <3> SUFFICES ASSUME NEW i \in 1..(L - 1), i + 1 \in 1..(L - 1)
                 PROVE  /\ path[i].next > 1
                        /\ adjacency[path[i].node][path[i].next - 1] = path[i + 1].node
      BY <1>1, <1>4
    <3>1. i \in 1..L /\ i + 1 \in 1..L BY <1>6, <2>1
    <3> QED BY <1>7, <3>1
  <2> QED BY <2>2, <2>3, <2>4 DEF PathLeads
<1>16. CyclesAreReal' BY <1>1, GraphStays DEF SearchInv, CyclesAreReal
<1>17. ASSUME NeighboursFinished PROVE Graph!Dependents(top) \subseteq Finished
  <2> SUFFICES ASSUME NEW k \in DOMAIN adjacency[top] PROVE adjacency[top][k] \in Finished
    BY DEF Graph!Dependents, Graph!ToSet
  <2>1. k \in 1..(path[L].next - 1)
    <3>1. Len(adjacency[top]) \in Nat /\ DOMAIN adjacency[top] = 1..Len(adjacency[top])
      BY <1>8
    <3> QED BY <1>9, <3>1
  <2>2. L \in DOMAIN path /\ L = Len(path) BY <1>3, <1>6 DEF L
  <2> QED BY <1>10, <1>17, <2>1, <2>2 DEF NeighboursFinished
<1>18. ASSUME NeighboursFinished PROVE NeighboursFinished'
  <2>1. \A i \in 1..L : \A k \in 1..(path[i].next - 1) :
           k < path[i].next - 1 => adjacency[path[i].node][k] \in Finished
    BY <1>3, <1>18 DEF NeighboursFinished
  <2> SUFFICES ASSUME NEW i \in 1..(L - 1), NEW k \in 1..(path[i].next - 1),
                      k < path[i].next - 1 \/ i = L - 1
               PROVE  adjacency[path[i].node][k] \in Finished'
    BY <1>1, <1>4 DEF NeighboursFinished
  <2>2. CASE k < path[i].next - 1 BY <1>6, <1>13, <2>1, <2>2
  <2>3. CASE ~(k < path[i].next - 1)
    <3>1. path[i].next \in Nat \ {0} BY <1>5, <1>6
    <3>2. k = path[i].next - 1 BY <2>3, <3>1
    <3>3. i = L - 1 /\ i + 1 = L BY <1>3, <2>3
    <3>4. adjacency[path[i].node][k] = top BY <1>6, <1>7, <1>10, <3>2, <3>3
    <3> QED BY <1>13, <3>4
  <2> QED BY <2>2, <2>3
<1>19. ASSUME cycles = {} PROVE /\ \A e \in Finished' : Graph!Dependents(e) \subseteq Finished'
                                /\ \A S \in SUBSET Finished' : ~Waiting(S)
  <2>1. /\ NeighboursFinished /\ \A e \in Finished : Graph!Dependents(e) \subseteq Finished
        /\ \A S \in SUBSET Finished : ~Waiting(S)
    BY <1>19 DEF SearchInv, NoCycleYet
  <2>2. Graph!Dependents(top) \subseteq Finished BY <1>17, <2>1
  <2>3. ASSUME NEW S \in SUBSET Finished', Waiting(S) PROVE FALSE
    <3>1. top \in S BY <1>13, <2>1, <2>3
    <3>2. PICK d \in S : <<d, top>> \in Graph!Edges BY <2>3, <3>1 DEF Waiting
    <3>3. top \in Graph!Dependents(d) BY <3>2, EdgesAre
    <3> QED BY <1>13, <2>1, <2>2, <3>3
  <2> QED BY <1>13, <2>1, <2>2, <2>3
<1>20. NoCycleYet'
  BY <1>1, <1>18, <1>19, GraphStays DEF SearchInv, NoCycleYet, Waiting
<1> QED BY <1>14, <1>15, <1>16, <1>20 DEF SearchInv

(* Each step of the graph keeps what the two algorithms know.               *)
GraphInv == GraphTypes /\ SortInv /\ SearchInv

LEMMA SearchingSorts ==
    ASSUME GraphTypes, SortInv, UNCHANGED <<adjacency, inDegree, sortQueue, result>>,
           work' \in {"searching", "searched"}
    PROVE  GraphTypes' /\ SortInv'
<1>1. GraphTypes' BY DEF GraphTypes, NoRepeat
<1> QED BY <1>1, ResultStays DEF SortInv, QueueIsFree

LEMMA GraphKeeps ==
    ASSUME GraphFits, GraphInv, [Graph!Next]_(Graph!graphVars)
    PROVE  GraphInv'
<1> USE DEF GraphInv
<1>1. ASSUME NEW a \in Entities, NEW b \in Entities, Graph!AddEdge(a, b) PROVE GraphInv'
  <2>1. GraphTypes' /\ SortInv' BY <1>1, AddEdgeSorts
  <2>2. work = "building" /\ UNCHANGED <<work, path, visited, cycles>>
    BY <1>1 DEF Graph!AddEdge, Graph!searchVars
  <2> QED BY <2>1, <2>2, SortingSearches
<1>2. ASSUME Graph!StartSort PROVE GraphInv'
  <2>1. GraphTypes' /\ SortInv' BY <1>2, StartSortSorts
  <2>2. work = "building" /\ work' = "sorting" /\ UNCHANGED <<path, visited, cycles>>
    BY <1>2 DEF Graph!StartSort, Graph!searchVars
  <2> QED BY <2>1, <2>2, SortingSearches
<1>3. ASSUME Graph!TakeNode PROVE GraphInv'
  <2>1. GraphTypes' /\ SortInv' BY <1>3, TakeNodeSorts
  <2>2. work = "sorting" /\ UNCHANGED <<work, path, visited, cycles>>
    BY <1>3 DEF Graph!TakeNode, Graph!searchVars
  <2> QED BY <2>1, <2>2, SortingSearches
<1>4. ASSUME Graph!EndSort PROVE GraphInv'
  <2>1. GraphTypes' /\ SortInv' BY <1>4, EndSortSorts
  <2>2. /\ work = "sorting" /\ work' \in {"cyclic", "sorted"}
        /\ UNCHANGED <<path, visited, cycles>>
    BY <1>4 DEF Graph!EndSort, Graph!searchVars
  <2> QED BY <2>1, <2>2, SortingSearches
<1>5. ASSUME NEW e \in Entities, Graph!StartSearch(e) PROVE GraphInv'
  <2>1. work' = "searching" /\ UNCHANGED <<adjacency, inDegree, sortQueue, result>>
    BY <1>5 DEF Graph!StartSearch, Graph!sortVars
  <2> QED BY <1>5, <2>1, SearchingSorts, StartSearchKeeps
<1>6. ASSUME Graph!SearchNeighbour PROVE GraphInv'
  <2>1. work' = "searching" /\ UNCHANGED <<adjacency, inDegree, sortQueue, result>>
    BY <1>6 DEF Graph!SearchNeighbour, Graph!sortVars
  <2>2. SearchInv' BY <1>6, CycleFoundKeeps, KnownNodeKeeps, NewNodeKeeps
  <2> QED BY <2>1, <2>2, SearchingSorts
<1>7. ASSUME Graph!Backtrack PROVE GraphInv'
  <2>1. /\ work' \in {"searching", "searched"}
        /\ UNCHANGED <<adjacency, inDegree, sortQueue, result>>
    BY <1>7 DEF Graph!Backtrack, Graph!sortVars
  <2> QED BY <1>7, <2>1, SearchingSorts, BacktrackKeeps
<1>8. ASSUME UNCHANGED Graph!graphVars PROVE GraphInv'
  <2>1. UNCHANGED <<adjacency, inDegree, work, sortQueue, result, path, visited, cycles>>
    BY <1>8 DEF Graph!graphVars
  <2>2. GraphTypes' /\ SortInv'
    <3>1. GraphTypes' BY <2>1 DEF GraphTypes, NoRepeat
    <3> QED BY <2>1, <3>1, ResultStays, GraphStays DEF SortInv, QueueIsFree, NoRepeat, Taken
  <2>3. PathNodes' = PathNodes /\ Finished' = Finished BY <2>1 DEF PathNodes, Finished
  <2>4. SearchTypes' /\ PathLeads' /\ CyclesAreReal'
    BY <2>1, <2>3, GraphStays DEF SearchInv, SearchTypes, PathLeads, CyclesAreReal
  <2>5. NoCycleYet'
    BY <2>1, <2>3, GraphStays DEF SearchInv, NoCycleYet, NeighboursFinished, Waiting
  <2> QED BY <2>2, <2>4, <2>5 DEF SearchInv
<1> QED BY <1>1, <1>2, <1>3, <1>4, <1>5, <1>6, <1>7, <1>8 DEF Graph!Next

(* What the answers follow from.                                            *)
LEMMA SortedIsPlan ==
    ASSUME GraphFits, GraphTypes, SortInv, work = "sorted"
    PROVE  /\ ~Graph!Cyclic /\ Graph!ValidPlan(result)
           /\ Graph!ToSet(result) = Entities /\ Len(result) = Cardinality(Entities)
<1>1. /\ result \in Seq(Entities) /\ NoRepeat(result) /\ Len(result) = Cardinality(Entities)
      /\ Len(result) \in Nat /\ DOMAIN result = 1..Len(result)
      /\ \A i \in DOMAIN result, d \in Entities :
            result[i] \in Graph!Dependents(d) => \E j \in DOMAIN result : j < i /\ result[j] = d
  BY DEF GraphTypes, SortInv, ResultIsSorted
<1>2. {result[i] : i \in 1..Len(result)} = Entities
  <2> DEFINE T == {result[i] : i \in 1..Len(result)}
  <2>1. T \in SUBSET Entities BY <1>1, ElementOfSeq
  <2>2. Cardinality(T) = Cardinality(Entities) BY <1>1, DistinctCount DEF NoRepeat
  <2> HIDE DEF T
  <2>3. T = Entities BY <2>1, <2>2, FS_Subset DEF GraphFits
  <2> QED BY <2>3 DEF T
<1>3. Graph!ToSet(result) = Entities BY <1>1, <1>2 DEF Graph!ToSet
<1>4. ASSUME NEW S \in SUBSET Entities, Waiting(S) PROVE FALSE
  <2> DEFINE P == {i \in 1..Len(result) : result[i] \in S}
  <2>1. P # {} BY <1>2, <1>4 DEF Waiting
  <2>2. P \in SUBSET Nat OBVIOUS
  <2>3. PICK i \in P : \A k \in P : ~(k < i)
    <3> HIDE DEF P
    <3> QED BY <2>1, <2>2, LeastPlace
  <2>4. PICK d \in S : <<d, result[i]>> \in Graph!Edges BY <1>4, <2>3 DEF Waiting
  <2>5. PICK j \in DOMAIN result : j < i /\ result[j] = d
    BY <1>1, <2>3, <2>4, EdgesAre
  <2> QED BY <1>1, <2>3, <2>4, <2>5
<1>5. Graph!ValidPlan(result)
  <2> SUFFICES ASSUME NEW i \in DOMAIN result, NEW d \in Entities,
                      result[i] \in Graph!Dependents(d)
               PROVE  Graph!FirstIndex(result, d) < i
    BY <1>3 DEF Graph!ValidPlan
  <2>1. PICK j \in DOMAIN result : j < i /\ result[j] = d BY <1>1
  <2> DEFINE First(m) == result[m] = d /\ \A k \in 1..(m - 1) : result[k] # d
  <2>2. First(j)
    <3>1. \A k \in 1..(j - 1) : k \in 1..Len(result) /\ k # j BY <1>1, <2>1
    <3> QED BY <1>1, <2>1, <3>1 DEF NoRepeat
  <2>3. Graph!FirstIndex(result, d) = CHOOSE m \in DOMAIN result : First(m)
    BY DEF Graph!FirstIndex
  <2> HIDE DEF First
  <2>4. Graph!FirstIndex(result, d) \in DOMAIN result /\ First(Graph!FirstIndex(result, d))
    BY <2>1, <2>2, <2>3
  <2>5. Graph!FirstIndex(result, d) = j
    BY <1>1, <2>1, <2>4 DEF First, NoRepeat
  <2> QED BY <2>1, <2>5
<1> QED BY <1>1, <1>3, <1>4, <1>5, CyclicIsWaiting

LEMMA SearchFindsCycles ==
    ASSUME GraphFits, SearchInv, work = "searched"
    PROVE  cycles # {} <=> Graph!Cyclic
<1>1. Finished = Entities /\ DOMAIN path = {}
  <2>1. DOMAIN path = {} BY DEF SearchInv, SearchTypes
  <2>2. PathNodes = {} BY <2>1 DEF PathNodes
  <2> QED BY <2>1, <2>2 DEF Finished, SearchInv, SearchTypes
<1>2. ASSUME cycles = {} PROVE ~Graph!Cyclic
  BY <1>1, <1>2, CyclicIsWaiting DEF SearchInv, NoCycleYet
<1>3. ASSUME cycles # {} PROVE Graph!Cyclic
  <2>1. PICK c \in cycles : c \in Seq(Entities) /\ c # <<>> /\ Graph!IsCycle(c)
    BY <1>3 DEF SearchInv, CyclesAreReal
  <2>2. Len(c) \in Nat \ {0} /\ c \in [1..Len(c) -> Entities] BY <2>1
  <2>3. Waiting({c[i] : i \in 1..Len(c)}) BY <2>1, <2>2, CycleWaits
  <2>4. {c[i] : i \in 1..Len(c)} \in SUBSET Entities BY <2>2
  <2> QED BY <2>3, <2>4, WaitingIsCyclic
<1> QED BY <1>2, <1>3

(* The sort lists every entity once with its dependencies before it, or     *)
(* rightly reports a cycle; the search reports real cycles, and one at      *)
(* least when there is any (sync/dependency.py): for every graph, however   *)
(* its edges were added.                                                    *)
THEOREM PlansAreRight ==
    ASSUME GraphFits
    PROVE  Spec => []AnswersAreRight
<1>1. Graph!Init => GraphInv BY SortInit, SearchInit DEF GraphInv
<1>2. GraphInv /\ [Graph!Next]_(Graph!graphVars) => GraphInv' BY GraphKeeps
<1>3. GraphInv => AnswersAreRight
  BY SortedIsPlan, SearchFindsCycles, GraphCardinality
  DEF GraphInv, SortInv, SearchInv, CyclesAreReal, AnswersAreRight, Graph!AnswersAreRight
<1> QED BY <1>1, <1>2, <1>3, GraphRuns, PTL DEF Graph!Spec

(* The dependency graph: a node has no more dependents than there are nodes.*)
LEMMA GraphTypesKept == ASSUME GraphFits PROVE Spec => []Graph!TypeOK
<1>1. ASSUME GraphInv PROVE Graph!TypeOK
  <2>1. Cardinality(Entities) \in Nat BY FS_CardinalityType DEF GraphFits
  <2>2. inDegree \in [Entities -> 0..Cardinality(Entities)]
    BY <1>1, WaitsAreFinite DEF GraphInv, GraphTypes, SortInv, CountsAreRight
  <2>3. ASSUME NEW e \in Entities
        PROVE  Len(adjacency[e]) \in Nat /\ Len(adjacency[e]) <= Cardinality(Entities)
    <3>1. adjacency[e] \in Seq(Entities) /\ NoRepeat(adjacency[e])
      BY <1>1 DEF GraphInv, GraphTypes
    <3> DEFINE T == {adjacency[e][i] : i \in 1..Len(adjacency[e])}
    <3>2. Cardinality(T) = Len(adjacency[e]) BY <3>1, DistinctCount DEF NoRepeat
    <3>3. T \in SUBSET Entities BY <3>1, ElementOfSeq
    <3> HIDE DEF T
    <3>4. Cardinality(T) <= Cardinality(Entities) BY <3>3, FS_Subset DEF GraphFits
    <3> QED BY <3>1, <3>2, <3>4
  <2>4. path \in Seq([node : Entities, next : 1..(Cardinality(Entities) + 1)])
    <3>1. path \in Seq([node : Entities, next : Nat \ {0}]) /\ DOMAIN path = 1..Len(path)
          /\ Len(path) \in Nat
      BY <1>1 DEF GraphInv, SearchInv, SearchTypes
    <3>2. ASSUME NEW i \in 1..Len(path)
          PROVE  path[i] \in [node : Entities, next : 1..(Cardinality(Entities) + 1)]
      <4>1. path[i] \in [node : Entities, next : Nat \ {0}] BY <3>1, ElementOfSeq
      <4>2. path[i].next <= Len(adjacency[path[i].node]) + 1
        BY <1>1, <3>1 DEF GraphInv, SearchInv, PathLeads
      <4>3. path[i].next \in 1..(Cardinality(Entities) + 1)
        BY <2>1, <2>3, <4>1, <4>2
      <4> QED BY <4>1, <4>3
    <3>3. path \in [1..Len(path) -> [node : Entities, next : 1..(Cardinality(Entities) + 1)]]
      <4>1. path = [i \in 1..Len(path) |-> path[i]] BY <3>1
      <4> QED BY <3>2, <4>1
    <3> QED BY <3>1, <3>3, FunctionIsSeq
  <2> QED
    BY <1>1, <2>2, <2>4, GraphCardinality
    DEF Graph!TypeOK, GraphInv, GraphTypes, SearchInv, SearchTypes
<1>2. Graph!Init => GraphInv BY SortInit, SearchInit DEF GraphInv
<1>3. GraphInv /\ [Graph!Next]_(Graph!graphVars) => GraphInv' BY GraphKeeps
<1>4. GraphInv => Graph!TypeOK BY <1>1
<1> QED BY <1>2, <1>3, <1>4, GraphRuns, PTL DEF Graph!Spec
=============================================================================
