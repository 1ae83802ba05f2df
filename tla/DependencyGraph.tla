--------------------------- MODULE DependencyGraph -------------------------
(***************************************************************************)
(* The dependency graph of the entity types (sync/dependency.py): edges    *)
(* are added one by one, then topological_sort runs Kahn's algorithm, or   *)
(* find_cycles searches depth first.  Nodes of a Python set are visited in *)
(* any order; the neighbours of a node in the order they were added.       *)
(***************************************************************************)
EXTENDS Integers, Sequences, SequencesExt, FiniteSets

CONSTANTS Entities,  \* the entity types of the graph
          MaxEdges   \* bound on the edges

VARIABLES adjacency,  \* _adjacency: the dependents of each node, in order
          inDegree,   \* _in_degree, consumed by the sort
          work,       \* building, sorting, searching, sorted, cyclic, searched
          queue,      \* the sort's deque
          result,     \* the sort's answer
          path,       \* the search's path, with the next neighbour of each
          visited, cycles

graphVars == <<adjacency, inDegree, work, queue, result, path, visited, cycles>>
sortVars == <<queue, result>>
searchVars == <<path, visited, cycles>>

Init ==
  /\ adjacency = [e \in Entities |-> <<>>]
  /\ inDegree = [e \in Entities |-> 0]
  /\ work = "building" /\ queue = <<>> /\ result = <<>>
  /\ path = <<>> /\ visited = {} /\ cycles = {}

Dependents(e) == ToSet(adjacency[e])

Edges == {e \in Entities \X Entities : e[2] \in Dependents(e[1])}

\* mutant of AddEdge: a duplicate edge counts again
AddEdgeTwice(from, to) ==
  /\ work = "building" /\ Cardinality(Edges) < MaxEdges
  /\ inDegree[to] < Cardinality(Entities)
  /\ adjacency' = IF to \in Dependents(from) THEN adjacency
                  ELSE [adjacency EXCEPT ![from] = Append(@, to)]
  /\ inDegree' = [inDegree EXCEPT ![to] = @ + 1]
  /\ UNCHANGED <<work, sortVars, searchVars>>

(* add_edge: a duplicate edge changes nothing.                             *)
AddEdge(from, to) ==
  /\ work = "building" /\ Cardinality(Edges) < MaxEdges
  /\ IF to \in Dependents(from) THEN UNCHANGED <<adjacency, inDegree>>
     ELSE /\ adjacency' = [adjacency EXCEPT ![from] = Append(@, to)]
          /\ inDegree' = [inDegree EXCEPT ![to] = @ + 1]
  /\ UNCHANGED <<work, sortVars, searchVars>>

(* topological_sort starts from the nodes without dependencies.            *)
StartSort ==
  /\ work = "building" /\ work' = "sorting"
  /\ queue' \in SetToSeqs({e \in Entities : inDegree[e] = 0})
  /\ UNCHANGED <<adjacency, inDegree, result, searchVars>>

(* One turn of the loop: the head of the queue joins the result and frees  *)
(* its dependents.                                                         *)
Consume(e) == [n \in Entities |-> IF n \in Dependents(e) THEN inDegree[n] - 1
                                  ELSE inDegree[n]]

Freed(e) == {n \in Dependents(e) : inDegree[n] = 1}

\* Nodes in the order of the neighbours of e.
InOrder(s, e) ==
  \A i, j \in DOMAIN adjacency[e], k, m \in DOMAIN s :
     adjacency[e][i] = s[k] /\ adjacency[e][j] = s[m] /\ i < j => k < m

TakeNode ==
  LET e == Head(queue)
  IN  /\ work = "sorting" /\ queue # <<>>
      /\ inDegree' = Consume(e)
      /\ \E freed \in SetToSeqs(Freed(e)) :
           InOrder(freed, e) /\ queue' = Tail(queue) \o freed
      /\ result' = Append(result, e)
      /\ UNCHANGED <<adjacency, work, searchVars>>

(* The loop ends: fewer nodes than the graph has means a cycle.            *)
EndSort ==
  /\ work = "sorting" /\ queue = <<>>
  /\ work' = IF Len(result) # Cardinality(Entities) THEN "cyclic" ELSE "sorted"
  /\ UNCHANGED <<adjacency, inDegree, sortVars, searchVars>>

(* find_cycles: the next root that no search has visited.                  *)
StartSearch(e) ==
  /\ work \in {"building", "searching"} /\ path = <<>> /\ e \notin visited
  /\ work' = "searching"
  /\ path' = <<[node |-> e, next |-> 1]>> /\ visited' = visited \cup {e}
  /\ UNCHANGED <<adjacency, inDegree, sortVars, cycles>>

Top == path[Len(path)]
OnPath(e) == {i \in DOMAIN path : path[i].node = e}
Advanced == [path EXCEPT ![Len(path)].next = @ + 1]

(* dfs on the next neighbour of the last node of the path: a cycle when it *)
(* is on the path, nothing when it was visited, deeper otherwise.          *)
SearchNeighbour ==
  LET e == adjacency[Top.node][Top.next]
  IN  /\ work = "searching" /\ path # <<>>
      /\ Top.next <= Len(adjacency[Top.node])
      /\ IF OnPath(e) # {}
         THEN /\ cycles' = cycles \cup
                   {[i \in 1..(Len(path) - n + 1) |-> path[n + i - 1].node] : n \in OnPath(e)}
              /\ path' = Advanced /\ UNCHANGED visited
         ELSE /\ path' = IF e \in visited THEN Advanced
                         ELSE Append(Advanced, [node |-> e, next |-> 1])
              /\ visited' = visited \cup {e}
              /\ UNCHANGED cycles
      /\ UNCHANGED <<adjacency, inDegree, work, sortVars>>

(* path.pop() after the last neighbour; the search ends with the roots.    *)
Backtrack ==
  /\ work = "searching" /\ path # <<>>
  /\ Top.next > Len(adjacency[Top.node])
  /\ path' = Front(path)
  /\ work' = IF path' = <<>> /\ visited = Entities THEN "searched" ELSE work
  /\ UNCHANGED <<adjacency, inDegree, sortVars, visited, cycles>>

Next == \/ \E a, b \in Entities : AddEdge(a, b)
        \/ StartSort \/ TakeNode \/ EndSort
        \/ \E e \in Entities : StartSearch(e)
        \/ SearchNeighbour \/ Backtrack

Spec == Init /\ [][Next]_graphVars

(* validate_plan: each dependency that the plan holds comes earlier, by    *)
(* the first position of both (list.index) against every position.         *)
FirstIndex(s, e) == CHOOSE i \in DOMAIN s : s[i] = e /\ \A j \in 1..(i - 1) : s[j] # e

ValidPlan(order) ==
  \A i \in DOMAIN order : \A d \in ToSet(order) :
     order[i] \in Dependents(d) => FirstIndex(order, d) < i

----------------------------------------------------------------------------
(* The reference: a graph has a cycle when edges lead from a node back to it.*)
IsCycle(c) == \A i \in DOMAIN c : <<c[i], c[IF i = Len(c) THEN 1 ELSE i + 1]>> \in Edges

Cyclic ==
  \E n \in 1..Cardinality(Entities) : \E c \in [1..n -> Entities] : IsCycle(c)

(* The types of the graph and of the two algorithms.                       *)
TypeOK ==
  /\ adjacency \in [Entities -> Seq(Entities)]
  /\ inDegree \in [Entities -> 0..Cardinality(Entities)]
  /\ work \in {"building", "sorting", "searching", "sorted", "cyclic", "searched"}
  /\ queue \in Seq(Entities) /\ result \in Seq(Entities)
  /\ path \in Seq([node : Entities, next : 1..(Cardinality(Entities) + 1)])
  /\ visited \subseteq Entities

(* The two algorithms agree with the graph: a sort that ends without an    *)
(* error lists every entity once, in an order validate_plan accepts, and   *)
(* one that reports a cycle is right; the search reports only real cycles, *)
(* and one at least of a graph that has any (dependency.py:184-277,        *)
(* engine.py runs the jobs in this order).                                 *)
AnswersAreRight ==
  /\ work = "sorted" => /\ ~Cyclic /\ ValidPlan(result)
                        /\ ToSet(result) = Entities /\ Len(result) = Cardinality(Entities)
  /\ work = "cyclic" => Cyclic
  /\ work = "searched" => (cycles # {} <=> Cyclic)
  /\ \A c \in cycles : IsCycle(c)

(* "Find all cycles in the graph" (dependency.py:252): every pair of       *)
(* entities that depend on each other directly is among the cycles.        *)
PairsAreFound ==
  work = "searched" =>
    \A a, b \in Entities : (a # b /\ {<<a, b>>, <<b, a>>} \subseteq Edges) =>
       \E c \in cycles : ToSet(c) = {a, b}
=============================================================================
