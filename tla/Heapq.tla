-------------------------------- MODULE Heapq --------------------------------
(***************************************************************************)
(* The binary heaps of Python's heapq as both schedulers use them: a list   *)
(* in which no element is smaller than its parent.  Before(x, y) is x < y.  *)
(* The loops of heapq walk one path of the tree; here the path is a set of  *)
(* positions (from 1: the parent of i is i \div 2).                         *)
(***************************************************************************)
EXTENDS Naturals, Sequences, FiniteSets

CONSTANT Before(_, _)

\* i and its ancestors: the least set with i and the parents of its members.
Path(i) == {a \in 1 .. i : \A S \in SUBSET (1 .. i) :
               i \in S /\ (\A s \in S \ {1} : s \div 2 \in S) => a \in S}

\* The least element is where heappop looks for it.
HeadIsLeast(h) == \A i \in 2 .. Len(h) : ~Before(h[i], h[1])

\* _siftdown: x rises from position n past every larger ancestor, up to the
\* first one that is not larger.
Rise(h, n, x) ==
    LET passed == {p \in Path(n) : \A q \in Path(n) \ {n} : q >= p => Before(x, h[q])}
        place  == CHOOSE p \in passed : \A q \in passed : p <= q
    IN  [i \in 1 .. Len(h) |->
            IF i = place THEN x
            ELSE IF i \in Path(n) /\ i > place THEN h[i \div 2]
            ELSE h[i]]

heappush(h, x) == Rise(Append(h, x), Len(h) + 1, x)

\* Of two siblings the one _siftup follows: the right one of two equals.
Preferred(h, i) ==
    IF i % 2 = 0 THEN i = Len(h) \/ Before(h[i], h[i + 1])
                 ELSE ~Before(h[i - 1], h[i])

\* What heappop leaves: the last element takes the root's place, sinks to a
\* leaf along the smaller children and rises from there.
heappop(h) ==
    IF Len(h) = 1 THEN <<>>
    ELSE LET m    == Len(h) - 1
             g    == SubSeq(h, 1, m)
             down == {i \in 1 .. m : \A a \in Path(i) \ {1} : Preferred(g, a)}
             leaf == CHOOSE i \in down : 2 * i > m
             next(i) == CHOOSE c \in down : c \div 2 = i
         IN  Rise([i \in 1 .. m |-> IF i \in down \ {leaf} THEN g[next(i)] ELSE g[i]],
                  leaf, h[Len(h)])
==============================================================================
