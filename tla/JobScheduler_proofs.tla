------------------------- MODULE JobScheduler_proofs ------------------------
(***************************************************************************)
(* Proofs about the scheduler of the data platform, for every set of jobs, *)
(* every number of workers and every size of the heap: its types, its      *)
(* locks, and the order in which its heap gives the jobs out.              *)
(***************************************************************************)
EXTENDS JobScheduler, FiniteSetTheorems, SequenceTheorems, WellFoundedInduction,
        Functions, TLAPS

----------------------------------------------------------------------------
(* Least and greatest elements.                                            *)

LEMMA Least ==
    ASSUME NEW S \in SUBSET Nat, S # {}
    PROVE  \E x \in S : \A y \in S : x <= y
<1>1. PICK x \in S : \A y \in S : ~(<<y, x>> \in OpToRel(<, Nat))
  BY NatLessThanWellFounded, WFMin
<1>2. ASSUME NEW y \in S, y < x PROVE FALSE
  <2>1. <<y, x>> \in Nat \X Nat /\ <<y, x>>[1] < <<y, x>>[2]
    BY <1>2
  <2> QED BY <1>1, <2>1 DEF OpToRel
<1> QED BY <1>2

LEMMA Greatest ==
    ASSUME NEW n \in Nat, NEW S \in SUBSET (1 .. n), S # {}
    PROVE  \E x \in S : \A y \in S : y <= x
<1> DEFINE T == {d \in Nat : \E s \in S : d = n - s}
<1>1. T \in SUBSET Nat /\ T # {}
  <2>1. PICK s \in S : TRUE
    OBVIOUS
  <2>2. n - s \in Nat
    OBVIOUS
  <2> QED BY <2>2
<1>2. PICK d \in T : \A e \in T : d <= e
  <2> HIDE DEF T
  <2> QED BY <1>1, Least
<1>3. PICK x \in S : d = n - x
  BY <1>2
<1>4. \A y \in S : n - y \in T
  OBVIOUS
<1> QED BY <1>2, <1>3, <1>4

(* The parent of a position.                                               *)
LEMMA Halving ==
    ASSUME NEW i \in Nat
    PROVE  /\ i \div 2 \in Nat
           /\ i = 2 * (i \div 2) \/ i = 2 * (i \div 2) + 1
           /\ i >= 1 => i \div 2 < i
           /\ i >= 2 => i \div 2 >= 1
OBVIOUS

----------------------------------------------------------------------------
(* The path from a position of the heap to the root.                       *)

LEMMA PathCloses ==
    ASSUME NEW n \in Nat \ {0}
    PROVE  /\ Heap!Path(n) \subseteq 1 .. n
           /\ n \in Heap!Path(n)
           /\ \A p \in Heap!Path(n) : p # 1 => p \div 2 \in Heap!Path(n)
           /\ \A S \in SUBSET (1 .. n) :
                 n \in S /\ (\A s \in S : s # 1 => s \div 2 \in S)
                 => Heap!Path(n) \subseteq S
<1> USE DEF Heap!Path
<1>1. /\ Heap!Path(n) \subseteq 1 .. n
      /\ n \in Heap!Path(n)
  OBVIOUS
<1>2. ASSUME NEW p \in Heap!Path(n), p # 1 PROVE p \div 2 \in Heap!Path(n)
  <2>1. p \in 1 .. n /\ p \div 2 \in 1 .. n
    BY <1>2, Halving
  <2> QED BY <1>2, <2>1
<1> QED BY <1>1, <1>2

(* Each position of a path but its last one has a child on it.             *)
LEMMA PathGoesDown ==
    ASSUME NEW n \in Nat \ {0}, NEW p \in Heap!Path(n), p # n
    PROVE  \E c \in Heap!Path(n) : c # 1 /\ c \div 2 = p
<1> SUFFICES ASSUME \A c \in Heap!Path(n) : c # 1 => c \div 2 # p PROVE FALSE
  OBVIOUS
<1> DEFINE S == Heap!Path(n) \ {p}
<1>1. S \in SUBSET (1 .. n) /\ n \in S /\ \A s \in S : s # 1 => s \div 2 \in S
  BY PathCloses
<1>2. Heap!Path(n) \subseteq S
  <2> HIDE DEF S
  <2> QED BY <1>1, PathCloses
<1> QED BY <1>2

(* A path skips nothing: between a position and its parent there is none.  *)
LEMMA PathIsChain ==
    ASSUME NEW n \in Nat \ {0}, NEW p \in Heap!Path(n), NEW q \in Heap!Path(n), q < p
    PROVE  q <= p \div 2
<1> DEFINE Bad == {b \in Heap!Path(n) : \E c \in Heap!Path(n) : b \div 2 < c /\ c < b}
<1>1. Heap!Path(n) \subseteq 1 .. n
  BY PathCloses
<1>2. Bad = {}
  <2> SUFFICES ASSUME Bad # {} PROVE FALSE
    OBVIOUS
  <2>1. PICK b \in Bad : \A d \in Bad : d <= b
    <3>1. Bad \in SUBSET (1 .. n)
      BY <1>1
    <3> HIDE DEF Bad
    <3> QED BY <3>1, Greatest
  <2>2. PICK c \in Heap!Path(n) : b \div 2 < c /\ c < b
    BY <2>1
  <2>3. b \in 1 .. n /\ c \in 1 .. n /\ c # n
    BY <1>1, <2>1, <2>2
  <2>4. PICK d \in Heap!Path(n) : d # 1 /\ d \div 2 = c
    BY <2>2, <2>3, PathGoesDown
  <2>5. d \in 1 .. n /\ d > b
    BY <1>1, <2>2, <2>3, <2>4, Halving
  <2>6. d \in Bad
    BY <2>1, <2>2, <2>4, <2>5
  <2> QED BY <2>1, <2>3, <2>5, <2>6
<1> QED BY <1>1, <1>2, Halving

----------------------------------------------------------------------------
(* What rises stops below the first ancestor that is not later, and those   *)
(* it passes move one position down.                                       *)
Moved(h, n, place) ==
    [i \in 1 .. Len(h) |->
        IF i = place THEN n
        ELSE IF i \in Heap!Path(n) /\ i > place THEN i \div 2 ELSE i]

RisesTo(h, n, x, place) ==
    /\ place \in Heap!Path(n)
    /\ \A q \in Heap!Path(n) : q >= place /\ q # n => Sooner(x, h[q])
    /\ place # 1 => ~Sooner(x, h[place \div 2])
    /\ Heap!Rise(h, n, x) =
          [i \in 1 .. Len(h) |-> IF i = place THEN x ELSE h[Moved(h, n, place)[i]]]

LEMMA RiseStops ==
    ASSUME NEW h, Len(h) \in Nat, NEW n \in 1 .. Len(h), NEW x
    PROVE  \E place \in 1 .. n : RisesTo(h, n, x, place)
<1> DEFINE passed == {p \in Heap!Path(n) :
                        \A q \in Heap!Path(n) \ {n} : q >= p => Sooner(x, h[q])}
           place  == CHOOSE p \in passed : \A q \in passed : p <= q
<1>1. /\ Heap!Path(n) \subseteq 1 .. n
      /\ n \in Heap!Path(n)
      /\ \A p \in Heap!Path(n) : p # 1 => p \div 2 \in Heap!Path(n)
  BY PathCloses
<1>2. passed \in SUBSET Nat /\ n \in passed
  BY <1>1
<1>3. place \in passed /\ \A q \in passed : place <= q
  <2>1. \E p \in passed : \A q \in passed : p <= q
    <3> HIDE DEF passed
    <3> QED BY <1>2, Least
  <2> QED BY <2>1
<1>4. ASSUME place # 1, Sooner(x, h[place \div 2]) PROVE FALSE
  <2> DEFINE p == place \div 2
  <2>1. place \in 1 .. n /\ p \in Heap!Path(n) /\ p < place
    <3>1. place \in Heap!Path(n)
      BY <1>3
    <3> HIDE DEF place, passed
    <3> QED BY <1>1, <1>4, <3>1, Halving
  <2>2. ASSUME NEW q \in Heap!Path(n) \ {n}, q >= p PROVE Sooner(x, h[q])
    <3>1. CASE q >= place
      BY <1>3, <2>2, <3>1
    <3>2. CASE q < place
      <4>1. q <= p
        BY <1>3, <2>2, <3>2, PathIsChain
      <4>2. q = p
        BY <1>1, <2>1, <2>2, <4>1
      <4> QED BY <1>4, <4>2
    <3> QED BY <1>1, <2>1, <3>1, <3>2
  <2>3. p \in passed
    BY <2>1, <2>2
  <2> QED BY <1>3, <2>1, <2>3
<1>5. Heap!Rise(h, n, x) =
        [i \in 1 .. Len(h) |->
            IF i = place THEN x
            ELSE IF i \in Heap!Path(n) /\ i > place THEN h[i \div 2] ELSE h[i]]
  BY DEF Heap!Rise
<1>6. /\ place \in Heap!Path(n)
      /\ \A q \in Heap!Path(n) : q >= place /\ q # n => Sooner(x, h[q])
  BY <1>3
<1> HIDE DEF place, passed
<1>7. Heap!Rise(h, n, x) =
        [i \in 1 .. Len(h) |-> IF i = place THEN x ELSE h[Moved(h, n, place)[i]]]
  BY <1>5 DEF Moved
<1> QED BY <1>1, <1>4, <1>6, <1>7 DEF RisesTo

(* Nothing is lost or doubled on the way.                                  *)
LEMMA MovedPermutes ==
    ASSUME NEW h, Len(h) \in Nat, NEW n \in 1 .. Len(h), NEW x,
           NEW place \in 1 .. n, RisesTo(h, n, x, place)
    PROVE  /\ Moved(h, n, place) \in Bijection(1 .. Len(h), 1 .. Len(h))
           /\ \A i \in 1 .. Len(h) : Moved(h, n, place)[i] = n <=> i = place
<1> DEFINE f == Moved(h, n, place)
           N == 1 .. Len(h)
<1>1. /\ Heap!Path(n) \subseteq 1 .. n
      /\ n \in Heap!Path(n) /\ place \in Heap!Path(n)
      /\ \A p \in Heap!Path(n) : p # 1 => p \div 2 \in Heap!Path(n)
  BY PathCloses DEF RisesTo
<1>2. ASSUME NEW i \in N, i \in Heap!Path(n), i > place
      PROVE  f[i] = i \div 2 /\ f[i] \in Heap!Path(n) /\ place <= f[i] /\ f[i] < i
  <2>1. f[i] = i \div 2 /\ i # 1
    BY <1>2 DEF Moved
  <2> QED BY <1>1, <1>2, <2>1, Halving, PathIsChain
<1>3. ASSUME NEW i \in N, i \notin Heap!Path(n) \/ i < place
      PROVE  f[i] = i /\ i # n
  BY <1>1, <1>3 DEF Moved
<1>4. f[place] = n
  BY DEF Moved
<1>5. f \in [N -> N]
  <2>1. \A i \in N : f[i] \in N
    BY <1>1, <1>2, <1>3, <1>4
  <2> QED BY <2>1 DEF Moved
<1>6. ASSUME NEW i \in N, f[i] = n PROVE i = place
  <2>1. CASE i \in Heap!Path(n) /\ i > place
    BY <1>1, <1>2, <1>6, <2>1
  <2> QED BY <1>1, <1>3, <1>6, <2>1
<1>7. ASSUME NEW i \in N, NEW j \in N, f[i] = f[j] PROVE i = j
  <2>1. CASE i = place \/ j = place
    BY <1>4, <1>6, <1>7, <2>1
  <2>2. CASE /\ i \in Heap!Path(n) /\ i > place
             /\ j \in Heap!Path(n) /\ j > place
    <3>1. i < j => i <= f[j]
      BY <1>2, <2>2, PathIsChain
    <3>2. j < i => j <= f[i]
      BY <1>2, <2>2, PathIsChain
    <3> QED BY <1>2, <1>7, <2>2, <3>1, <3>2
  <2>3. CASE \/ i \notin Heap!Path(n) \/ i < place
             \/ j \notin Heap!Path(n) \/ j < place
    BY <1>1, <1>2, <1>3, <1>7, <2>1, <2>3
  <2> QED BY <2>1, <2>2, <2>3
<1>8. f \in Injection(N, N)
  BY <1>5, <1>7 DEF Injection, IsInjective
<1>9. IsFiniteSet(N)
  BY FS_Interval
<1>10. f \in Surjection(N, N)
  <2> HIDE DEF f, N
  <2> QED BY <1>8, <1>9, FS_Injection
<1> QED BY <1>4, <1>6, <1>8, <1>10 DEF Bijection

----------------------------------------------------------------------------
(* The order of the heap.                                                  *)
Ordered(h) == \A i \in 2 .. Len(h) : ~Sooner(h[i], h[i \div 2])

LEMMA SoonerOrders ==
    /\ \A e, f \in Entries : Sooner(e, f) => ~Sooner(f, e)
    /\ \A e, f, g \in Entries : Sooner(e, f) /\ Sooner(f, g) => Sooner(e, g)
    /\ \A e, f, g \in Entries : ~Sooner(e, f) /\ ~Sooner(f, g) => ~Sooner(e, g)
<1>1. \A e \in Entries : e.prio \in Nat /\ e.n \in Nat
  BY DEF Entries
<1> QED BY <1>1 DEF Sooner

(* In a heap nothing is sooner than the head.                              *)
LEMMA OrderedHead ==
    ASSUME NEW h \in Seq(Entries), Ordered(h)
    PROVE  Heap!HeadIsLeast(h)
<1> DEFINE Wrong == {i \in 2 .. Len(h) : Sooner(h[i], h[1])}
<1> SUFFICES ASSUME Wrong # {} PROVE FALSE
  BY DEF Heap!HeadIsLeast
<1>1. PICK i \in Wrong : \A k \in Wrong : i <= k
  <2>1. Wrong \in SUBSET Nat
    OBVIOUS
  <2> HIDE DEF Wrong
  <2> QED BY <2>1, Least
<1> DEFINE p == i \div 2
<1>2. /\ i \in 2 .. Len(h) /\ p \in 1 .. Len(h) /\ p < i
      /\ h[i] \in Entries /\ h[p] \in Entries /\ h[1] \in Entries
  BY <1>1, Halving
<1>3. ~Sooner(h[i], h[p]) /\ Sooner(h[i], h[1])
  BY <1>1 DEF Ordered
<1>4. ~Sooner(h[p], h[1])
  BY <1>1, <1>2, <1>3
<1> HIDE DEF p
<1> QED BY <1>2, <1>3, <1>4, SoonerOrders

(* An entry that rises from a leaf mends a heap that is wrong there only.  *)
LEMMA RiseOrders ==
    ASSUME NEW h \in Seq(Entries), NEW n \in 1 .. Len(h), 2 * n > Len(h),
           NEW x \in Entries,
           \A i \in 2 .. Len(h) : i # n => ~Sooner(h[i], h[i \div 2])
    PROVE  Ordered(Heap!Rise(h, n, x))
<1> DEFINE r == Heap!Rise(h, n, x)
           P == Heap!Path(n)
<1>1. PICK place \in 1 .. n : RisesTo(h, n, x, place)
  BY RiseStops
<1>2. P \subseteq 1 .. n /\ n \in P /\ place \in P /\ \A p \in P : p # 1 => p \div 2 \in P
  BY <1>1, PathCloses DEF RisesTo
<1>3. /\ Len(r) = Len(h)
      /\ r[place] = x
      /\ \A i \in 1 .. Len(h) :
            /\ i \in P /\ i > place => r[i] = h[i \div 2]
            /\ i \notin P \/ i < place => r[i] = h[i]
  <2>1. r = [i \in 1 .. Len(h) |-> IF i = place THEN x ELSE h[Moved(h, n, place)[i]]]
    BY <1>1 DEF RisesTo
  <2> HIDE DEF r
  <2>2. Len(r) = Len(h)
    BY <2>1
  <2> QED BY <1>2, <2>1, <2>2 DEF Moved
<1> HIDE DEF r, P
<1> SUFFICES ASSUME NEW i \in 2 .. Len(h) PROVE ~Sooner(r[i], r[i \div 2])
  BY <1>3 DEF Ordered, r
<1> DEFINE p == i \div 2
<1>4. /\ p \in 1 .. Len(h) /\ p < i /\ 2 * p <= i
      /\ i \in 1 .. Len(h) /\ (p # 1 => p \div 2 \in 1 .. Len(h) /\ p \in 2 .. Len(h))
      /\ p # n
  BY Halving
<1>5. \A k \in 1 .. Len(h) : h[k] \in Entries
  OBVIOUS
<1>6. i # n => ~Sooner(h[i], h[p])
  OBVIOUS
<1>7. p # 1 => ~Sooner(h[p], h[p \div 2])
  BY <1>4
<1>8. \A q \in P : q >= place /\ q # n => Sooner(x, h[q])
  BY <1>1 DEF RisesTo, P
<1>9. CASE i = place
  <2>1. r[p] = h[p] /\ r[i] = x
    BY <1>2, <1>3, <1>4, <1>9
  <2>2. ~Sooner(x, h[p])
    BY <1>1, <1>9 DEF RisesTo
  <2> QED BY <2>1, <2>2
<1>10. CASE i \in P /\ i > place
  <2>1. r[i] = h[p] /\ p \in P /\ p >= place
    BY <1>1, <1>2, <1>3, <1>4, <1>10, PathIsChain DEF P
  <2>2. CASE p = place
    BY <1>3, <1>4, <1>5, <1>8, <2>1, <2>2, SoonerOrders
  <2>3. CASE p > place
    BY <1>2, <1>3, <1>4, <1>7, <2>1, <2>3
  <2> QED BY <1>4, <2>1, <2>2, <2>3
<1>11. CASE (i \notin P \/ i < place) /\ i # place
  <2>1. r[i] = h[i] /\ i # n
    BY <1>2, <1>3, <1>4, <1>11
  <2>2. CASE p = place
    <3>1. Sooner(x, h[p]) /\ r[p] = x
      BY <1>2, <1>3, <1>4, <1>8, <2>2
    <3> QED BY <1>4, <1>5, <1>6, <2>1, <3>1, SoonerOrders
  <2>3. CASE p \in P /\ p > place
    <3>1. r[p] = h[p \div 2] /\ p # 1
      BY <1>2, <1>3, <1>4, <2>3
    <3> QED BY <1>4, <1>5, <1>6, <1>7, <2>1, <3>1, SoonerOrders
  <2>4. CASE p \notin P \/ p < place
    BY <1>3, <1>4, <1>6, <2>1, <2>4
  <2> QED BY <1>4, <2>2, <2>3, <2>4
<1> QED BY <1>4, <1>9, <1>10, <1>11

----------------------------------------------------------------------------
(* The entries of a job in a list, and how many there are.                 *)
Positions(h, j) == {i \in 1 .. Len(h) : h[i].job = j}
CountOf(h, j) == Cardinality(Positions(h, j))

LEMMA Segment ==
    ASSUME NEW n \in Nat
    PROVE  IsFiniteSet(1 .. n) /\ Cardinality(1 .. n) = n
BY FS_Interval

LEMMA Counted ==
    ASSUME NEW h, Len(h) \in Nat, NEW j
    PROVE  IsFiniteSet(Positions(h, j)) /\ CountOf(h, j) \in Nat
           /\ (CountOf(h, j) = 0 <=> Positions(h, j) = {})
<1>1. IsFiniteSet(1 .. Len(h)) /\ Positions(h, j) \in SUBSET (1 .. Len(h))
  BY FS_Interval DEF Positions
<1>2. IsFiniteSet(Positions(h, j))
  BY <1>1, FS_Subset
<1> QED BY <1>2, FS_CardinalityType, FS_EmptySet DEF CountOf

(* A list whose entries are those of h at the positions B, in some order.  *)
Selects(g, h, B) ==
    /\ Len(g) \in Nat /\ Len(h) \in Nat /\ B \in SUBSET (1 .. Len(h))
    /\ \E f \in Bijection(1 .. Len(g), B) :
          \A i \in 1 .. Len(g) : g[i].job = h[f[i]].job

Where(h, B, j) == {k \in B : h[k].job = j}

LEMMA SameCount ==
    ASSUME NEW g, NEW h, NEW B, Selects(g, h, B), NEW j
    PROVE  CountOf(g, j) = Cardinality(Where(h, B, j))
<1> DEFINE S == Positions(g, j)
           T == Where(h, B, j)
<1>1. PICK f \in Bijection(1 .. Len(g), B) :
         \A i \in 1 .. Len(g) : g[i].job = h[f[i]].job
  BY DEF Selects
<1>2. /\ f \in [1 .. Len(g) -> B]
      /\ \A a, b \in 1 .. Len(g) : f[a] = f[b] => a = b
      /\ \A b \in B : \E a \in 1 .. Len(g) : f[a] = b
  BY DEF Bijection, Injection, Surjection, IsInjective
<1>3. S \in SUBSET (1 .. Len(g)) /\ \A i \in 1 .. Len(g) : i \in S <=> f[i] \in T
  BY <1>1, <1>2 DEF Positions, Where
<1>4. IsFiniteSet(T)
  <2>1. T \in SUBSET Positions(h, j) /\ IsFiniteSet(Positions(h, j))
    BY Counted DEF Positions, Selects, Where
  <2> HIDE DEF T
  <2> QED BY <2>1, FS_Subset
<1> DEFINE e == [i \in S |-> f[i]]
<1>5. T \subseteq B
  BY DEF Where
<1> HIDE DEF S, T
<1>6. e \in Injection(S, T)
  BY <1>2, <1>3 DEF Injection, IsInjective
<1>7. e \in Surjection(S, T)
  BY <1>2, <1>3, <1>5 DEF Surjection
<1> HIDE DEF e
<1>8. Cardinality(S) = Cardinality(T)
  BY <1>4, <1>6, <1>7, FS_Injection
<1> QED BY <1>8 DEF S, T, CountOf

(* A function on 1 .. n is a sequence.                                     *)
LEMMA FunctionIsSeq ==
    ASSUME NEW n \in Nat, NEW E, NEW f \in [1 .. n -> E]
    PROVE  f \in Seq(E) /\ Len(f) = n
BY SeqDef

(* r has the entries of h in some order, with x for the one at n.          *)
Rearranged(r, h, n, x) ==
    /\ r \in Seq(Entries) /\ Len(r) = Len(h)
    /\ \E f \in Bijection(1 .. Len(h), 1 .. Len(h)) :
          \A i \in 1 .. Len(h) : r[i] = IF f[i] = n THEN x ELSE h[f[i]]

LEMMA RisePermutes ==
    ASSUME NEW h \in Seq(Entries), NEW n \in 1 .. Len(h), NEW x \in Entries
    PROVE  Rearranged(Heap!Rise(h, n, x), h, n, x)
<1> DEFINE r == Heap!Rise(h, n, x)
<1>1. PICK place \in 1 .. n : RisesTo(h, n, x, place)
  BY RiseStops
<1> DEFINE f == Moved(h, n, place)
<1>2. /\ f \in Bijection(1 .. Len(h), 1 .. Len(h))
      /\ \A i \in 1 .. Len(h) : f[i] = n <=> i = place
  BY <1>1, MovedPermutes
<1>3. r = [i \in 1 .. Len(h) |-> IF i = place THEN x ELSE h[f[i]]]
  BY <1>1 DEF RisesTo
<1> HIDE DEF r, f
<1>4. \A i \in 1 .. Len(h) : f[i] \in 1 .. Len(h)
  BY <1>2 DEF Bijection, Injection
<1>5. r \in [1 .. Len(h) -> Entries]
  BY <1>3, <1>4
<1>6. r \in Seq(Entries) /\ Len(r) = Len(h)
  BY <1>5, FunctionIsSeq
<1>7. \A i \in 1 .. Len(h) : r[i] = IF f[i] = n THEN x ELSE h[f[i]]
  BY <1>2, <1>3
<1> QED BY <1>2, <1>6, <1>7 DEF r, Rearranged

----------------------------------------------------------------------------
(* heappush: the new entry joins the others and the order stays.           *)
LEMMA PushAdds ==
    ASSUME NEW h \in Seq(Entries), NEW x \in Entries
    PROVE  LET r == Heap!heappush(h, x)
           IN  /\ r \in Seq(Entries) /\ Len(r) = Len(h) + 1
               /\ Ordered(h) => Ordered(r)
               /\ \A j : CountOf(r, j) = CountOf(h, j) + IF x.job = j THEN 1 ELSE 0
<1> DEFINE a == Append(h, x)
           l == Len(h) + 1
           r == Heap!heappush(h, x)
<1>1. /\ a \in Seq(Entries) /\ Len(a) = l /\ l \in 1 .. l /\ l \in Nat
      /\ a[l] = x /\ \A i \in 1 .. Len(h) : a[i] = h[i]
  OBVIOUS
<1>2. r = Heap!Rise(a, l, x)
  BY DEF Heap!heappush
<1> HIDE DEF r, a
<1>3. /\ r \in Seq(Entries) /\ Len(r) = l
      /\ \E f \in Bijection(1 .. l, 1 .. l) :
            \A i \in 1 .. l : r[i] = IF f[i] = l THEN x ELSE a[f[i]]
  <2> HIDE DEF l
  <2>1. l \in 1 .. Len(a) /\ a \in Seq(Entries) /\ x \in Entries
    BY <1>1
  <2>2. Rearranged(r, a, l, x)
    BY <1>2, <2>1, RisePermutes
  <2> QED BY <1>1, <2>2 DEF Rearranged
<1>4. ASSUME Ordered(h) PROVE Ordered(r)
  <2>1. \A i \in 2 .. l : i # l => ~Sooner(a[i], a[i \div 2])
    <3>1. \A i \in 2 .. l : i # l => i \in 2 .. Len(h) /\ i \in 1 .. Len(h)
                                     /\ i \div 2 \in 1 .. Len(h)
      BY Halving
    <3> QED BY <1>1, <1>4, <3>1 DEF Ordered
  <2> QED BY <1>1, <1>2, <2>1, RiseOrders
<1>5. ASSUME NEW j PROVE CountOf(r, j) = CountOf(h, j) + IF x.job = j THEN 1 ELSE 0
  <2>1. PICK f \in Bijection(1 .. l, 1 .. l) :
           \A i \in 1 .. l : r[i] = a[f[i]]
    BY <1>1, <1>3
  <2>2. \A i \in 1 .. l : f[i] \in 1 .. l
    BY DEF Bijection, Injection
  <2>3. CountOf(r, j) = CountOf(a, j)
    <3>1. Selects(r, a, 1 .. l)
      BY <1>1, <1>3, <2>1, <2>2 DEF Selects
    <3>2. CountOf(r, j) = Cardinality(Where(a, 1 .. l, j))
      BY <3>1, SameCount
    <3> QED BY <1>1, <3>2 DEF CountOf, Positions, Where
  <2>4. Positions(a, j) = Positions(h, j) \cup (IF x.job = j THEN {l} ELSE {})
    BY <1>1 DEF Positions
  <2>5. l \notin Positions(h, j) /\ IsFiniteSet(Positions(h, j)) /\ CountOf(h, j) \in Nat
    BY Counted DEF Positions
  <2>6. CASE x.job = j
    BY <2>3, <2>4, <2>5, <2>6, FS_AddElement DEF CountOf
  <2>7. CASE x.job # j
    BY <2>3, <2>4, <2>5, <2>7 DEF CountOf
  <2> QED BY <2>6, <2>7
<1> QED BY <1>3, <1>4, <1>5 DEF r

----------------------------------------------------------------------------
(* heappop: the way down along the preferred children.                     *)
Down(g) == {i \in 1 .. Len(g) : \A a \in Heap!Path(i) \ {1} : Heap!Preferred(g, a)}

LEMMA PathStep ==
    /\ Heap!Path(1) = {1}
    /\ \A n \in Nat : n >= 2 => Heap!Path(n) = Heap!Path(n \div 2) \cup {n}
<1>1. Heap!Path(1) = {1}
  BY PathCloses
<1>2. ASSUME NEW n \in Nat, n >= 2 PROVE Heap!Path(n) = Heap!Path(n \div 2) \cup {n}
  <2> DEFINE p == n \div 2
             S == Heap!Path(p) \cup {n}
             T == {q \in 1 .. p : q \in Heap!Path(n)}
  <2>1. n \in Nat \ {0} /\ p \in Nat \ {0} /\ p < n
    BY <1>2, Halving
  <2> HIDE DEF p
  <2>2. /\ Heap!Path(p) \subseteq 1 .. p /\ Heap!Path(n) \subseteq 1 .. n
        /\ p \in Heap!Path(p) /\ n \in Heap!Path(n) /\ p \in Heap!Path(n)
    BY <1>2, <2>1, PathCloses DEF p
  <2>3. Heap!Path(n) \subseteq S
    <3>1. S \in SUBSET (1 .. n) /\ n \in S
      BY <2>1, <2>2
    <3>2. ASSUME NEW s \in S, s # 1 PROVE s \div 2 \in S
      <4>1. CASE s = n
        BY <2>2, <4>1 DEF p
      <4>2. CASE s \in Heap!Path(p)
        BY <2>1, <3>2, <4>2, PathCloses
      <4> QED BY <4>1, <4>2
    <3> HIDE DEF S
    <3> QED BY <2>1, <3>1, <3>2, PathCloses
  <2>4. Heap!Path(p) \subseteq T
    <3>1. T \in SUBSET (1 .. p) /\ p \in T
      BY <2>1, <2>2
    <3>2. ASSUME NEW s \in T, s # 1 PROVE s \div 2 \in T
      <4>1. s \in 1 .. p /\ s \div 2 \in 1 .. p
        BY <2>1, <3>2, Halving
      <4>2. s \div 2 \in Heap!Path(n)
        BY <2>1, <3>2, PathCloses
      <4> QED BY <4>1, <4>2
    <3> HIDE DEF T
    <3> QED BY <2>1, <3>1, <3>2, PathCloses
  <2> QED BY <2>2, <2>3, <2>4 DEF p
<1> QED BY <1>1, <1>2

LEMMA DownCloses ==
    ASSUME NEW g \in Seq(Entries), Len(g) >= 1
    PROVE  /\ Down(g) \subseteq 1 .. Len(g) /\ 1 \in Down(g)
           /\ \A i \in Down(g) : i # 1 => i \div 2 \in Down(g) /\ Heap!Preferred(g, i)
           /\ \A c \in 2 .. Len(g) :
                 c \div 2 \in Down(g) /\ Heap!Preferred(g, c) => c \in Down(g)
<1>1. Down(g) \subseteq 1 .. Len(g) /\ 1 \in Down(g)
  BY PathStep DEF Down
<1>2. ASSUME NEW i \in Down(g), i # 1
      PROVE  i \div 2 \in Down(g) /\ Heap!Preferred(g, i)
  <2>1. i \in 2 .. Len(g) /\ i \div 2 \in 1 .. Len(g)
    BY <1>1, <1>2, Halving
  <2>2. Heap!Path(i) = Heap!Path(i \div 2) \cup {i}
    BY <2>1, PathStep
  <2> QED BY <2>1, <2>2 DEF Down
<1>3. ASSUME NEW c \in 2 .. Len(g), c \div 2 \in Down(g), Heap!Preferred(g, c)
      PROVE  c \in Down(g)
  BY <1>3, PathStep DEF Down
<1> QED BY <1>1, <1>2, <1>3

(* Of two siblings exactly one is preferred, and it is not the later one.  *)
LEMMA OnePreferred ==
    ASSUME NEW g \in Seq(Entries), NEW i \in 1 .. Len(g), 2 * i <= Len(g)
    PROVE  /\ \E c \in 2 .. Len(g) : c \div 2 = i /\ Heap!Preferred(g, c)
           /\ \A c, d \in 2 .. Len(g) :
                 /\ c \div 2 = i /\ Heap!Preferred(g, c)
                 /\ d \div 2 = i /\ d # c
                 => ~Heap!Preferred(g, d) /\ ~Sooner(g[d], g[c])
<1> DEFINE l == 2 * i
           r == 2 * i + 1
<1>1. /\ l \in 2 .. Len(g) /\ l \div 2 = i /\ l % 2 = 0
      /\ r \div 2 = i /\ r % 2 # 0 /\ r - 1 = l /\ l + 1 = r
      /\ l # Len(g) => r \in 2 .. Len(g)
  OBVIOUS
<1>2. \A c \in 2 .. Len(g) : c \div 2 = i => c = l \/ c = r
  OBVIOUS
<1>3. /\ Heap!Preferred(g, l) <=> l = Len(g) \/ Sooner(g[l], g[r])
      /\ Heap!Preferred(g, r) <=> ~Sooner(g[l], g[r])
  BY <1>1 DEF Heap!Preferred
<1>4. r \in 2 .. Len(g) => l # Len(g) /\ g[l] \in Entries /\ g[r] \in Entries
  BY <1>1
<1> HIDE DEF l, r
<1>5. r \in 2 .. Len(g) => (Sooner(g[l], g[r]) => ~Sooner(g[r], g[l]))
  BY <1>4, SoonerOrders
<1> QED BY <1>1, <1>2, <1>3, <1>4, <1>5

Leaf(g) == CHOOSE i \in Down(g) : 2 * i > Len(g)
Follow(g, i) == CHOOSE c \in Down(g) : c \div 2 = i
Sunk(g) ==
    [i \in 1 .. Len(g) |-> IF i \in Down(g) \ {Leaf(g)} THEN g[Follow(g, i)] ELSE g[i]]

(* The way down is one path: it ends at a leaf, and every other position on *)
(* it has exactly one child on it.                                         *)
LEMMA DownIsPath ==
    ASSUME NEW g \in Seq(Entries), Len(g) >= 1
    PROVE  /\ Leaf(g) \in Down(g) /\ 2 * Leaf(g) > Len(g)
           /\ \A i \in Down(g) \ {Leaf(g)} :
                 /\ Follow(g, i) \in Down(g) /\ Follow(g, i) \in 2 .. Len(g)
                 /\ Follow(g, i) \div 2 = i
           /\ \A c, d \in Down(g) : c # 1 /\ d # 1 /\ c \div 2 = d \div 2 => c = d
<1>1. /\ Down(g) \subseteq 1 .. Len(g) /\ 1 \in Down(g) /\ Len(g) \in Nat
      /\ \A i \in Down(g) : i # 1 => i \div 2 \in Down(g) /\ Heap!Preferred(g, i)
      /\ \A c \in 2 .. Len(g) :
            c \div 2 \in Down(g) /\ Heap!Preferred(g, c) => c \in Down(g)
  BY DownCloses
<1>2. Leaf(g) \in Down(g) /\ 2 * Leaf(g) > Len(g)
  <2>1. PICK i \in Down(g) : \A k \in Down(g) : k <= i
    <3>1. Down(g) \in SUBSET (1 .. Len(g)) /\ Down(g) # {}
      BY <1>1
    <3> QED BY <1>1, <3>1, Greatest
  <2>2. ASSUME 2 * i <= Len(g) PROVE FALSE
    <3>1. PICK c \in 2 .. Len(g) : c \div 2 = i /\ Heap!Preferred(g, c)
      BY <1>1, <2>2, OnePreferred
    <3>2. c \in Down(g)
      BY <1>1, <3>1
    <3>3. i \in Nat /\ c \in Nat /\ c > i
      BY <1>1, <3>1, Halving
    <3>4. c <= i
      BY <2>1, <3>2
    <3> QED BY <3>3, <3>4
  <2>3. \E k \in Down(g) : 2 * k > Len(g)
    BY <1>1, <2>2
  <2> QED BY <2>3 DEF Leaf
<1>3. ASSUME NEW c \in Down(g), NEW d \in Down(g), c # 1, d # 1, c \div 2 = d \div 2
      PROVE  c = d
  <2>1. /\ c \in 2 .. Len(g) /\ d \in 2 .. Len(g)
        /\ Heap!Preferred(g, c) /\ Heap!Preferred(g, d)
    BY <1>1, <1>3
  <2>2. c \div 2 \in 1 .. Len(g) /\ 2 * (c \div 2) <= Len(g)
    BY <2>1, Halving
  <2> QED BY <1>3, <2>1, <2>2, OnePreferred
<1> DEFINE n == Leaf(g)
           P == Heap!Path(n)
<1>4. n \in Nat \ {0} /\ n \in 1 .. Len(g) /\ 2 * n > Len(g)
  BY <1>1, <1>2
<1> HIDE DEF n
<1>5. P \subseteq 1 .. n /\ n \in P /\ \A p \in P : p # 1 => p \div 2 \in P
  BY <1>4, PathCloses
<1>6. P \subseteq Down(g)
  <2> DEFINE S == {i \in 1 .. n : i \in Down(g)}
  <2>1. S \in SUBSET (1 .. n) /\ n \in S
    BY <1>2, <1>4 DEF n
  <2>2. ASSUME NEW s \in S, s # 1 PROVE s \div 2 \in S
    <3>1. s \div 2 \in Down(g)
      BY <1>1, <2>2
    <3>2. s \div 2 \in 1 .. n
      BY <1>4, <2>2, Halving
    <3> QED BY <3>1, <3>2
  <2>3. P \subseteq S
    <3> HIDE DEF S
    <3> QED BY <1>4, <2>1, <2>2, PathCloses
  <2> QED BY <2>3
<1>7. 1 \in P
  <2>1. PICK p \in P : \A q \in P : p <= q
    <3>1. P \in SUBSET Nat /\ P # {}
      BY <1>5
    <3> HIDE DEF P
    <3> QED BY <3>1, Least
  <2>2. p \in 1 .. n
    BY <1>5
  <2>3. p # 1 => p \div 2 \in P /\ p \div 2 < p
    BY <1>5, <2>2, Halving
  <2> HIDE DEF P
  <2>4. p # 1 => p <= p \div 2
    BY <2>1, <2>3
  <2> QED BY <1>4, <2>2, <2>3, <2>4, Halving
<1>8. Down(g) \subseteq P
  <2> DEFINE Wrong == {i \in Down(g) : i \notin P}
  <2> SUFFICES ASSUME Wrong # {} PROVE FALSE
    OBVIOUS
  <2>1. PICK i \in Wrong : \A k \in Wrong : i <= k
    <3>1. Wrong \in SUBSET Nat
      BY <1>1
    <3> HIDE DEF Wrong
    <3> QED BY <3>1, Least
  <2>2. i \in Down(g) /\ i \in 2 .. Len(g) /\ i \notin P
    BY <1>1, <1>7, <2>1
  <2>3. i \div 2 \in Down(g) /\ i \div 2 < i /\ i \div 2 # n
    BY <1>1, <1>4, <2>2, Halving
  <2>4. i \div 2 \in P
    <3>1. ~(i <= i \div 2)
      BY <2>2, <2>3, Halving
    <3> QED BY <2>1, <2>3, <3>1
  <2>5. PICK c \in P : c # 1 /\ c \div 2 = i \div 2
    BY <1>4, <2>3, <2>4, PathGoesDown
  <2>6. c \in Down(g) /\ i # 1
    BY <1>6, <2>2, <2>5
  <2>7. c = i
    BY <1>3, <2>2, <2>5, <2>6
  <2> QED BY <2>2, <2>5, <2>7
<1>9. ASSUME NEW i \in Down(g) \ {n}
      PROVE  /\ Follow(g, i) \in Down(g) /\ Follow(g, i) \in 2 .. Len(g)
             /\ Follow(g, i) \div 2 = i
  <2>1. PICK c \in P : c # 1 /\ c \div 2 = i
    BY <1>4, <1>8, <1>9, PathGoesDown
  <2>2. \E d \in Down(g) : d \div 2 = i
    BY <1>6, <2>1
  <2>3. Follow(g, i) \in Down(g) /\ Follow(g, i) \div 2 = i
    BY <2>2 DEF Follow
  <2>4. Follow(g, i) \in 1 .. Len(g) /\ i >= 1
    BY <1>1, <2>3
  <2> QED BY <2>3, <2>4
<1> QED BY <1>2, <1>3, <1>9 DEF n

(* What sinks leaves a heap that is wrong at its leaf only.                *)
LEMMA SunkOrdered ==
    ASSUME NEW g \in Seq(Entries), Len(g) >= 1, Ordered(g)
    PROVE  /\ Sunk(g) \in Seq(Entries) /\ Len(Sunk(g)) = Len(g)
           /\ \A i \in 2 .. Len(g) :
                 i # Leaf(g) => ~Sooner(Sunk(g)[i], Sunk(g)[i \div 2])
<1> DEFINE n == Leaf(g)
           a == Sunk(g)
           D == Down(g)
<1>1. /\ D \subseteq 1 .. Len(g) /\ n \in D /\ 2 * n > Len(g) /\ Len(g) \in Nat
      /\ \A i \in D \ {n} : /\ Follow(g, i) \in D /\ Follow(g, i) \in 2 .. Len(g)
                            /\ Follow(g, i) \div 2 = i
      /\ \A c, d \in D : c # 1 /\ d # 1 /\ c \div 2 = d \div 2 => c = d
      /\ \A i \in D : i # 1 => i \div 2 \in D /\ Heap!Preferred(g, i)
  BY DownIsPath, DownCloses
<1>2. /\ \A i \in D \ {n} : a[i] = g[Follow(g, i)]
      /\ \A i \in 1 .. Len(g) : i \notin D \/ i = n => a[i] = g[i]
      /\ a \in [1 .. Len(g) -> Entries]
  <2>1. \A i \in 1 .. Len(g) : g[i] \in Entries
    OBVIOUS
  <2>2. \A i \in D \ {n} : g[Follow(g, i)] \in Entries
    BY <1>1
  <2> QED BY <1>1, <2>1, <2>2 DEF Sunk
<1> HIDE DEF n, a, D
<1>3. a \in Seq(Entries) /\ Len(a) = Len(g)
  BY <1>1, <1>2, FunctionIsSeq
<1>4. ASSUME NEW i \in 2 .. Len(g), i # n PROVE ~Sooner(a[i], a[i \div 2])
  <2> DEFINE p == i \div 2
  <2>1. p \in 1 .. Len(g) /\ 2 * p <= Len(g) /\ p # n /\ i \in 1 .. Len(g)
    BY <1>1, Halving
  <2>2. ~Sooner(g[i], g[p])
    BY DEF Ordered
  <2>3. CASE p \notin D
    <3>1. i \notin D
      BY <1>1, <2>3
    <3> QED BY <1>2, <2>1, <2>2, <2>3, <3>1
  <2>4. CASE p \in D
    <3> DEFINE c == Follow(g, p)
    <3>1. c \in D /\ c \in 2 .. Len(g) /\ c \div 2 = p /\ a[p] = g[c]
      BY <1>1, <1>2, <2>1, <2>4
    <3> HIDE DEF p, c
    <3>2. CASE i \in D
      <4>1. i = c
        BY <1>1, <3>1, <3>2 DEF p
      <4>2. a[i] = g[Follow(g, i)] /\ Follow(g, i) \in 2 .. Len(g)
            /\ Follow(g, i) \div 2 = i
        BY <1>1, <1>2, <1>4, <3>2
      <4>3. ~Sooner(g[Follow(g, i)], g[i])
        BY <4>2 DEF Ordered
      <4> QED BY <3>1, <4>1, <4>2, <4>3 DEF p
    <3>3. CASE i \notin D
      <4>1. a[i] = g[i] /\ i # c
        BY <1>2, <2>1, <3>1, <3>3
      <4>2. Heap!Preferred(g, c)
        BY <1>1, <3>1
      <4>3. ~Sooner(g[i], g[c])
        BY <2>1, <3>1, <4>1, <4>2, OnePreferred DEF p
      <4> QED BY <3>1, <4>1, <4>3 DEF p
    <3> QED BY <3>2, <3>3
  <2> QED BY <2>3, <2>4
<1> QED BY <1>3, <1>4 DEF n, a

(* heappop: the head goes, the others stay, and so does the order.         *)
LEMMA PopTakes ==
    ASSUME NEW h \in Seq(Entries), h # <<>>
    PROVE  /\ Heap!heappop(h) \in Seq(Entries) /\ Len(Heap!heappop(h)) = Len(h) - 1
           /\ Ordered(h) => Ordered(Heap!heappop(h))
           /\ \A j : CountOf(Heap!heappop(h), j) =
                        CountOf(h, j) - IF h[1].job = j THEN 1 ELSE 0
<1> DEFINE l == Len(h)
           m == Len(h) - 1
           g == SubSeq(h, 1, m)
           n == Leaf(g)
           a == Sunk(g)
           r == Heap!heappop(h)
<1>1. l \in Nat \ {0} /\ m \in Nat /\ m + 1 = l /\ h[l] \in Entries
  OBVIOUS
<1>2. \A j : CountOf(h, j) \in Nat /\ (h[1].job = j => CountOf(h, j) >= 1)
  <2> SUFFICES ASSUME NEW j
               PROVE  CountOf(h, j) \in Nat /\ (h[1].job = j => CountOf(h, j) >= 1)
    OBVIOUS
  <2>1. h[1].job = j => 1 \in Positions(h, j)
    BY <1>1 DEF Positions
  <2>2. CountOf(h, j) \in Nat /\ (CountOf(h, j) = 0 <=> Positions(h, j) = {})
    BY <1>1, Counted
  <2> QED BY <2>1, <2>2
<1>3. \A j : Cardinality(Positions(h, j) \ {1}) =
                CountOf(h, j) - IF h[1].job = j THEN 1 ELSE 0
  <2>1. \A j : 1 \in Positions(h, j) <=> h[1].job = j
    BY <1>1 DEF Positions
  <2>2. \A j : IsFiniteSet(Positions(h, j))
    BY <1>1, Counted
  <2>3. \A j : Cardinality(Positions(h, j) \ {1}) =
           IF 1 \in Positions(h, j) THEN CountOf(h, j) - 1 ELSE CountOf(h, j)
    BY <2>2, FS_RemoveElement DEF CountOf
  <2> QED BY <1>2, <2>1, <2>3
<1>4. CASE m = 0
  <2>1. r = <<>> /\ Ordered(<<>>)
    BY <1>4 DEF Heap!heappop, Ordered
  <2>2. <<>> \in Seq(Entries) /\ Len(<<>>) = m
    BY <1>4
  <2>3. \A j : Positions(<<>>, j) = {} /\ Positions(h, j) \ {1} = {}
    <3>1. Len(<<>>) = 0
      BY EmptySeq
    <3>2. Len(h) = 1
      <4>1. Len(h) \in Nat /\ Len(h) - 1 = 0
        BY <1>4
      <4> QED BY <4>1
    <3> QED BY <3>1, <3>2 DEF Positions
  <2>4. \A j : CountOf(<<>>, j) = Cardinality(Positions(h, j) \ {1})
    BY <2>3 DEF CountOf
  <2> HIDE DEF r
  <2>5. \A j : CountOf(r, j) = CountOf(h, j) - IF h[1].job = j THEN 1 ELSE 0
    BY <1>3, <2>1, <2>4
  <2> QED BY <2>1, <2>2, <2>5 DEF r
<1>5. CASE m # 0
  <2>1. /\ g \in Seq(Entries) /\ Len(g) = m /\ m >= 1
        /\ \A i \in 1 .. m : g[i] = h[i]
    BY <1>1, <1>5
  <2>2. r = Heap!Rise(a, n, h[l])
    <3>1. Len(h) # 1
      BY <1>1, <1>5
    <3> DEFINE down == {i \in 1 .. m : \A x \in Heap!Path(i) \ {1} : Heap!Preferred(g, x)}
               leaf == CHOOSE i \in down : 2 * i > m
               next(i) == CHOOSE c \in down : c \div 2 = i
    <3>2. r = Heap!Rise([i \in 1 .. m |-> IF i \in down \ {leaf} THEN g[next(i)] ELSE g[i]],
                        leaf, h[l])
      BY <3>1 DEF Heap!heappop
    <3>3. Len(g) = m
      BY <2>1
    <3> HIDE DEF g, m
    <3>4. down = Down(g)
      BY <3>3 DEF Down
    <3> HIDE DEF down
    <3>5. leaf = n
      BY <3>3, <3>4 DEF Leaf
    <3>6. \A i : next(i) = Follow(g, i)
      BY <3>4 DEF Follow
    <3> HIDE DEF leaf, next
    <3>7. [i \in 1 .. m |-> IF i \in down \ {leaf} THEN g[next(i)] ELSE g[i]] = a
      BY <3>3, <3>4, <3>5, <3>6 DEF Sunk
    <3> HIDE DEF r, a, n
    <3> QED BY <3>2, <3>5, <3>7
  <2> HIDE DEF g, n, a, r, m, l
  <2>3. /\ Down(g) \subseteq 1 .. m /\ n \in Down(g) /\ 2 * n > m /\ n \in 1 .. m
        /\ \A i \in Down(g) \ {n} : /\ Follow(g, i) \in Down(g)
                                    /\ Follow(g, i) \in 2 .. m
                                    /\ Follow(g, i) \div 2 = i
        /\ 1 \in Down(g)
    BY <1>1, <2>1, DownIsPath, DownCloses DEF n
  <2>4. /\ a = [i \in 1 .. m |-> IF i \in Down(g) \ {n} THEN g[Follow(g, i)] ELSE g[i]]
        /\ a \in [1 .. m -> Entries]
    <3>1. a = [i \in 1 .. m |-> IF i \in Down(g) \ {n} THEN g[Follow(g, i)] ELSE g[i]]
      BY <2>1 DEF a, n, Sunk
    <3>2. \A i \in 1 .. m : g[i] \in Entries
      BY <2>1
    <3> QED BY <2>3, <3>1, <3>2
  <2>5. a \in Seq(Entries) /\ Len(a) = m
    BY <1>1, <2>4, FunctionIsSeq
  <2>6. n \in 1 .. Len(a) /\ 2 * n > Len(a)
    BY <2>3, <2>5
  <2>7. Rearranged(r, a, n, h[l])
    BY <1>1, <2>2, <2>5, <2>6, RisePermutes
  <2>8. r \in Seq(Entries) /\ Len(r) = m
    BY <2>5, <2>7 DEF Rearranged
  <2>9. ASSUME Ordered(h) PROVE Ordered(r)
    <3>1. Ordered(g)
      <4>1. \A i \in 2 .. m : i \in 2 .. l /\ i \in 1 .. m /\ i \div 2 \in 1 .. m
        BY <1>1, Halving
      <4> QED BY <2>1, <2>9, <4>1 DEF Ordered, l
    <3>2. \A i \in 2 .. Len(a) : i # n => ~Sooner(a[i], a[i \div 2])
      BY <2>1, <2>5, <3>1, SunkOrdered DEF a, n
    <3> QED BY <1>1, <2>2, <2>5, <2>6, <3>2, RiseOrders
  <2>10. \A j : CountOf(r, j) = Cardinality(Positions(h, j) \ {1})
    <3> DEFINE s == [i \in 1 .. m |-> IF i = n THEN l
                                      ELSE IF i \in Down(g) THEN Follow(g, i) ELSE i]
               b == [i \in 1 .. m |-> h[s[i]]]
    <3>1. /\ s[n] = l
          /\ \A i \in Down(g) \ {n} : s[i] = Follow(g, i) /\ s[i] \div 2 = i
                                      /\ s[i] \in Down(g) /\ s[i] \in 2 .. m
          /\ \A i \in 1 .. m : i \notin Down(g) => s[i] = i /\ i # 1
      BY <2>3
    <3>2. s \in [1 .. m -> 2 .. l]
      BY <1>1, <1>5, <2>3 DEF m
    <3>3. \A i \in 1 .. m : i # n => a[i] = h[s[i]] /\ s[i] \in 1 .. m
      BY <2>1, <2>3, <2>4, <3>1
    <3> HIDE DEF s
    <3>4. ASSUME NEW i \in 1 .. m, NEW k \in 1 .. m, s[i] = s[k] PROVE i = k
      <4>1. \A x \in 1 .. m : x # n => s[x] # l
        BY <1>1, <3>3
      <4>2. CASE i = n \/ k = n
        BY <3>1, <3>4, <4>1, <4>2
      <4>3. CASE i # n /\ k # n
        BY <3>1, <3>4, <4>3
      <4> QED BY <4>2, <4>3
    <3>5. s \in Injection(1 .. m, 2 .. l)
      BY <3>2, <3>4 DEF Injection, IsInjective
    <3>6. s \in Surjection(1 .. m, 2 .. l)
      <4>1. Cardinality(1 .. m) = m
        BY <1>1, <1>5, FS_Interval
      <4>2. IsFiniteSet(2 .. l) /\ Cardinality(2 .. l) = m
        <5>1. 2 \in Int /\ l \in Int /\ ~(2 > l) /\ l - 2 + 1 = m
          BY <1>1, <1>5
        <5> QED BY <5>1, FS_Interval
      <4> QED BY <3>5, <4>1, <4>2, FS_Injection
    <3>7. s \in Bijection(1 .. m, 2 .. l)
      BY <3>5, <3>6 DEF Bijection
    <3>8. b \in [1 .. m -> Entries] /\ \A i \in 1 .. m : b[i] = h[s[i]]
      <4>1. \A i \in 1 .. m : s[i] \in 1 .. l /\ h[s[i]] \in Entries
        BY <1>1, <3>2 DEF l
      <4> QED BY <4>1
    <3> HIDE DEF b
    <3>9. Len(b) = m
      BY <1>1, <3>8, FunctionIsSeq
    <3>10. PICK f \in Bijection(1 .. m, 1 .. m) :
              \A i \in 1 .. m : r[i] = IF f[i] = n THEN h[l] ELSE a[f[i]]
      BY <2>5, <2>7 DEF Rearranged
    <3>11. \A i \in 1 .. m : f[i] \in 1 .. m /\ r[i] = b[f[i]]
      <4>1. \A i \in 1 .. m : f[i] \in 1 .. m
        BY DEF Bijection, Injection
      <4> QED BY <3>1, <3>3, <3>8, <3>10, <4>1
    <3> SUFFICES ASSUME NEW j PROVE CountOf(r, j) = Cardinality(Positions(h, j) \ {1})
      OBVIOUS
    <3>12. CountOf(r, j) = Cardinality(Where(b, 1 .. m, j))
      <4>1. Selects(r, b, 1 .. m)
        BY <1>1, <2>8, <3>9, <3>11 DEF Selects
      <4> QED BY <4>1, SameCount
    <3>13. CountOf(b, j) = Cardinality(Where(h, 2 .. l, j))
      <4>1. Selects(b, h, 2 .. l)
        BY <1>1, <3>7, <3>8, <3>9 DEF l, Selects
      <4> QED BY <4>1, SameCount
    <3>14. Where(b, 1 .. m, j) = Positions(b, j)
      BY <3>9 DEF Positions, Where
    <3>15. Where(h, 2 .. l, j) = Positions(h, j) \ {1}
      BY <1>1 DEF Positions, Where, l
    <3> QED BY <3>12, <3>13, <3>14, <3>15 DEF CountOf
  <2> QED BY <1>3, <2>8, <2>9, <2>10 DEF r, m, l
<1> QED BY <1>4, <1>5

----------------------------------------------------------------------------
(* Ages that start again from 1 keep their order.                          *)
LEMMA RerankKeeps ==
    ASSUME MaxQueue \in Nat, NEW h \in Seq(Entries), Len(h) <= MaxQueue
    PROVE  /\ Rerank(h) \in Seq(Entries) /\ Len(Rerank(h)) = Len(h)
           /\ Ordered(h) => Ordered(Rerank(h))
           /\ \A j : CountOf(Rerank(h), j) = CountOf(h, j)
<1> DEFINE r == Rerank(h)
           N == 1 .. Len(h)
           Older(i) == {k \in N : h[k].n <= h[i].n}
<1>1. Len(h) \in Nat /\ \A i \in N : h[i] \in Entries
  OBVIOUS
<1>2. \A i \in N : h[i].n \in Nat /\ h[i].prio \in Nat /\ h[i].job \in Jobs
                   /\ h[i].prio \in 0 .. 5
  BY <1>1 DEF Entries
<1>3. \A i \in N : /\ IsFiniteSet(Older(i))
                   /\ Cardinality(Older(i)) \in 1 .. MaxQueue
  <2> SUFFICES ASSUME NEW i \in N
               PROVE  /\ IsFiniteSet(Older(i))
                      /\ Cardinality(Older(i)) \in 1 .. MaxQueue
    OBVIOUS
  <2>1. Older(i) \in SUBSET N /\ i \in Older(i)
    BY <1>2
  <2>2. IsFiniteSet(N) /\ Cardinality(N) = Len(h)
    <3>1. Len(h) \in Nat
      OBVIOUS
    <3> QED BY <3>1, Segment
  <2> HIDE DEF Older, N
  <2>3. /\ IsFiniteSet(Older(i)) /\ Cardinality(Older(i)) <= Len(h)
        /\ Cardinality(Older(i)) \in Nat /\ Cardinality(Older(i)) # 0
    BY <2>1, <2>2, FS_Subset, FS_CardinalityType, FS_EmptySet
  <2> QED BY <1>1, <2>3
<1>4. ASSUME NEW i \in N, NEW k \in N, h[k].n <= h[i].n
      PROVE  Cardinality(Older(k)) <= Cardinality(Older(i))
  <2>1. Older(k) \in SUBSET Older(i)
    BY <1>2, <1>4
  <2> HIDE DEF Older
  <2> QED BY <1>3, <2>1, FS_Subset
<1>5. r = [i \in N |-> [h[i] EXCEPT !.n = Cardinality(Older(i))]]
  BY DEF Rerank
<1> HIDE DEF Older, r
<1>6. \A i \in N : /\ r[i] \in Entries
                   /\ r[i].prio = h[i].prio /\ r[i].job = h[i].job
                   /\ r[i].n = Cardinality(Older(i))
  BY <1>1, <1>3, <1>5 DEF Entries
<1>7. r \in [N -> Entries]
  BY <1>5, <1>6
<1>8. r \in Seq(Entries) /\ Len(r) = Len(h)
  BY <1>1, <1>7, FunctionIsSeq
<1>9. ASSUME Ordered(h) PROVE Ordered(r)
  <2> SUFFICES ASSUME NEW i \in 2 .. Len(h), Sooner(r[i], r[i \div 2]) PROVE FALSE
    BY <1>8 DEF Ordered
  <2> DEFINE p == i \div 2
  <2>1. i \in N /\ p \in N
    BY <1>1, Halving
  <2>2. ~Sooner(h[i], h[p])
    BY <1>9 DEF Ordered
  <2>3. Sooner(r[i], r[p])
    OBVIOUS
  <2> HIDE DEF p, N
  <2>4. h[p].n <= h[i].n => r[p].n <= r[i].n
    BY <1>4, <1>6, <2>1
  <2>5. r[p].n \in Nat /\ r[i].n \in Nat
    BY <1>3, <1>6, <2>1
  <2> QED BY <1>2, <1>6, <2>1, <2>2, <2>3, <2>4, <2>5 DEF Sooner
<1>10. \A j : CountOf(r, j) = CountOf(h, j)
  <2>1. \A j : Positions(r, j) = Positions(h, j)
    BY <1>6, <1>8 DEF Positions
  <2> QED BY <2>1 DEF CountOf
<1> QED BY <1>8, <1>9, <1>10 DEF r

(* A list without the entries of a job has those of the others.            *)
LEMMA WithoutKeeps ==
    ASSUME NEW h \in Seq(Entries), NEW j
    PROVE  /\ Without(h, j) \in Seq(Entries) /\ Len(Without(h, j)) <= Len(h)
           /\ \A k : CountOf(Without(h, j), k) = IF k = j THEN 0 ELSE CountOf(h, k)
<1> DEFINE r == Without(h, j)
           kept == {i \in 1 .. Len(h) : h[i].job # j}
           N == Cardinality(kept)
           upTo(i) == {k \in kept : k <= i}
           at(n) == CHOOSE i \in kept : Cardinality(upTo(i)) = n
           rank == [i \in kept |-> Cardinality(upTo(i))]
           f == [n \in 1 .. N |-> at(n)]
<1>1. Len(h) \in Nat /\ \A i \in 1 .. Len(h) : h[i] \in Entries
  OBVIOUS
<1>2. kept \in SUBSET (1 .. Len(h))
  OBVIOUS
<1>3. IsFiniteSet(1 .. Len(h)) /\ Cardinality(1 .. Len(h)) = Len(h)
  <2>1. Len(h) \in Nat
    OBVIOUS
  <2> QED BY <2>1, Segment
<1>4. r = [n \in 1 .. N |-> h[at(n)]]
  BY DEF Without
<1>5. ASSUME NEW k PROVE Where(h, kept, k) = IF k = j THEN {} ELSE Positions(h, k)
  BY DEF Where, Positions
<1>6. \A i \in kept : /\ upTo(i) \in SUBSET kept /\ i \in upTo(i)
                      /\ \A k \in kept : k < i => upTo(k) \subseteq upTo(i)
                                                  /\ i \notin upTo(k)
  BY <1>2
<1> HIDE DEF kept, r
<1>7. IsFiniteSet(kept) /\ N \in Nat /\ N <= Len(h)
  BY <1>2, <1>3, FS_Subset, FS_CardinalityType
<1> HIDE DEF N, upTo
<1>8. \A i \in kept : IsFiniteSet(upTo(i)) /\ Cardinality(upTo(i)) \in 1 .. N
  <2> SUFFICES ASSUME NEW i \in kept
               PROVE  IsFiniteSet(upTo(i)) /\ Cardinality(upTo(i)) \in 1 .. N
    OBVIOUS
  <2>1. /\ IsFiniteSet(upTo(i)) /\ Cardinality(upTo(i)) <= N
        /\ Cardinality(upTo(i)) \in Nat /\ Cardinality(upTo(i)) # 0
    BY <1>6, <1>7, FS_Subset, FS_CardinalityType, FS_EmptySet DEF N
  <2> QED BY <1>7, <2>1
<1>9. ASSUME NEW i \in kept, NEW k \in kept, k < i
      PROVE  Cardinality(upTo(k)) # Cardinality(upTo(i))
  <2>1. Cardinality(upTo(k)) = Cardinality(upTo(i)) => upTo(i) = upTo(k)
    BY <1>6, <1>8, <1>9, FS_Subset
  <2> QED BY <1>6, <1>9, <2>1
<1>10. rank \in Injection(kept, 1 .. N)
  <2>1. rank \in [kept -> 1 .. N]
    BY <1>8
  <2>2. ASSUME NEW i \in kept, NEW k \in kept, rank[i] = rank[k] PROVE i = k
    BY <1>2, <1>9, <2>2
  <2> QED BY <2>1, <2>2 DEF Injection, IsInjective
<1>11. rank \in Surjection(kept, 1 .. N)
  <2>1. IsFiniteSet(1 .. N) /\ Cardinality(1 .. N) = N
    BY <1>7, Segment
  <2> HIDE DEF rank
  <2> QED BY <1>10, <2>1, FS_Injection DEF N
<1>12. \A n \in 1 .. N : at(n) \in kept /\ Cardinality(upTo(at(n))) = n
  <2> SUFFICES ASSUME NEW n \in 1 .. N
               PROVE  at(n) \in kept /\ Cardinality(upTo(at(n))) = n
    OBVIOUS
  <2>1. \E i \in kept : rank[i] = n
    BY <1>11 DEF Surjection
  <2> QED BY <2>1
<1> HIDE DEF at
<1>13. f \in Injection(1 .. N, kept)
  BY <1>12 DEF Injection, IsInjective
<1>14. f \in Surjection(1 .. N, kept)
  <2>1. IsFiniteSet(1 .. N) /\ Cardinality(1 .. N) = N
    BY <1>7, Segment
  <2> HIDE DEF f
  <2> QED BY <1>7, <1>13, <2>1, FS_Injection DEF N
<1>15. r \in [1 .. N -> Entries]
  BY <1>1, <1>2, <1>4, <1>12
<1>16. r \in Seq(Entries) /\ Len(r) = N
  BY <1>7, <1>15, FunctionIsSeq
<1>17. Selects(r, h, kept)
  <2>1. f \in Bijection(1 .. Len(r), kept)
    BY <1>13, <1>14, <1>16 DEF Bijection
  <2>2. \A i \in 1 .. Len(r) : r[i].job = h[f[i]].job
    BY <1>4, <1>16
  <2> HIDE DEF f
  <2> QED BY <1>1, <1>2, <1>7, <1>16, <2>1, <2>2 DEF Selects
<1>18. ASSUME NEW k PROVE CountOf(r, k) = IF k = j THEN 0 ELSE CountOf(h, k)
  <2>1. CountOf(r, k) = Cardinality(Where(h, kept, k))
    BY <1>17, SameCount
  <2> QED BY <1>5, <2>1, FS_EmptySet DEF CountOf
<1> QED BY <1>7, <1>16, <1>18 DEF r

----------------------------------------------------------------------------
(* What the scheduler does to its heap.                                    *)
LEMMA PutAdds ==
    ASSUME ConstantsFit, TypeOK, NEW j \in Jobs, NEW prio \in 0 .. 5, Put(j, prio)
    PROVE  /\ heap' \in Seq(Entries) /\ Len(heap') <= MaxQueue
           /\ Ordered(heap) => Ordered(heap')
           /\ \A k : CountOf(heap', k) = CountOf(heap, k) + IF k = j THEN 1 ELSE 0
<1> DEFINE x == [prio |-> prio, n |-> Len(heap) + 1, job |-> j]
<1>1. heap \in Seq(Entries) /\ Len(heap) < MaxQueue /\ Len(heap) \in Nat
  BY DEF TypeOK, Put
<1>2. x \in Entries /\ x.job = j
  BY <1>1 DEF ConstantsFit, Entries
<1>3. heap' = Heap!heappush(heap, x)
  BY DEF Put
<1> HIDE DEF x
<1>4. /\ heap' \in Seq(Entries) /\ Len(heap') = Len(heap) + 1
      /\ Ordered(heap) => Ordered(heap')
      /\ \A k : CountOf(heap', k) = CountOf(heap, k) + IF x.job = k THEN 1 ELSE 0
  BY <1>1, <1>2, <1>3, PushAdds
<1> QED BY <1>1, <1>2, <1>4 DEF ConstantsFit

LEMMA GetTakes ==
    ASSUME ConstantsFit, TypeOK, heap # <<>>, Get
    PROVE  /\ heap' \in Seq(Entries) /\ Len(heap') <= MaxQueue
           /\ Ordered(heap) => Ordered(heap')
           /\ heap[1].job \in Jobs /\ CountOf(heap, heap[1].job) >= 1
           /\ \A k : CountOf(heap', k) =
                        CountOf(heap, k) - IF k = heap[1].job THEN 1 ELSE 0
<1> DEFINE g == Heap!heappop(heap)
<1>1. heap \in Seq(Entries) /\ Len(heap) <= MaxQueue /\ MaxQueue \in Nat
  BY DEF TypeOK, ConstantsFit
<1>2. /\ g \in Seq(Entries) /\ Len(g) = Len(heap) - 1
      /\ Ordered(heap) => Ordered(g)
      /\ \A k : CountOf(g, k) = CountOf(heap, k) - IF heap[1].job = k THEN 1 ELSE 0
  BY <1>1, PopTakes
<1>3. heap' = Rerank(g)
  BY DEF Get
<1> HIDE DEF g
<1>4. Len(g) <= MaxQueue /\ Len(heap) \in Nat \ {0}
  BY <1>1, <1>2, EmptySeq
<1>5. /\ heap' \in Seq(Entries) /\ Len(heap') = Len(g)
      /\ Ordered(g) => Ordered(heap')
      /\ \A k : CountOf(heap', k) = CountOf(g, k)
  BY <1>1, <1>2, <1>3, <1>4, RerankKeeps
<1>6. heap[1] \in Entries /\ 1 \in Positions(heap, heap[1].job)
  BY <1>1, <1>4 DEF Positions
<1>7. CountOf(heap, heap[1].job) >= 1
  <2>1. /\ CountOf(heap, heap[1].job) \in Nat
        /\ CountOf(heap, heap[1].job) = 0 <=> Positions(heap, heap[1].job) = {}
    BY <1>4, Counted
  <2> QED BY <1>6, <2>1
<1>8. heap[1].job \in Jobs
  BY <1>6 DEF Entries
<1> QED BY <1>2, <1>4, <1>5, <1>7, <1>8

LEMMA CancelDrops ==
    ASSUME ConstantsFit, TypeOK, NEW j \in Jobs, Cancel(j)
    PROVE  /\ heap' \in Seq(Entries) /\ Len(heap') <= MaxQueue
           /\ \A k : CountOf(heap', k) = IF k = j THEN 0 ELSE CountOf(heap, k)
<1> DEFINE g == Without(heap, j)
<1>1. heap \in Seq(Entries) /\ Len(heap) <= MaxQueue /\ MaxQueue \in Nat
  BY DEF TypeOK, ConstantsFit
<1>2. /\ g \in Seq(Entries) /\ Len(g) <= Len(heap)
      /\ \A k : CountOf(g, k) = IF k = j THEN 0 ELSE CountOf(heap, k)
  BY <1>1, WithoutKeeps
<1>3. heap' = Rerank(g)
  BY DEF Cancel
<1> HIDE DEF g
<1>4. Len(g) <= MaxQueue
  <2>1. Len(g) \in Nat /\ Len(heap) \in Nat
    BY <1>1, <1>2, LenProperties
  <2> QED BY <1>1, <1>2, <2>1
<1>5. /\ heap' \in Seq(Entries) /\ Len(heap') = Len(g)
      /\ \A k : CountOf(heap', k) = CountOf(g, k)
  BY <1>1, <1>2, <1>3, <1>4, RerankKeeps
<1> QED BY <1>2, <1>4, <1>5

----------------------------------------------------------------------------
(* The copies of a job: what waits and what runs.                          *)
LEMMA CopiesAre ==
    ASSUME NEW j
    PROVE  /\ Copies(j) = CountOf(heap, j) + Cardinality(RunsOf(j))
           /\ Copies(j)' = CountOf(heap', j) + Cardinality(RunsOf(j)')
BY DEF Copies, Queued, CountOf, Positions

LEMMA RunsCount ==
    ASSUME ConstantsFit, NEW j
    PROVE  /\ IsFiniteSet(RunsOf(j)) /\ Cardinality(RunsOf(j)) \in Nat
           /\ Cardinality(RunsOf(j)) = 0 <=> RunsOf(j) = {}
<1>1. RunsOf(j) \in SUBSET Workers /\ IsFiniteSet(Workers)
  BY DEF RunsOf, ConstantsFit
<1>2. IsFiniteSet(RunsOf(j))
  BY <1>1, FS_Subset
<1> QED BY <1>2, FS_CardinalityType, FS_EmptySet

LEMMA QueueCount ==
    ASSUME TypeOK, NEW j
    PROVE  CountOf(heap, j) \in Nat
BY Counted DEF TypeOK

(* A run begins.                                                           *)
LEMMA RunBegins ==
    ASSUME ConstantsFit, TypeOK, NEW w \in Workers, doing[w] = Nobody,
           NEW j \in Jobs, doing' = [doing EXCEPT ![w] = j], NEW k \in Jobs
    PROVE  Cardinality(RunsOf(k)') = Cardinality(RunsOf(k)) + IF k = j THEN 1 ELSE 0
<1>1. RunsOf(k)' = IF k = j THEN RunsOf(k) \cup {w} ELSE RunsOf(k)
  BY DEF RunsOf, TypeOK, ConstantsFit
<1>2. w \notin RunsOf(k)
  BY DEF RunsOf, ConstantsFit
<1> QED BY <1>1, <1>2, RunsCount, FS_AddElement

(* A run ends.                                                             *)
LEMMA RunEnds ==
    ASSUME ConstantsFit, TypeOK, NEW w \in Workers, doing[w] \in Jobs,
           doing' = [doing EXCEPT ![w] = Nobody], NEW k \in Jobs
    PROVE  /\ Cardinality(RunsOf(k)') =
                 Cardinality(RunsOf(k)) - IF k = doing[w] THEN 1 ELSE 0
           /\ k = doing[w] => Cardinality(RunsOf(k)) >= 1
<1>1. RunsOf(k)' = RunsOf(k) \ {w}
  BY DEF RunsOf, TypeOK, ConstantsFit
<1>2. w \in RunsOf(k) <=> k = doing[w]
  BY DEF RunsOf
<1>3. Cardinality(RunsOf(k)) \in Nat /\ (Cardinality(RunsOf(k)) = 0 => RunsOf(k) = {})
  BY RunsCount
<1>4. Cardinality(RunsOf(k) \ {w}) =
         IF w \in RunsOf(k) THEN Cardinality(RunsOf(k)) - 1 ELSE Cardinality(RunsOf(k))
  BY RunsCount, FS_RemoveElement
<1> QED BY <1>1, <1>2, <1>3, <1>4

----------------------------------------------------------------------------
(* The types.  That a start finds no worker at a job is part of them: a      *)
(* scheduler that is stopped has stopped its workers.                      *)
StoppedIsOff == ~running => \A w \in Workers : pc[w] = "off"
TypeInv == TypeOK /\ StoppedIsOff

WorkTypes ==
    /\ pc \in [Workers -> {"off", "idle", "fetching", "backoff"}]
    /\ doing \in [Workers -> Jobs \cup {Nobody}]
    /\ attempts \in [Workers -> Nat]
    /\ \A w \in Workers :
          /\ doing[w] = Nobody <=> pc[w] \in {"off", "idle"}
          /\ attempts[w] <= IF doing[w] = Nobody THEN 0 ELSE MaxRetries[doing[w]]
    /\ StoppedIsOff

AdminTypes ==
    /\ registered \subseteq Jobs
    /\ running \in BOOLEAN
    /\ enabled \in [Jobs -> BOOLEAN]
    /\ timer \in [Interval -> {"none", "new", "sleeping"}]
    /\ dead \in [Jobs -> 0 .. MaxDead]
    /\ ops \in 0 .. MaxOps

HeapTypes == heap \in Seq(Entries) /\ Len(heap) <= MaxQueue

LockTypes == locked \subseteq Jobs /\ cancelled \subseteq Jobs /\ bypassed \subseteq Jobs

LEMMA Types == TypeInv <=> WorkTypes /\ AdminTypes /\ HeapTypes /\ LockTypes
BY DEF TypeInv, TypeOK, WorkTypes, AdminTypes, HeapTypes, LockTypes

LEMMA TypesNext == WorkTypes' /\ AdminTypes' /\ HeapTypes' /\ LockTypes' => TypeInv'
<1>1. (TypeInv <=> WorkTypes /\ AdminTypes /\ HeapTypes /\ LockTypes)'
  BY Types, PTL
<1> QED BY <1>1

(* What a step leaves alone keeps its types.                               *)
LEMMA SameWork == WorkTypes /\ UNCHANGED <<workVars, running>> => WorkTypes'
BY DEF WorkTypes, StoppedIsOff, workVars

LEMMA SameAdmin == AdminTypes /\ UNCHANGED adminVars => AdminTypes'
BY DEF AdminTypes, adminVars

LEMMA SameHeap == HeapTypes /\ UNCHANGED heap => HeapTypes'
BY DEF HeapTypes

LEMMA SameLocks == LockTypes /\ UNCHANGED <<locked, histVars>> => LockTypes'
BY DEF LockTypes, histVars

(* A worker moves: only its own place, job and attempts change.            *)
Moves(w, p, d, n) ==
    /\ pc[w] # "off" /\ p \in {"idle", "fetching", "backoff"}
    /\ d \in Jobs \cup {Nobody} /\ (d = Nobody <=> p = "idle")
    /\ n \in Nat /\ n <= IF d = Nobody THEN 0 ELSE MaxRetries[d]
    /\ pc' = [pc EXCEPT ![w] = p]
    /\ doing' = [doing EXCEPT ![w] = d]
    /\ attempts' = [attempts EXCEPT ![w] = n]
    /\ UNCHANGED running

LEMMA WorkerMoves ==
    ASSUME WorkTypes, NEW w \in Workers, NEW p, NEW d, NEW n, Moves(w, p, d, n)
    PROVE  WorkTypes'
<1> USE DEF WorkTypes, Moves
<1>1. /\ pc' \in [Workers -> {"off", "idle", "fetching", "backoff"}]
      /\ doing' \in [Workers -> Jobs \cup {Nobody}]
      /\ attempts' \in [Workers -> Nat]
      /\ pc'[w] = p /\ doing'[w] = d /\ attempts'[w] = n
      /\ \A v \in Workers \ {w} :
            pc'[v] = pc[v] /\ doing'[v] = doing[v] /\ attempts'[v] = attempts[v]
  OBVIOUS
<1>2. ASSUME NEW v \in Workers
      PROVE  /\ doing'[v] = Nobody <=> pc'[v] \in {"off", "idle"}
             /\ attempts'[v] <= IF doing'[v] = Nobody THEN 0 ELSE MaxRetries[doing'[v]]
  BY <1>1
<1>3. StoppedIsOff'
  BY DEF StoppedIsOff
<1> QED BY <1>1, <1>2, <1>3

LEMMA InitTypes == ASSUME ConstantsFit, Init PROVE TypeInv
<1>1. WorkTypes
  BY DEF Init, WorkTypes, StoppedIsOff
<1>2. AdminTypes /\ LockTypes
  <2>1. running \in BOOLEAN /\ enabled \in [Jobs -> BOOLEAN]
    BY Zenon DEF Init
  <2>2. dead \in [Jobs -> 0 .. MaxDead] /\ ops \in 0 .. MaxOps
    BY DEF Init, ConstantsFit
  <2>3. timer \in [Interval -> {"none", "new", "sleeping"}]
    BY DEF Init
  <2> QED BY <2>1, <2>2, <2>3 DEF Init, AdminTypes, LockTypes
<1>3. HeapTypes
  BY EmptySeq DEF Init, ConstantsFit, HeapTypes
<1> QED BY <1>1, <1>2, <1>3, Types

(* Calls of the operator and timers.                                       *)
LEMMA AdminStepTypes ==
    ASSUME ConstantsFit, TypeInv,
           \/ \E j \in Jobs : Register(j) \/ Unregister(j) \/ SetEnabled(j)
           \/ \E j \in Interval : TimerBegins(j)
           \/ Purge
    PROVE  TypeInv'
<1>1. WorkTypes /\ AdminTypes /\ HeapTypes /\ LockTypes
  BY Types
<1>2. UNCHANGED <<workVars, running, queueVars, histVars>>
  BY DEF Register, Unregister, SetEnabled, TimerBegins, Purge
<1>3. WorkTypes' /\ HeapTypes' /\ LockTypes'
  BY <1>1, <1>2, SameWork, SameHeap, SameLocks DEF queueVars
<1>4. AdminTypes'
  <2> USE DEF AdminTypes, ConstantsFit, Operator
  <2>1. ASSUME NEW j \in Jobs, Register(j) PROVE AdminTypes'
    BY <1>1, <2>1 DEF Register
  <2>2. ASSUME NEW j \in Jobs, Unregister(j) PROVE AdminTypes'
    BY <1>1, <2>2 DEF Unregister
  <2>3. ASSUME NEW j \in Jobs, SetEnabled(j) PROVE AdminTypes'
    BY <1>1, <2>3 DEF SetEnabled
  <2>4. ASSUME NEW j \in Interval, TimerBegins(j) PROVE AdminTypes'
    BY <1>1, <2>4 DEF TimerBegins
  <2>5. CASE Purge
    BY <1>1, <2>5 DEF Purge
  <2> QED BY <2>1, <2>2, <2>3, <2>4, <2>5
<1> QED BY <1>3, <1>4, TypesNext

(* What queues a job or takes entries from the queue.                      *)
LEMMA QueueStepTypes ==
    ASSUME ConstantsFit, TypeInv,
           \/ \E j \in Jobs : Trigger(j) \/ Cancel(j) \/ Replay(j) \/ LockExpires(j)
           \/ \E j \in Interval : Tick(j)
    PROVE  TypeInv'
<1>1. WorkTypes /\ AdminTypes /\ HeapTypes /\ LockTypes /\ TypeOK
  BY Types DEF TypeInv
<1>2. UNCHANGED <<workVars, running>>
  BY DEF Trigger, Cancel, Replay, LockExpires, Tick, adminVars
<1>3. WorkTypes'
  BY <1>1, <1>2, SameWork
<1>4. ASSUME NEW j \in Jobs, NEW prio \in 0 .. 5, Put(j, prio) PROVE HeapTypes'
  BY <1>1, <1>4, PutAdds DEF HeapTypes
<1>5. ASSUME NEW j \in Jobs, Trigger(j) PROVE TypeInv'
  <2>1. AdminTypes' /\ LockTypes'
    BY <1>1, <1>5, SameAdmin DEF Trigger, LockTypes, histVars
  <2>2. Priority[j] \in 0 .. 5 /\ 1 \in 0 .. 5
    BY DEF ConstantsFit
  <2>3. HeapTypes'
    BY <1>4, <1>5, <2>2 DEF Trigger
  <2> QED BY <1>3, <2>1, <2>3, TypesNext
<1>6. ASSUME NEW j \in Jobs, Cancel(j) PROVE TypeInv'
  <2>1. HeapTypes'
    BY <1>1, <1>6, CancelDrops DEF HeapTypes
  <2>2. AdminTypes' /\ LockTypes'
    BY <1>1, <1>6 DEF Cancel, Operator, AdminTypes, LockTypes, ConstantsFit
  <2> QED BY <1>3, <2>1, <2>2, TypesNext
<1>7. ASSUME NEW j \in Jobs, Replay(j) PROVE TypeInv'
  <2>1. HeapTypes'
    BY <1>1, <1>4, <1>7, SameHeap DEF Replay
  <2>2. AdminTypes' /\ LockTypes'
    BY <1>1, <1>7 DEF Replay, Operator, AdminTypes, LockTypes, ConstantsFit
  <2> QED BY <1>3, <2>1, <2>2, TypesNext
<1>8. ASSUME NEW j \in Jobs, LockExpires(j) PROVE TypeInv'
  <2>1. AdminTypes' /\ HeapTypes' /\ LockTypes'
    BY <1>1, <1>8, SameAdmin, SameHeap DEF LockExpires, LockTypes
  <2> QED BY <1>3, <2>1, TypesNext
<1>9. ASSUME NEW j \in Interval, Tick(j) PROVE TypeInv'
  <2>1. j \in Jobs /\ Priority[j] \in 0 .. 5
    BY DEF ConstantsFit
  <2>2. HeapTypes'
    BY <1>1, <1>4, <1>9, <2>1, SameHeap DEF Tick
  <2>3. AdminTypes' /\ LockTypes'
    BY <1>1, <1>9, <2>1, SameAdmin DEF Tick, LockTypes
  <2> QED BY <1>3, <2>2, <2>3, TypesNext
<1> QED BY <1>5, <1>6, <1>7, <1>8, <1>9

(* The scheduler starts and stops.                                         *)
LEMMA LifeStepTypes ==
    ASSUME ConstantsFit, TypeInv, Start \/ Stop PROVE TypeInv'
<1>1. WorkTypes /\ AdminTypes /\ HeapTypes /\ LockTypes
  BY Types
<1>2. CASE Start
  <2>1. WorkTypes'
    BY <1>1, <1>2 DEF Start, WorkTypes, StoppedIsOff
  <2>2. AdminTypes' /\ HeapTypes' /\ LockTypes'
    BY <1>1, <1>2, SameHeap, SameLocks DEF Start, AdminTypes, queueVars
  <2> QED BY <2>1, <2>2, TypesNext
<1>3. CASE Stop
  <2>1. WorkTypes'
    BY <1>1, <1>3 DEF Stop, WorkTypes, StoppedIsOff
  <2>2. AdminTypes'
    <3>1. running' \in BOOLEAN /\ timer' \in [Interval -> {"none", "new", "sleeping"}]
      BY <1>3 DEF Stop
    <3>2. ops' \in 0 .. MaxOps
      BY <1>1, <1>3 DEF Stop, Operator, AdminTypes, ConstantsFit
    <3> QED BY <1>1, <1>3, <3>1, <3>2 DEF Stop, AdminTypes
  <2>3. HeapTypes' /\ LockTypes'
    BY <1>1, <1>3, SameHeap DEF Stop, LockTypes, histVars
  <2> QED BY <2>1, <2>2, <2>3, TypesNext
<1> QED BY <1>2, <1>3

(* The workers.                                                            *)
LEMMA WorkerStepTypes ==
    ASSUME ConstantsFit, TypeInv, NEW w \in Workers, WorkerStep(w) PROVE TypeInv'
<1>1. WorkTypes /\ AdminTypes /\ HeapTypes /\ LockTypes /\ TypeOK
  BY Types DEF TypeInv
<1>2. /\ pc[w] \in {"off", "idle", "fetching", "backoff"}
      /\ doing[w] \in Jobs \cup {Nobody} /\ attempts[w] \in Nat
      /\ doing[w] = Nobody <=> pc[w] \in {"off", "idle"}
      /\ attempts[w] <= IF doing[w] = Nobody THEN 0 ELSE MaxRetries[doing[w]]
      /\ doing = [doing EXCEPT ![w] = doing[w]]
      /\ attempts = [attempts EXCEPT ![w] = attempts[w]]
  BY <1>1 DEF WorkTypes
<1>3. CASE Take(w)
  <2>1. HeapTypes' /\ heap[1].job \in Jobs
    BY <1>1, <1>3, GetTakes DEF Take, HeapTypes
  <2>2. /\ UNCHANGED <<running, adminVars, locked, histVars>>
        /\ pc[w] = "idle" /\ attempts' = attempts
        /\ pc' = [pc EXCEPT ![w] = "fetching"]
        /\ doing' = [doing EXCEPT ![w] = heap[1].job]
    BY <1>3 DEF Take, adminVars
  <2>3. WorkTypes'
    <3>1. attempts[w] = 0 /\ MaxRetries[heap[1].job] \in Nat /\ heap[1].job # Nobody
      BY <1>2, <2>1, <2>2 DEF ConstantsFit
    <3>2. Moves(w, "fetching", heap[1].job, attempts[w])
      BY <1>2, <2>1, <2>2, <3>1 DEF Moves
    <3> QED BY <1>1, <3>2, WorkerMoves
  <2> QED BY <1>1, <2>1, <2>2, <2>3, SameAdmin, SameLocks, TypesNext
<1>4. CASE TakeUnserved(w)
  <2>1. HeapTypes'
    BY <1>1, <1>4, GetTakes DEF TakeUnserved, HeapTypes
  <2>2. WorkTypes' /\ AdminTypes' /\ LockTypes'
    BY <1>1, <1>4, SameWork, SameAdmin DEF TakeUnserved, LockTypes, histVars, adminVars
  <2> QED BY <2>1, <2>2, TypesNext
<1>5. ASSUME EndRun(w), pc[w] = "fetching", UNCHANGED <<running, heap, histVars>>
      PROVE  WorkTypes' /\ HeapTypes' /\ LockTypes'
  <2>1. Moves(w, "idle", Nobody, 0)
    BY <1>2, <1>5 DEF EndRun, Moves
  <2>2. WorkTypes'
    BY <1>1, <2>1, WorkerMoves
  <2> QED BY <1>1, <1>5, <2>2, SameHeap DEF EndRun, LockTypes, histVars
<1>6. CASE Complete(w)
  <2>1. WorkTypes' /\ HeapTypes' /\ LockTypes'
    BY <1>5, <1>6 DEF Complete, adminVars
  <2> QED BY <1>1, <1>6, <2>1, SameAdmin, TypesNext DEF Complete
<1>7. CASE GiveUp(w)
  <2>1. WorkTypes' /\ HeapTypes' /\ LockTypes'
    BY <1>5, <1>7 DEF GiveUp
  <2>2. doing[w] \in Jobs
    BY <1>2, <1>7 DEF GiveUp
  <2>3. dead' \in [Jobs -> 0 .. MaxDead]
    BY <1>1, <1>7, <2>2 DEF GiveUp, AdminTypes, ConstantsFit
  <2>4. AdminTypes'
    BY <1>1, <1>7, <2>3 DEF GiveUp, AdminTypes
  <2> QED BY <2>1, <2>4, TypesNext
<1>8. CASE RetryLater(w) \/ RetryNow(w)
  <2>1. UNCHANGED <<running, adminVars, heap, locked, histVars>>
    BY <1>8 DEF RetryLater, RetryNow, adminVars, queueVars
  <2>2. CASE RetryLater(w)
    <3>1. doing[w] \in Jobs /\ attempts[w] + 1 <= MaxRetries[doing[w]] /\ doing[w] # Nobody
      BY <1>2, <2>2 DEF RetryLater, ConstantsFit
    <3>2. /\ pc[w] # "off" /\ pc' = [pc EXCEPT ![w] = "backoff"]
          /\ doing' = [doing EXCEPT ![w] = doing[w]]
          /\ attempts' = [attempts EXCEPT ![w] = attempts[w] + 1]
      BY <1>2, <2>2 DEF RetryLater
    <3>3. attempts[w] + 1 \in Nat
      BY <1>2
    <3>4. WorkTypes'
      <4>1. Moves(w, "backoff", doing[w], attempts[w] + 1)
        BY <2>1, <3>1, <3>2, <3>3 DEF Moves
      <4> QED BY <1>1, <4>1, WorkerMoves
    <3> QED BY <1>1, <2>1, <3>4, SameAdmin, SameHeap, SameLocks, TypesNext
  <2>3. CASE RetryNow(w)
    <3>1. doing[w] \in Jobs /\ attempts[w] <= MaxRetries[doing[w]] /\ doing[w] # Nobody
      BY <1>2, <2>3 DEF RetryNow
    <3>2. /\ pc[w] # "off" /\ pc' = [pc EXCEPT ![w] = "fetching"]
          /\ doing' = [doing EXCEPT ![w] = doing[w]]
          /\ attempts' = [attempts EXCEPT ![w] = attempts[w]]
      BY <1>2, <2>3 DEF RetryNow
    <3>3. WorkTypes'
      <4>1. Moves(w, "fetching", doing[w], attempts[w])
        BY <1>2, <2>1, <3>1, <3>2 DEF Moves
      <4> QED BY <1>1, <4>1, WorkerMoves
    <3> QED BY <1>1, <2>1, <3>3, SameAdmin, SameHeap, SameLocks, TypesNext
  <2> QED BY <1>8, <2>2, <2>3
<1> QED BY <1>3, <1>4, <1>6, <1>7, <1>8 DEF WorkerStep

LEMMA StepTypes == ASSUME ConstantsFit, TypeInv, [Next]_vars PROVE TypeInv'
<1>1. CASE UNCHANGED vars
  BY <1>1, Types, SameWork, SameAdmin, SameHeap, SameLocks, TypesNext
  DEF vars, queueVars, workVars, adminVars
<1> QED
  BY <1>1, AdminStepTypes, QueueStepTypes, LifeStepTypes, WorkerStepTypes DEF Next

(* Every state has its types, for every number of jobs, workers, queued     *)
(* entries, retries, dead letters and calls.                               *)
THEOREM TypeCorrect == Spec => []TypeOK
<1> USE JobSchedulerAssumption
<1>1. TypeInv => TypeOK
  BY DEF TypeInv
<1> QED BY <1>1, InitTypes, StepTypes, PTL DEF Spec

----------------------------------------------------------------------------
(* The locks.  What both properties say of a job is kept by every step, by  *)
(* what the step does to the copies of the job, its lock and its history.  *)
Tracked(j) ==
    /\ j \notin bypassed => Copies(j) <= 1 /\ (Copies(j) = 1 => j \in locked)
    /\ j \in locked /\ j \notin cancelled => Copies(j) > 0

LockInv == TypeInv /\ \A j \in Jobs : Tracked(j)

LEMMA TrackedIsBoth ==
    LockInv => LockedJobsAreUnique /\ NoLockLeaks
BY DEF LockInv, TypeInv, TypeOK, Tracked, LockedJobsAreUnique, NoLockLeaks

LEMMA CopiesAreNat ==
    ASSUME ConstantsFit, TypeOK, NEW j
    PROVE  /\ Copies(j) \in Nat
           /\ CountOf(heap, j) \in Nat /\ Cardinality(RunsOf(j)) \in Nat
           /\ Copies(j) = CountOf(heap, j) + Cardinality(RunsOf(j))
BY CopiesAre, QueueCount, RunsCount

(* The hypotheses every step starts from, for one job.                     *)
StepOf(k) == ConstantsFit /\ TypeOK /\ k \in Jobs /\ Tracked(k)

(* The copies stay, and what is known of the job is no less.               *)
LEMMA CopiesStay ==
    ASSUME NEW k, StepOf(k), UNCHANGED <<heap, doing>>,
           \/ UNCHANGED <<locked, histVars>>
           \/ \E j \in Jobs : LockExpires(j)
    PROVE  Tracked(k)'
<1>1. RunsOf(k)' = RunsOf(k)
  BY DEF RunsOf
<1>2. Copies(k)' = Copies(k) /\ Copies(k) \in Nat
  BY <1>1, CopiesAre, CopiesAreNat DEF StepOf
<1> QED BY <1>2 DEF StepOf, Tracked, LockExpires, histVars

(* The job j joins the queue: with its lock, or around it.                 *)
LEMMA CopiesGrow ==
    ASSUME NEW k, StepOf(k), UNCHANGED <<doing, cancelled>>,
           NEW j \in Jobs, NEW prio \in 0 .. 5, Put(j, prio),
           \/ j \notin locked /\ locked' = locked \cup {j} /\ UNCHANGED bypassed
           \/ UNCHANGED locked /\ bypassed' = bypassed \cup {j}
    PROVE  Tracked(k)'
<1>1. RunsOf(k)' = RunsOf(k)
  BY DEF RunsOf
<1>2. CountOf(heap', k) = CountOf(heap, k) + IF k = j THEN 1 ELSE 0
  BY PutAdds DEF StepOf
<1>3. /\ Copies(k)' = Copies(k) + IF k = j THEN 1 ELSE 0
      /\ Copies(k) \in Nat
  BY <1>1, <1>2, CopiesAre, CopiesAreNat DEF StepOf
<1> QED BY <1>3 DEF StepOf, Tracked

(* The queued copies of a cancelled job go, and those of no other.         *)
LEMMA CopiesCancelled ==
    ASSUME NEW k, StepOf(k), NEW j \in Jobs, Cancel(j)
    PROVE  Tracked(k)'
<1>1. RunsOf(k)' = RunsOf(k)
  BY DEF RunsOf, Cancel, workVars
<1>2. CountOf(heap', k) = IF k = j THEN 0 ELSE CountOf(heap, k)
  BY CancelDrops DEF StepOf
<1>3. /\ k # j => Copies(k)' = Copies(k)
      /\ Copies(k)' <= Copies(k) /\ Copies(k)' \in Nat /\ Copies(k) \in Nat
  BY <1>1, <1>2, CopiesAre, CopiesAreNat DEF StepOf
<1> QED BY <1>3 DEF StepOf, Tracked, Cancel

(* A worker takes a job: one copy less waits, one more runs.               *)
LEMMA CopiesTaken ==
    ASSUME NEW k, StepOf(k), NEW w \in Workers, Take(w)
    PROVE  Tracked(k)'
<1>1. /\ CountOf(heap', k) = CountOf(heap, k) - IF k = heap[1].job THEN 1 ELSE 0
      /\ heap[1].job \in Jobs
  BY GetTakes DEF StepOf, Take
<1>2. doing[w] = Nobody
  BY DEF StepOf, TypeOK, Take
<1>3. Cardinality(RunsOf(k)') =
         Cardinality(RunsOf(k)) + IF k = heap[1].job THEN 1 ELSE 0
  BY <1>1, <1>2, RunBegins DEF StepOf, Take
<1>4. Copies(k)' = Copies(k)
  BY <1>1, <1>3, CopiesAre, CopiesAreNat DEF StepOf
<1> QED BY <1>4 DEF StepOf, Tracked, Take, histVars

(* The job of no connector is taken and over at once.                      *)
LEMMA CopiesUnserved ==
    ASSUME NEW k, StepOf(k), NEW w \in Workers, TakeUnserved(w)
    PROVE  Tracked(k)'
<1>1. /\ CountOf(heap', k) = CountOf(heap, k) - IF k = heap[1].job THEN 1 ELSE 0
      /\ CountOf(heap, heap[1].job) >= 1
  BY GetTakes DEF StepOf, TakeUnserved
<1>2. RunsOf(k)' = RunsOf(k)
  BY DEF RunsOf, TakeUnserved, workVars
<1>3. /\ Copies(k)' = Copies(k) - IF k = heap[1].job THEN 1 ELSE 0
      /\ Copies(k) \in Nat /\ (k = heap[1].job => Copies(k) >= 1)
  BY <1>1, <1>2, CopiesAre, CopiesAreNat DEF StepOf
<1> QED BY <1>3 DEF StepOf, Tracked, TakeUnserved, histVars

(* A run ends and releases the lock.                                       *)
LEMMA CopiesEnded ==
    ASSUME NEW k, StepOf(k), NEW w \in Workers, EndRun(w), doing[w] \in Jobs,
           UNCHANGED <<heap, histVars>>
    PROVE  Tracked(k)'
<1>1. /\ Cardinality(RunsOf(k)') =
            Cardinality(RunsOf(k)) - IF k = doing[w] THEN 1 ELSE 0
      /\ k = doing[w] => Cardinality(RunsOf(k)) >= 1
  BY RunEnds DEF StepOf, EndRun
<1>2. /\ Copies(k)' = Copies(k) - IF k = doing[w] THEN 1 ELSE 0
      /\ Copies(k) \in Nat /\ (k = doing[w] => Copies(k) >= 1)
  BY <1>1, CopiesAre, CopiesAreNat DEF StepOf
<1> QED BY <1>2 DEF StepOf, Tracked, EndRun, histVars

(* All runs end at once, with the locks of their jobs.                     *)
LEMMA CopiesStopped ==
    ASSUME NEW k, StepOf(k), Stop
    PROVE  Tracked(k)'
<1>1. RunsOf(k)' = {}
  BY DEF RunsOf, Stop, StepOf, ConstantsFit
<1>2. Copies(k)' = CountOf(heap, k)
  <2>1. Cardinality(RunsOf(k)') = 0 /\ heap' = heap
    BY <1>1, FS_EmptySet DEF Stop
  <2>2. Copies(k)' = CountOf(heap, k) + 0 /\ CountOf(heap, k) \in Nat
    BY <2>1, CopiesAre, CopiesAreNat DEF StepOf
  <2> QED BY <2>2
<1>3. /\ Copies(k) = CountOf(heap, k) + Cardinality(RunsOf(k))
      /\ CountOf(heap, k) \in Nat /\ Cardinality(RunsOf(k)) \in Nat
      /\ Cardinality(RunsOf(k)) = 0 <=> RunsOf(k) = {}
  BY CopiesAreNat, RunsCount DEF StepOf
<1>4. k \in locked' <=> k \in locked /\ RunsOf(k) = {}
  BY DEF Stop, RunsOf
<1> QED BY <1>2, <1>3, <1>4 DEF StepOf, Tracked, Stop, histVars

LEMMA StepTracked ==
    ASSUME ConstantsFit, LockInv, [Next]_vars, NEW k \in Jobs PROVE Tracked(k)'
<1>1. StepOf(k) /\ TypeOK
  BY DEF LockInv, TypeInv, StepOf
<1>2. ASSUME UNCHANGED <<heap, doing, locked, histVars>> PROVE Tracked(k)'
  BY <1>1, <1>2, CopiesStay
<1>3. ASSUME NEW j \in Jobs, Register(j) \/ Unregister(j) \/ SetEnabled(j)
      PROVE  Tracked(k)'
  BY <1>2, <1>3 DEF Register, Unregister, SetEnabled, queueVars, workVars
<1>4. ASSUME NEW j \in Jobs, Trigger(j) PROVE Tracked(k)'
  <2>1. PICK prio \in {Priority[j], 1} : Put(j, prio)
    BY <1>4 DEF Trigger
  <2>2. prio \in 0 .. 5
    BY DEF ConstantsFit
  <2>3. /\ UNCHANGED <<doing, cancelled, bypassed>>
        /\ j \notin locked /\ locked' = locked \cup {j}
    BY <1>4 DEF Trigger, workVars, histVars
  <2> QED BY <1>1, <2>1, <2>2, <2>3, CopiesGrow
<1>5. ASSUME NEW j \in Jobs, Cancel(j) PROVE Tracked(k)'
  BY <1>1, <1>5, CopiesCancelled
<1>6. ASSUME NEW j \in Jobs, Replay(j) PROVE Tracked(k)'
  <2>1. UNCHANGED <<doing, cancelled, locked>>
    BY <1>6 DEF Replay, workVars
  <2>2. CASE j \in registered
    <3>1. Put(j, 3) /\ bypassed' = bypassed \cup {j}
      BY <1>6, <2>2 DEF Replay
    <3>2. 3 \in 0 .. 5
      OBVIOUS
    <3> QED BY <1>1, <2>1, <3>1, <3>2, CopiesGrow
  <2>3. CASE j \notin registered
    BY <1>2, <1>6, <2>1, <2>3 DEF Replay, histVars
  <2> QED BY <2>2, <2>3
<1>7. ASSUME NEW j \in Jobs, LockExpires(j) PROVE Tracked(k)'
  BY <1>1, <1>7, CopiesStay DEF LockExpires, workVars
<1>8. ASSUME NEW j \in Interval, Tick(j) PROVE Tracked(k)'
  <2>1. UNCHANGED <<doing, cancelled, locked>> /\ j \in Jobs /\ Priority[j] \in 0 .. 5
    BY <1>8 DEF Tick, workVars, ConstantsFit
  <2>2. CASE enabled[j]
    <3>1. Put(j, Priority[j]) /\ bypassed' = bypassed \cup {j}
      BY <1>8, <2>2 DEF Tick
    <3> QED BY <1>1, <2>1, <3>1, CopiesGrow
  <2>3. CASE ~enabled[j]
    BY <1>2, <1>8, <2>1, <2>3 DEF Tick, histVars
  <2> QED BY <2>2, <2>3
<1>9. ASSUME NEW j \in Interval, TimerBegins(j) PROVE Tracked(k)'
  BY <1>2, <1>9 DEF TimerBegins, queueVars, workVars
<1>10. CASE Start \/ Purge
  BY <1>2, <1>10 DEF Start, Purge, queueVars, workVars
<1>11. CASE Stop
  BY <1>1, <1>11, CopiesStopped
<1>12. ASSUME NEW w \in Workers, WorkerStep(w) PROVE Tracked(k)'
  <2>1. CASE Take(w) \/ TakeUnserved(w)
    BY <1>1, <2>1, CopiesTaken, CopiesUnserved
  <2>2. CASE Complete(w) \/ GiveUp(w)
    <3>1. doing[w] \in Jobs
      BY <1>1, <2>2 DEF Complete, GiveUp, TypeOK
    <3>2. EndRun(w) /\ UNCHANGED <<heap, histVars>>
      BY <2>2 DEF Complete, GiveUp
    <3> QED BY <1>1, <3>1, <3>2, CopiesEnded
  <2>3. CASE RetryLater(w) \/ RetryNow(w)
    BY <1>2, <2>3 DEF RetryLater, RetryNow, queueVars
  <2> QED BY <1>12, <2>1, <2>2, <2>3 DEF WorkerStep
<1>13. CASE UNCHANGED vars
  BY <1>2, <1>13 DEF vars, queueVars, workVars
<1> QED
  BY <1>3, <1>4, <1>5, <1>6, <1>7, <1>8, <1>9, <1>10, <1>11, <1>12, <1>13 DEF Next

LEMMA LocksInductive ==
    ASSUME ConstantsFit PROVE Spec => []LockInv
<1>1. Init => LockInv
  <2> SUFFICES ASSUME Init PROVE LockInv
    OBVIOUS
  <2>1. TypeInv
    BY InitTypes
  <2>2. ASSUME NEW j \in Jobs PROVE Tracked(j)
    <3>1. Positions(heap, j) = {} /\ RunsOf(j) = {}
      BY EmptySeq DEF Init, Positions, RunsOf, ConstantsFit
    <3>2. Copies(j) = 0
      BY <3>1, CopiesAre, FS_EmptySet DEF CountOf
    <3> QED BY <3>2 DEF Tracked, Init
  <2> QED BY <2>1, <2>2 DEF LockInv
<1>2. LockInv /\ [Next]_vars => LockInv'
  <2> SUFFICES ASSUME LockInv, [Next]_vars PROVE LockInv'
    OBVIOUS
  <2>1. TypeInv'
    BY StepTypes DEF LockInv
  <2>2. \A k \in Jobs : Tracked(k)'
    BY StepTracked
  <2> QED BY <2>1, <2>2 DEF LockInv
<1> QED BY <1>1, <1>2, PTL DEF Spec

(* A job that got around its lock in no way is queued or running once at    *)
(* most, with its lock held: through retries, restarts and cancels, for any *)
(* jobs and any number of workers.                                         *)
THEOREM LockedJobsUnique == Spec => []LockedJobsAreUnique
BY JobSchedulerAssumption, LocksInductive, TrackedIsBoth, PTL

(* No lock outlives its job unless the job was cancelled.                  *)
THEOREM LocksDoNotLeak == Spec => []NoLockLeaks
BY JobSchedulerAssumption, LocksInductive, TrackedIsBoth, PTL

----------------------------------------------------------------------------
(* The order.  Every push and pop keeps the heap a heap; cancel does not.   *)
OrderInv == TypeInv /\ (cancelled = {} => Ordered(heap))

LEMMA StepOrdered ==
    ASSUME ConstantsFit, TypeOK, Next, ~\E j \in Jobs : Cancel(j)
    PROVE  (Ordered(heap) => Ordered(heap')) /\ UNCHANGED cancelled
<1> DEFINE Keeps == Ordered(heap) => Ordered(heap')
<1>1. ASSUME NEW j \in Jobs, NEW prio \in 0 .. 5, Put(j, prio) PROVE Keeps
  BY <1>1, PutAdds
<1>2. ASSUME UNCHANGED heap PROVE Keeps
  BY <1>2
<1>3. ASSUME NEW j \in Jobs,
             \/ Register(j) \/ Unregister(j) \/ SetEnabled(j) \/ LockExpires(j)
      PROVE  Keeps /\ UNCHANGED cancelled
  BY <1>2, <1>3 DEF Register, Unregister, SetEnabled, LockExpires, queueVars, histVars
<1>4. ASSUME NEW j \in Jobs, Trigger(j) PROVE Keeps /\ UNCHANGED cancelled
  <2>1. Priority[j] \in 0 .. 5 /\ 1 \in 0 .. 5
    BY DEF ConstantsFit
  <2> QED BY <1>1, <1>4, <2>1 DEF Trigger, histVars
<1>5. ASSUME NEW j \in Jobs, Replay(j) PROVE Keeps /\ UNCHANGED cancelled
  <2>1. 3 \in 0 .. 5
    OBVIOUS
  <2> QED BY <1>1, <1>2, <1>5, <2>1 DEF Replay
<1>6. ASSUME NEW j \in Interval, Tick(j) PROVE Keeps /\ UNCHANGED cancelled
  <2>1. j \in Jobs /\ Priority[j] \in 0 .. 5
    BY DEF ConstantsFit
  <2> QED BY <1>1, <1>2, <1>6, <2>1 DEF Tick
<1>7. ASSUME NEW j \in Interval, TimerBegins(j)
      PROVE  Keeps /\ UNCHANGED cancelled
  BY <1>2, <1>7 DEF TimerBegins, queueVars, histVars
<1>8. CASE Start \/ Stop \/ Purge
  BY <1>2, <1>8 DEF Start, Stop, Purge, queueVars, histVars
<1>9. ASSUME NEW w \in Workers, WorkerStep(w)
      PROVE  Keeps /\ UNCHANGED cancelled
  <2>1. CASE Take(w) \/ TakeUnserved(w)
    <3>1. heap # <<>> /\ Get /\ UNCHANGED cancelled
      BY <2>1 DEF Take, TakeUnserved, histVars
    <3> QED BY <3>1, GetTakes
  <2>2. CASE Complete(w) \/ GiveUp(w) \/ RetryLater(w) \/ RetryNow(w)
    BY <1>2, <2>2 DEF Complete, GiveUp, RetryLater, RetryNow, queueVars, histVars
  <2> QED BY <1>9, <2>1, <2>2 DEF WorkerStep
<1> QED BY <1>3, <1>4, <1>5, <1>6, <1>7, <1>8, <1>9 DEF Next

(* The next job a worker takes is the most urgent of all that wait, first   *)
(* come first served, as long as nothing was cancelled: for a heap of any   *)
(* size, whatever was queued and taken before.                             *)
THEOREM MostUrgentIsNext == Spec => []MostUrgentNext
<1> USE JobSchedulerAssumption
<1>1. Init => OrderInv
  <2> SUFFICES ASSUME Init PROVE OrderInv
    OBVIOUS
  <2>1. Len(heap) = 0
    BY EmptySeq DEF Init
  <2> QED BY <2>1, InitTypes DEF OrderInv, Ordered
<1>2. OrderInv /\ [Next]_vars => OrderInv'
  <2> SUFFICES ASSUME OrderInv, [Next]_vars PROVE OrderInv'
    OBVIOUS
  <2>1. TypeInv' /\ TypeOK
    BY StepTypes DEF OrderInv, TypeInv
  <2>2. CASE UNCHANGED vars
    BY <2>1, <2>2 DEF OrderInv, vars, queueVars, histVars
  <2>3. ASSUME NEW j \in Jobs, Cancel(j) PROVE OrderInv'
    BY <2>1, <2>3 DEF OrderInv, Cancel
  <2>4. ASSUME Next, ~\E j \in Jobs : Cancel(j)
        PROVE  OrderInv'
    BY <2>1, <2>4, StepOrdered DEF OrderInv
  <2> QED BY <2>2, <2>3, <2>4
<1>3. OrderInv => MostUrgentNext
  BY OrderedHead DEF OrderInv, TypeInv, TypeOK, MostUrgentNext
<1> QED BY <1>1, <1>2, <1>3, PTL DEF Spec
=============================================================================
