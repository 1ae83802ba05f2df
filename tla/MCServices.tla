----------------------------- MODULE MCServices ----------------------------
(***************************************************************************)
(* A small instance of each component of Services.                         *)
(***************************************************************************)
EXTENDS Services, TLC

CONSTANTS w1, w2, b1, b2, b3, b4, wc1, wc2

\* Definitions 1 and 2 share a plan and provider; 3 is not runnable.
MCLockKey == <<"a", "a", "b">>

\* A source id overlaps with its namesake among the canonical ids.
MCOverlap(s, c) == s = c

\* w1 lists b1, then b2 and b4; w2 lists b2, then b3.
MCClassOf == (b1 :> wc1) @@ (b2 :> wc2) @@ (b3 :> wc1) @@ (b4 :> wc2)
MCBatches == (w1 :> << <<b1>>, <<b2, b4>> >>) @@ (w2 :> << <<b2>>, <<b3>> >>)

\* The champion of A and two others, in two batches; a listing that a second
\* job reads later; and one of two rows.
Entry(c, f, isChampion) == [category |-> c, fighter |-> f, champion |-> isChampion]
MCListing ==
  << <<Entry("A", 1, TRUE), Entry("A", 2, TRUE), Entry("A", 3, FALSE), Entry("B", 4, TRUE)>>,
     <<Entry("A", 2, FALSE), Entry("B", 5, FALSE), Entry("B", 4, FALSE),
       Entry("C", 1, FALSE)>>,
     <<Entry("A", 2, FALSE), Entry("B", 1, FALSE)>> >>

\* League x has no promotion; u and v share two events, of which u references
\* one under v, as v does with one of u's; 5 is past the cap.
MCLeagues == <<"x", "u", "v">>
MCRefsOf ==
  ("x" :> (4 :> "x")) @@ ("u" :> (1 :> "u" @@ 3 :> "v"))
    @@ ("v" :> (1 :> "v" @@ 2 :> "u" @@ 3 :> "v" @@ 5 :> "x"))

\* Three pages of at most two items.
MCItems == <<1, 2, 3, 4, 5>>
=============================================================================
