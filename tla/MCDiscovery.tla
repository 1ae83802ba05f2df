---------------------------- MODULE MCDiscovery ----------------------------
(***************************************************************************)
(* Two processes and a listing of two pages.  The bouts name id 1, which a  *)
(* window puts first; ESPN does not know id 3.  The profiles of 1 and 2     *)
(* name one weight class, or none.                                          *)
(***************************************************************************)
EXTENDS Discovery

TwoPages == << <<{2}, {3}>> >>

SameClass == [i \in Ids |-> IF i \in {1, 2} THEN {"flyweight"} ELSE {}]
NoClass   == [i \in Ids |-> {}]
==============================================================================
