---------------------------- MODULE MCJobScheduler ----------------------------
(***************************************************************************)
(* Two of the shipped jobs: espn_live_events (every 30 s, LIVE; one retry   *)
(* instead of three) and quality_rescore (BACKGROUND, triggered by hand; no *)
(* connector of that name exists).                                         *)
(***************************************************************************)
EXTENDS JobScheduler

TwoJobs == {"live", "rescore"}
Shipped   == [live |-> 0, rescore |-> 5]
Retries   == [live |-> 1, rescore |-> 1]
==============================================================================
