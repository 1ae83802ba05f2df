----------------------------- MODULE MCSyncEngine -----------------------------
(***************************************************************************)
(* Instances of SyncEngine for TLC.  The plan keeps one job of each kind:   *)
(* event (critical, resumes at an offset counted in events), competition    *)
(* (critical, resumes at an event offset counted in competitions, two per   *)
(* event) and ranking (not critical, always fetched whole).                 *)
(***************************************************************************)
EXTENDS SyncEngine

\* jobs of the shipped plans
TwoJobs   == {"event", "ranking"}
ThreeJobs == {"event", "competition", "ranking"}

EventsThenRankings == <<"event", "ranking">>
FullOrder          == <<"event", "competition", "ranking">>

CriticalJobs  == {"event"}
ResumableJobs == {"event"}
CriticalThree  == {"event", "competition"}
ResumableThree == {"event", "competition"}

\* Five events in pages of three and batches of two: the last page and the last
\* batch are not full, and offsets fall inside pages; one event may be refused
\* by the upsert, and one is listed twice under the same external id.
ListingTwo    == [event |-> 5, ranking |-> 2]
BatchTwo      == [event |-> 2, ranking |-> 1]
PageTwo       == [event |-> 3, ranking |-> 1]
ItselfTwo     == [event |-> 1, ranking |-> 1]
RefusedTwo    == [event |-> {2}, ranking |-> {}]
TwinsTwo      == [event |-> {4}, ranking |-> {}]
SegmentsTwo   == [event |-> {"events"}, ranking |-> {"rankings"}]

\* A smaller listing for liveness: the last page is not full.
ListingSmall  == [event |-> 3, ranking |-> 1]
PageSmall     == [event |-> 2, ranking |-> 1]
RefusedSmall  == [event |-> {}, ranking |-> {}]
TwinsSmall    == [event |-> {2}, ranking |-> {}]

\* Two events with two bouts each, one event per page.
ListingThree  == [event |-> 2, competition |-> 4, ranking |-> 1]
BatchThree    == [event |-> 1, competition |-> 2, ranking |-> 1]
PageThree     == [event |-> 1, competition |-> 1, ranking |-> 1]
NestedThree   == [event |-> 1, competition |-> 2, ranking |-> 1]
RefusedThree  == [event |-> {}, competition |-> {}, ranking |-> {}]
TwinsThree    == [event |-> {}, competition |-> {}, ranking |-> {}]
SegmentsThree == [event |-> {"events"}, competition |-> {"events"}, ranking |-> {"rankings"}]
==============================================================================
