---------------------------- MODULE MCSyncManager ----------------------------
(***************************************************************************)
(* Two processes and the two jobs that differ most.  The four attempts of   *)
(* results (60 s each) fit into the lock's 300 s and the first attempt of   *)
(* rankings (300 s) does not; with one retry instead of three, attempts of  *)
(* 2 and 5 against a TTL of 5 keep that.                                    *)
(* No shipped job declares a dependency; here rankings depends on results,  *)
(* so that the check runs.                                                  *)
(***************************************************************************)
EXTENDS SyncManager

TwoJobs     == {"results", "rankings"}
NoDeps      == [results |-> {}, rankings |-> {}]
AfterResult == [results |-> {}, rankings |-> {"results"}]
Minutes     == [results |-> 2, rankings |-> 5]
==============================================================================
