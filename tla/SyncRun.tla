------------------------------- MODULE SyncRun -------------------------------
(***************************************************************************)
(* What one run of a sync plan promises to whoever started it              *)
(* (SyncEngine.execute, src/backend/src/sync/engine.py:83-235), whatever    *)
(* happens inside the jobs: the jobs end one after the other in plan order, *)
(* each exactly once; nothing runs after a critical job failed; and the     *)
(* verdict the caller gets is a function of how the jobs ended, unless an   *)
(* exception made the engine give the run up.                               *)
(***************************************************************************)
EXTENDS Naturals, Sequences

CONSTANTS
    Jobs,       \* entity types with a registered job
    Order,      \* the plan: jobs in execution order
    Critical    \* the jobs declared critical

VARIABLES
    active,     \* is a run executing?
    results,    \* how its jobs ended so far, in plan order
    verdict     \* what the last run returned; "NONE" when it returned nothing

runVars == <<active, results, verdict>>

Failed(i) == results[i] = "FAILED"

\* A critical job failed: the engine breaks out of its loop.
Aborted == \E i \in DOMAIN results : Failed(i) /\ Order[i] \in Critical

\* The verdicts the engine may return for the jobs that ended.
Verdicts ==
    {"CANCELLED"} \cup
    {v \in {"COMPLETED", "PARTIAL", "FAILED"} :
        CASE v = "FAILED"  -> Aborted
          [] v = "PARTIAL" -> /\ ~Aborted
                              /\ Len(results) = Len(Order)
                              /\ \E i \in DOMAIN results : Failed(i)
          [] OTHER         -> /\ Len(results) = Len(Order)
                              /\ \A i \in DOMAIN results : ~Failed(i)}

RunInit ==
    /\ active = FALSE
    /\ results = <<>>
    /\ verdict = "NONE"

Begin ==
    /\ ~active
    /\ active' = TRUE
    /\ results' = <<>>
    /\ verdict' = "NONE"

JobEnds(status) ==
    /\ active
    /\ ~Aborted
    /\ Len(results) < Len(Order)
    /\ results' = Append(results, status)
    /\ UNCHANGED <<active, verdict>>

Return ==
    /\ active
    /\ active' = FALSE
    /\ verdict' \in Verdicts
    /\ UNCHANGED results

\* The process dies: nobody gets a verdict.
Die ==
    /\ active
    /\ active' = FALSE
    /\ results' = <<>>
    /\ verdict' = "NONE"

RunNext ==
    \/ Begin
    \/ \E status \in {"COMPLETED", "FAILED"} : JobEnds(status)
    \/ Return
    \/ Die

RunSpec == RunInit /\ [][RunNext]_runVars
==============================================================================
