---------------------------- MODULE PlanScheduler --------------------------
(***************************************************************************)
(* SyncScheduler (sync/scheduler.py): cron, one-off and manual executions  *)
(* of registered definitions, at most one per plan and provider thanks to  *)
(* an InMemoryLock (sync/lock.py), recorded in a bounded history.  Neither *)
(* acquire of a free asyncio.Lock nor release suspends, so each side of    *)
(* engine.execute is one step.                                             *)
(***************************************************************************)
EXTENDS Integers, Sequences, FiniteSets

CONSTANTS Calls,        \* the calls of _execute_job
          Definitions,  \* ids of the registered definitions
          LockKey,      \* lock_key of a definition's plan and provider
          Runnable,     \* definitions whose plan and provider are known
          MaxHistory,   \* MAX_RUN_HISTORY
          NoCall

VARIABLES phase,     \* phase of each call
          defId,     \* the definition each call executes
          locked,    \* the keys whose asyncio.Lock is held
          running,   \* _running
          history    \* _run_history

schVars == <<phase, defId, locked, running, history>>

Phases == {"waiting", "executing", "recorded", "skipped", "refused", "cancelled"}

Init ==
  /\ phase = [c \in Calls |-> "waiting"]
  /\ defId \in [Calls -> Definitions]
  /\ locked = {} /\ history = <<>>
  /\ running = [d \in Definitions |-> NoCall]

Key(c) == LockKey[defId[c]]

Executing == {c \in Calls : phase[c] = "executing"}

(* The newest MaxHistory records, after c's record is added.               *)
AddToHistory(c) ==
  LET all == Append(history, c)
      n   == Len(all)
  IN  IF n > MaxHistory THEN SubSeq(all, n - MaxHistory + 1, n) ELSE all

(* InMemoryLock.acquire answers False at once: another call has the lock.  *)
Skip(c) ==
  /\ phase[c] = "waiting" /\ Key(c) \in locked
  /\ phase' = [phase EXCEPT ![c] = "skipped"]
  /\ UNCHANGED <<defId, locked, running, history>>

\* mutant of Refuse: the early return leaves the lock behind
RefuseKeepsLock(c) ==
  /\ phase[c] = "waiting" /\ Key(c) \notin locked /\ defId[c] \notin Runnable
  /\ phase' = [phase EXCEPT ![c] = "refused"]
  /\ locked' = locked \cup {Key(c)}
  /\ UNCHANGED <<defId, running, history>>

(* Locked, but the plan or the provider is unknown: the early return goes  *)
(* through the finally block, which releases.                              *)
Refuse(c) ==
  /\ phase[c] = "waiting" /\ Key(c) \notin locked /\ defId[c] \notin Runnable
  /\ phase' = [phase EXCEPT ![c] = "refused"]
  /\ running' = [running EXCEPT ![defId[c]] = NoCall]
  /\ UNCHANGED <<defId, locked, history>>

(* Locked and recorded as running; engine.execute suspends the call.       *)
Begin(c) ==
  /\ phase[c] = "waiting" /\ Key(c) \notin locked /\ defId[c] \in Runnable
  /\ phase' = [phase EXCEPT ![c] = "executing"]
  /\ locked' = locked \cup {Key(c)}
  /\ running' = [running EXCEPT ![defId[c]] = c]
  /\ UNCHANGED <<defId, history>>

(* The finally block.                                                      *)
Release(c) ==
  /\ running' = [running EXCEPT ![defId[c]] = NoCall]
  /\ locked' = locked \ {Key(c)}

(* The engine returns: its own record goes to the history.                 *)
Return(c) ==
  /\ phase[c] = "executing"
  /\ phase' = [phase EXCEPT ![c] = "recorded"]
  /\ history' = AddToHistory(c)
  /\ Release(c)
  /\ UNCHANGED defId

(* The engine raises: the record is looked up in _running.                 *)
Raise(c) ==
  /\ phase[c] = "executing"
  /\ phase' = [phase EXCEPT ![c] = "recorded"]
  /\ history' = IF running[defId[c]] = NoCall THEN history
                ELSE AddToHistory(running[defId[c]])
  /\ Release(c)
  /\ UNCHANGED defId

(* The task is cancelled: CancelledError is no Exception, so only the      *)
(* finally block runs.                                                     *)
Cancel(c) ==
  /\ phase[c] = "executing"
  /\ phase' = [phase EXCEPT ![c] = "cancelled"]
  /\ Release(c)
  /\ UNCHANGED <<defId, history>>

Next == \E c \in Calls : \/ Skip(c) \/ Refuse(c) \/ Begin(c)
                         \/ Return(c) \/ Raise(c) \/ Cancel(c)

Spec == Init /\ [][Next]_schVars

----------------------------------------------------------------------------
(* The types of the calls, the locks and the records.                      *)
TypeOK ==
  /\ phase \in [Calls -> Phases] /\ defId \in [Calls -> Definitions]
  /\ locked \subseteq {LockKey[d] : d \in Definitions}
  /\ running \in [Definitions -> Calls \cup {NoCall}]
  /\ history \in Seq(Calls)

(* What get_status and the history report is what happens: a lock is held  *)
(* exactly while one call executes its plan and provider, that call is the *)
(* current run of its definition even when two definitions share the lock, *)
(* and a call that ended without being cancelled is in the history once,   *)
(* unless MAX_RUN_HISTORY newer ones pushed it out (scheduler.py:350-453). *)
StatusIsTrue ==
  /\ locked = {Key(c) : c \in Executing}
  /\ \A c1, c2 \in Executing : Key(c1) = Key(c2) => c1 = c2
  /\ \A d \in Definitions, c \in Calls :
        running[d] = c <=> (c \in Executing /\ defId[c] = d)
  /\ LET done == {c \in Calls : phase[c] = "recorded"}
         kept == {history[i] : i \in 1..Len(history)}
     IN  /\ kept \subseteq done /\ Cardinality(kept) = Len(history)
         /\ Len(history) = IF Cardinality(done) < MaxHistory
                           THEN Cardinality(done) ELSE MaxHistory
=============================================================================
