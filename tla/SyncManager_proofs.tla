-------------------------- MODULE SyncManager_proofs --------------------------
(***************************************************************************)
(* The lock of the sync manager for every set of processes and jobs.  The   *)
(* inductive invariant joins the type of the state to two facts about      *)
(* "lost": a run that has not lost its key holds it, and a job that fits    *)
(* into the TTL never loses it while Redis works.                          *)
(***************************************************************************)
EXTENDS SyncManager, TLAPS

\* While Redis works, a run that must end before its key expires keeps it.
ShortRunsKeepKey ==
    faults = 0 => \A p \in Procs, j \in Jobs : FitsTtl(j) => ~lost[p][j]

IInv == TypeOK /\ LockProtectsRun /\ ShortRunsKeepKey

Runner == Procs \cup {Free, Orphan}

\* A run of a short job has not reached its TTL, whatever attempt it is at.
LEMMA ShortRunsEndInTime ==
    ASSUME NEW R \in Nat, NEW a \in Nat, NEW M \in Nat, NEW T \in Nat,
           a <= M, (M + 1) * R < T
    PROVE  ~((a + 1) * R >= T)
<1>1. PICK k \in Nat : M = a + k
  BY M - a \in Nat, M = a + (M - a)
<1>2. (M + 1) * R = (a + 1) * R + k * R
  BY <1>1
<1>3. k * R \in Nat /\ (a + 1) * R \in Nat /\ (M + 1) * R \in Nat
  BY <1>1
<1> QED
  BY <1>2, <1>3

LEMMA InitEstablishes == Init => IInv
<1> SUFFICES ASSUME Init PROVE IInv
  OBVIOUS
<1> USE DEF Init
<1>1. TypeOK
  BY ManagerConstants DEF TypeOK
<1>2. LockProtectsRun
  BY DEF LockProtectsRun, Running
<1>3. ShortRunsKeepKey
  BY DEF ShortRunsKeepKey
<1> QED
  BY <1>1, <1>2, <1>3 DEF IInv
------------------------------------------------------------------------------
(* Types.                                                                  *)

\* Marking one entry of a table of flags.
LEMMA FlagSet ==
    ASSUME NEW A, NEW B, NEW S, NEW t \in [A -> [B -> S]], NEW a \in A, NEW b \in B,
           NEW v \in S, NEW u, u = [t EXCEPT ![a][b] = v]
    PROVE  /\ u \in [A -> [B -> S]]
           /\ u[a][b] = v
           /\ \A x \in A, y \in B : ~(x = a /\ y = b) => u[x][y] = t[x][y]
  OBVIOUS

\* The steps of a timer keep the types.
LEMMA TimerKeepsTypes ==
    ASSUME TypeOK, NEW p \in Procs, NEW j \in Jobs,
           \/ Fire(p, j)
           \/ TimerStep(p, j)
           \/ AcquireDegraded(p, j)
           \/ ReleaseFails(p, j)
           \/ ExpireHeld(p, j)
    PROVE  TypeOK'
<1> USE ManagerConstants DEF TypeOK, Goto
<1>1. CASE Fire(p, j)
  BY <1>1 DEF Fire
<1>2. CASE Acquire(p, j)
  BY <1>2 DEF Acquire
<1>3. CASE SkipHeld(p, j)
  BY <1>3 DEF SkipHeld
<1>4. CASE AcquireDegraded(p, j)
  <2>1. faults' \in 0 .. MaxFaults
    BY <1>4 DEF AcquireDegraded, Fault
  <2>2. key' \in [Jobs -> Procs \cup {Free, Orphan}]
    BY <1>4 DEF AcquireDegraded
  <2>3. lost' \in [Procs -> [Jobs -> BOOLEAN]]
    <3>1. UNCHANGED lost \/ lost' = [lost EXCEPT ![p][j] = TRUE]
      BY <1>4, Zenon DEF AcquireDegraded
    <3>2. lost \in [Procs -> [Jobs -> BOOLEAN]] /\ TRUE \in BOOLEAN
      OBVIOUS
    <3> HIDE DEF TypeOK
    <3>3. CASE lost' = [lost EXCEPT ![p][j] = TRUE]
      BY <3>2, <3>3, FlagSet, Zenon
    <3>4. CASE UNCHANGED lost
      BY <3>2, <3>4
    <3> QED
      BY <3>1, <3>3, <3>4
  <2> QED
    BY <1>4, <2>1, <2>2, <2>3 DEF AcquireDegraded
<1>5. CASE Succeed(p, j)
  BY <1>5 DEF Succeed
<1>6. CASE RetryLater(p, j)
  BY <1>6 DEF RetryLater
<1>7. CASE RetryNow(p, j)
  BY <1>7 DEF RetryNow
<1>8. CASE GiveUp(p, j)
  <2>1. (j \in Watched) \in BOOLEAN
    OBVIOUS
  <2> QED
    BY <1>8, <2>1 DEF GiveUp
<1>9. CASE Release(p, j)
  BY <1>9 DEF Release, EndRun
<1>10. CASE ReleaseFails(p, j)
  BY <1>10 DEF ReleaseFails, EndRun, Fault
<1>11. CASE ExpireHeld(p, j)
  BY <1>11 DEF ExpireHeld
<1> QED
  BY <1>1, <1>2, <1>3, <1>4, <1>5, <1>6, <1>7, <1>8, <1>9, <1>10, <1>11 DEF TimerStep

LEMMA StepKeepsTypes == TypeOK /\ [Next]_vars => TypeOK'
<1> SUFFICES ASSUME TypeOK, [Next]_vars PROVE TypeOK'
  OBVIOUS
<1>1. CASE UNCHANGED vars
  BY <1>1 DEF vars, TypeOK
<1>2. ASSUME NEW p \in Procs, Start(p) PROVE TypeOK'
  BY <1>2 DEF Start, TypeOK
<1>3. ASSUME NEW p \in Procs, Shutdown(p) PROVE TypeOK'
  <2> USE <1>3, ManagerConstants DEF Shutdown, TypeOK
  <2>1. key' \in [Jobs -> Procs \cup {Free, Orphan}]
    OBVIOUS
  <2>2. stops' \in 0 .. MaxStops
    OBVIOUS
  <2>3. lost' \in [Procs -> [Jobs -> BOOLEAN]]
    <3>1. [i \in Jobs |-> Running(p, i) /\ lost[p][i]] \in [Jobs -> BOOLEAN]
      BY Zenon
    <3> QED
      BY <3>1
  <2>4. pc' \in [Procs -> [Jobs -> {"none", "waiting", "locking", "running", "backoff", "releasing"}]]
    OBVIOUS
  <2>5. /\ up' \in [Procs -> {"up", "stopping", "down"}]
        /\ attempt' \in [Procs -> [Jobs -> 0 .. MaxAttempts]]
    OBVIOUS
  <2> QED
    BY <2>1, <2>2, <2>3, <2>4, <2>5
<1>4. ASSUME NEW p \in Procs, StopDone(p) PROVE TypeOK'
  BY <1>4 DEF StopDone, TypeOK
<1>5. ASSUME NEW p \in Procs, Kill(p) PROVE TypeOK'
  BY <1>5, ManagerConstants DEF Kill, Fault, TypeOK
<1>6. ASSUME NEW j \in Jobs, ExpireOrphan(j) PROVE TypeOK'
  BY <1>6 DEF ExpireOrphan, TypeOK
<1> QED
  BY <1>1, <1>2, <1>3, <1>4, <1>5, <1>6, TimerKeepsTypes DEF Next
------------------------------------------------------------------------------
(* The lock.                                                               *)

LEMMA TimerKeepsLocks ==
    ASSUME TypeOK, LockProtectsRun, NEW p \in Procs, NEW j \in Jobs,
           \/ Fire(p, j)
           \/ TimerStep(p, j)
           \/ AcquireDegraded(p, j)
           \/ ReleaseFails(p, j)
           \/ ExpireHeld(p, j)
    PROVE  LockProtectsRun'
<1> SUFFICES ASSUME NEW q \in Procs, NEW i \in Jobs, Running(q, i)', ~lost'[q][i]
             PROVE  key'[i] = q
  BY DEF LockProtectsRun
<1> USE KeyMarks DEF TypeOK, LockProtectsRun, Running, Goto
<1>1. CASE Fire(p, j)
  BY <1>1 DEF Fire
<1>2. CASE Acquire(p, j)
  BY <1>2 DEF Acquire
<1>3. CASE SkipHeld(p, j)
  BY <1>3 DEF SkipHeld
<1>4. CASE AcquireDegraded(p, j)
  BY <1>4 DEF AcquireDegraded
<1>5. CASE Succeed(p, j)
  BY <1>5 DEF Succeed
<1>6. CASE RetryLater(p, j)
  BY <1>6 DEF RetryLater
<1>7. CASE RetryNow(p, j)
  BY <1>7 DEF RetryNow
<1>8. CASE GiveUp(p, j)
  BY <1>8 DEF GiveUp
<1>9. CASE Release(p, j)
  BY <1>9 DEF Release, EndRun
<1>10. CASE ReleaseFails(p, j)
  BY <1>10 DEF ReleaseFails, EndRun
<1>11. CASE ExpireHeld(p, j)
  BY <1>11 DEF ExpireHeld
<1> QED
  BY <1>1, <1>2, <1>3, <1>4, <1>5, <1>6, <1>7, <1>8, <1>9, <1>10, <1>11 DEF TimerStep

\* No step of any process takes away the key of a run that has not lost it.
LEMMA StepKeepsLocks == TypeOK /\ LockProtectsRun /\ [Next]_vars => LockProtectsRun'
<1> SUFFICES ASSUME TypeOK, LockProtectsRun, [Next]_vars PROVE LockProtectsRun'
  OBVIOUS
<1> USE KeyMarks
<1>1. CASE UNCHANGED vars
  BY <1>1 DEF vars, LockProtectsRun, Running
<1>2. ASSUME NEW p \in Procs, Start(p) PROVE LockProtectsRun'
  BY <1>2 DEF Start, TypeOK, LockProtectsRun, Running
<1>3. ASSUME NEW p \in Procs, Shutdown(p) PROVE LockProtectsRun'
  <2> SUFFICES ASSUME NEW q \in Procs, NEW i \in Jobs, Running(q, i)', ~lost'[q][i]
               PROVE  key'[i] = q
    BY DEF LockProtectsRun
  <2>1. q # p
    BY <1>3 DEF Shutdown, TypeOK, Running
  <2>2. pc'[q] = pc[q] /\ lost'[q] = lost[q]
    BY <1>3, <2>1 DEF Shutdown, TypeOK
  <2>3. key[i] = q
    BY <2>2 DEF LockProtectsRun, Running
  <2>4. key[i] # Free /\ key[i] # p
    BY <2>1, <2>3
  <2>5. PICK reached \in SUBSET {x \in Jobs : pc[p][x] \in {"locking", "releasing"}} :
          key' = [x \in Jobs |->
                    CASE pc[p][x] = "locking" /\ key[x] = Free /\ x \in reached -> Orphan
                      [] pc[p][x] = "releasing" /\ key[x] = p ->
                            IF x \in reached THEN Free ELSE Orphan
                      [] OTHER -> key[x]]
    BY <1>3 DEF Shutdown
  <2> QED
    BY <2>3, <2>4, <2>5
<1>4. ASSUME NEW p \in Procs, StopDone(p) PROVE LockProtectsRun'
  BY <1>4 DEF StopDone, LockProtectsRun, Running
<1>5. ASSUME NEW p \in Procs, Kill(p) PROVE LockProtectsRun'
  BY <1>5 DEF Kill, TypeOK, LockProtectsRun, Running
<1>6. ASSUME NEW j \in Jobs, ExpireOrphan(j) PROVE LockProtectsRun'
  BY <1>6 DEF ExpireOrphan, TypeOK, LockProtectsRun, Running
<1> QED
  BY <1>1, <1>2, <1>3, <1>4, <1>5, <1>6, TimerKeepsLocks DEF Next
------------------------------------------------------------------------------
(* Short jobs.                                                             *)

\* Only an expiry or a Redis error makes a run lose its key.
LEMMA StepKeepsShortRuns ==
    TypeOK /\ ShortRunsKeepKey /\ [Next]_vars => ShortRunsKeepKey'
<1> SUFFICES ASSUME TypeOK, ShortRunsKeepKey, [Next]_vars, faults' = 0,
                    NEW q \in Procs, NEW i \in Jobs, FitsTtl(i)
             PROVE  ~lost'[q][i]
  BY DEF ShortRunsKeepKey, FitsTtl
<1>1. faults = 0 /\ ~Fault
  <2>1. ASSUME NEW p \in Procs, NEW j \in Jobs,
               \/ Fire(p, j)
               \/ TimerStep(p, j)
               \/ AcquireDegraded(p, j)
               \/ ReleaseFails(p, j)
               \/ ExpireHeld(p, j)
        PROVE  UNCHANGED faults \/ Fault
    BY <2>1, Zenon DEF TimerStep, Fire, Acquire, SkipHeld, AcquireDegraded, Succeed, RetryLater,
                       RetryNow, GiveUp, Release, ReleaseFails, ExpireHeld
  <2>2. ASSUME NEW p \in Procs, Start(p) \/ Shutdown(p) \/ StopDone(p) \/ Kill(p)
        PROVE  UNCHANGED faults \/ Fault
    BY <2>2 DEF Start, Shutdown, StopDone, Kill
  <2>3. ASSUME NEW j \in Jobs, ExpireOrphan(j) PROVE UNCHANGED faults
    BY <2>3 DEF ExpireOrphan
  <2>4. UNCHANGED faults \/ Fault
    BY <2>1, <2>2, <2>3 DEF Next, vars
  <2> QED
    BY <2>4, ManagerConstants DEF TypeOK, Fault
<1>2. ~lost[q][i]
  BY <1>1 DEF ShortRunsKeepKey
<1>3. ASSUME NEW p \in Procs, NEW j \in Jobs, ExpireHeld(p, j) PROVE ~lost'[q][i]
  <2>1. CASE j = i
    <3>1. /\ attempt[p][i] \in Nat /\ attempt[p][i] <= MaxAttempts
          /\ MaxRuntime[i] \in Nat /\ MaxAttempts \in Nat /\ LockTtl \in Nat
      BY ManagerConstants DEF TypeOK
    <3>2. (MaxAttempts + 1) * MaxRuntime[i] < LockTtl
      BY DEF FitsTtl
    <3>3. ~Outlives(p, i)
      BY <3>1, <3>2, ShortRunsEndInTime DEF Outlives
    <3> QED
      BY <1>3, <2>1, <3>3 DEF ExpireHeld
  <2>2. CASE j # i
    <3>1. lost' = [lost EXCEPT ![p][j] = TRUE]
      BY <1>3 DEF ExpireHeld
    <3>2. lost'[q][i] = lost[q][i]
      BY <2>2, <3>1 DEF TypeOK
    <3> QED
      BY <1>2, <3>2
  <2> QED
    BY <2>1, <2>2
<1>4. ASSUME NEW p \in Procs, Start(p) \/ Shutdown(p) \/ StopDone(p) PROVE ~lost'[q][i]
  <2>1. CASE Shutdown(p)
    <3>1. lost' = [lost EXCEPT ![p] = [j \in Jobs |-> Running(p, j) /\ lost[p][j]]]
      BY <2>1 DEF Shutdown
    <3> QED
      BY <1>2, <3>1 DEF TypeOK
  <2> QED
    BY <1>2, <1>4, <2>1 DEF Start, StopDone
<1>5. ASSUME NEW p \in Procs, NEW j \in Jobs, Fire(p, j) \/ TimerStep(p, j)
      PROVE  ~lost'[q][i]
  <2>1. UNCHANGED lost \/ lost' = [lost EXCEPT ![p][j] = FALSE]
    BY <1>5, Zenon DEF Fire, TimerStep, Acquire, SkipHeld, Succeed, RetryLater, RetryNow,
                       GiveUp, Release, EndRun
  <2>2. CASE lost' = [lost EXCEPT ![p][j] = FALSE]
    <3>1. lost \in [Procs -> [Jobs -> BOOLEAN]] /\ FALSE \in BOOLEAN
      BY DEF TypeOK
    <3>2. lost'[p][j] = FALSE /\ (~(q = p /\ i = j) => lost'[q][i] = lost[q][i])
      BY <2>2, <3>1, FlagSet, Zenon
    <3> QED
      BY <1>2, <3>2
  <2> QED
    BY <1>2, <2>1, <2>2
<1>6. ASSUME NEW j \in Jobs, ExpireOrphan(j) PROVE ~lost'[q][i]
  BY <1>2, <1>6 DEF ExpireOrphan
<1>7. ASSUME NEW p \in Procs, NEW j \in Jobs,
             Kill(p) \/ AcquireDegraded(p, j) \/ ReleaseFails(p, j)
      PROVE  FALSE
  BY <1>1, <1>7 DEF Kill, AcquireDegraded, ReleaseFails
<1>8. CASE UNCHANGED vars
  BY <1>2, <1>8 DEF vars
<1>9. ASSUME NEW p \in Procs, Kill(p) PROVE FALSE
  BY <1>1, <1>9 DEF Kill
<1> QED
  BY <1>3, <1>4, <1>5, <1>6, <1>7, <1>8, <1>9 DEF Next
------------------------------------------------------------------------------
LEMMA Inductive == Spec => []IInv
<1>1. IInv /\ [Next]_vars => IInv'
  BY StepKeepsTypes, StepKeepsLocks, StepKeepsShortRuns DEF IInv
<1> QED
  BY <1>1, InitEstablishes, PTL DEF Spec

\* The manager's variables keep their types (manager.py, locks.py, retry.py):
\* in particular a run never starts more attempts than its policy allows.
THEOREM TypeCorrect == Spec => []TypeOK
<1>1. IInv => TypeOK
  BY DEF IInv
<1> QED
  BY <1>1, Inductive, PTL

\* A run that has not lost its key through an expiry or a Redis error holds it
\* to its end: acquire is exclusive and release deletes only its own token.
THEOREM LocksProtect == Spec => []LockProtectsRun
<1>1. IInv => LockProtectsRun
  BY DEF IInv
<1> QED
  BY <1>1, Inductive, PTL

\* While Redis works and no process is killed, a job whose attempts fit into
\* the lock's TTL is never run by two processes at once.
THEOREM ShortJobsExclusive == Spec => []ShortJobsRunOnce
<1>1. IInv => ShortJobsRunOnce
  <2> SUFFICES ASSUME IInv, faults = 0, NEW j \in Jobs, NEW p \in Procs, NEW q \in Procs,
                      FitsTtl(j), Running(p, j), Running(q, j)
               PROVE  p = q
    BY DEF ShortJobsRunOnce
  <2>1. ~lost[p][j] /\ ~lost[q][j]
    BY DEF IInv, ShortRunsKeepKey
  <2>2. key[j] = p /\ key[j] = q
    BY <2>1 DEF IInv, LockProtectsRun
  <2> QED
    BY <2>2
<1> QED
  BY <1>1, Inductive, PTL
===============================================================================
