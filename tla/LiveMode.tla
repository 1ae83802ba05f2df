------------------------------ MODULE LiveMode -----------------------------
(***************************************************************************)
(* Live mode of the SyncManager: LiveModeDetector (scheduler/live_mode.py),*)
(* the loop that switches the registry entry of the events_live job        *)
(* (manager.py:268-298), and the timers that start() creates for the jobs  *)
(* enabled at that moment (manager.py:80-82).  JOB_REGISTRY outlives a     *)
(* manager, so a restart inside the process sees the flag the last one left*)
(***************************************************************************)
EXTENDS Naturals

CONSTANTS Events,      \* events of the database
          NoEvent,
          MaxRestarts  \* bound on the restarts of the manager

VARIABLES fight,      \* "none", "soon" or "live" in the database, per event
          live,       \* _in_live_mode of the manager's detector
          active,     \* _active_event_id
          wasLive,    \* the loop's was_live, read before the check
          loop,       \* the loop sleeps, awaits the check, or has its answer
          enabled,    \* JOB_REGISTRY["events_live"].enabled
          timer,      \* does events_live have a timer task?
          up,         \* is the manager running?
          restarts

liveVars == <<fight, live, active, wasLive, loop, enabled, timer, up, restarts>>
detVars  == <<live, active>>
loopVars == <<wasLive, loop>>
mgrVars  == <<timer, up, restarts>>

Init ==
  /\ fight = [e \in Events |-> "none"]
  /\ live = FALSE /\ active = NoEvent
  /\ wasLive = FALSE /\ loop = "asleep"
  /\ enabled = FALSE /\ timer = FALSE /\ up = FALSE /\ restarts = 0

(* start(): a timer for each job enabled now; the detector is a new one.   *)
Start ==
  /\ ~up /\ up' = TRUE /\ timer' = enabled
  /\ live' = FALSE /\ active' = NoEvent
  /\ UNCHANGED <<fight, loopVars, enabled, restarts>>

(* shutdown() cancels the timers and the loop; the registry keeps its flag.*)
Shutdown ==
  /\ up /\ restarts < MaxRestarts
  /\ up' = FALSE /\ timer' = FALSE /\ restarts' = restarts + 1
  /\ loop' = "asleep" /\ wasLive' = FALSE
  /\ UNCHANGED <<fight, detVars, enabled>>

(* The sync jobs change the status of an event, or time moves it.          *)
EventMoves(e) ==
  /\ \E s \in {"none", "soon", "live"} \ {fight[e]} :
        fight' = [fight EXCEPT ![e] = s]
  /\ UNCHANGED <<detVars, loopVars, enabled, mgrVars>>

\* mutant of BeginCheck: was_live is kept from the check before
BeginCheckOnly ==
  /\ up /\ loop = "asleep" /\ loop' = "asking"
  /\ UNCHANGED <<fight, detVars, wasLive, enabled, mgrVars>>

(* _live_mode_loop reads was_live and awaits the check.                    *)
BeginCheck ==
  /\ up /\ loop = "asleep" /\ loop' = "asking" /\ wasLive' = live
  /\ UNCHANGED <<fight, detVars, enabled, mgrVars>>

InProgress == {e \in Events : fight[e] = "live"}
Soon       == {e \in Events : fight[e] = "soon"}

Answer ==
  /\ loop = "asking" /\ loop' = "answered"
  /\ UNCHANGED <<fight, wasLive, enabled, mgrVars>>

(* check(): a live event, or else one about to start, turns live mode on;  *)
(* the event that turned it on stays the active one.                       *)
CheckFinds(e) ==
  /\ e \in IF InProgress # {} THEN InProgress ELSE Soon
  /\ live' = TRUE /\ active' = (IF live THEN active ELSE e)
  /\ Answer

(* check(): no event in progress and none soon.                            *)
CheckFindsNone ==
  /\ InProgress \cup Soon = {}
  /\ live' = FALSE /\ active' = (IF live THEN NoEvent ELSE active)
  /\ Answer

(* check(): a query fails, the detector keeps its state and answers it.    *)
CheckFails == UNCHANGED detVars /\ Answer

(* The loop compares the answer with was_live and switches the registry    *)
(* entry on an edge.                                                       *)
Switch ==
  /\ loop = "answered" /\ loop' = "asleep"
  /\ enabled' = IF live # wasLive THEN live ELSE enabled
  /\ UNCHANGED <<fight, detVars, wasLive, mgrVars>>

Next == \/ Start \/ Shutdown \/ BeginCheck \/ Switch
        \/ CheckFindsNone \/ CheckFails
        \/ \E e \in Events : EventMoves(e) \/ CheckFinds(e)

Spec == Init /\ [][Next]_liveVars

----------------------------------------------------------------------------
(* The types of the detector and of the registry entry.                    *)
TypeOK ==
  /\ fight \in [Events -> {"none", "soon", "live"}]
  /\ live \in BOOLEAN /\ active \in Events \cup {NoEvent}
  /\ wasLive \in BOOLEAN /\ loop \in {"asleep", "asking", "answered"}
  /\ enabled \in BOOLEAN /\ timer \in BOOLEAN /\ up \in BOOLEAN
  /\ restarts \in 0..MaxRestarts

(* Between two checks of the process's first manager, the detector, its    *)
(* active event and the registry flag agree, whatever events came and went *)
(* and whichever checks failed: the loop switches on edges only            *)
(* (manager.py:274-288), so one missed edge would leave the flag wrong for *)
(* good.                                                                   *)
FlagFollowsDetector ==
  /\ live <=> active # NoEvent
  /\ (restarts = 0 /\ loop = "asleep") => (enabled <=> live)

(* "Detects live events and switches to high-frequency polling"            *)
(* (manager.py:41): in live mode the events_live job has a timer.          *)
LiveModePolls == (up /\ live /\ loop = "asleep") => timer
=============================================================================
