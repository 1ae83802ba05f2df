----------------------------- MODULE HealthPoll -----------------------------
(***************************************************************************)
(* The data platform's watch over its connectors                            *)
(* (src/data_platform/connectors/registry.py): the registry, the manager    *)
(* that connects and disconnects them, and the health service whose loops   *)
(* check them, keep a history and raise alerts.                             *)
(*                                                                          *)
(* A loop awaits the checks and then records them in one step.  Alerts are  *)
(* a callback, which does not raise here: one that did would leave the      *)
(* counts of the connectors after it behind the history.                    *)
(***************************************************************************)
EXTENDS Integers, Sequences, FiniteSets

CONSTANTS
    Connectors,   \* names
    Loops,        \* poll loops that may exist at once
    AlertAfter,   \* alert_threshold
    Kept,         \* polls the history keeps
    MaxMisses,    \* bound on a connector's count
    NoTask        \* no loop was started

VARIABLES
    registered,   \* names in the registry
    connected,    \* those of them that are connected (_started)
    running,      \* _running
    task,         \* _task: the loop that stop cancels
    pollStage,    \* of each loop: "gone", "waiting" or "checking"
    checking,     \* the connectors whose checks it awaits
    polls,        \* _history: polls, each a function of the checked names
    misses        \* _failure_count; a name without one has none

vars == <<registered, connected, running, task, pollStage, checking, polls, misses>>

Init ==
    /\ registered = {} /\ connected = {}
    /\ running = FALSE /\ task = NoTask
    /\ pollStage = [l \in Loops |-> "gone"]
    /\ checking = [l \in Loops |-> {}]
    /\ polls = <<>>
    /\ misses = [n \in Connectors |-> 0]

serviceVars == <<running, task, pollStage, checking, polls, misses>>

\* ConnectorRegistry.register refuses a second connector of a name.
Register(n) ==
    /\ n \notin registered
    /\ registered' = registered \cup {n}
    /\ UNCHANGED <<connected, serviceVars>>

Unregister(n) ==
    /\ n \in registered
    /\ registered' = registered \ {n}
    /\ connected' = connected \ {n}
    /\ UNCHANGED serviceVars

\* start_all connects every connector; one that fails to authenticate has
\* been connected before.
StartAll ==
    /\ connected' = registered
    /\ UNCHANGED <<registered, serviceVars>>

ShutdownAll ==
    /\ connected' = {}
    /\ UNCHANGED <<registered, serviceVars>>

\* start of the service; it does not ask whether a loop runs already.
Start ==
    /\ running' = TRUE
    /\ \E l \in Loops :
        /\ pollStage[l] = "gone"
        /\ task' = l
        /\ pollStage' = [pollStage EXCEPT ![l] = "waiting"]
    /\ UNCHANGED <<registered, connected, checking, polls, misses>>

\* stop cancels the loop started last; it is at an await and ends there.
Stop ==
    /\ running' = FALSE
    /\ IF task = NoTask
       THEN UNCHANGED <<pollStage, checking>>
       ELSE /\ pollStage' = [pollStage EXCEPT ![task] = "gone"]
            /\ checking' = [checking EXCEPT ![task] = {}]
    /\ UNCHANGED <<registered, connected, task, polls, misses>>

\* The interval of a loop is over: it ends, or checks what list_active gives,
\* the connectors whose status is not DISABLED.
Poll(l) ==
    /\ pollStage[l] = "waiting"
    /\ pollStage' = [pollStage EXCEPT ![l] = IF running THEN "checking" ELSE "gone"]
    /\ checking' = [checking EXCEPT ![l] = IF running THEN connected ELSE {}]
    /\ UNCHANGED <<registered, connected, running, task, polls, misses>>

\* Mutant: a connector that answers keeps its count.
CountForgiving(poll) ==
    misses' = [n \in Connectors |->
                  IF n \in DOMAIN poll /\ ~poll[n] THEN misses[n] + 1 ELSE misses[n]]

\* The count of the connectors checked: one more miss, or none.
Count(poll) ==
    misses' = [n \in Connectors |->
                  IF n \notin DOMAIN poll THEN misses[n]
                  ELSE IF poll[n] THEN 0 ELSE misses[n] + 1]

\* The checks are answered: the history gets them and the counts follow.
Record(l) ==
    /\ pollStage[l] = "checking"
    /\ \E poll \in [checking[l] -> BOOLEAN] :
        /\ polls' = LET all == Append(polls, poll) IN
                    IF Len(all) > Kept THEN Tail(all) ELSE all
        /\ Count(poll)
        /\ \A n \in Connectors : misses'[n] <= MaxMisses
    /\ pollStage' = [pollStage EXCEPT ![l] = "waiting"]
    /\ checking' = [checking EXCEPT ![l] = {}]
    /\ UNCHANGED <<registered, connected, running, task>>

Next ==
    \/ StartAll \/ ShutdownAll \/ Start \/ Stop
    \/ \E n \in Connectors : Register(n) \/ Unregister(n)
    \/ \E l \in Loops : Poll(l) \/ Record(l)

Spec == Init /\ [][Next]_vars

----------------------------------------------------------------------------
\* The polls after the i-th that checked a connector.
ChecksAfter(i, n) == {k \in DOMAIN polls : k > i /\ n \in DOMAIN polls[k]}

\* on_alert is called for a connector when its count comes this far.
Alerting(n) == misses[n] >= AlertAfter

TypeOK ==
    /\ connected \subseteq registered /\ registered \subseteq Connectors
    /\ running \in BOOLEAN /\ task \in Loops \cup {NoTask}
    /\ pollStage \in [Loops -> {"gone", "waiting", "checking"}]
    /\ checking \in [Loops -> SUBSET Connectors]
    /\ \A l \in Loops : pollStage[l] # "checking" => checking[l] = {}
    /\ polls \in Seq(UNION {[names -> BOOLEAN] : names \in SUBSET Connectors})
    /\ Len(polls) <= Kept
    /\ misses \in [Connectors -> 0..MaxMisses]

\* An alert is earned: a check that an alerting connector answered, if the
\* history keeps it, lies behind AlertAfter checks that it missed, whichever
\* loop made them and however often it was registered, stopped or restarted.
AlertsAreEarned ==
    \A n \in Connectors : Alerting(n) =>
        \A i \in DOMAIN polls : n \in DOMAIN polls[i] /\ polls[i][n] =>
            Cardinality(ChecksAfter(i, n)) >= AlertAfter

\* One loop at a time polls: refuted by a second start, whose predecessor no
\* stop reaches.
OneLoop == Cardinality({l \in Loops : pollStage[l] # "gone"}) <= 1
=============================================================================
