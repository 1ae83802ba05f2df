-------------------------- MODULE HistoricalEvents --------------------------
(***************************************************************************)
(* The job that finds past events through the rankings                      *)
(* (src/backend/src/providers/espn/jobs/historical_event.py): it collects   *)
(* the references of every league, keeps one per event, cuts the list at a  *)
(* cap, fetches each event and stores it under the league of its reference. *)
(*                                                                          *)
(* The same event is referenced under several leagues, and a league's list  *)
(* may reference events under other leagues than the one asked.  A league   *)
(* whose rankings cannot be fetched gives no references, an event that      *)
(* cannot be fetched is left out, and the run goes on: nothing is an error. *)
(* The athlete event logs, off by default, are not modelled.                *)
(***************************************************************************)
EXTENDS Integers, Sequences, FiniteSets, SequencesExt

CONSTANTS
    Leagues,      \* sync_league_slugs: the leagues in their order
    RefsOf,       \* the references each league gives: the league that each of
                  \* its events is referenced under
    Promoted,     \* leagues whose promotion is in the database
    MaxEvents,    \* ESPN_MAX_HISTORICAL_EVENTS
    MaxMissed,    \* bound on failed requests
    NoLeague      \* the event is not stored

VARIABLES
    storedUnder,  \* the league an event is stored under
    askedLeagues, \* leagues the run has asked; -1 between two runs
    hooks,        \* hooks: events and leagues in the order they were found
    gathered,     \* the hooks whose events it has fetched
    asked,        \* hooks whose events it has asked for
    missed        \* failed requests

vars == <<storedUnder, askedLeagues, hooks, gathered, asked, missed>>

RefEvents == UNION {DOMAIN RefsOf[l] : l \in DOMAIN RefsOf}
Scopes    == UNION {Range(RefsOf[l]) : l \in DOMAIN RefsOf}
Hook(e, l) == [event |-> e, league |-> l]

Init ==
    /\ storedUnder = [e \in RefEvents |-> NoLeague]
    /\ askedLeagues = -1
    /\ hooks = <<>> /\ gathered = {} /\ asked = {}
    /\ missed = 0

Miss == missed < MaxMissed /\ missed' = missed + 1

Start ==
    /\ askedLeagues = -1
    /\ askedLeagues' = 0
    /\ UNCHANGED <<storedUnder, hooks, gathered, asked, missed>>

\* The events a league references, without those known already.
NewEvents(l) == DOMAIN RefsOf[l] \ {h.event : h \in Range(hooks)}

\* refs are the events of a set in their order.
InOrder(refs) == \A i, k \in DOMAIN refs : i < k => refs[i] < refs[k]

\* A hook keeps the league its reference names.
HooksWith(l, refs) == hooks \o [i \in DOMAIN refs |-> Hook(refs[i], RefsOf[l][refs[i]])]

\* fetch_winning_fight_refs of the next league; a failure gives nothing.
AskLeague ==
    /\ askedLeagues \in 0..(Len(Leagues) - 1)
    /\ askedLeagues' = askedLeagues + 1
    /\ \/ LET l == Leagues[askedLeagues + 1] IN
             \E refs \in SetToSeqs(NewEvents(l)) :
                InOrder(refs) /\ hooks' = HooksWith(l, refs) /\ UNCHANGED missed
       \/ Miss /\ UNCHANGED hooks
    /\ UNCHANGED <<storedUnder, gathered, asked>>

\* mutant of Capped: the last event below the cap is cut off
CappedShort == {hooks[i] : i \in 1..(IF Len(hooks) < MaxEvents THEN Len(hooks) ELSE MaxEvents - 1)}

\* hooks_list: what the cap leaves of the hooks.
Capped == {hooks[i] : i \in 1..(IF Len(hooks) < MaxEvents THEN Len(hooks) ELSE MaxEvents)}

\* fetch_hook, for the events in any order.
FetchHook(h) ==
    /\ askedLeagues = Len(Leagues) /\ h \in Capped \ asked
    /\ asked' = asked \cup {h}
    /\ \/ gathered' = gathered \cup {h} /\ UNCHANGED missed
       \/ Miss /\ UNCHANGED gathered
    /\ UNCHANGED <<storedUnder, askedLeagues, hooks>>

\* The upsert: a new event needs its promotion, and an event that is stored
\* keeps the promotion it has.
StoreEvents ==
    /\ askedLeagues = Len(Leagues) /\ asked = Capped
    /\ storedUnder' = [e \in RefEvents |->
          LET mine == {h \in gathered : h.event = e /\ h.league \in Promoted} IN
          IF storedUnder[e] = NoLeague /\ mine # {}
          THEN (CHOOSE h \in mine : TRUE).league ELSE storedUnder[e]]
    /\ askedLeagues' = -1 /\ hooks' = <<>> /\ gathered' = {} /\ asked' = {}
    /\ UNCHANGED missed

FetchAny == \E h \in Capped : FetchHook(h)
Step == Start \/ AskLeague \/ FetchAny \/ StoreEvents

Next == Step

\* The job is run again and again, and requests end.
Spec == Init /\ [][Next]_vars /\ WF_vars(Step)

----------------------------------------------------------------------------
TypeOK ==
    /\ storedUnder \in [RefEvents -> Scopes \cup {NoLeague}]
    /\ askedLeagues \in -1..Len(Leagues)
    /\ \A h \in Range(hooks) : \E l \in Range(Leagues) :
           h.event \in DOMAIN RefsOf[l] /\ h.league = RefsOf[l][h.event]
    /\ gathered \subseteq asked /\ asked \subseteq Capped
    /\ missed \in 0..MaxMissed

\* The hooks of a run in which every league answers: each event under the
\* league of its first reference.
FoundAt(e) ==
    CHOOSE i \in DOMAIN Leagues :
        /\ e \in DOMAIN RefsOf[Leagues[i]]
        /\ \A j \in 1..(i - 1) : e \notin DOMAIN RefsOf[Leagues[j]]
FirstScope(e) == RefsOf[Leagues[FoundAt(e)]][e]
Position(e) ==
    Cardinality({f \in RefEvents :
        FoundAt(f) < FoundAt(e) \/ (FoundAt(f) = FoundAt(e) /\ f <= e)})

\* However many requests fail, every event the cap reaches is stored in the
\* end, if the league of its first reference has a promotion.
HooksAreStored ==
    \A e \in RefEvents :
        Position(e) <= MaxEvents /\ FirstScope(e) \in Promoted
            => <>[](storedUnder[e] # NoLeague)

\* "The FIRST ref's scope wins (deterministic)": refuted when the first league
\* does not answer in the run that finds the event.
FirstScopeWins == \A e \in RefEvents : storedUnder[e] \in {NoLeague, FirstScope(e)}

\* Every referenced event of a synced league is stored in the end: refuted for
\* the events past the cap, because every run takes the same ones.
EveryHookIsStored ==
    \A e \in RefEvents : FirstScope(e) \in Promoted => <>(storedUnder[e] # NoLeague)
=============================================================================
