------------------------------ MODULE APICache -----------------------------
(***************************************************************************)
(* Cache-aside reads of the public endpoints (api/cache.py, api/etag.py)   *)
(* over the Redis backend (middleware/cache.py) against a sync run that    *)
(* commits and then invalidates (sync/cache_invalidation.py).  A payload is*)
(* the database version it was loaded from.  Every Redis call may fail: get*)
(* degrades to a miss, set and invalidate to nothing.  The in-memory       *)
(* backend is the case without failures whose scan and delete are one step.*)
(***************************************************************************)
EXTENDS Integers

CONSTANTS Clients,      \* requests in flight, with the copy their client keeps
          Keys,         \* cache keys under the invalidated prefix
          MaxVersion,   \* bound on the commits
          MaxFaults,    \* bound on the Redis failures
          Nothing

VARIABLES version,  \* version of the rows behind every key
          store,    \* the Redis value of each key, or Nothing
          step,     \* where each request is in cached_json_response
          key,      \* the key it asks for
          payload,  \* what it will answer
          copy,     \* the last body its client has for the key, with its ETag
          sync,     \* the sync run: idle, committed, scanned
          doomed,   \* keys found by scan_iter
          faults

cacheVars == <<version, store, step, key, payload, copy, sync, doomed, faults>>
requestVars == <<step, key, payload, copy>>
syncVars == <<version, sync, doomed>>

Init ==
  /\ version = 0 /\ sync = "idle" /\ doomed = {} /\ faults = 0
  /\ store = [k \in Keys |-> Nothing]
  /\ step = [c \in Clients |-> "idle"]
  /\ key \in [Clients -> Keys]
  /\ payload = [c \in Clients |-> Nothing]
  /\ copy = [c \in Clients |-> Nothing]

Fault == faults < MaxFaults /\ faults' = faults + 1

(* cache.get: a hit answers the stored payload.                            *)
Hit(c) ==
  /\ step[c] = "idle" /\ store[key[c]] # Nothing
  /\ step' = [step EXCEPT ![c] = "answering"]
  /\ payload' = [payload EXCEPT ![c] = store[key[c]]]
  /\ UNCHANGED <<store, key, copy, syncVars, faults>>

(* cache.get: nothing stored, or the call fails; the loader runs.          *)
Miss(c) ==
  /\ step[c] = "idle"
  /\ \/ store[key[c]] = Nothing /\ UNCHANGED faults
     \/ Fault
  /\ step' = [step EXCEPT ![c] = "loading"]
  /\ UNCHANGED <<store, key, payload, copy, syncVars>>

(* The loader reads the committed rows.                                    *)
Load(c) ==
  /\ step[c] = "loading"
  /\ step' = [step EXCEPT ![c] = "storing"]
  /\ payload' = [payload EXCEPT ![c] = version]
  /\ UNCHANGED <<store, key, copy, syncVars, faults>>

(* cache.set with the endpoint's TTL; a failure is swallowed.              *)
Set(c) ==
  /\ step[c] = "storing"
  /\ step' = [step EXCEPT ![c] = "answering"]
  /\ \/ store' = [store EXCEPT ![key[c]] = payload[c]] /\ UNCHANGED faults
     \/ Fault /\ UNCHANGED store
  /\ UNCHANGED <<key, payload, copy, syncVars>>

(* conditional_json_response: 304 when If-None-Match carries the payload's *)
(* ETag, and then the client keeps its body; 200 with the body otherwise.  *)
NotModified(c) == copy[c] = payload[c]

Answer(c) ==
  /\ step[c] = "answering"
  /\ step' = [step EXCEPT ![c] = "idle"]
  /\ copy' = IF NotModified(c) THEN copy ELSE [copy EXCEPT ![c] = payload[c]]
  /\ payload' = [payload EXCEPT ![c] = Nothing]
  /\ UNCHANGED <<store, key, syncVars, faults>>

\* mutant of Expire: the keys are stored without a TTL
ExpireNever(k) == FALSE /\ UNCHANGED cacheVars

(* SETEX expiry: the key lapses.                                           *)
Expire(k) ==
  /\ store[k] # Nothing
  /\ store' = [store EXCEPT ![k] = Nothing]
  /\ UNCHANGED <<requestVars, syncVars, faults>>

(* A run commits; its after_sync handler then invalidates the prefix.      *)
Commit ==
  /\ sync = "idle" /\ version < MaxVersion
  /\ version' = version + 1 /\ sync' = "committed"
  /\ UNCHANGED <<store, requestVars, doomed, faults>>

(* scan_iter; an empty answer ends the invalidation.                       *)
Scan ==
  /\ sync = "committed"
  /\ doomed' = {k \in Keys : store[k] # Nothing}
  /\ sync' = IF doomed' = {} THEN "idle" ELSE "scanned"
  /\ UNCHANGED <<version, store, requestVars, faults>>

(* delete of the keys found.                                               *)
Delete ==
  /\ sync = "scanned" /\ sync' = "idle" /\ doomed' = {}
  /\ store' = [k \in Keys |-> IF k \in doomed THEN Nothing ELSE store[k]]
  /\ UNCHANGED <<version, requestVars, faults>>

(* scan or delete fails: invalidate answers 0.                             *)
InvalidateFails ==
  /\ sync \in {"committed", "scanned"} /\ Fault
  /\ sync' = "idle" /\ doomed' = {}
  /\ UNCHANGED <<version, store, requestVars>>

Serve(c) == Hit(c) \/ Miss(c) \/ Load(c) \/ Set(c) \/ Answer(c)

Next == \/ \E c \in Clients : Serve(c)
        \/ \E k \in Keys : Expire(k)
        \/ Commit \/ Scan \/ Delete \/ InvalidateFails

(* Requests are served, entries lapse, and a client goes on asking.        *)
Fairness == /\ \A c \in Clients : WF_cacheVars(Serve(c))
            /\ \A k \in Keys : WF_cacheVars(Expire(k))

Spec == Init /\ [][Next]_cacheVars /\ Fairness

----------------------------------------------------------------------------
Payloads == (0..MaxVersion) \cup {Nothing}

(* The types of the requests, of the store and of the sync run.            *)
TypeOK ==
  /\ version \in 0..MaxVersion /\ faults \in 0..MaxFaults
  /\ store \in [Keys -> Payloads] /\ key \in [Clients -> Keys]
  /\ payload \in [Clients -> Payloads] /\ copy \in [Clients -> Payloads]
  /\ step \in [Clients -> {"idle", "loading", "storing", "answering"}]
  /\ sync \in {"idle", "committed", "scanned"} /\ doomed \subseteq Keys

(* Once the syncs stop, every client ends with the newest rows for good,   *)
(* although a reader may store rows it loaded before a commit after the    *)
(* invalidation of that commit (api/cache.py:36-40), an invalidation may   *)
(* miss a key or fail, and a 304 makes the client keep its body.           *)
StaleEnds ==
  <>[](\A c \in Clients : copy[c] \in {version, Nothing})

(* "must be discarded so the next read is fresh"                           *)
(* (cache_invalidation.py:4-5): with the run over, a stored payload is the *)
(* newest one.                                                             *)
NextReadIsFresh ==
  sync = "idle" => \A k \in Keys : store[k] \in {version, Nothing}
=============================================================================
