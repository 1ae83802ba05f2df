----------------------------- MODULE UserLists ------------------------------
(***************************************************************************)
(* What one user keeps in the database, through requests that overlap: a    *)
(* favourite and the row of preferences                                     *)
(* (src/backend/src/api/v1/users.py, watchlist.py, notifications.py).  Two  *)
(* routers add the same favourite: one looks for it first, one does not.    *)
(*                                                                          *)
(* A request has a session of its own and awaits every statement, so other  *)
(* requests run between its read and its write.  Unique constraints refuse  *)
(* a second row, and the request that met one ends in an error.             *)
(***************************************************************************)
EXTENDS Integers, FiniteSets

CONSTANTS
    Requests,   \* requests that may be under way at once
    Fields,     \* fields of the preferences a request may name
    Choices,    \* their values
    Usual,      \* the default among them
    NoRow       \* the user has no preferences row yet

VARIABLES
    favorite,   \* is the favourite's row there?
    prefs,      \* the preferences row, or NoRow
    reqStage,   \* of each request: "idle", "inserting", "patching" or an answer
    loaded,     \* the preferences it read
    body        \* the fields it names, with their new values

vars == <<favorite, prefs, reqStage, loaded, body>>

Bodies == UNION {[fs -> Choices] : fs \in SUBSET Fields \ {{}}}
Defaults == [f \in Fields |-> Usual]
Merged(row, b) == [f \in Fields |-> IF f \in DOMAIN b THEN b[f] ELSE row[f]]

Init ==
    /\ favorite = FALSE /\ prefs = NoRow
    /\ reqStage = [r \in Requests |-> "idle"]
    /\ loaded = [r \in Requests |-> NoRow]
    /\ body = [r \in Requests |-> <<>>]

Go(r, stage) == reqStage' = [reqStage EXCEPT ![r] = stage]
Free(r) == reqStage[r] \notin {"inserting", "patching"}

\* POST /me/favorites/fighters/{id}: the request looks for the row.
FavoriteFighter(r) ==
    /\ Free(r)
    /\ Go(r, IF favorite THEN "added" ELSE "inserting")
    /\ UNCHANGED <<favorite, prefs, loaded, body>>

\* POST /watchlist/fighters/{id} inserts into the same table without looking.
AddFighterFavorite(r) ==
    /\ Free(r)
    /\ Go(r, "inserting")
    /\ UNCHANGED <<favorite, prefs, loaded, body>>

\* The insert is flushed and committed, or meets uq_fav_fighters_user_fighter.
InsertFavorite(r) ==
    /\ reqStage[r] = "inserting"
    /\ favorite' = TRUE
    /\ Go(r, IF favorite THEN "error" ELSE "added")
    /\ UNCHANGED <<prefs, loaded, body>>

\* DELETE of the favourite, in either router.
RemoveFavorite(r) ==
    /\ Free(r)
    /\ favorite' = FALSE
    /\ Go(r, "removed")
    /\ UNCHANGED <<prefs, loaded, body>>

\* PATCH /me/preferences reads the row.
ReadPreferences(r, b) ==
    /\ Free(r)
    /\ loaded' = [loaded EXCEPT ![r] = prefs]
    /\ body' = [body EXCEPT ![r] = b]
    /\ Go(r, "patching")
    /\ UNCHANGED <<favorite, prefs>>

Forget(r) == loaded' = [loaded EXCEPT ![r] = NoRow] /\ body' = [body EXCEPT ![r] = <<>>]

\* No row was there: a new one is inserted, unless another request was first.
CreatePreferences(r) ==
    /\ reqStage[r] = "patching" /\ loaded[r] = NoRow
    /\ IF prefs = NoRow
       THEN prefs' = Merged(Defaults, body[r]) /\ Go(r, "stored")
       ELSE Go(r, "error") /\ UNCHANGED prefs
    /\ Forget(r)
    /\ UNCHANGED favorite

\* Mutant: the whole row is written, as it was read.
UpdateWholeRow(r) ==
    /\ reqStage[r] = "patching" /\ loaded[r] # NoRow
    /\ prefs' = Merged(loaded[r], body[r])
    /\ Go(r, "stored") /\ Forget(r)
    /\ UNCHANGED favorite

\* A row was there: the session writes the fields that differ from what it
\* read, and only those.
UpdatePreferences(r) ==
    /\ reqStage[r] = "patching" /\ loaded[r] # NoRow
    /\ prefs' = [f \in Fields |->
                    IF f \in DOMAIN body[r] /\ body[r][f] # loaded[r][f]
                    THEN body[r][f] ELSE prefs[f]]
    /\ Go(r, "stored") /\ Forget(r)
    /\ UNCHANGED favorite

Next ==
    \E r \in Requests :
        \/ FavoriteFighter(r) \/ AddFighterFavorite(r) \/ InsertFavorite(r)
        \/ RemoveFavorite(r) \/ CreatePreferences(r) \/ UpdatePreferences(r)
        \/ \E b \in Bodies : ReadPreferences(r, b)

Spec == Init /\ [][Next]_vars

----------------------------------------------------------------------------
TypeOK ==
    /\ favorite \in BOOLEAN
    /\ prefs \in {NoRow} \cup [Fields -> Choices]
    /\ reqStage \in [Requests -> {"idle", "inserting", "patching",
                                  "added", "removed", "stored", "error"}]
    /\ loaded \in [Requests -> {NoRow} \cup [Fields -> Choices]]
    /\ body \in [Requests -> Bodies \cup {<<>>}]

\* Requests that overlap do not undo one another: a field of the preferences
\* changes only by a request that names it, to the value it asks for, and a
\* row once there never goes.
FieldsChangeByName ==
    [][prefs # NoRow =>
          /\ prefs' # NoRow
          /\ \A f \in Fields : prefs'[f] # prefs[f] =>
                \E r \in Requests :
                    /\ reqStage[r] = "patching" /\ reqStage'[r] = "stored"
                    /\ f \in DOMAIN body[r] /\ prefs'[f] = body[r][f]]_vars

\* What a request was answered is what it stored: refuted, because a field
\* whose new value it had read already is not written over another's change.
PatchIsStored ==
    [][\A r \in Requests : UpdatePreferences(r) =>
          \A f \in DOMAIN body[r] : prefs'[f] = body[r][f]]_vars

\* "Add a fighter to the user's favorites (idempotent)": refuted when two
\* requests add the favourite at once, or the other router adds it again.
AddIsIdempotent == \A r \in Requests : reqStage[r] # "error"
=============================================================================
