------------------------------ MODULE DataLake ------------------------------
(***************************************************************************)
(* The raw payloads the data platform keeps                                 *)
(* (src/data_platform/datalake/__init__.py): a store holds each record in   *)
(* memory and in a file, and archives the old ones.  The process may die at *)
(* any time, in the middle of writing a file too; a new one starts with an  *)
(* empty memory and the files.                                              *)
(*                                                                          *)
(* Callers give every record an id of its own: a record is "immutable once  *)
(* stored".                                                                 *)
(***************************************************************************)
EXTENDS Integers, FiniteSets

CONSTANTS
    Records,      \* records callers store
    MaxCrashes    \* bound on crashes

VARIABLES
    memory,       \* _records: the records held in memory
    files,        \* records whose file is whole
    torn,         \* records whose file was cut off
    archive,      \* records with a file in the archive
    old,          \* records older than the retention
    storing,      \* the records a store call is writing: one, or none
    stored,       \* records whose store call returned (history)
    crashes

vars == <<memory, files, torn, archive, old, storing, stored, crashes>>

Init ==
    /\ memory = {} /\ files = {} /\ torn = {} /\ archive = {}
    /\ old = {} /\ storing = {} /\ stored = {} /\ crashes = 0

\* store: the record is in memory before its file is written.
Store(r) ==
    /\ storing = {}
    /\ r \notin memory \cup files \cup torn
    /\ memory' = memory \cup {r}
    /\ storing' = {r}
    /\ UNCHANGED <<files, torn, archive, old, stored, crashes>>

\* Mutant: the call returns before the file is written.
StoreReturnsEarly(r) ==
    /\ r \in storing
    /\ storing' = {} /\ stored' = stored \cup {r}
    /\ UNCHANGED <<memory, files, torn, archive, old, crashes>>

\* _write_to_disk ends, and the call returns.
StoreReturns(r) ==
    /\ r \in storing
    /\ files' = files \cup {r}
    /\ storing' = {} /\ stored' = stored \cup {r}
    /\ UNCHANGED <<memory, torn, archive, old, crashes>>

Age(r) ==
    /\ r \in stored \ old
    /\ old' = old \cup {r}
    /\ UNCHANGED <<memory, files, torn, archive, storing, stored, crashes>>

\* archive writes the old records it holds in memory to the archive and drops
\* them from memory; their raw files stay.
ArchiveOld ==
    /\ storing = {} /\ memory \cap old # {}
    /\ archive' = archive \cup (memory \cap old)
    /\ memory' = memory \ old
    /\ UNCHANGED <<files, torn, old, storing, stored, crashes>>

\* A crash during a store may leave the file cut off, or not there at all.
Crash ==
    /\ crashes < MaxCrashes /\ crashes' = crashes + 1
    /\ memory' = {} /\ storing' = {}
    /\ torn' \in {torn, torn \cup storing}
    /\ UNCHANGED <<files, archive, old, stored>>

Next ==
    \/ ArchiveOld \/ Crash
    \/ \E r \in Records : Store(r) \/ StoreReturns(r) \/ Age(r)

Spec == Init /\ [][Next]_vars

----------------------------------------------------------------------------
\* What get answers: the record, nothing, or an error for a torn file.
Get(r) ==
    IF r \in memory \cup files THEN "record" ELSE IF r \in torn THEN "error" ELSE "nothing"

TypeOK ==
    /\ memory \subseteq Records /\ files \subseteq Records /\ torn \subseteq Records
    /\ archive \subseteq Records /\ old \subseteq stored /\ stored \subseteq Records
    /\ storing \subseteq memory /\ Cardinality(storing) <= 1
    /\ files \cap torn = {}
    /\ crashes \in 0..MaxCrashes

\* A record whose store returned can be read ever after: through crashes, and
\* after it was archived.
RecordsSurvive == \A r \in stored : Get(r) = "record"

\* "Retention: 90 days raw": refuted, the archive leaves the raw files.
RawIsRetired == \A r \in archive : r \notin files

\* A record that is old is archived when the archive runs: refuted for the
\* records stored before a restart, which no memory holds.
ArchiveTakesAll == [][ArchiveOld => old \subseteq archive']_vars
=============================================================================
