---------------------------- MODULE IdentityGraph --------------------------
(***************************************************************************)
(* Identity resolution of the data platform: the canonical map of          *)
(* data_platform/identity and the merge audit of data_platform/resolution. *)
(* A match names two canonical entities; merging absorbs the second into   *)
(* the first, unmerging and reverse_merge undo one recorded merge.         *)
(***************************************************************************)
EXTENDS Integers, Sequences, FiniteSets

CONSTANTS Canonicals,  \* canonical ids
          Sources,     \* source ids
          Overlap(_, _), \* Overlap(s, c): is one id a substring of the other?
          NoId,        \* the empty canonical id of a match nobody merged
          MaxMerges    \* bound on the recorded merges

VARIABLES sourcesOf,    \* _canonical_to_sources; DOMAIN is the set of keys
          canonicalOf,  \* _source_to_canonical
          merges        \* _merge_history, with the match of each merge

idVars == <<sourcesOf, canonicalOf, merges>>

Ids == Canonicals \cup {NoId}

Init ==
  /\ sourcesOf = [c \in {} |-> {}]
  /\ canonicalOf = [s \in {} |-> NoId]
  /\ merges = <<>>

(* dict.get(c, set()).                                                     *)
SourcesOf(c) == IF c \in DOMAIN sourcesOf THEN sourcesOf[c] ELSE {}

Without(c) == [k \in DOMAIN sourcesOf \ {c} |-> sourcesOf[k]]

(* setdefault(c, set()).update(added), then the removed ones leave every   *)
(* other set.                                                              *)
Update(f, c, added) ==
  [k \in DOMAIN f \cup {c} |->
     (IF k \in DOMAIN f THEN f[k] ELSE {}) \cup (IF k = c THEN added ELSE {})]

Remap(moved, c) ==
  [s \in DOMAIN canonicalOf \cup moved |-> IF s \in moved THEN c ELSE canonicalOf[s]]

(* add_source_id, for an id that is not linked yet.                        *)
AddSource(s, c) ==
  /\ s \notin DOMAIN canonicalOf
  /\ sourcesOf' = Update(sourcesOf, c, {s})
  /\ canonicalOf' = Remap({s}, c)
  /\ UNCHANGED merges

\* mutant of Merge: the moved source ids still point at b
MergeKeepsPointers(a, b) ==
  /\ a # b /\ Len(merges) < MaxMerges
  /\ sourcesOf' = Update(Without(b), a, SourcesOf(b))
  /\ merges' = Append(merges, [survivor |-> a, absorbed |-> b,
                               moved |-> SourcesOf(b), merged |-> TRUE])
  /\ UNCHANGED canonicalOf

(* merge: b's key is popped, its source ids move to a, and                 *)
(* resolve_fighters records the merge.                                     *)
Merge(a, b) ==
  /\ a # b /\ Len(merges) < MaxMerges
  /\ sourcesOf' = Update(Without(b), a, SourcesOf(b))
  /\ canonicalOf' = Remap(SourcesOf(b), a)
  /\ merges' = Append(merges, [survivor |-> a, absorbed |-> b,
                               moved |-> SourcesOf(b), merged |-> TRUE])

(* unmerge, of a match that says it was merged into c: the ids of c that   *)
(* overlap with the absorbed id move back.                                 *)
Unmerge(c, b) ==
  LET moved == {s \in SourcesOf(c) : Overlap(s, b)}
      kept  == [k \in DOMAIN sourcesOf |-> IF k = c THEN sourcesOf[k] \ moved
                                           ELSE sourcesOf[k]]
  IN  /\ sourcesOf' = Update(kept, b, moved)
      /\ canonicalOf' = Remap(moved, b)

(* IdentityGraph.unmerge with the match that merge marked.                 *)
UndoMatch(i) ==
  /\ Unmerge(merges[i].survivor, merges[i].absorbed)
  /\ merges' = [merges EXCEPT ![i].merged = FALSE]

(* reverse_merge builds a new match from the record: its canonical_id is   *)
(* the empty string, and the match of the merge stays marked.              *)
ReverseMerge(i) ==
  /\ Unmerge(NoId, merges[i].absorbed)
  /\ UNCHANGED merges

Next == \/ \E s \in Sources, c \in Canonicals : AddSource(s, c)
        \/ \E a, b \in Canonicals : Merge(a, b)
        \/ \E i \in DOMAIN merges : UndoMatch(i) \/ ReverseMerge(i)

Spec == Init /\ [][Next]_idVars

----------------------------------------------------------------------------
(* The types of the two maps and of the audit.                             *)
TypeOK ==
  /\ DOMAIN sourcesOf \subseteq Ids
  /\ \A c \in DOMAIN sourcesOf : sourcesOf[c] \subseteq Sources
  /\ DOMAIN canonicalOf \subseteq Sources
  /\ \A s \in DOMAIN canonicalOf : canonicalOf[s] \in Canonicals
  /\ \A i \in DOMAIN merges :
        /\ merges[i].survivor \in Canonicals /\ merges[i].absorbed \in Canonicals
        /\ merges[i].moved \subseteq Sources /\ merges[i].merged \in BOOLEAN

(* The two maps stay inverse to each other through every sequence of links,*)
(* merges and reversals, chains of merges and reversals out of order       *)
(* included: no source id is lost, and none belongs to two entities        *)
(* (identity/__init__.py:113-160).                                         *)
MapsAgree ==
  /\ \A s \in DOMAIN canonicalOf :
        canonicalOf[s] \in DOMAIN sourcesOf /\ s \in sourcesOf[canonicalOf[s]]
  /\ \A c \in DOMAIN sourcesOf : \A s \in sourcesOf[c] :
        s \in DOMAIN canonicalOf /\ canonicalOf[s] = c

(* "Every merge is EXPLAINABLE and REVERSIBLE." (resolution/__init__.py:7):*)
(* reversing the last merge gives its ids back to the absorbed entity.     *)
MergesAreReversible ==
  [][\A i \in DOMAIN merges : (i = Len(merges) /\ ReverseMerge(i)) =>
        \A s \in merges[i].moved :
           canonicalOf[s] = merges[i].survivor => canonicalOf'[s] = merges[i].absorbed]_idVars
=============================================================================
