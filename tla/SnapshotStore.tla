--------------------------- MODULE SnapshotStore ---------------------------
(***************************************************************************)
(* The installer's snapshots (claude-extras/src/snapshot-store.ts): a set  *)
(* of records with an id, the time they were made, the files they hold and *)
(* whether they are pinned.  An id is the time and a number that tells     *)
(* apart the snapshots of one millisecond.  The 32-bit hash that stands    *)
(* for the files in the code is the files here.  A manifest that was cut   *)
(* short cannot be read, and such a snapshot is as good as none.           *)
(***************************************************************************)
EXTENDS FiniteSetsExt, Integers

\* Mutant of Newer: the oldest first.
Older(s, t) == s.at < t.at \/ (s.at = t.at /\ s.id[2] < t.id[2])
\* The order of byNewest: by time, then by id.
Newer(s, t) == s.at > t.at \/ (s.at = t.at /\ s.id[2] > t.id[2])

\* The newest first, cut at k, as a set.
Newest(S, k) == {s \in S : Cardinality({t \in S : Newer(t, s)}) < k}

\* save: an unchanged set of files is not stored again.
Latest(S) == CHOOSE s \in S : \A t \in S \ {s} : Newer(s, t)

Known(S, files) == S # {} /\ Latest(S).files = files

FreshId(S, now) == <<now, Min({n \in 1..Cardinality(S) + 1 : \A s \in S : s.id # <<now, n>>})>>

Save(S, files, now) ==
  IF Known(S, files) THEN S
  ELSE S \cup {[id |-> FreshId(S, now), at |-> now, files |-> files, pinned |-> FALSE]}

\* load: the snapshot asked for, or the newest.
Load(S, id) == IF id = "newest" THEN Newest(S, 1) ELSE {s \in S : s.id = id}

Pin(S, id) == {IF s.id = id THEN [s EXCEPT !.pinned = TRUE] ELSE s : s \in S}

\* Mutant of Pruned: the pinned count among those to remove.
PrunedAll(S, keep) == Newest(S, keep)
\* prune: of those not pinned, only the newest remain.
Pruned(S, keep) == {s \in S : s.pinned} \cup Newest({s \in S : ~s.pinned}, keep)
=============================================================================
