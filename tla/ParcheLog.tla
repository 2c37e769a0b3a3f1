----------------------------- MODULE ParcheLog -----------------------------
(***************************************************************************)
(* The parche server's view of one group: an append-only log of changes.   *)
(* An entry is [path, hash, by]; its sequence number is its position, and  *)
(* a hash of Null is a tombstone.  The file table the server also keeps    *)
(* (path |-> last hash and seq) is the last entry of each path, so it is   *)
(* computed here from the log instead of being stored a second time.       *)
(*                                                                         *)
(* Hashes are contents: sha256 is taken to be injective, and a blob is     *)
(* found under the hash of its own bytes.                                  *)
(***************************************************************************)
EXTENDS Naturals, Sequences

CONSTANT Null      \* "no content": a tombstone, or a path that does not exist

\* The sequence number of the last change to path p among the first k
\* entries, 0 when there is none.
LastSeq(log, p, k) ==
  LET at == {i \in 1..k : log[i].path = p}
  IN  IF at = {} THEN 0 ELSE CHOOSE i \in at : \A j \in at : j <= i

\* What p holds after the first k entries.
HashAt(log, p, k) ==
  LET s == LastSeq(log, p, k) IN IF s = 0 THEN Null ELSE log[s].hash

HeadSeq(log, p)  == LastSeq(log, p, Len(log))
HeadHash(log, p) == HashAt(log, p, Len(log))

\* Mutant: the base hash is not compared with the head.
LastWriterWins(log, p, base, new) ==
  IF new = HeadHash(log, p) THEN "same" ELSE "advance"

\* What handlePush decides for one entry.  "same" and "advance" are the two
\* ways an entry is answered ok, and only "advance" changes the log.
PushOutcome(log, p, base, new) ==
  LET head == HeadHash(log, p)
  IN  CASE HeadSeq(log, p) # 0 /\ new = head -> "same"
        [] new # head /\ base = head         -> "advance"
        [] OTHER                             -> "conflict"

\* Mutant: a page with more to come does not advance the cursor.
StuckPage(log, since, limit) ==
  IF since + limit < Len(log) THEN since ELSE Len(log)

\* The cursor a page of at most `limit` changes after `since` ends at; the
\* page is the last one exactly when that cursor is the end of the log.
PageEnd(log, since, limit) ==
  IF since + limit < Len(log) THEN since + limit ELSE Len(log)

=============================================================================
